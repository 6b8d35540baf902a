----------------------------- MODULE PartsProofs -----------------------------
(***************************************************************************)
(* The small machines, for any number of processes and any data.           *)
(*                                                                         *)
(* The loop of a token wallet subscription refreshes only a live wallet,   *)
(* connected, and alone: the mutex is a queue without repetition of those  *)
(* that wait for it or are inside, the one inside at its head, and stop()  *)
(* frees the wallet only once the loop can no longer enter.                *)
(*                                                                         *)
(* The pages of the Ledger that are shown are those the bridge counts from, *)
(* with the keys of their accounts: a call that is alone waits for the only *)
(* answer that can come, and only a selector that waits has a load, one.     *)
(*                                                                         *)
(* The GraphQL endpoint in use is fast enough or the fastest that answered; *)
(* the keys shown are the keys stored; the registries know every page; and *)
(* the forms sign what was prepared, with its key, once.                   *)
(*                                                                         *)
(* The management of seeds, keys and accounts leaves no account without a   *)
(* key: the calls that a handler has still to make remove the accounts of  *)
(* a key before it and create the key of an account before that.  And the  *)
(* account selected is one of those listed: a handler under way either     *)
(* makes calls that lose no account, or is one of five whose calls are     *)
(* known, and each call leads from one to the next.                         *)
(*                                                                         *)
(* The multisig transactions shown have the votes found for them, once     *)
(* each: a batch lies beside those found before it, and each pass of the   *)
(* loop over it counts one transaction more.                                *)
(***************************************************************************)
EXTENDS TokenWalletSubscription, LedgerBridge, GqlSender, AccountKeys, ProviderStreams, SigningForms,
        AccountsManagement, WalletTransactions, FifoMutex, FiniteSetTheorems, WellFoundedInduction

Clients == Users \cup {Loop}

(* Who waits for the mutex, or holds it. *)
Needs(x) == \/ x = Loop /\ loop \in {"queued", "refreshing"}
            \/ x \in Users /\ using[x] \in {"queued", "inside"}

Holds(x) == \/ x = Loop /\ loop = "refreshing"
            \/ x \in Users /\ using[x] = "inside"

MutexInv ==
    /\ OnceIn(tokenMutex)
    /\ \A x \in Clients : In(tokenMutex, x) <=> Needs(x)
    /\ \A x \in Clients : Holds(x) => First(tokenMutex, x)

(* When the loop runs, and when the wallet is there. *)
StopInv ==
    /\ timer => loop = "waiting"
    /\ stopping = "no" => (loop = "none" <=> ~isRunning)
    /\ stopping \in {"freeing", "done"} => loop \in {"none", "finished"}
    /\ stopping # "done" /\ (loop # "none" \/ stopping # "no") => wallet = "there"
    /\ wallet = "there" => connection
    /\ stopping # "no" => ~isRunning

TokenInv == TokenTypeOK /\ MutexInv /\ StopInv

(* TokenInit establishes the invariant. *)
LEMMA TokenInitInv == TokenInit => TokenInv
<1> SUFFICES ASSUME TokenInit PROVE TokenInv
  OBVIOUS
<1>1. TokenTypeOK
  <2>1. tokenMutex \in Seq(Users \cup {Loop})
    BY DEF TokenInit
  <2>2. using \in [Users -> {"idle", "queued", "inside", "done", "failed"}]
    BY DEF TokenInit
  <2> QED
    BY <2>1, <2>2 DEF TokenInit, TokenTypeOK, LoopPlaces
<1>2. MutexInv
  <2>1. \A i : i \notin 1 .. Len(tokenMutex)
    BY DEF TokenInit
  <2>2. \A x \in Clients : ~Needs(x) /\ ~Holds(x)
    BY DEF TokenInit, Needs, Holds
  <2> QED
    BY <2>1, <2>2 DEF MutexInv, OnceIn, In
<1>3. StopInv
  BY DEF TokenInit, StopInv
<1> QED
  BY <1>1, <1>2, <1>3 DEF TokenInv

(* Every step keeps the types. *)
LEMMA TokenTypes == TokenInv /\ TokenNext => TokenTypeOK'
<1> SUFFICES ASSUME TokenInv, TokenNext PROVE TokenTypeOK'
  OBVIOUS
<1> USE DEF TokenInv, TokenTypeOK, LoopPlaces
<1>1. CASE SubscribeToken BY <1>1 DEF SubscribeToken
<1>2. CASE StartToken BY <1>2 DEF StartToken
<1>3. CASE TimerFires BY <1>3 DEF TimerFires, SkipRefreshTimer
<1>4. CASE PauseToken BY <1>4 DEF PauseToken, SkipRefreshTimer
<1>5. CASE Wake BY <1>5 DEF Wake
<1>6. CASE BeginRefresh BY <1>6 DEF BeginRefresh
<1>7. CASE EndRefresh
  <2>1. tokenMutex # <<>>
    BY <1>7, TokenAssumption DEF EndRefresh, MutexInv, Holds, First, Clients
  <2> QED
    BY <1>7, <2>1 DEF EndRefresh
<1>8. CASE LoopEnds BY <1>8 DEF LoopEnds
<1>9. CASE FreeToken BY <1>9 DEF FreeToken
<1>10. ASSUME NEW u \in Users, CallUse(u) PROVE TokenTypeOK'
  BY <1>10 DEF CallUse
<1>11. ASSUME NEW u \in Users, BeginUse(u) PROVE TokenTypeOK'
  <2>1. tokenMutex # <<>>
    <3>1. In(tokenMutex, u)
      BY <1>11 DEF BeginUse, MutexInv, Needs, Clients
    <3> QED
      BY <3>1 DEF In
  <2> QED
    BY <1>11, <2>1 DEF BeginUse
<1>12. ASSUME NEW u \in Users, EndUse(u) PROVE TokenTypeOK'
  <2>1. tokenMutex # <<>>
    BY <1>12 DEF EndUse, MutexInv, Holds, First, Clients
  <2> QED
    BY <1>12, <2>1 DEF EndUse
<1> QED
  BY <1>1, <1>2, <1>3, <1>4, <1>5, <1>6, <1>7, <1>8, <1>9, <1>10, <1>11, <1>12
     DEF TokenNext, TokenProgress

(* A step that moves nobody to, from or in the mutex. *)
LEMMA MutexStays ==
  ASSUME MutexInv, UNCHANGED <<tokenMutex, using>>,
         loop' \in {"queued", "refreshing"} <=> loop \in {"queued", "refreshing"},
         loop' = "refreshing" => loop = "refreshing" \/ First(tokenMutex, Loop)
  PROVE  MutexInv'
  BY DEF MutexInv, Needs, Holds, First, In, OnceIn, Clients

(* A step by which somebody comes to the end of the queue. *)
LEMMA MutexJoined ==
  ASSUME TokenTypeOK, MutexInv, NEW e \in Clients, ~Needs(e),
         tokenMutex' = Append(tokenMutex, e), Needs(e)', ~Holds(e)',
         \A x \in Clients \ {e} : (Needs(x)' <=> Needs(x)) /\ (Holds(x)' => Holds(x))
  PROVE  MutexInv'
<1>1. tokenMutex \in Seq(Clients) /\ ~In(tokenMutex, e) /\ OnceIn(tokenMutex)
  BY DEF TokenTypeOK, Clients, MutexInv
<1>2. /\ OnceIn(tokenMutex')
      /\ \A x : In(tokenMutex', x) <=> In(tokenMutex, x) \/ x = e
      /\ \A x : First(tokenMutex, x) => First(tokenMutex', x)
  BY <1>1, AppendQueue
<1>3. \A x \in Clients : In(tokenMutex', x) <=> Needs(x)'
  BY <1>2 DEF MutexInv
<1>4. \A x \in Clients : Holds(x)' => First(tokenMutex', x)
  BY <1>2 DEF MutexInv
<1>5. OnceIn(tokenMutex)' /\ \A x \in Clients : In(tokenMutex, x)' <=> Needs(x)'
  BY <1>2, <1>3 DEF OnceIn, In
<1>6. \A x \in Clients : Holds(x)' => First(tokenMutex, x)'
  BY <1>4 DEF First
<1> QED
  BY <1>5, <1>6 DEF MutexInv, Clients

(* A step by which the first of the queue leaves it. *)
LEMMA MutexLeft ==
  ASSUME TokenTypeOK, MutexInv, NEW e \in Clients, First(tokenMutex, e),
         tokenMutex' = Tail(tokenMutex), ~Needs(e)', ~Holds(e)',
         \A x \in Clients \ {e} : (Needs(x)' <=> Needs(x)) /\ (Holds(x)' => Holds(x))
  PROVE  MutexInv'
<1>1. tokenMutex \in Seq(Clients) /\ Len(tokenMutex) > 0 /\ tokenMutex[1] = e /\ OnceIn(tokenMutex)
  BY DEF TokenTypeOK, Clients, MutexInv, First
<1>2. /\ OnceIn(tokenMutex')
      /\ \A x : In(tokenMutex', x) <=> In(tokenMutex, x) /\ x # e
  BY <1>1, TailQueue
<1>3. \A x \in Clients : In(tokenMutex', x) <=> Needs(x)'
  BY <1>2 DEF MutexInv
<1>4. \A x \in Clients : ~Holds(x)'
  BY <1>1 DEF MutexInv, First
<1>5. OnceIn(tokenMutex)' /\ \A x \in Clients : In(tokenMutex, x)' <=> Needs(x)'
  BY <1>2, <1>3 DEF OnceIn, In
<1> QED
  BY <1>4, <1>5 DEF MutexInv, Clients

(* Every step keeps the mutex a queue of those that need it. *)
LEMMA TokenMutex == TokenInv /\ TokenNext => MutexInv'
<1> SUFFICES ASSUME TokenInv, TokenNext PROVE MutexInv'
  OBVIOUS
<1> USE TokenAssumption DEF TokenInv
<1>1. CASE SubscribeToken BY <1>1, MutexStays DEF SubscribeToken
<1>2. CASE StartToken BY <1>2, MutexStays DEF StartToken
<1>3. CASE TimerFires BY <1>3, MutexStays DEF TimerFires, SkipRefreshTimer, StopInv
<1>4. CASE PauseToken BY <1>4, MutexStays DEF PauseToken, SkipRefreshTimer, StopInv
<1>5. CASE Wake
  <2>1. CASE isRunning
    BY <1>5, <2>1, MutexJoined DEF Wake, Needs, Holds, Clients
  <2>2. CASE ~isRunning
    BY <1>5, <2>2, MutexStays DEF Wake
  <2> QED
    BY <2>1, <2>2
<1>6. CASE BeginRefresh
  <2>1. In(tokenMutex, Loop)
    BY <1>6 DEF BeginRefresh, MutexInv, Needs, Clients
  <2>2. First(tokenMutex, Loop)
    BY <1>6, <2>1 DEF BeginRefresh, In, First, TokenTypeOK
  <2> QED
    BY <1>6, <2>2, MutexStays DEF BeginRefresh
<1>7. CASE EndRefresh
  <2>1. First(tokenMutex, Loop)
    BY <1>7 DEF EndRefresh, MutexInv, Holds, Clients
  <2> QED
    BY <1>7, <2>1, MutexLeft DEF EndRefresh, Needs, Holds, Clients
<1>8. CASE LoopEnds BY <1>8, MutexStays DEF LoopEnds
<1>9. CASE FreeToken BY <1>9, MutexStays DEF FreeToken
<1>10. ASSUME NEW u \in Users, CallUse(u) PROVE MutexInv'
  BY <1>10, MutexJoined DEF CallUse, Needs, Holds, Clients, TokenTypeOK
<1>11. ASSUME NEW u \in Users, BeginUse(u) PROVE MutexInv'
  <2>1. In(tokenMutex, u)
    BY <1>11 DEF BeginUse, MutexInv, Needs, Clients
  <2>2. First(tokenMutex, u)
    BY <1>11, <2>1 DEF BeginUse, In, First, TokenTypeOK
  <2>3. CASE wallet = "there"
    <3>1. tokenMutex' = tokenMutex /\ loop' = loop /\ using' = [using EXCEPT ![u] = "inside"]
      BY <1>11, <2>3 DEF BeginUse
    <3>2. \A x \in Clients : Needs(x)' <=> Needs(x)
      BY <1>11, <3>1 DEF BeginUse, Needs, TokenTypeOK
    <3>3. \A x \in Clients : Holds(x)' => Holds(x) \/ x = u
      BY <3>1 DEF Holds, TokenTypeOK
    <3>4. OnceIn(tokenMutex)' /\ \A x \in Clients : In(tokenMutex, x)' <=> Needs(x)'
      BY <3>1, <3>2 DEF MutexInv, OnceIn, In
    <3>5. \A x \in Clients : Holds(x)' => First(tokenMutex, x)'
      BY <2>2, <3>1, <3>3 DEF MutexInv, First
    <3> QED
      BY <3>4, <3>5 DEF MutexInv, Clients
  <2>4. CASE wallet # "there"
    BY <1>11, <2>2, <2>4, MutexLeft DEF BeginUse, Needs, Holds, Clients, TokenTypeOK
  <2> QED
    BY <2>3, <2>4
<1>12. ASSUME NEW u \in Users, EndUse(u) PROVE MutexInv'
  <2>1. First(tokenMutex, u)
    BY <1>12 DEF EndUse, MutexInv, Holds, Clients
  <2> QED
    BY <1>12, <2>1, MutexLeft DEF EndUse, Needs, Holds, Clients, TokenTypeOK
<1> QED
  BY <1>1, <1>2, <1>3, <1>4, <1>5, <1>6, <1>7, <1>8, <1>9, <1>10, <1>11, <1>12
     DEF TokenNext, TokenProgress

(* Every step keeps what stop() relies on. *)
LEMMA TokenStop == TokenInv /\ TokenNext => StopInv'
<1> SUFFICES ASSUME TokenInv, TokenNext PROVE StopInv'
  OBVIOUS
<1> USE DEF TokenInv, TokenTypeOK, LoopPlaces, StopInv
<1>1. CASE SubscribeToken BY <1>1 DEF SubscribeToken
<1>2. CASE StartToken BY <1>2 DEF StartToken
<1>3. CASE TimerFires BY <1>3 DEF TimerFires, SkipRefreshTimer
<1>4. CASE PauseToken BY <1>4 DEF PauseToken, SkipRefreshTimer
<1>5. CASE Wake BY <1>5 DEF Wake
<1>6. CASE BeginRefresh BY <1>6 DEF BeginRefresh
<1>7. CASE EndRefresh BY <1>7 DEF EndRefresh
<1>8. CASE LoopEnds BY <1>8 DEF LoopEnds
<1>9. CASE FreeToken BY <1>9 DEF FreeToken
<1>10. ASSUME NEW u \in Users, CallUse(u) \/ BeginUse(u) \/ EndUse(u) PROVE StopInv'
  BY <1>10 DEF CallUse, BeginUse, EndUse
<1> QED
  BY <1>1, <1>2, <1>3, <1>4, <1>5, <1>6, <1>7, <1>8, <1>9, <1>10 DEF TokenNext, TokenProgress

(* Every step keeps the invariant. *)
LEMMA TokenNextInv == TokenInv /\ [TokenNext]_tokenVars => TokenInv'
<1> SUFFICES ASSUME TokenInv, [TokenNext]_tokenVars PROVE TokenInv'
  OBVIOUS
<1>1. CASE TokenNext
  BY <1>1, TokenTypes, TokenMutex, TokenStop DEF TokenInv
<1>2. CASE UNCHANGED tokenVars
  BY <1>2 DEF tokenVars, TokenInv, TokenTypeOK, LoopPlaces, MutexInv, StopInv, OnceIn, In,
              Needs, Holds, First, Clients
<1> QED
  BY <1>1, <1>2

(* The invariant says of a refreshing loop that the wallet is there,        *)
(* connected, and that the loop alone holds the mutex.                       *)
LEMMA TokenInvRefreshes == TokenInv => RefreshesLiveWallet
<1> SUFFICES ASSUME TokenInv, loop \in {"queued", "refreshing"}
             PROVE  /\ wallet = "there" /\ connection
                    /\ loop = "refreshing" =>
                          tokenMutex[1] = Loop /\ \A u \in Users : using[u] # "inside"
  BY DEF RefreshesLiveWallet
<1>1. wallet = "there" /\ connection
  BY DEF TokenInv, TokenTypeOK, StopInv
<1>2. ASSUME loop = "refreshing"
      PROVE  tokenMutex[1] = Loop /\ \A u \in Users : using[u] # "inside"
  BY <1>2, TokenAssumption DEF TokenInv, MutexInv, Holds, First, Clients
<1> QED
  BY <1>1, <1>2

(* Every variable of a token wallet subscription keeps its type, and its    *)
(* mutex is at every moment the queue, without repetition, of exactly the    *)
(* calls and the loop that wait for it or hold it (_tokenWalletMutex).       *)
THEOREM TokenQueue == TokenSpec => [](TokenTypeOK /\ MutexInv)
<1>1. TokenInv => TokenTypeOK /\ MutexInv
  BY DEF TokenInv
<1> QED
  BY <1>1, TokenInitInv, TokenNextInv, PTL DEF TokenSpec

(* The refresh loop of a token wallet subscription never touches a wallet   *)
(* that stop() freed or that lost its connection, nor one in use.            *)
THEOREM TokenRefreshes == TokenSpec => []RefreshesLiveWallet
<1> QED
  BY TokenInitInv, TokenNextInv, TokenInvRefreshes, PTL DEF TokenSpec

----------------------------------------------------------------------------
(* What the calls of the bridge are. *)
BridgeCalls == [role : Roles, action : LedgerActions, accounts : Seq(Int), number : Nat,
                got : Seq(BOOLEAN), state : {"idle", "running", "done", "failed"}]

LedgerTypeOK ==
    /\ bridgeCall \in [LedgerCalls -> BridgeCalls]
    /\ page \in Nat /\ shownPage \in Nat

(* The question a call waits for. *)
Current(l, c) == Question(c, l.action, l.accounts[Len(l.got) + 1])

(* A call that nothing else was under way with is alone, waits for the      *)
(* only answer that can come, and has its own answers so far.               *)
AloneInv ==
    \A c \in LedgerCalls \ shared :
        bridgeCall[c].state = "running" =>
            /\ \A d \in LedgerCalls : bridgeCall[d].state = "running" => d = c
            /\ \A q \in posted : q = Current(bridgeCall[c], c)
            /\ Own(bridgeCall[c].got)

DoneInv == \A c \in LedgerCalls \ shared : bridgeCall[c].state = "done" => Own(bridgeCall[c].got)

(* Only a selector that waits has a load, one, and of the bridge's page. *)
LoadInv ==
    \A c \in LedgerCalls : bridgeCall[c].role = "load" /\ bridgeCall[c].state # "idle" =>
        /\ ledgerStep = "selecting" /\ busy = "loading" /\ bridgeCall[c].number = page /\ page > 0
        /\ \A d \in LedgerCalls : bridgeCall[d].role = "load" /\ bridgeCall[d].state # "idle" => d = c

ShownInv ==
    ledgerStep = "selecting" /\ busy # "loading" =>
        shownPage = page /\ page > 0 /\ (shownKeys.own \/ shownKeys.crossed)

BridgeInv == AloneInv /\ DoneInv
LedgerInv == LedgerTypeOK /\ BridgeInv /\ LoadInv /\ ShownInv

(* LedgerInit establishes the invariant: no call has begun. *)
LEMMA LedgerInitInv == LedgerInit => LedgerInv
<1> SUFFICES ASSUME LedgerInit PROVE LedgerInv
  OBVIOUS
<1>1. NoCall \in BridgeCalls /\ NoCall.state = "idle"
  BY DEF NoCall, BridgeCalls, Roles, LedgerActions
<1> QED
  BY <1>1 DEF LedgerInit, LedgerInv, BridgeInv, LedgerTypeOK, AloneInv, DoneInv, LoadInv, ShownInv

(* The accounts of a page are numbers. *)
LEMMA PageAccounts == ASSUME NEW number \in Nat PROVE AccountsOf(number) \in Seq(Int)
  BY LedgerAssumption DEF AccountsOf

(* One answer more of its own leaves a call with its own. *)
LEMMA OwnMore ==
  ASSUME NEW got \in Seq(BOOLEAN), Own(got)
  PROVE  Own(Append(got, TRUE))
<1> SUFFICES ASSUME NEW i \in DOMAIN Append(got, TRUE) PROVE Append(got, TRUE)[i]
  BY DEF Own
<1>1. CASE i = Len(got) + 1
  BY <1>1
<1>2. CASE i # Len(got) + 1
  <2>1. i \in DOMAIN got /\ Append(got, TRUE)[i] = got[i]
    BY <1>2
  <2> QED
    BY <2>1 DEF Own
<1> QED
  BY <1>1, <1>2

(* What a listener makes of an answer: it has one more, or gives up. *)
HearsAs(l, q, h) ==
    /\ h \in BridgeCalls /\ h.state \in {"running", "done", "failed"}
    /\ h.role = l.role /\ h.number = l.number /\ h.accounts = l.accounts /\ h.action = l.action
    /\ h.state = "failed" \/ h.got = Append(l.got, q.account = l.accounts[Len(l.got) + 1])

(* Hear() does that. *)
LEMMA HearIs ==
  ASSUME NEW l \in BridgeCalls, NEW q
  PROVE  HearsAs(l, q, Hear(l, q))
<1> USE DEF HearsAs
<1>1. (q.account = l.accounts[Len(l.got) + 1]) \in BOOLEAN
  OBVIOUS
<1>2. Append(l.got, q.account = l.accounts[Len(l.got) + 1]) \in Seq(BOOLEAN) /\ <<>> \in Seq(BOOLEAN)
  BY <1>1 DEF BridgeCalls
<1>3. CASE l.action # q.action
  BY <1>2, <1>3 DEF Hear, GivenUp, BridgeCalls
<1>4. CASE l.action = q.action
  BY <1>2, <1>4 DEF Hear, BridgeCalls
<1> QED
  BY <1>3, <1>4

(* A call that begins: alone, or shared with all that are under way. *)
LEMMA StartKeeps ==
  ASSUME LedgerTypeOK, BridgeInv, NEW c \in LedgerCalls, NEW role \in Roles, NEW action \in LedgerActions,
         NEW accounts \in Seq(Int), NEW number \in Nat,
         StartBridgeCall(c, role, action, accounts, number)
  PROVE  /\ bridgeCall' \in [LedgerCalls -> BridgeCalls] /\ BridgeInv'
         /\ bridgeCall[c].state = "idle" /\ bridgeCall'[c].role = role /\ bridgeCall'[c].number = number
         /\ \A d \in LedgerCalls \ {c} : bridgeCall'[d] = bridgeCall[d]
<1> DEFINE new == [role |-> role, action |-> action, accounts |-> accounts, number |-> number,
                   got |-> <<>>, state |-> "running"]
<1>1. new \in BridgeCalls
  BY DEF BridgeCalls
<1>2. bridgeCall' = [bridgeCall EXCEPT ![c] = new] /\ bridgeCall[c].state = "idle"
  BY DEF StartBridgeCall
<1>3. bridgeCall' \in [LedgerCalls -> BridgeCalls]
  BY <1>1, <1>2 DEF LedgerTypeOK
<1>4. bridgeCall'[c] = new /\ \A d \in LedgerCalls \ {c} : bridgeCall'[d] = bridgeCall[d]
  BY <1>2 DEF LedgerTypeOK
<1>5. new.state = "running" /\ new.got = <<>> /\ new.role = role /\ new.number = number
      /\ new.action = action /\ new.accounts = accounts
  OBVIOUS
<1> HIDE DEF new
<1>6. AloneInv'
  <2> SUFFICES ASSUME NEW e \in LedgerCalls, e \notin shared', bridgeCall'[e].state = "running"
               PROVE  /\ \A d \in LedgerCalls : bridgeCall'[d].state = "running" => d = e
                      /\ \A q \in posted' : q = Current(bridgeCall'[e], e)
                      /\ Own(bridgeCall'[e].got)
    BY DEF AloneInv, Current, Question, Own
  <2>1. e = c \/ e \in Listening
    BY <1>4 DEF Listening
  <2>2. posted = {} /\ Listening = {}
    BY <2>1 DEF StartBridgeCall
  <2>3. e = c /\ \A d \in LedgerCalls : bridgeCall'[d].state = "running" => d = c
    BY <1>4, <2>1, <2>2 DEF Listening
  <2>4. posted' \subseteq {Question(c, action, accounts[1])}
    BY <2>2 DEF StartBridgeCall, Post
  <2>5. Len(new.got) + 1 = 1
    BY <1>5
  <2>6. Current(bridgeCall'[e], e) = Question(c, action, accounts[1])
    BY <1>4, <1>5, <2>3, <2>5 DEF Current
  <2>7. Own(bridgeCall'[e].got)
    BY <1>4, <1>5, <2>3 DEF Own
  <2> QED
    BY <2>3, <2>4, <2>6, <2>7
<1>7. DoneInv'
  <2> SUFFICES ASSUME NEW e \in LedgerCalls, e \notin shared', bridgeCall'[e].state = "done"
               PROVE  Own(bridgeCall'[e].got)
    BY DEF DoneInv, Own
  <2>1. e # c /\ e \notin shared
    BY <1>4, <1>5 DEF StartBridgeCall
  <2> QED
    BY <1>4, <2>1 DEF BridgeInv, DoneInv
<1> QED
  BY <1>2, <1>3, <1>4, <1>5, <1>6, <1>7 DEF BridgeInv

(* An answer reaches all who listen; who is alone hears its own. *)
LEMMA ReplyKeeps ==
  ASSUME LedgerInv, NEW q \in posted, Reply(q)
  PROVE  LedgerInv'
<1> USE DEF LedgerInv
<1>1. \A c \in LedgerCalls :
          /\ bridgeCall[c].state = "running" => bridgeCall'[c] = Hear(bridgeCall[c], q)
          /\ bridgeCall[c].state # "running" => bridgeCall'[c] = bridgeCall[c]
  BY DEF LedgerTypeOK, Reply, Listening
<1>2. \A c \in LedgerCalls :
          /\ bridgeCall'[c] \in BridgeCalls
          /\ bridgeCall'[c].role = bridgeCall[c].role /\ bridgeCall'[c].number = bridgeCall[c].number
          /\ bridgeCall'[c].accounts = bridgeCall[c].accounts /\ bridgeCall'[c].action = bridgeCall[c].action
          /\ bridgeCall'[c].state = "running" => bridgeCall[c].state = "running"
          /\ bridgeCall'[c].state # "idle" => bridgeCall[c].state # "idle"
          /\ bridgeCall'[c].state = "done" => bridgeCall[c].state \in {"running", "done"}
  <2> SUFFICES ASSUME NEW c \in LedgerCalls
               PROVE  \/ bridgeCall'[c] = bridgeCall[c]
                      \/ bridgeCall[c].state = "running" /\ HearsAs(bridgeCall[c], q, bridgeCall'[c])
    BY DEF LedgerTypeOK, HearsAs
  <2> QED
    BY <1>1, HearIs DEF LedgerTypeOK
<1>3. LedgerTypeOK'
  <2>1. bridgeCall' \in [LedgerCalls -> BridgeCalls]
    BY <1>2 DEF Reply
  <2> QED
    BY <2>1 DEF LedgerTypeOK, Reply, selectorVars
<1>4. ASSUME NEW c \in LedgerCalls \ shared, bridgeCall[c].state = "running", bridgeCall'[c].state # "failed"
      PROVE  bridgeCall'[c].got = Append(bridgeCall[c].got, TRUE) /\ Own(bridgeCall'[c].got)
  <2>1. q = Current(bridgeCall[c], c) /\ Own(bridgeCall[c].got)
    BY <1>4 DEF BridgeInv, AloneInv
  <2>2. (q.account = bridgeCall[c].accounts[Len(bridgeCall[c].got) + 1]) = TRUE
    BY <2>1 DEF Current, Question
  <2>3. bridgeCall'[c].got = Append(bridgeCall[c].got, q.account = bridgeCall[c].accounts[Len(bridgeCall[c].got) + 1])
    <3>1. HearsAs(bridgeCall[c], q, bridgeCall'[c])
      BY <1>1, <1>4, HearIs DEF LedgerTypeOK
    <3> QED
      BY <1>4, <3>1 DEF HearsAs
  <2>4. bridgeCall'[c].got = Append(bridgeCall[c].got, TRUE)
    BY <2>2, <2>3
  <2>5. bridgeCall[c].got \in Seq(BOOLEAN)
    BY DEF LedgerTypeOK, BridgeCalls
  <2> QED
    BY <2>1, <2>4, <2>5, OwnMore
<1>5. shared' = shared
  BY DEF Reply
<1>6. AloneInv'
  <2> SUFFICES ASSUME NEW c \in LedgerCalls \ shared, bridgeCall'[c].state = "running"
               PROVE  /\ \A d \in LedgerCalls : bridgeCall'[d].state = "running" => d = c
                      /\ \A p \in posted' : p = Current(bridgeCall'[c], c)
                      /\ Own(bridgeCall'[c].got)
    BY <1>5 DEF AloneInv, Current, Question, Own
  <2>1. /\ bridgeCall[c].state = "running"
        /\ \A d \in LedgerCalls : bridgeCall[d].state = "running" => d = c
        /\ \A p \in posted : p = Current(bridgeCall[c], c)
    BY <1>2 DEF BridgeInv, AloneInv
  <2>2. bridgeCall'[c].got = Append(bridgeCall[c].got, TRUE) /\ Own(bridgeCall'[c].got)
    BY <1>4, <2>1
  <2>3. Len(bridgeCall'[c].got) + 1 = Len(bridgeCall[c].got) + 2
    BY <2>2 DEF LedgerTypeOK, BridgeCalls
  <2>4. Current(bridgeCall'[c], c) =
            Question(c, bridgeCall[c].action, bridgeCall[c].accounts[Len(bridgeCall[c].got) + 2])
    BY <1>2, <2>3 DEF Current
  <2>5. \A p \in posted' : p = Current(bridgeCall'[c], c)
    <3> SUFFICES ASSUME NEW p \in posted' PROVE p = Current(bridgeCall'[c], c)
      OBVIOUS
    <3>1. p \in posted => p = q
      BY <2>1
    <3>2. p \notin posted \ {q}
      BY <3>1
    <3>3. PICK d \in Listening :
              p = Question(d, bridgeCall[d].action, bridgeCall[d].accounts[Len(bridgeCall[d].got) + 2])
      BY <3>2 DEF Reply, Post
    <3>4. d = c
      BY <2>1, <3>3 DEF Listening
    <3> QED
      BY <2>4, <3>3, <3>4
  <2> QED
    BY <1>2, <2>1, <2>2, <2>5
<1>7. DoneInv'
  <2> SUFFICES ASSUME NEW c \in LedgerCalls \ shared, bridgeCall'[c].state = "done"
               PROVE  Own(bridgeCall'[c].got)
    BY <1>5 DEF DoneInv, Own
  <2>1. CASE bridgeCall[c].state = "running"
    BY <1>4, <2>1
  <2>2. CASE bridgeCall[c].state # "running"
    BY <1>1, <2>2 DEF BridgeInv, DoneInv
  <2> QED
    BY <2>1, <2>2
<1>8. LoadInv' /\ ShownInv'
  BY <1>2 DEF LoadInv, ShownInv, Reply, selectorVars
<1> QED
  BY <1>3, <1>6, <1>7, <1>8 DEF BridgeInv

(* A call given up has failed, and has nothing. *)
LEMMA GivenUpIs ==
  ASSUME NEW l \in BridgeCalls
  PROVE  /\ GivenUp(l) \in BridgeCalls /\ GivenUp(l).state = "failed"
         /\ GivenUp(l).role = l.role /\ GivenUp(l).number = l.number
<1>1. <<>> \in Seq(BOOLEAN)
  OBVIOUS
<1> QED
  BY <1>1 DEF GivenUp, BridgeCalls

(* Whoever listens gives up: nobody does then. *)
LEMMA FailureKeeps ==
  ASSUME LedgerInv, HearFailure
  PROVE  LedgerInv'
<1> USE DEF LedgerInv
<1>1. \A c \in LedgerCalls :
          bridgeCall'[c] = IF bridgeCall[c].state = "running" THEN GivenUp(bridgeCall[c]) ELSE bridgeCall[c]
  BY DEF LedgerTypeOK, HearFailure, Listening
<1>2. \A c \in LedgerCalls :
          /\ bridgeCall'[c] \in BridgeCalls /\ bridgeCall'[c].state # "running"
          /\ bridgeCall'[c].role = bridgeCall[c].role /\ bridgeCall'[c].number = bridgeCall[c].number
          /\ bridgeCall'[c].state # "idle" => bridgeCall[c].state # "idle"
          /\ bridgeCall'[c].state = "done" => bridgeCall'[c] = bridgeCall[c]
  <2> SUFFICES ASSUME NEW c \in LedgerCalls
               PROVE  \/ bridgeCall'[c] = bridgeCall[c] /\ bridgeCall[c].state # "running"
                      \/ /\ bridgeCall[c].state = "running" /\ bridgeCall'[c].state = "failed"
                         /\ bridgeCall'[c] \in BridgeCalls
                         /\ bridgeCall'[c].role = bridgeCall[c].role
                         /\ bridgeCall'[c].number = bridgeCall[c].number
    BY DEF LedgerTypeOK
  <2>1. bridgeCall[c] \in BridgeCalls
    BY DEF LedgerTypeOK
  <2>2. CASE bridgeCall[c].state = "running"
    <3>1. bridgeCall'[c] = GivenUp(bridgeCall[c])
      BY <1>1, <2>2
    <3> QED
      BY <2>1, <2>2, <3>1, GivenUpIs
  <2>3. CASE bridgeCall[c].state # "running"
    BY <1>1, <2>3
  <2> QED
    BY <2>2, <2>3
<1>3. LedgerTypeOK'
  <2>1. bridgeCall' \in [LedgerCalls -> BridgeCalls]
    BY <1>2 DEF HearFailure
  <2> QED
    BY <2>1 DEF LedgerTypeOK, HearFailure, selectorVars
<1>4. AloneInv'
  BY <1>2 DEF AloneInv
<1>5. DoneInv'
  <2> SUFFICES ASSUME NEW c \in LedgerCalls, c \notin shared', bridgeCall'[c].state = "done"
               PROVE  Own(bridgeCall'[c].got)
    BY DEF DoneInv, Own
  <2> QED
    BY <1>2 DEF BridgeInv, DoneInv, HearFailure
<1>6. LoadInv' /\ ShownInv'
  BY <1>2 DEF LoadInv, ShownInv, HearFailure, selectorVars
<1> QED
  BY <1>3, <1>4, <1>5, <1>6 DEF BridgeInv

(* What the popup does with the calls: it takes one, and lets others be     *)
(* nobody's; all else of them stays.                                         *)
SameCall(new, old) ==
    /\ new \in BridgeCalls
    /\ \/ new.state = "idle"
       \/ /\ new.state = old.state /\ new.action = old.action /\ new.accounts = old.accounts
          /\ new.number = old.number /\ new.got = old.got
          /\ new.role = "load" => old.role = "load"

LetGo ==
    /\ bridgeCall' \in [LedgerCalls -> BridgeCalls] /\ posted' = posted
    /\ \A c \in LedgerCalls : SameCall(bridgeCall'[c], bridgeCall[c])
    /\ \A c \in LedgerCalls : c \in shared /\ c \notin shared' => bridgeCall'[c].state = "idle"

(* That keeps what is known of the calls. *)
LEMMA LetGoKeeps ==
  ASSUME LedgerTypeOK, BridgeInv, LetGo
  PROVE  BridgeInv'
<1> USE DEF BridgeInv
<1>1. AloneInv'
  <2> SUFFICES ASSUME NEW c \in LedgerCalls, c \notin shared', bridgeCall'[c].state = "running"
               PROVE  /\ \A d \in LedgerCalls : bridgeCall'[d].state = "running" => d = c
                      /\ \A q \in posted' : q = Current(bridgeCall'[c], c)
                      /\ Own(bridgeCall'[c].got)
    BY DEF AloneInv, Current, Question, Own
  <2>1. c \notin shared /\ bridgeCall[c].state = "running"
    BY DEF LetGo, SameCall
  <2>2. /\ \A d \in LedgerCalls : bridgeCall[d].state = "running" => d = c
        /\ \A q \in posted : q = Current(bridgeCall[c], c)
        /\ Own(bridgeCall[c].got)
    BY <2>1 DEF AloneInv
  <2>3. bridgeCall'[c].got = bridgeCall[c].got /\ Current(bridgeCall'[c], c) = Current(bridgeCall[c], c)
    BY DEF LetGo, SameCall, Current
  <2>4. \A d \in LedgerCalls : bridgeCall'[d].state = "running" => bridgeCall[d].state = "running"
    BY DEF LetGo, SameCall
  <2> QED
    BY <2>2, <2>3, <2>4 DEF LetGo
<1>2. DoneInv'
  <2> SUFFICES ASSUME NEW c \in LedgerCalls, c \notin shared', bridgeCall'[c].state = "done"
               PROVE  Own(bridgeCall'[c].got)
    BY DEF DoneInv, Own
  <2>1. c \notin shared /\ bridgeCall[c].state = "done" /\ bridgeCall'[c].got = bridgeCall[c].got
    BY DEF LetGo, SameCall
  <2> QED
    BY <2>1 DEF DoneInv
<1> QED
  BY <1>1, <1>2

(* What is forgotten or taken is let go. *)
LEMMA ForgetIsSame ==
  ASSUME NEW calls \in [LedgerCalls -> BridgeCalls], NEW roles, NEW role \in Roles \ {"load"}
  PROVE  /\ Forget(calls, roles, role) \in [LedgerCalls -> BridgeCalls]
         /\ \A c \in LedgerCalls : /\ SameCall(Forget(calls, roles, role)[c], calls[c])
                                   /\ "load" \in roles => Forget(calls, roles, role)[c].role # "load"
<1>1. ASSUME NEW c \in LedgerCalls
      PROVE  LET new == IF calls[c].role \in roles THEN [calls[c] EXCEPT !.role = role] ELSE calls[c]
             IN  SameCall(new, calls[c]) /\ ("load" \in roles => new.role # "load")
  <2>1. CASE calls[c].role \in roles
    BY <2>1 DEF SameCall, BridgeCalls
  <2>2. CASE calls[c].role \notin roles
    BY <2>2 DEF SameCall
  <2> QED
    BY <2>1, <2>2
<1> QED
  BY <1>1 DEF Forget, SameCall

(* Of a call that is taken nothing is left. *)
LEMMA TakenIsSame ==
  ASSUME LedgerTypeOK, NEW c \in LedgerCalls
  PROVE  /\ Taken(c) \in [LedgerCalls -> BridgeCalls]
         /\ Taken(c)[c].state = "idle"
         /\ \A d \in LedgerCalls : SameCall(Taken(c)[d], bridgeCall[d])
         /\ \A d \in LedgerCalls \ {c} : Taken(c)[d] = bridgeCall[d]
<1>1. NoCall \in BridgeCalls /\ NoCall.state = "idle"
  BY DEF NoCall, BridgeCalls, Roles, LedgerActions
<1> QED
  BY <1>1 DEF Taken, LedgerTypeOK, SameCall

(* Nobody waits for a page of keys. *)
NoLoad == \A c \in LedgerCalls : bridgeCall[c].role = "load" => bridgeCall[c].state = "idle"

(* A page that begins to be loaded is the bridge's. *)
LEMMA LoadPageKeeps ==
  ASSUME LedgerInv, NEW c \in LedgerCalls, NEW number \in Nat \ {0}, NEW role \in {"load", "check"},
         LoadPage(c, role, number), NoLoad
  PROVE  /\ LedgerTypeOK' <=> shownPage' \in Nat
         /\ BridgeInv' /\ page' = number
         /\ role = "check" => NoLoad'
         /\ role = "load" /\ ledgerStep' = "selecting" /\ busy' = "loading" => LoadInv'
<1> USE DEF LedgerInv
<1>1. role \in Roles /\ "get-public-key" \in LedgerActions /\ AccountsOf(number) \in Seq(Int)
  BY PageAccounts DEF Roles, LedgerActions
<1>2. /\ bridgeCall' \in [LedgerCalls -> BridgeCalls] /\ BridgeInv'
      /\ bridgeCall'[c].role = role /\ bridgeCall'[c].number = number
      /\ \A d \in LedgerCalls \ {c} : bridgeCall'[d] = bridgeCall[d]
  BY <1>1, StartKeeps DEF LoadPage
<1>3. page' = number
  BY DEF LoadPage
<1>4. role = "check" => NoLoad'
  BY <1>2 DEF NoLoad
<1>5. ASSUME role = "load", ledgerStep' = "selecting", busy' = "loading" PROVE LoadInv'
  BY <1>2, <1>3, <1>5 DEF LoadInv, NoLoad
<1> QED
  BY <1>2, <1>3, <1>4, <1>5 DEF LedgerTypeOK

(* While no page is loaded, the selector rests or nobody waits. *)
LEMMA NoLoadUnlessLoading ==
  ASSUME LedgerInv, ledgerStep # "selecting" \/ busy # "loading"
  PROVE  NoLoad
  BY DEF LedgerInv, LoadInv, NoLoad

(* The selector asks for its first page. *)
LEMMA LoadFirstKeeps == ASSUME LedgerInv, NEW c \in LedgerCalls, LoadFirst(c) PROVE LedgerInv'
<1>1. LoadPage(c, "load", 1) /\ UNCHANGED selectorVars /\ ledgerStep = "selecting" /\ shownPage = 0
  BY DEF LoadFirst
<1>2. NoLoad
  BY DEF LoadFirst, CallsFor, NoLoad
<1>3. busy = "loading"
  BY <1>1 DEF LedgerInv, ShownInv
<1>4. /\ ledgerStep' = "selecting" /\ busy' = "loading" /\ shownPage' = shownPage
  BY <1>1, <1>3 DEF selectorVars
<1>5. LedgerTypeOK' /\ BridgeInv' /\ LoadInv'
  BY <1>1, <1>2, <1>4, LoadPageKeeps DEF LedgerInv, LedgerTypeOK
<1>6. ShownInv'
  BY <1>4 DEF ShownInv
<1> QED
  BY <1>5, <1>6 DEF LedgerInv

(* The user turns to another page. *)
LEMMA TurnPageKeeps ==
  ASSUME LedgerInv, NEW c \in LedgerCalls, NEW number \in 1 .. MaxPage, TurnPage(c, number)
  PROVE  LedgerInv'
<1>1. LoadPage(c, "load", number) /\ number \in Nat \ {0}
  BY LedgerAssumption DEF TurnPage
<1>2. NoLoad
  BY NoLoadUnlessLoading DEF TurnPage
<1>3. ledgerStep' = "selecting" /\ busy' = "loading" /\ shownPage' = shownPage
  BY DEF TurnPage
<1>4. LedgerTypeOK' /\ BridgeInv' /\ LoadInv'
  BY <1>1, <1>2, <1>3, LoadPageKeeps DEF LedgerInv, LedgerTypeOK
<1>5. ShownInv'
  BY <1>3 DEF ShownInv
<1> QED
  BY <1>4, <1>5 DEF LedgerInv

(* The connector asks for the first page to see whether it gets one. *)
LEMMA CheckKeeps == ASSUME LedgerInv, NEW c \in LedgerCalls, CheckConnection(c) PROVE LedgerInv'
<1>1. LoadPage(c, "check", 1) /\ UNCHANGED selectorVars /\ ledgerStep = "connecting"
  BY DEF CheckConnection
<1>2. NoLoad
  BY <1>1, NoLoadUnlessLoading
<1>3. ledgerStep' = "connecting" /\ shownPage' = shownPage
  BY <1>1 DEF selectorVars
<1>4. LedgerTypeOK' /\ BridgeInv' /\ NoLoad'
  BY <1>1, <1>2, <1>3, LoadPageKeeps DEF LedgerInv, LedgerTypeOK
<1>5. LoadInv' /\ ShownInv'
  BY <1>3, <1>4 DEF ShownInv, LoadInv, NoLoad
<1> QED
  BY <1>4, <1>5 DEF LedgerInv

(* A call for the master key, or of the keystore, is no load. *)
LEMMA OtherCallKeeps ==
  ASSUME LedgerInv, NEW c \in LedgerCalls, NEW role \in {"master", "other"}, NEW action \in LedgerActions,
         NEW account \in Nat, StartBridgeCall(c, role, action, <<account>>, 0), page' = page
  PROVE  BridgeInv' /\ (LedgerTypeOK' <=> shownPage' \in Nat)
         /\ (ledgerStep' = ledgerStep /\ busy' = busy => LoadInv')
         /\ (NoLoad => NoLoad')
<1>1. role \in Roles /\ <<account>> \in Seq(Int)
  <2>1. role \in Roles
    BY DEF Roles
  <2>2. <<account>> \in Seq(Int)
    OBVIOUS
  <2> QED
    BY <2>1, <2>2
<1>2. /\ bridgeCall' \in [LedgerCalls -> BridgeCalls] /\ BridgeInv'
      /\ bridgeCall'[c].role = role
      /\ \A d \in LedgerCalls \ {c} : bridgeCall'[d] = bridgeCall[d]
  BY <1>1, StartKeeps DEF LedgerInv
<1>3. ASSUME ledgerStep' = ledgerStep, busy' = busy PROVE LoadInv'
  BY <1>2, <1>3 DEF LoadInv, LedgerInv
<1>4. NoLoad => NoLoad'
  BY <1>2 DEF NoLoad
<1> QED
  BY <1>2, <1>3, <1>4 DEF LedgerTypeOK, LedgerInv

(* The save is done, here or behind a selector that is no more. *)
LEMMA SavingEndsKeeps == ASSUME LedgerInv, SavingEnds PROVE LedgerInv'
<1>1. UNCHANGED <<page, ledgerStep, shownPage, shownKeys>>
  BY DEF SavingEnds
<1>2. (busy = "saving" /\ busy' = "no") \/ busy' = busy
  BY DEF SavingEnds
<1>3. ShownInv'
  BY <1>1, <1>2 DEF LedgerInv, ShownInv
<1>4. LedgerTypeOK' /\ BridgeInv' /\ LoadInv'
  <2>1. CASE UNCHANGED bridgeVars
    BY <1>1, <1>2, <2>1 DEF LedgerInv, LedgerTypeOK, BridgeInv, AloneInv, DoneInv, LoadInv, bridgeVars, Current, Question, Own
  <2>2. CASE \E c \in LedgerCalls : StartBridgeCall(c, "master", "get-public-key", <<0>>, 0)
    <3>1. PICK c \in LedgerCalls : StartBridgeCall(c, "master", "get-public-key", <<0>>, 0)
      BY <2>2
    <3>2. "get-public-key" \in LedgerActions
      BY DEF LedgerActions
    <3>3. BridgeInv' /\ (LedgerTypeOK' <=> shownPage' \in Nat)
          /\ (ledgerStep' = ledgerStep /\ busy' = busy => LoadInv') /\ (NoLoad => NoLoad')
      BY <1>1, <3>1, <3>2, OtherCallKeeps
    <3>4. LoadInv'
      <4>1. CASE busy' = busy
        BY <1>1, <3>3, <4>1
      <4>2. CASE busy = "saving"
        <5>1. NoLoad
          BY <4>2, NoLoadUnlessLoading
        <5> QED
          BY <3>3, <5>1 DEF NoLoad, LoadInv
      <4> QED
        BY <1>2, <4>1, <4>2
    <3> QED
      BY <1>1, <3>3, <3>4 DEF LedgerInv, LedgerTypeOK
  <2> QED
    BY <2>1, <2>2 DEF SavingEnds
<1> QED
  BY <1>3, <1>4 DEF LedgerInv

(* The keystore asks. *)
LEMMA AskForOtherKeeps ==
  ASSUME LedgerInv, NEW c \in LedgerCalls, NEW action \in LedgerActions, NEW account \in OtherAccounts,
         AskForOther(c, action, account)
  PROVE  LedgerInv'
<1>1. /\ account \in Nat /\ StartBridgeCall(c, "other", action, <<account>>, 0)
      /\ page' = page /\ UNCHANGED selectorVars
  BY LedgerAssumption DEF AskForOther
<1>2. BridgeInv' /\ (LedgerTypeOK' <=> shownPage' \in Nat) /\ (ledgerStep' = ledgerStep /\ busy' = busy => LoadInv')
  BY <1>1, OtherCallKeeps
<1>3. ShownInv'
  BY <1>1 DEF LedgerInv, ShownInv, selectorVars
<1> QED
  BY <1>1, <1>2, <1>3 DEF LedgerInv, LedgerTypeOK, selectorVars

(* A step of the popup that begins no call lets calls go, or leaves them.   *)
LEMMA LetGoKeepsAll ==
  ASSUME LedgerInv, LetGo, page' = page, shownPage' \in Nat, ShownInv',
         (ledgerStep' = ledgerStep /\ busy' = busy) \/ NoLoad'
  PROVE  LedgerInv'
<1>1. LedgerTypeOK'
  BY DEF LedgerInv, LedgerTypeOK, LetGo
<1>2. BridgeInv'
  BY LetGoKeeps DEF LedgerInv
<1>3. LoadInv'
  <2>1. CASE ledgerStep' = ledgerStep /\ busy' = busy
    <3>1. \A c \in LedgerCalls : bridgeCall'[c].role = "load" /\ bridgeCall'[c].state # "idle" =>
              /\ bridgeCall[c].role = "load" /\ bridgeCall[c].state # "idle"
              /\ bridgeCall'[c].number = bridgeCall[c].number
      BY DEF LetGo, SameCall
    <3> QED
      BY <2>1, <3>1 DEF LedgerInv, LoadInv
  <2>2. CASE NoLoad'
    BY <2>2 DEF NoLoad, LoadInv
  <2> QED
    BY <2>1, <2>2
<1> QED
  BY <1>1, <1>2, <1>3 DEF LedgerInv

(* The selector, or the whole page, is left with the calls it waits for. *)
LEMMA LeavingKeeps ==
  ASSUME LedgerInv, NEW calls \in [LedgerCalls -> BridgeCalls],
         \A c \in LedgerCalls : SameCall(calls[c], bridgeCall[c]),
         \A c \in LedgerCalls : c \in shared /\ c \notin shared' => calls[c].state = "idle",
         posted' = posted, page' = page, GoToConnector(calls) \/ CloseManager(calls)
  PROVE  LedgerInv'
<1>1. /\ bridgeCall' \in [LedgerCalls -> BridgeCalls]
      /\ \A c \in LedgerCalls : SameCall(bridgeCall'[c], calls[c]) /\ bridgeCall'[c].role # "load"
  <2>1. CASE GoToConnector(calls)
    <3>1. "stale load" \in Roles \ {"load"} /\ "load" \in {"load"}
      BY DEF Roles
    <3> QED
      BY <2>1, <3>1, ForgetIsSame DEF GoToConnector
  <2>2. CASE CloseManager(calls)
    <3>1. "other" \in Roles \ {"load"} /\ "load" \in {"load", "stale load", "check", "master"}
      BY DEF Roles
    <3> QED
      BY <2>2, <3>1, ForgetIsSame DEF CloseManager
  <2> QED
    BY <2>1, <2>2
<1>2. LetGo
  BY <1>1 DEF LetGo, SameCall
<1>3. NoLoad'
  BY <1>1 DEF NoLoad
<1>4. shownPage' = 0 /\ ledgerStep' # "selecting"
  BY DEF GoToConnector, CloseManager, ShowNothing
<1>5. ShownInv'
  BY <1>4 DEF ShownInv
<1> QED
  BY <1>2, <1>3, <1>4, <1>5, LetGoKeepsAll

(* The popup learns what became of a call. *)
LEMMA TakeKeeps ==
  ASSUME LedgerInv, NEW c \in LedgerCalls,
         ShowPage(c) \/ LoadFails(c) \/ ConnectionChecked(c) \/ MasterKeyArrives(c) \/ CallEnds(c)
  PROVE  LedgerInv'
<1> USE DEF LedgerInv
<1>1. /\ Taken(c) \in [LedgerCalls -> BridgeCalls] /\ Taken(c)[c].state = "idle"
      /\ \A d \in LedgerCalls : SameCall(Taken(c)[d], bridgeCall[d])
      /\ \A d \in LedgerCalls \ {c} : Taken(c)[d] = bridgeCall[d]
  BY TakenIsSame
<1>2. shared' = shared \ {c} /\ posted' = posted /\ page' = page
  BY DEF ShowPage, LoadFails, ConnectionChecked, MasterKeyArrives, CallEnds, Retire
<1>3. bridgeCall' = Taken(c) => LetGo
  BY <1>1, <1>2 DEF LetGo
<1>4. CASE ShowPage(c)
  <2>1. /\ bridgeCall' = Taken(c) /\ ledgerStep' = ledgerStep /\ busy' = "no"
        /\ bridgeCall[c].role = "load" /\ bridgeCall[c].state = "done"
        /\ shownPage' = bridgeCall[c].number
        /\ shownKeys' = [own |-> Own(bridgeCall[c].got), crossed |-> c \in shared]
    BY <1>4 DEF ShowPage
  <2>2. /\ bridgeCall[c].number = page /\ page > 0
        /\ \A d \in LedgerCalls : bridgeCall[d].role = "load" /\ bridgeCall[d].state # "idle" => d = c
    BY <2>1 DEF LoadInv
  <2>3. NoLoad'
    BY <1>1, <2>1, <2>2 DEF NoLoad
  <2>4. c \in shared \/ Own(bridgeCall[c].got)
    BY <2>1 DEF BridgeInv, DoneInv
  <2>5. shownKeys'.own \/ shownKeys'.crossed
    BY <2>1, <2>4
  <2>6. ShownInv' /\ shownPage' \in Nat
    BY <1>2, <2>1, <2>2, <2>5 DEF ShownInv, LedgerTypeOK
  <2> QED
    BY <1>2, <1>3, <2>1, <2>3, <2>6, LetGoKeepsAll
<1>5. CASE LoadFails(c)
  <2>1. GoToConnector(Taken(c))
    BY <1>5 DEF LoadFails
  <2> QED
    BY <1>1, <1>2, <2>1, LeavingKeeps
<1>6. CASE ConnectionChecked(c)
  <2>1. bridgeCall' = Taken(c) /\ bridgeCall[c].role = "check"
    BY <1>6 DEF ConnectionChecked
  <2>2. CASE ledgerStep = "connecting"
    <3>1. ledgerStep' = "selecting" /\ busy' = "loading" /\ shownPage' = 0
      BY <1>6, <2>2 DEF ConnectionChecked, ShowNothing
    <3>2. NoLoad
      BY <2>2, NoLoadUnlessLoading
    <3>3. NoLoad'
      BY <1>1, <2>1, <3>2 DEF NoLoad
    <3>4. ShownInv'
      BY <3>1 DEF ShownInv
    <3> QED
      BY <1>2, <1>3, <2>1, <3>1, <3>3, <3>4, LetGoKeepsAll
  <2>3. CASE ledgerStep # "connecting"
    <3>1. UNCHANGED selectorVars
      BY <1>6, <2>3 DEF ConnectionChecked
    <3>2. ShownInv' /\ shownPage' \in Nat /\ ledgerStep' = ledgerStep /\ busy' = busy
      BY <1>2, <3>1 DEF ShownInv, selectorVars, LedgerTypeOK
    <3> QED
      BY <1>2, <1>3, <2>1, <3>2, LetGoKeepsAll
  <2> QED
    BY <2>2, <2>3
<1>7. CASE MasterKeyArrives(c)
  <2>1. GoToConnector(Taken(c)) \/ CloseManager(Taken(c))
    BY <1>7 DEF MasterKeyArrives
  <2> QED
    BY <1>1, <1>2, <2>1, LeavingKeeps
<1>8. CASE CallEnds(c)
  <2>1. bridgeCall' = Taken(c) /\ UNCHANGED selectorVars
    BY <1>8 DEF CallEnds
  <2>2. ShownInv' /\ shownPage' \in Nat /\ ledgerStep' = ledgerStep /\ busy' = busy
    BY <1>2, <2>1 DEF ShownInv, selectorVars, LedgerTypeOK
  <2> QED
    BY <1>2, <1>3, <2>1, <2>2, LetGoKeepsAll
<1> QED
  BY <1>4, <1>5, <1>6, <1>7, <1>8

(* Every step keeps the invariant. *)
LEMMA LedgerNextInv == LedgerInv /\ [LedgerNext]_ledgerVars => LedgerInv'
<1> SUFFICES ASSUME LedgerInv, [LedgerNext]_ledgerVars
             PROVE  LedgerInv'
  OBVIOUS
<1>1. CASE UNCHANGED bridgeVars /\ page' = page /\ UNCHANGED selectorVars
  BY <1>1 DEF LedgerInv, LedgerTypeOK, BridgeInv, AloneInv, DoneInv, LoadInv, ShownInv, Current, Question, Own,
              bridgeVars, selectorVars
<1>2. CASE LoadFrame
  BY <1>2 DEF LoadFrame, LedgerInv, LedgerTypeOK, BridgeInv, AloneInv, DoneInv, LoadInv, ShownInv, Current, Question,
              Own, selectorVars
<1>3. CASE HearFailure
  BY <1>3, FailureKeeps
<1>4. ASSUME bridgeCall' = bridgeCall, UNCHANGED <<posted, shared>>
      PROVE  LedgerInv => LetGo
  BY <1>4 DEF LedgerInv, LedgerTypeOK, LetGo, SameCall
<1>5. CASE OpenSelector
  <2>1. /\ bridgeCall' = bridgeCall /\ UNCHANGED <<posted, shared>> /\ page' = page
        /\ ledgerStep = "closed" /\ busy' = "loading" /\ shownPage' = 0
    BY <1>5 DEF OpenSelector, ShowNothing, bridgeVars
  <2>2. NoLoad'
    BY <2>1, NoLoadUnlessLoading DEF NoLoad
  <2>3. ShownInv'
    BY <2>1 DEF ShownInv
  <2> QED
    BY <1>4, <2>1, <2>2, <2>3, LetGoKeepsAll
<1>6. CASE SaveAccounts
  <2>1. /\ bridgeCall' = bridgeCall /\ UNCHANGED <<posted, shared>> /\ page' = page
        /\ busy = "no" /\ busy' = "saving" /\ ledgerStep' = ledgerStep
        /\ shownPage' = shownPage /\ shownKeys' = shownKeys
    BY <1>6 DEF SaveAccounts, bridgeVars
  <2>2. NoLoad'
    BY <2>1, NoLoadUnlessLoading DEF NoLoad
  <2>3. ShownInv' /\ shownPage' \in Nat
    BY <2>1 DEF LedgerInv, ShownInv, LedgerTypeOK
  <2> QED
    BY <1>4, <2>1, <2>2, <2>3, LetGoKeepsAll
<1>7. CASE SavingEnds
  BY <1>7, SavingEndsKeeps
<1>8. CASE LeaveLedger
  <2>1. CloseManager(bridgeCall) /\ UNCHANGED <<posted, shared>> /\ page' = page
    BY <1>8 DEF LeaveLedger
  <2>2. bridgeCall \in [LedgerCalls -> BridgeCalls] /\ \A c \in LedgerCalls : SameCall(bridgeCall[c], bridgeCall[c])
    BY DEF LedgerInv, LedgerTypeOK, SameCall
  <2> QED
    BY <2>1, <2>2, LeavingKeeps
<1>9. CASE \E q \in posted : Reply(q)
  BY <1>9, ReplyKeeps
<1>10. ASSUME NEW c \in LedgerCalls, LoadFirst(c) \/ CheckConnection(c) PROVE LedgerInv'
  BY <1>10, LoadFirstKeeps, CheckKeeps
<1>11. ASSUME NEW c \in LedgerCalls, NEW number \in 1 .. MaxPage, TurnPage(c, number) PROVE LedgerInv'
  BY <1>11, TurnPageKeeps
<1>12. ASSUME NEW c \in LedgerCalls, NEW action \in LedgerActions, NEW account \in OtherAccounts,
              AskForOther(c, action, account)
       PROVE  LedgerInv'
  BY <1>12, AskForOtherKeeps
<1>13. ASSUME NEW c \in LedgerCalls,
              ShowPage(c) \/ LoadFails(c) \/ ConnectionChecked(c) \/ MasterKeyArrives(c) \/ CallEnds(c)
       PROVE  LedgerInv'
  BY <1>13, TakeKeeps
<1>14. CASE UNCHANGED ledgerVars
  BY <1>1, <1>14 DEF ledgerVars
<1> QED
  BY <1>2, <1>3, <1>5, <1>6, <1>7, <1>8, <1>9, <1>10, <1>11, <1>12, <1>13, <1>14 DEF LedgerNext

(* A selector at rest shows the bridge's page, with the keys of its own     *)
(* accounts unless its call was shared, and every unshared call has its own *)
(* answers in order (LedgerBridge, AccountSelector, LedgerConnector).        *)
THEOREM PagesOwn == LedgerSpec => []PagesAreOwn
<1>1. LedgerInv => PagesAreOwn
  BY DEF LedgerInv, BridgeInv, DoneInv, ShownInv, PagesAreOwn
<1> QED
  BY <1>1, LedgerInitInv, LedgerNextInv, PTL DEF LedgerSpec

----------------------------------------------------------------------------
(* What is known while the endpoints are measured: nothing of those yet to  *)
(* answer, and the fastest of the others so far, when there is one.           *)
Measuring ==
    /\ \A e \in asked : latency[e] = 0
    /\ fastest = NoEndpoint => \A e \in Endpoints : latency[e] = 0
    /\ fastest # NoEndpoint =>
          /\ fastest \notin asked
          /\ \A e \in Endpoints :
                latency[e] = 0 \/ (latency[fastest] > 0 /\ latency[fastest] <= latency[e])

GqlTypeOK ==
    /\ currentEndpoint \in Endpoints \cup {NoEndpoint} /\ fastest \in Endpoints \cup {NoEndpoint}
    /\ latency \in [Endpoints -> Latencies] /\ measured \in [Endpoints -> Latencies]
    /\ asked \subseteq Endpoints

GqlInv == GqlTypeOK /\ (asked # {} => Measuring) /\ EndpointIsFastest


(* GqlInit establishes the invariant: nothing is measured yet. *)
LEMMA GqlInitInv == GqlInit => GqlInv
  BY GqlAssumption DEF GqlInit, GqlInv, GqlTypeOK, Unmeasured, EndpointIsFastest

(* An answer that is not fast enough leaves the fastest of those that have  *)
(* answered so far, the one that answers now included.                       *)
LEMMA FasterOfAll ==
  ASSUME GqlTypeOK, Measuring, NEW e \in asked, NEW ms \in Latencies,
         latency' = [latency EXCEPT ![e] = ms]
  PROVE  LET best == FasterOf(e, ms)
         IN  /\ best \in Endpoints /\ best \notin asked \ {e}
             /\ \A x \in Endpoints :
                   latency'[x] = 0 \/ (latency'[best] > 0 /\ latency'[best] <= latency'[x])
<1> DEFINE best == FasterOf(e, ms)
<1> USE DEF GqlTypeOK, Measuring
<1>1. e \in Endpoints /\ e # NoEndpoint /\ latency[e] = 0
  BY GqlAssumption DEF GqlAssumption
<1>2. /\ latency'[e] = ms
      /\ \A x \in Endpoints : x # e => latency'[x] = latency[x]
      /\ \A x \in Endpoints : latency[x] \in Nat
      /\ ms \in Nat
  BY GqlAssumption, <1>1 DEF GqlAssumption
<1>3. CASE fastest = NoEndpoint
  BY <1>1, <1>2, <1>3 DEF FasterOf
<1>4. CASE fastest # NoEndpoint
  <2>1. fastest \in Endpoints /\ fastest # e /\ latency'[fastest] = latency[fastest]
    BY <1>1, <1>2, <1>4
  <2>2. CASE latency[fastest] = 0
    <3>1. \A x \in Endpoints : latency[x] = 0
      BY <1>4, <2>2
    <3> QED
      BY <1>1, <1>2, <2>2, <3>1 DEF FasterOf
  <2>3. CASE latency[fastest] > 0
    <3>1. CASE ms # 0 /\ ms < latency[fastest]
      <4>1. best = e
        BY <2>3, <3>1, <1>4 DEF FasterOf
      <4> QED
        BY <1>1, <1>2, <1>4, <2>3, <3>1, <4>1
    <3>2. CASE ~(ms # 0 /\ ms < latency[fastest])
      <4>1. best = fastest
        BY <1>2, <1>4, <2>1, <2>3, <3>2 DEF FasterOf
      <4> QED
        BY <1>1, <1>2, <1>4, <2>1, <2>3, <3>2, <4>1
    <3> QED
      BY <3>1, <3>2
  <2> QED
    BY <1>2, <2>1, <2>2, <2>3
<1> QED
  BY <1>3, <1>4

(* Whatever an endpoint answers, the invariant is kept. *)
LEMMA AnswerInv ==
  ASSUME NEW e \in Endpoints, NEW ms \in Latencies, GqlInv, EndpointAnswers(e, ms)
  PROVE  GqlInv'
<1> DEFINE best == FasterOf(e, ms)
<1>1. GqlTypeOK /\ Measuring /\ EndpointIsFastest /\ e \in asked
  BY DEF GqlInv, EndpointAnswers
<1>2. latency' = [latency EXCEPT ![e] = ms] /\ latency' \in [Endpoints -> Latencies]
      /\ latency'[e] = ms
  BY <1>1 DEF EndpointAnswers, GqlTypeOK
<1>3. /\ best \in Endpoints /\ best \notin asked \ {e}
      /\ \A x \in Endpoints :
            latency'[x] = 0 \/ (latency'[best] > 0 /\ latency'[best] <= latency'[x])
  BY <1>1, <1>2, FasterOfAll
<1>4. CASE FastEnough(ms)
  <2>1. /\ currentEndpoint' = e /\ measured' = latency' /\ asked' = {} /\ fastest' = fastest
    BY <1>4 DEF EndpointAnswers, Choose
  <2> QED
    BY <1>1, <1>2, <1>4, <2>1 DEF GqlInv, GqlTypeOK, EndpointIsFastest, FastEnough
<1>5. CASE ~FastEnough(ms) /\ asked # {e}
  <2>1. /\ asked' = asked \ {e} /\ fastest' = best
        /\ currentEndpoint' = currentEndpoint /\ measured' = measured
    BY <1>5 DEF EndpointAnswers
  <2>2. GqlTypeOK'
    BY <1>1, <1>2, <1>3, <2>1 DEF GqlTypeOK
  <2>3. Measuring'
    <3>1. \A x \in asked' : latency'[x] = 0
      BY <1>1, <1>2, <2>1 DEF Measuring, GqlTypeOK
    <3>2. fastest' # NoEndpoint
      BY <1>3, <2>1, GqlAssumption DEF GqlAssumption
    <3> QED
      BY <1>3, <2>1, <3>1, <3>2 DEF Measuring
  <2>4. EndpointIsFastest'
    BY <1>1, <2>1 DEF EndpointIsFastest, FastEnough
  <2> QED
    BY <2>2, <2>3, <2>4 DEF GqlInv
<1>6. CASE ~FastEnough(ms) /\ asked = {e} /\ latency'[best] = 0
  <2>1. /\ asked' \in {Endpoints, {}} /\ fastest' = NoEndpoint
        /\ currentEndpoint' = currentEndpoint /\ measured' = measured
    BY <1>6 DEF EndpointAnswers, TryAgain
  <2>2. \A x \in Endpoints : latency'[x] = 0
    BY <1>3, <1>6
  <2>3. GqlTypeOK'
    BY <1>1, <1>2, <2>1 DEF GqlTypeOK
  <2>4. Measuring'
    BY <2>1, <2>2, <2>3 DEF Measuring, GqlTypeOK
  <2>5. EndpointIsFastest'
    BY <1>1, <2>1 DEF EndpointIsFastest, FastEnough
  <2> QED
    BY <2>3, <2>4, <2>5 DEF GqlInv
<1>7. CASE ~FastEnough(ms) /\ asked = {e} /\ latency'[best] # 0
  <2>1. /\ currentEndpoint' = best /\ measured' = latency' /\ asked' = {} /\ fastest' = fastest
    BY <1>7 DEF EndpointAnswers, Choose
  <2>2. latency'[best] > 0
    BY <1>2, <1>3, <1>7, GqlAssumption DEF GqlAssumption
  <2> QED
    BY <1>1, <1>2, <1>3, <2>1, <2>2 DEF GqlInv, GqlTypeOK, EndpointIsFastest
<1> QED
  BY <1>4, <1>5, <1>6, <1>7

(* Every step keeps the invariant. *)
LEMMA GqlNextInv == GqlInv /\ [GqlNext]_gqlVars => GqlInv'
<1> SUFFICES ASSUME GqlInv, [GqlNext]_gqlVars PROVE GqlInv'
  OBVIOUS
<1>1. ASSUME UNCHANGED <<currentEndpoint, measured, latency, asked, fastest>> PROVE GqlInv'
  BY <1>1 DEF GqlInv, GqlTypeOK, Measuring, EndpointIsFastest, FastEnough
<1>2. ASSUME NEW q \in Queries, StartResolution(q) PROVE GqlInv'
  BY <1>2, GqlAssumption
     DEF GqlAssumption, StartResolution, AskAll, Unmeasured, GqlInv, GqlTypeOK, Measuring,
         EndpointIsFastest
<1>3. ASSUME NEW e \in Endpoints, NEW ms \in Latencies, EndpointAnswers(e, ms) PROVE GqlInv'
  BY <1>3, AnswerInv
<1>4. CASE GoStale \/ UNCHANGED gqlVars
  BY <1>1, <1>4 DEF GoStale, gqlVars, Detection
<1>5. ASSUME NEW q \in Queries, SendDirectly(q) \/ JoinResolution(q) \/ EndQuery(q) PROVE GqlInv'
  BY <1>1, <1>5 DEF SendDirectly, JoinResolution, EndQuery, Detection
<1> QED
  BY <1>2, <1>3, <1>4, <1>5 DEF GqlNext

(* The endpoint that serves the queries of a GraphQL connection answered in *)
(* the try that chose it, fast enough or as fast as any other did, for any  *)
(* endpoints and whatever the order and the number of the tries              *)
(* (_resolveCurrentEndpoint, _selectQueryingEndpoint).                       *)
THEOREM FastestServes == GqlSpec => []EndpointIsFastest
<1>1. GqlInv => EndpointIsFastest
  BY DEF GqlInv
<1> QED
  BY <1>1, GqlInitInv, GqlNextInv, PTL DEF GqlSpec

----------------------------------------------------------------------------
Pending == {c \in KeyCalls : keyPc[c] \in {"one", "many", "clearing"}}

Adds(c) == keyOp[c].name \in {"createMaster", "create", "createMany"}

(* What a call alone between its halves has done: to the store and not yet  *)
(* to what is shown.                                                         *)
HalfDone(c) ==
    \/ /\ keyPc[c] = "one" /\ settings = disk
       /\ keyStore = IF Adds(c) THEN storedKeys \cup {TheKey(c)} ELSE storedKeys \ {TheKey(c)}
    \/ /\ keyPc[c] = "many" /\ settings = disk /\ keysCopy[c] = storedKeys
       /\ keyStore = IF Adds(c) THEN storedKeys \cup (keyOp[c].keys \ keysLeft[c])
                                ELSE storedKeys \ (keyOp[c].keys \ keysLeft[c])
    \/ keyPc[c] = "clearing" /\ keyStore = {} /\ disk = NoSettings

(* Unless a call has failed or two have been between their halves, at most   *)
(* one call has changed the store and not yet what is shown.                 *)
OneAtATime ==
    \/ keysOverlapped
    \/ \E c \in KeyCalls : keyPc[c] = "failed"
    \/ \E c, d \in Pending : c # d
    \/ Pending = {} /\ storedKeys = keyStore /\ settings = disk
    \/ \E c \in Pending : Pending = {c} /\ HalfDone(c)

(* Where each call is, and what it has left to do there. *)
KeyPlaces ==
    /\ keyPc \in [KeyCalls -> {"idle", "one", "many", "clearing", "done", "failed"}]
    /\ keysCopy \in [KeyCalls -> SUBSET Keys] /\ keysLeft \in [KeyCalls -> SUBSET Keys]
    /\ keyOp \in [KeyCalls -> KeyOperation]
    /\ keyStore \subseteq Keys /\ storedKeys \subseteq Keys /\ keysOverlapped \in BOOLEAN
    /\ \A c \in KeyCalls :
        /\ keyPc[c] = "many" => keyOp[c].name \in {"createMany", "removeMany"}
        /\ keysLeft[c] # {} => keyPc[c] \in {"many", "failed"}
        /\ keysLeft[c] \subseteq keyOp[c].keys

KeysInv == KeyPlaces /\ OneAtATime

(* KeysInit establishes the invariant: no call has begun. *)
LEMMA KeysInitInv == KeysInit => KeysInv
<1> SUFFICES ASSUME KeysInit PROVE KeysInv
  OBVIOUS
<1>1. Pending = {} /\ storedKeys = keyStore /\ settings = disk
  BY DEF KeysInit, Pending
<1>2. KeyPlaces
  BY KeyAssumption DEF KeyAssumption, KeysInit, KeyPlaces
<1> QED
  BY <1>1, <1>2 DEF KeysInv, OneAtATime

(* The key of a call is one of those it is given. *)
LEMMA TheKeyIsGiven ==
  ASSUME NEW c \in KeyCalls, KeyPlaces
  PROVE  TheKey(c) \in keyOp[c].keys /\ TheKey(c) \in Keys /\ keyOp[c].keys \subseteq Keys
<1>1. keyOp[c].keys # {} /\ keyOp[c].keys \subseteq Keys
  BY DEF KeyPlaces, KeyOperation
<1> QED
  BY <1>1 DEF TheKey

(* Every step keeps the calls at their places. *)
LEMMA KeyPlacesKept == KeyPlaces /\ KeysNext => KeyPlaces'
<1> SUFFICES ASSUME KeyPlaces, NEW c \in KeyCalls,
                    \/ AddKey(c) \/ ShowKey(c) \/ RemoveKey(c) \/ HideKey(c) \/ CopyKeys(c)
                    \/ PutCopy(c) \/ ChangeSetting(c) \/ ClearKeys(c) \/ ResetKeys(c)
                    \/ \E k \in Keys : ChangeOne(c, k)
             PROVE  KeyPlaces'
  BY DEF KeysNext
<1> USE DEF KeyPlaces, KeyGoto, TouchKeys, KeyCallBegins
<1>1. CASE AddKey(c) \/ RemoveKey(c)
  BY <1>1, TheKeyIsGiven DEF AddKey, RemoveKey
<1>2. CASE ShowKey(c) \/ HideKey(c)
  BY <1>2, TheKeyIsGiven DEF ShowKey, HideKey, Set
<1>3. CASE CopyKeys(c)
  BY <1>3, TheKeyIsGiven DEF CopyKeys
<1>4. CASE PutCopy(c)
  BY <1>4, TheKeyIsGiven DEF PutCopy
<1>5. CASE ChangeSetting(c)
  BY <1>5 DEF ChangeSetting, Set
<1>6. CASE ClearKeys(c) \/ ResetKeys(c)
  BY <1>6 DEF ClearKeys, ResetKeys
<1>7. ASSUME NEW k \in Keys, ChangeOne(c, k) PROVE KeyPlaces'
  BY <1>7 DEF ChangeOne
<1> QED
  BY <1>1, <1>2, <1>3, <1>4, <1>5, <1>6, <1>7

(* A call that changes the keys or the settings without overlapping another *)
(* is alone between its halves.                                              *)
LEMMA AloneOrOverlapped ==
  ASSUME NEW c \in KeyCalls, OneAtATime, TouchKeys(c), ~keysOverlapped',
         \A x \in KeyCalls : keyPc[x] # "failed"
  PROVE  /\ Pending \subseteq {c}
         /\ c \notin Pending => storedKeys = keyStore /\ settings = disk
         /\ c \in Pending => HalfDone(c)
  BY DEF OneAtATime, TouchKeys, Pending

(* A call ends, and what is shown is again what is stored. *)
LEMMA Settles ==
  ASSUME NEW c \in KeyCalls, Pending \subseteq {c}, KeyPlaces, KeyGoto(c, "done"),
         storedKeys' = keyStore', settings' = disk'
  PROVE  OneAtATime'
<1>1. Pending' = {}
  BY DEF Pending, KeyGoto, KeyPlaces
<1> QED
  BY <1>1 DEF OneAtATime

(* A call has done its first half, or some more of it. *)
LEMMA GoesOn ==
  ASSUME NEW c \in KeyCalls, Pending \subseteq {c}, HalfDone(c)', KeyPlaces, KeyPlaces',
         \A x \in KeyCalls \ {c} : keyPc'[x] = keyPc[x]
  PROVE  OneAtATime'
<1>1. Pending' = {c}
  BY DEF Pending, HalfDone
<1> QED
  BY <1>1 DEF OneAtATime

(* A call that failed stays so. *)
LEMMA FailedStays ==
  ASSUME NEW x \in KeyCalls, keyPc[x] = "failed", KeyPlaces, KeysNext
  PROVE  keyPc'[x] = "failed"
  BY DEF KeyPlaces, KeysNext, AddKey, ShowKey, RemoveKey, HideKey, CopyKeys, PutCopy,
         ChangeSetting, ClearKeys, ResetKeys, ChangeOne, KeyCallBegins, KeyGoto

(* A call that copies the keys has not changed any. *)
LEMMA CopyInv ==
  ASSUME NEW c \in KeyCalls, KeysInv, CopyKeys(c), KeyPlaces'
  PROVE  OneAtATime'
<1>1. /\ c \notin Pending /\ Pending' = Pending \cup {c}
      /\ keysOverlapped' <=> keysOverlapped
      /\ keyStore' = keyStore /\ storedKeys' = storedKeys /\ settings' = settings /\ disk' = disk
      /\ \A x \in KeyCalls \ {c} : keyPc'[x] = keyPc[x]
  BY DEF KeysInv, KeyPlaces, Pending, CopyKeys, KeyCallBegins, KeyGoto
<1>2. CASE keysOverlapped
  BY <1>1, <1>2 DEF OneAtATime
<1>3. ASSUME NEW x \in KeyCalls, keyPc[x] = "failed" PROVE OneAtATime'
  <2>1. keyPc'[x] = "failed"
    BY <1>3, FailedStays DEF KeysInv, KeysNext
  <2> QED
    BY <2>1 DEF OneAtATime
<1>4. ASSUME NEW x \in Pending PROVE OneAtATime'
  BY <1>1, <1>4 DEF OneAtATime
<1>5. CASE Pending = {} /\ storedKeys = keyStore /\ settings = disk
  <2>1. /\ keyPc'[c] = "many" /\ keysCopy'[c] = storedKeys /\ keysLeft'[c] = keyOp[c].keys
        /\ keyOp' = keyOp
    BY DEF CopyKeys, KeyGoto, KeysInv, KeyPlaces
  <2>2. HalfDone(c)'
    BY <1>1, <1>5, <2>1 DEF HalfDone
  <2> QED
    BY <1>1, <1>5, <2>2, GoesOn DEF KeysInv
<1> QED
  BY <1>2, <1>3, <1>4, <1>5 DEF KeysInv, OneAtATime

(* A call adds or removes one of its keys, or fails at it. *)
LEMMA ChangeOneInv ==
  ASSUME NEW c \in KeyCalls, NEW k \in Keys, ChangeOne(c, k), KeyPlaces, KeyPlaces',
         Pending \subseteq {c}, c \in Pending => HalfDone(c),
         \A x \in KeyCalls : keyPc[x] # "failed"
  PROVE  OneAtATime'
<1>1. /\ keyPc[c] = "many" /\ keysLeft' = [keysLeft EXCEPT ![c] = @ \ {k}]
      /\ storedKeys' = storedKeys /\ keysCopy' = keysCopy /\ settings' = settings /\ disk' = disk
      /\ k \in keysLeft[c] /\ k \in keyOp[c].keys /\ keyOp' = keyOp
      /\ keyOp[c].name \in {"createMany", "removeMany"}
  BY DEF ChangeOne, KeyPlaces
<1>2. HalfDone(c)
  BY <1>1 DEF Pending
<1>3. CASE /\ keyStore' = IF keyOp[c].name = "createMany" THEN keyStore \cup {k}
                                                          ELSE keyStore \ {k}
           /\ UNCHANGED keyPc
  <2>1. keyOp[c].keys \ keysLeft'[c] = (keyOp[c].keys \ keysLeft[c]) \cup {k}
    BY <1>1 DEF KeyPlaces
  <2>2. /\ keyPc[c] = "many" /\ settings = disk /\ keysCopy[c] = storedKeys
        /\ keyStore = IF Adds(c) THEN storedKeys \cup (keyOp[c].keys \ keysLeft[c])
                                 ELSE storedKeys \ (keyOp[c].keys \ keysLeft[c])
    BY <1>1, <1>2 DEF HalfDone
  <2>3. Adds(c) <=> keyOp[c].name = "createMany"
    BY <1>1 DEF Adds
  <2>4. keyStore' = IF Adds(c) THEN storedKeys \cup (keyOp[c].keys \ keysLeft'[c])
                               ELSE storedKeys \ (keyOp[c].keys \ keysLeft'[c])
    BY <1>3, <2>1, <2>2, <2>3
  <2>5. Adds(c)' <=> Adds(c)
    BY <1>1 DEF Adds
  <2>6. HalfDone(c)'
    BY <1>1, <1>3, <2>2, <2>4, <2>5 DEF HalfDone
  <2> QED
    BY <1>3, <2>6, GoesOn
<1>4. CASE KeyGoto(c, "failed")
  <2>1. keyPc'[c] = "failed"
    BY <1>4 DEF KeyGoto, KeyPlaces
  <2> QED
    BY <2>1 DEF OneAtATime
<1> QED
  BY <1>3, <1>4 DEF ChangeOne

(* The second half of a call shows what the first has stored. *)
LEMMA SecondHalf ==
  ASSUME NEW c \in KeyCalls, KeyPlaces, Pending \subseteq {c}, c \in Pending => HalfDone(c),
         ShowKey(c) \/ HideKey(c) \/ PutCopy(c) \/ ResetKeys(c)
  PROVE  OneAtATime'
<1>1. CASE ShowKey(c)
  <2>1. keyStore = storedKeys \cup {TheKey(c)} /\ settings = disk
    BY <1>1 DEF ShowKey, Pending, HalfDone, Adds
  <2>2. storedKeys' = keyStore' /\ settings' = disk' /\ KeyGoto(c, "done")
    BY <1>1, <2>1 DEF ShowKey, Set
  <2> QED
    BY <2>2, Settles
<1>2. CASE HideKey(c)
  <2>1. keyStore = storedKeys \ {TheKey(c)} /\ settings = disk
    BY <1>2 DEF HideKey, Pending, HalfDone, Adds
  <2>2. storedKeys' = keyStore' /\ settings' = disk' /\ KeyGoto(c, "done")
    BY <1>2, <2>1 DEF HideKey
  <2> QED
    BY <2>2, Settles
<1>3. CASE PutCopy(c)
  <2>1. /\ settings = disk /\ keysCopy[c] = storedKeys
        /\ keyStore = IF Adds(c) THEN storedKeys \cup keyOp[c].keys
                                 ELSE storedKeys \ keyOp[c].keys
    BY <1>3 DEF PutCopy, Pending, HalfDone
  <2>2. Adds(c) <=> keyOp[c].name = "createMany"
    BY <1>3 DEF PutCopy, KeyPlaces, Adds
  <2>3. storedKeys' = keyStore' /\ settings' = disk' /\ KeyGoto(c, "done")
    BY <1>3, <2>1, <2>2 DEF PutCopy
  <2> QED
    BY <2>3, Settles
<1>4. CASE ResetKeys(c)
  <2>1. keyStore = {} /\ disk = NoSettings
    BY <1>4 DEF ResetKeys, Pending, HalfDone
  <2>2. storedKeys' = keyStore' /\ settings' = disk' /\ KeyGoto(c, "done")
    BY <1>4, <2>1 DEF ResetKeys
  <2> QED
    BY <2>2, Settles
<1> QED
  BY <1>1, <1>2, <1>3, <1>4

(* A call that begins changes the store, or a setting and all there is to do. *)
LEMMA FirstHalf ==
  ASSUME NEW c \in KeyCalls, KeyPlaces, KeyPlaces', Pending \subseteq {c},
         c \notin Pending => storedKeys = keyStore /\ settings = disk,
         AddKey(c) \/ RemoveKey(c) \/ ChangeSetting(c) \/ ClearKeys(c)
  PROVE  OneAtATime'
<1>1. storedKeys = keyStore /\ settings = disk
  BY DEF Pending, AddKey, RemoveKey, ChangeSetting, ClearKeys, KeyCallBegins
<1>2. ASSUME NEW next, KeyGoto(c, next)
      PROVE  keyPc'[c] = next /\ \A x \in KeyCalls \ {c} : keyPc'[x] = keyPc[x]
  BY <1>2 DEF KeyGoto, KeyPlaces
<1>3. CASE AddKey(c)
  <2>1. HalfDone(c)'
    BY <1>1, <1>2, <1>3 DEF AddKey, HalfDone, Adds, KeyCallBegins, TheKey
  <2> QED
    BY <1>2, <1>3, <2>1, GoesOn DEF AddKey
<1>4. CASE RemoveKey(c)
  <2>1. HalfDone(c)'
    BY <1>1, <1>2, <1>4 DEF RemoveKey, HalfDone, Adds, KeyCallBegins, TheKey
  <2> QED
    BY <1>2, <1>4, <2>1, GoesOn DEF RemoveKey
<1>5. CASE ChangeSetting(c)
  <2>1. storedKeys' = keyStore' /\ settings' = disk' /\ KeyGoto(c, "done")
    BY <1>1, <1>5 DEF ChangeSetting, Set, KeyCallBegins
  <2> QED
    BY <2>1, Settles
<1>6. CASE ClearKeys(c)
  <2>1. HalfDone(c)'
    BY <1>2, <1>6 DEF ClearKeys, HalfDone
  <2> QED
    BY <1>2, <1>6, <2>1, GoesOn DEF ClearKeys
<1> QED
  BY <1>3, <1>4, <1>5, <1>6

(* Every step leaves at most one call between its halves, or is noted. *)
LEMMA OneAtATimeKept == KeysInv /\ KeysNext /\ KeyPlaces' => OneAtATime'
<1> SUFFICES ASSUME KeysInv, KeysNext, KeyPlaces', ~keysOverlapped',
                    \A x \in KeyCalls : keyPc[x] # "failed",
                    NEW c \in KeyCalls,
                    \/ AddKey(c) \/ ShowKey(c) \/ RemoveKey(c) \/ HideKey(c) \/ CopyKeys(c)
                    \/ PutCopy(c) \/ ChangeSetting(c) \/ ClearKeys(c) \/ ResetKeys(c)
                    \/ \E k \in Keys : ChangeOne(c, k)
             PROVE  OneAtATime'
  BY FailedStays DEF KeysNext, OneAtATime, KeysInv
<1>1. CASE CopyKeys(c)
  BY <1>1, CopyInv
<1>2. CASE TouchKeys(c)
  <2>1. /\ Pending \subseteq {c} /\ KeyPlaces
        /\ c \notin Pending => storedKeys = keyStore /\ settings = disk
        /\ c \in Pending => HalfDone(c)
    BY <1>2, AloneOrOverlapped DEF KeysInv
  <2>2. CASE ShowKey(c) \/ HideKey(c) \/ PutCopy(c) \/ ResetKeys(c)
    BY <2>1, <2>2, SecondHalf
  <2>3. CASE AddKey(c) \/ RemoveKey(c) \/ ChangeSetting(c) \/ ClearKeys(c)
    BY <2>1, <2>3, FirstHalf
  <2>4. ASSUME NEW k \in Keys, ChangeOne(c, k) PROVE OneAtATime'
    BY <2>1, <2>4, ChangeOneInv
  <2> QED
    BY <1>1, <2>2, <2>3, <2>4
<1>3. ~CopyKeys(c) => TouchKeys(c)
  BY DEF AddKey, ShowKey, RemoveKey, HideKey, PutCopy, ChangeSetting, ClearKeys, ResetKeys,
         ChangeOne, Set, KeyCallBegins
<1> QED
  BY <1>1, <1>2, <1>3

(* With no call under way the keys shown are those of the store and the     *)
(* settings those of the storage, whatever the number of the calls and of   *)
(* the keys, unless two calls have overlapped or one has failed half way     *)
(* (AccountController, the operations on keys).                              *)
THEOREM KeysAgree == KeysSpec => []KeysShownAreStored
<1>1. KeysInv /\ [KeysNext]_keyVars => KeysInv'
  <2> SUFFICES ASSUME KeysInv, [KeysNext]_keyVars PROVE KeysInv'
    OBVIOUS
  <2>1. CASE KeysNext
    BY <2>1, KeyPlacesKept, OneAtATimeKept DEF KeysInv
  <2>2. CASE UNCHANGED keyVars
    BY <2>2 DEF keyVars, KeysInv, KeyPlaces, OneAtATime, Pending, HalfDone, Adds, TheKey
  <2> QED
    BY <2>1, <2>2
<1>2. KeysInv => KeysShownAreStored
  BY DEF KeysInv, OneAtATime, Pending, KeysShownAreStored
<1> QED
  BY <1>1, <1>2, KeysInitInv, PTL DEF KeysSpec

----------------------------------------------------------------------------
(* The registries keep their types. *)
RegistryTypes ==
    /\ open \subseteq Frames /\ open \cap closed = {}
    /\ connectionsOfOrigin \in [Origins -> SUBSET Frames]
    /\ connectionsOfTab \in [Tabs -> SUBSET Frames]
    /\ tabsOfOrigin \in [Origins -> SUBSET Tabs]

(* The three parts of RegistriesKnowThePages. *)
ByOrigin == \A o \in Origins : connectionsOfOrigin[o] = {f \in open : Origin[f] = o}
ByTab == \A t \in Tabs : connectionsOfTab[t] = {f \in open : Tab[f] = t}
Here(frames, o, t) == {f \in frames : Origin[f] = o /\ Tab[f] = t}
TabsByOrigin ==
    \A o \in Origins, t \in Tabs :
        /\ t \in tabsOfOrigin[o] => Here(open, o, t) # {}
        /\ (Here(open, o, t) # {} /\ Here(closed, o, t) = {}) => t \in tabsOfOrigin[o]

RegistryInv == RegistryTypes /\ ByOrigin /\ ByTab /\ TabsByOrigin

(* StreamInit establishes the invariant: there is no connection. *)
LEMMA RegistryInit == StreamInit => RegistryInv
  BY DEF StreamInit, RegistryInv, RegistryTypes, ByOrigin, ByTab, TabsByOrigin, Here

(* A frame has its origin and its tab among those of the frames. *)
LEMMA FrameIsKnown ==
  ASSUME NEW f \in Frames
  PROVE  Origin[f] \in Origins /\ Tab[f] \in Tabs
  BY DEF Origins, Tabs

(* A connection is found as soon as it is added. *)
LEMMA AddKeepsRegistries ==
  ASSUME NEW f \in Frames, RegistryInv, AddConnection(f)
  PROVE  RegistryInv'
<1> USE FrameIsKnown DEF RegistryInv, RegistryTypes, AddConnection
<1>1. RegistryTypes'
  OBVIOUS
<1>2. ByOrigin'
  BY DEF ByOrigin
<1>3. ByTab'
  BY DEF ByTab
<1>4. TabsByOrigin'
  <2> SUFFICES ASSUME NEW o \in Origins, NEW t \in Tabs
               PROVE  /\ t \in tabsOfOrigin'[o] => Here(open', o, t) # {}
                      /\ (Here(open', o, t) # {} /\ Here(closed', o, t) = {})
                            => t \in tabsOfOrigin'[o]
    BY DEF TabsByOrigin, Here
  <2>1. CASE o = Origin[f] /\ t = Tab[f]
    BY <2>1 DEF Here
  <2>2. CASE ~(o = Origin[f] /\ t = Tab[f])
    <3>1. Here(open', o, t) = Here(open, o, t) /\ Here(closed', o, t) = Here(closed, o, t)
      BY <2>2 DEF Here
    <3>2. t \in tabsOfOrigin'[o] <=> t \in tabsOfOrigin[o]
      BY <2>2
    <3> QED
      BY <3>1, <3>2 DEF TabsByOrigin
  <2> QED
    BY <2>1, <2>2
<1> QED
  BY <1>1, <1>2, <1>3, <1>4

(* No registry has a connection once its port is closed. *)
LEMMA CloseKeepsRegistries ==
  ASSUME NEW f \in Frames, RegistryInv, CloseFrame(f)
  PROVE  RegistryInv'
<1> USE FrameIsKnown DEF RegistryInv, RegistryTypes, CloseFrame, RemoveConnection
<1>1. RegistryTypes'
  OBVIOUS
<1>2. ByOrigin'
  BY DEF ByOrigin
<1>3. ByTab'
  BY DEF ByTab
<1>4. TabsByOrigin'
  <2> SUFFICES ASSUME NEW o \in Origins, NEW t \in Tabs
               PROVE  /\ t \in tabsOfOrigin'[o] => Here(open', o, t) # {}
                      /\ (Here(open', o, t) # {} /\ Here(closed', o, t) = {})
                            => t \in tabsOfOrigin'[o]
    BY DEF TabsByOrigin, Here
  <2>1. CASE o = Origin[f] /\ t = Tab[f]
    BY <2>1 DEF Here
  <2>2. CASE ~(o = Origin[f] /\ t = Tab[f])
    <3>1. Here(open', o, t) = Here(open, o, t) /\ Here(closed', o, t) = Here(closed, o, t)
      BY <2>2 DEF Here
    <3>2. t \in tabsOfOrigin'[o] <=> t \in tabsOfOrigin[o]
      BY <2>2
    <3> QED
      BY <3>1, <3>2 DEF TabsByOrigin
  <2> QED
    BY <2>1, <2>2
<1> QED
  BY <1>1, <1>2, <1>3, <1>4

(* Every step keeps the registries. *)
LEMMA RegistryNext == RegistryInv /\ [StreamNext]_streamVars => RegistryInv'
<1> SUFFICES ASSUME RegistryInv, [StreamNext]_streamVars PROVE RegistryInv'
  OBVIOUS
<1>1. ASSUME UNCHANGED registries PROVE RegistryInv'
  BY <1>1 DEF registries, RegistryInv, RegistryTypes, ByOrigin, ByTab, TabsByOrigin, Here
<1>2. ASSUME NEW f \in Frames, AddConnection(f) PROVE RegistryInv'
  BY <1>2, AddKeepsRegistries
<1>3. ASSUME NEW f \in Frames, CloseFrame(f) PROVE RegistryInv'
  BY <1>3, CloseKeepsRegistries
<1>4. ASSUME NEW f \in Frames, TakeRequest(f) \/ HearPort(f) PROVE UNCHANGED registries
  BY <1>4 DEF TakeRequest, HearPort, HearNotification, HearResponse
<1>5. ASSUME NEW f \in Frames, NEW n \in Numbers, FinishSome(f, n) PROVE UNCHANGED registries
  BY <1>5 DEF FinishSome, FinishRequest
<1>6. ASSUME NEW r \in Requests, SendRequests(r) PROVE UNCHANGED registries
  BY <1>6 DEF SendRequests
<1>7. CASE NotifyPages
  BY <1>1, <1>7 DEF NotifyPages
<1>8. CASE UNCHANGED streamVars
  BY <1>1, <1>8 DEF streamVars
<1> QED
  BY <1>1, <1>2, <1>3, <1>4, <1>5, <1>6, <1>7, <1>8 DEF StreamNext

(* Every live connection is found by its origin and by its tab and no closed *)
(* one is, for any frames, origins and tabs, so that a notification reaches  *)
(* exactly the pages it is for (NekotonController._addConnection,            *)
(* _removeConnection).                                                       *)
THEOREM PagesAreKnown == StreamSpec => []RegistriesKnowThePages
<1>1. RegistryInv => RegistriesKnowThePages
  BY DEF RegistryInv, ByOrigin, ByTab, TabsByOrigin, Here, RegistriesKnowThePages
<1> QED
  BY <1>1, RegistryInit, RegistryNext, PTL DEF StreamSpec


----------------------------------------------------------------------------
(* The forms that sign. *)

(* What is signed agrees with its key and with what was submitted. *)
Agrees(s) == s.by = s.message.key /\ s.message.edit = submittedEdit

(* A transfer keeps still while it is signed. *)
SendInv ==
    form = "send" =>
        /\ preparing = {} /\ signingAgain = FALSE
        /\ formStep = "password" => prepared = For(chosenKey, submittedEdit)
        /\ signing # NoMessage =>
              formStep = "password" /\ submitted = TRUE /\ failed = FALSE
        /\ signedMessage # NoMessage => formStep = "closed"

AgreeInv ==
    /\ form \in FormKinds
    /\ form \notin SendForms => submittedEdit = 0 /\ preparing = {}
    /\ SendInv
    /\ form # "sendTokens" =>
          /\ signing # NoMessage => Agrees(signing)
          /\ signedMessage # NoMessage => Agrees(signedMessage)

(* FormInit establishes the agreement. *)
LEMMA FormInitAgrees == FormInit => AgreeInv
  BY DEF FormInit, AgreeInv, SendInv, SendForms

(* A step that leaves what is signed, and its submission, alone. *)
LEMMA AgreeStays ==
  ASSUME AgreeInv, UNCHANGED <<editVars, signing, signedMessage>>, SendInv'
  PROVE  AgreeInv'
  BY DEF AgreeInv, editVars, Agrees, SendForms

(* The user fills in, goes on, or the message of tokens is known. *)
LEMMA EditsAgree ==
  ASSUME AgreeInv, FillIn \/ Proceed \/ \E m \in FormMessage : TokensPrepared(m)
  PROVE  AgreeInv'
<1>1. CASE FillIn
  BY <1>1 DEF FillIn, AgreeInv, SendInv, Agrees, signatureVars, SendForms
<1>2. CASE Proceed
  <2>1. CASE form = "send"
    <3>1. signing = NoMessage /\ signedMessage = NoMessage
      BY <1>2, <2>1 DEF Proceed, AgreeInv, SendInv
    <3> QED
      BY <1>2, <2>1, <3>1
         DEF Proceed, SubmitEdit, PutMessage, For, AgreeInv, SendInv, Agrees, signatureVars, SendForms
  <2>2. CASE form = "sendTokens"
    BY <1>2, <2>2 DEF Proceed, AgreeInv, SendInv, SendForms
  <2> QED
    BY <1>2, <2>1, <2>2 DEF Proceed, SendForms
<1>3. ASSUME NEW m \in FormMessage, TokensPrepared(m) PROVE AgreeInv'
  <2>1. form = "sendTokens"
    BY <1>3 DEF TokensPrepared, AgreeInv, SendInv, SendForms
  <2> QED
    BY <1>3, <2>1 DEF TokensPrepared, AgreeInv, SendInv, SendForms
<1> QED
  BY <1>1, <1>2, <1>3

(* The key changes: a transfer is submitted again, as it was, for that key. *)
LEMMA KeyAgrees ==
  ASSUME AgreeInv, NEW k \in SignKeys, ChangeKey(k)
  PROVE  AgreeInv'
<1>1. CASE form = "send"
  BY <1>1 DEF ChangeKey, SubmitEdit, PutMessage, For, AgreeInv, SendInv, Agrees, signatureVars, SendForms
<1>2. CASE form = "sendTokens"
  BY <1>2 DEF ChangeKey, AgreeInv, SendInv, SendForms
<1>3. CASE form \notin SendForms
  BY <1>3 DEF ChangeKey, AgreeInv, SendInv, Agrees, signatureVars, SendForms
<1> QED
  BY <1>1, <1>2, <1>3 DEF SendForms

(* What is given to be signed agrees. *)
LEMMA SigningAgrees ==
  ASSUME AgreeInv, SubmitPassword \/ DeployAgain
  PROVE  AgreeInv'
<1>1. BeginSigning /\ (form = "send" => formStep = "password" /\ signingAgain' = signingAgain)
  BY DEF SubmitPassword, DeployAgain, DataForms
<1>2. signing' = [by |-> chosenKey,
                  message |-> IF form \in SendForms THEN prepared ELSE For(chosenKey, 0)]
  BY <1>1 DEF BeginSigning
<1>3. form # "sendTokens" => Agrees(signing')
  BY <1>1, <1>2 DEF AgreeInv, SendInv, Agrees, For, SendForms
<1> QED
  BY <1>1, <1>3 DEF BeginSigning, AgreeInv, SendInv, Agrees, editVars, SendForms

(* What has been signed agrees as it did before. *)
LEMMA SignedAgrees ==
  ASSUME AgreeInv, Signed
  PROVE  AgreeInv'
<1>1. /\ UNCHANGED <<editVars, prepared, chosenKey, submitted>>
      /\ signing' \in {signing, NoMessage} /\ signedMessage' \in {signing, signedMessage}
      /\ signing # NoMessage
  BY DEF Signed
<1>2. SendInv'
  <2> SUFFICES ASSUME form = "send" PROVE SendInv'
    BY <1>1 DEF SendInv, editVars
  <2>1. signing' = NoMessage \/ signing' = signing
    BY <1>1
  <2> QED
    BY <1>1 DEF Signed, SendInv, AgreeInv, editVars, ApprovalForms, DataForms
<1> QED
  BY <1>1, <1>2 DEF AgreeInv, Agrees, editVars, SendForms

(* The other steps leave what is signed alone. *)
LEMMA OthersAgree ==
  ASSUME AgreeInv,
         \/ Preview \/ Back \/ Refuses \/ SwitchApproval \/ ApprovalDeleted
         \/ \E m \in FormMessage : FeesArrive(m)
  PROVE  AgreeInv'
<1> USE DEF signatureVars, ApprovalForms, DataForms, SendForms, AgreeInv, SendInv, editVars
<1>1. CASE Preview BY <1>1, AgreeStays DEF Preview
<1>2. CASE Back BY <1>2, AgreeStays DEF Back
<1>3. CASE Refuses BY <1>3, AgreeStays DEF Refuses
<1>4. CASE SwitchApproval BY <1>4, AgreeStays DEF SwitchApproval
<1>5. CASE ApprovalDeleted BY <1>5, AgreeStays DEF ApprovalDeleted
<1>6. ASSUME NEW m \in FormMessage, FeesArrive(m) PROVE AgreeInv'
  BY <1>6, AgreeStays DEF FeesArrive
<1> QED
  BY <1>1, <1>2, <1>3, <1>4, <1>5, <1>6

(* Every step keeps the agreement. *)
LEMMA FormNextAgrees == AgreeInv /\ [FormNext]_formVars => AgreeInv'
<1> SUFFICES ASSUME AgreeInv, [FormNext]_formVars PROVE AgreeInv'
  OBVIOUS
<1>1. CASE UNCHANGED formVars
  BY <1>1, AgreeStays DEF formVars, editVars, signatureVars, AgreeInv, SendInv
<1> QED
  BY <1>1, EditsAgree, KeyAgrees, SigningAgrees, SignedAgrees, OthersAgree DEF FormNext

----------------------------------------------------------------------------
(* The forms whose button is disabled from the first signature on. *)
SigningOnce == form \notin {"deploy", "signDataApproval"} /\ ~switched

OnceInv ==
    /\ form \in FormKinds /\ signatures \in 0 .. 2
    /\ form # "deploy" => signingAgain = FALSE
    /\ rejected => form \in ApprovalForms
    /\ signedMessage # NoMessage => signatures > 0
    /\ SigningOnce =>
          /\ signing # NoMessage => inProcess = TRUE /\ formStep # "closed" /\ signatures = 0
          /\ signatures > 0 => inProcess = TRUE \/ formStep = "closed"
          /\ signatures \in 0 .. 1
          /\ rejected => formStep = "closed" /\ signing = NoMessage /\ signatures = 0

(* FormInit establishes it: nothing is signed. *)
LEMMA FormInitOnce == FormInit => OnceInv
  BY DEF FormInit, OnceInv, SigningOnce

(* A step that does not sign, and neither frees the form nor opens it anew. *)
LEMMA OnceStays ==
  ASSUME OnceInv, UNCHANGED <<form, signatureVars, inProcess, rejected, switched>>,
         formStep' = "closed" <=> formStep = "closed"
  PROVE  OnceInv'
  BY DEF OnceInv, SigningOnce, signatureVars

(* The password is given: only a form that is free asks for it. *)
LEMMA BeginOnce ==
  ASSUME OnceInv, SubmitPassword \/ DeployAgain
  PROVE  OnceInv'
<1>1. CASE DeployAgain
  BY <1>1 DEF DeployAgain, BeginSigning, OnceInv, SigningOnce, editVars
<1>2. CASE SubmitPassword
  <2>1. /\ formStep # "closed" /\ inProcess' = TRUE /\ ~inProcess
        /\ UNCHANGED <<form, formStep, signatures, signedMessage, signingAgain, rejected, switched>>
    BY <1>2 DEF SubmitPassword, BeginSigning, editVars
  <2> QED
    BY <2>1 DEF OnceInv, SigningOnce
<1> QED
  BY <1>1, <1>2

(* The message is signed: the form closes, or stays disabled. *)
LEMMA SignedOnce ==
  ASSUME OnceInv, Signed
  PROVE  OnceInv'
<1>1. /\ UNCHANGED <<form, rejected, switched>> /\ signing # NoMessage
      /\ signingAgain' = FALSE
      /\ ~signingAgain => signing' = NoMessage
  BY DEF Signed, editVars
<1>2. CASE UNCHANGED <<signatures, signedMessage, formStep>>
  BY <1>1, <1>2 DEF OnceInv, SigningOnce
<1>3. CASE /\ signatures' = IF signatures < 2 THEN signatures + 1 ELSE 2
           /\ formStep' = IF form \in ApprovalForms THEN formStep ELSE "closed"
           /\ inProcess' = (inProcess /\ StaysDisabled)
  <2>1. signatures' \in 0 .. 2 /\ signatures' > 0
    BY <1>3 DEF OnceInv
  <2>2. SigningOnce => signatures' = 1
    BY <1>1, <1>3 DEF OnceInv
  <2>3. SigningOnce => formStep' = "closed" \/ inProcess' = TRUE
    BY <1>1, <1>3 DEF OnceInv, SigningOnce, StaysDisabled, ApprovalForms, DataForms
  <2>4. SigningOnce => signing' = NoMessage /\ ~rejected
    BY <1>1 DEF OnceInv, SigningOnce
  <2>5. SigningOnce' <=> SigningOnce
    BY <1>1 DEF SigningOnce
  <2> QED
    BY <1>1, <2>1, <2>2, <2>3, <2>4, <2>5 DEF OnceInv
<1> QED
  BY <1>2, <1>3 DEF Signed

(* The form is rejected, deleted or mounted anew. *)
LEMMA ApprovalOnce ==
  ASSUME OnceInv, Refuses \/ SwitchApproval \/ ApprovalDeleted
  PROVE  OnceInv'
<1>1. CASE Refuses
  <2>1. SigningOnce => signing = NoMessage /\ signatures = 0
    BY <1>1 DEF Refuses, OnceInv
  <2> QED
    BY <1>1, <2>1 DEF Refuses, OnceInv, SigningOnce, signatureVars, editVars
<1>2. CASE SwitchApproval
  BY <1>2 DEF SwitchApproval, OnceInv, SigningOnce, signatureVars, editVars
<1>3. CASE ApprovalDeleted
  BY <1>3 DEF ApprovalDeleted, OnceInv, SigningOnce, signatureVars, editVars
<1> QED
  BY <1>1, <1>2, <1>3

(* The other steps neither sign nor open a form that is closed. *)
LEMMA OthersOnce ==
  ASSUME OnceInv,
         \/ FillIn \/ Proceed \/ Preview \/ Back
         \/ \E m \in FormMessage : TokensPrepared(m) \/ FeesArrive(m)
         \/ \E k \in SignKeys : ChangeKey(k)
  PROVE  OnceInv'
<1> USE DEF editVars, SubmitEdit, PutMessage
<1>1. CASE FillIn BY <1>1, OnceStays DEF FillIn
<1>2. CASE Proceed BY <1>2, OnceStays DEF Proceed
<1>3. CASE Preview BY <1>3, OnceStays DEF Preview
<1>4. CASE Back BY <1>4, OnceStays DEF Back
<1>5. ASSUME NEW m \in FormMessage, TokensPrepared(m) PROVE OnceInv'
  BY <1>5, OnceStays DEF TokensPrepared
<1>6. ASSUME NEW m \in FormMessage, FeesArrive(m) PROVE OnceInv'
  BY <1>6, OnceStays DEF FeesArrive
<1>7. ASSUME NEW k \in SignKeys, ChangeKey(k) PROVE OnceInv'
  BY <1>7, OnceStays DEF ChangeKey
<1> QED
  BY <1>1, <1>2, <1>3, <1>4, <1>5, <1>6, <1>7

(* Every step keeps it. *)
LEMMA FormNextOnce == OnceInv /\ [FormNext]_formVars => OnceInv'
<1> SUFFICES ASSUME OnceInv, [FormNext]_formVars PROVE OnceInv'
  OBVIOUS
<1>1. CASE UNCHANGED formVars
  BY <1>1, OnceStays DEF formVars, editVars
<1> QED
  BY <1>1, BeginOnce, SignedOnce, ApprovalOnce, OthersOnce DEF FormNext

----------------------------------------------------------------------------
(* The key that signs is the one the message was prepared for, but for      *)
(* tokens (Send, PrepareMessage, EnterPassword, the approvals).              *)
THEOREM SignatureAgrees == FormSpec => []SignedAsPrepared
<1>1. AgreeInv => SignedAsPrepared
  BY DEF AgreeInv, Agrees, SignedAsPrepared
<1> QED
  BY <1>1, FormInitAgrees, FormNextAgrees, PTL DEF FormSpec

(* No form signs twice, but a deployment, an approval mounted anew and one  *)
(* that signs data; and none signs what was rejected.                        *)
THEOREM SignatureOnce == FormSpec => []SignsOnce
<1>1. OnceInv => SignsOnce
  BY DEF OnceInv, SigningOnce, SignsOnce, ApprovalForms, DataForms
<1> QED
  BY <1>1, FormInitOnce, FormNextOnce, PTL DEF FormSpec

----------------------------------------------------------------------------
(* The management of seeds, keys and accounts. *)

(* A call of an allowed kind keeps the storage what it is. *)
LEMMA EffectTypes ==
  ASSUME NEW b \in Storage, NEW c \in Calls, c.name # "ensure", NEW part \in SUBSET c.of
  PROVE  Effect(b, c.name, part) \in Storage
<1>1. CASE part = {} \/ c.name = "look"
  BY <1>1 DEF Effect
<1>2. CASE part # {} /\ c.name \in {"createKeys", "createSelectedKey", "removeKeys"}
  <2>1. c.of \subseteq SeedKeys
    BY <1>2 DEF Calls, CallsOf
  <2>2. (CHOOSE k \in part : TRUE) \in SeedKeys
    BY <1>2, <2>1
  <2> QED
    BY <1>2, <2>1, <2>2, ManagementAssumption DEF Effect, Storage
<1>3. CASE part # {} /\ c.name \in {"createAccount", "createAccounts", "removeAccounts", "selectAccount", "show", "hide"}
  <2>1. c.of \subseteq Wallets
    BY <1>3 DEF Calls, CallsOf
  <2>2. (CHOOSE w \in part : TRUE) \in Wallets
    BY <1>3, <2>1
  <2> QED
    BY <1>3, <2>1, <2>2 DEF Effect, Storage
<1>4. CASE part # {} /\ c.name = "selectSeed"
  <2>1. c.of \subseteq Seeds
    BY <1>4 DEF Calls, CallsOf
  <2>2. (CHOOSE s \in part : TRUE) \in Seeds
    BY <1>4, <2>1
  <2> QED
    BY <1>4, <2>1, <2>2 DEF Effect, Storage
<1>5. CASE part # {} /\ c.name = "link"
  BY <1>5 DEF Effect, Storage, Calls, CallsOf
<1>6. CASE part # {} /\ c.name = "logOut"
  BY <1>6 DEF Effect, Storage, Nothing
<1> QED
  BY <1>1, <1>2, <1>3, <1>4, <1>5, <1>6 DEF Calls, CallsOf

(* And so does what comes of it. *)
LEMMA OutcomeTypes ==
  ASSUME NEW b \in Storage, NEW c \in Calls
  PROVE  Outcomes(b, c) \subseteq Storage /\ Failures(b, c) \subseteq Storage
<1>1. CASE c.name = "ensure"
  <2>1. ASSUME NEW d \in Ensured(b) PROVE d \in Storage
    <3>1. CASE b.account \in b.entries
      BY <2>1, <3>1 DEF Ensured
    <3>2. CASE b.account \notin b.entries
      <4> DEFINE seeds(w) == IF b.seed # Nobody THEN {b.seed} ELSE SeedsFor(b, w)
      <4>1. PICK w \in b.entries : d \in EnsuredBy(b, w)
        BY <2>1, <3>2 DEF Ensured
      <4>2. w \in Wallets /\ b.seed \in Seeds \cup {Nobody} /\ b.keys \subseteq SeedKeys
        BY DEF Storage
      <4>3. SeedsFor(b, w) \subseteq Seeds \cup {Nobody}
        <5>1. \A k \in SeedKeys : SeedOf[k] \in Seeds
          BY ManagementAssumption
        <5>2. OwnerOf[w] \in b.keys => SeedOf[OwnerOf[w]] \in Seeds
          BY <4>2, <5>1
        <5> QED
          BY <5>1, <5>2 DEF SeedsFor
      <4>4. seeds(w) \subseteq Seeds \cup {Nobody}
        BY <4>2, <4>3
      <4>5. PICK x \in seeds(w) : d = [b EXCEPT !.account = w, !.seed = x]
        BY <4>1 DEF EnsuredBy
      <4> HIDE DEF seeds
      <4> QED
        BY <4>2, <4>4, <4>5 DEF Storage
    <3> QED
      BY <3>1, <3>2
  <2> QED
    BY <1>1, <2>1 DEF Outcomes, Failures
<1>2. CASE c.name # "ensure"
  <2>1. Outcomes(b, c) \subseteq Storage
    BY <1>2, EffectTypes DEF Outcomes
  <2>2. ASSUME NEW d \in Failures(b, c) PROVE d \in Storage
    <3>1. PICK part \in SUBSET c.of : d = Effect(b, c.name, part)
      BY <1>2, <2>2 DEF Failures
    <3> QED
      BY <1>2, <3>1, EffectTypes
  <2> QED
    BY <2>1, <2>2
<1> QED
  BY <1>1, <1>2

(* The page that a handler ends at. *)
LEMMA ArriveTypes ==
  ASSUME NEW p \in Pages, NEW a \in Ends,
         p.step = "manageAccount" => p.account \in Wallets,
         a.go = "key" => a.key \in SeedKeys,
         a.go = "account" => a.account \in Wallets
  PROVE  /\ Arrive(p, a) \in Pages
         /\ Arrive(p, a).step = "manageAccount" => Arrive(p, a).account \in Wallets
<1>1. CASE a.go = "stay" BY <1>1 DEF Arrive
<1>2. CASE a.go = "key"
  <2>1. SeedOf[a.key] \in Seeds
    BY <1>2, ManagementAssumption
  <2> QED
    BY <1>2, <2>1 DEF Arrive, Pages, At
<1>3. CASE a.go = "seed" BY <1>3 DEF Arrive, Pages, At
<1>4. CASE a.go = "seeds" BY <1>4 DEF Arrive, Pages, At
<1>5. CASE a.go = "account" BY <1>5 DEF Arrive, Pages, At
<1>6. CASE a.go = "panel" BY <1>6 DEF Arrive, Pages
<1>7. CASE a.go = "main" BY <1>7 DEF Arrive, Pages, Closed
<1> QED
  BY <1>1, <1>2, <1>3, <1>4, <1>5, <1>6, <1>7 DEF Ends

(* Blocks without the first. *)
LEMMA WithoutFirst ==
  ASSUME NEW S, NEW P \in Seq(S), P # <<>>
  PROVE  /\ Tail(P) \in Seq(S) /\ Head(P) \in S /\ Head(P) = P[1] /\ 1 \in DOMAIN P
         /\ DOMAIN P = 1 .. Len(P) /\ Len(P) \in Nat /\ DOMAIN Tail(P) = 1 .. (Len(P) - 1)
         /\ Len(Tail(P)) = Len(P) - 1
         /\ \A i \in DOMAIN Tail(P) : Tail(P)[i] = P[i + 1] /\ i + 1 \in DOMAIN P
  OBVIOUS

(* Blocks with another first. *)
LEMMA WithFirst ==
  ASSUME NEW S, NEW P \in Seq(S), P # <<>>, NEW x \in S
  PROVE  LET Q == <<x>> \o Tail(P)
         IN  /\ Q \in Seq(S) /\ DOMAIN Q = DOMAIN P /\ Q[1] = x /\ Q # <<>> /\ Len(Q) = Len(P)
             /\ \A i \in DOMAIN P \ {1} : Q[i] = P[i]
<1> DEFINE Q == <<x>> \o Tail(P)
<1>1. <<x>> \in Seq(S) /\ Len(<<x>>) = 1 /\ <<x>>[1] = x
  OBVIOUS
<1>2. Q \in Seq(S) /\ Len(Q) = Len(P) /\ Q[1] = x
  BY <1>1, WithoutFirst
<1>3. ASSUME NEW i \in DOMAIN P \ {1} PROVE Q[i] = P[i]
  <2>1. i \in 2 .. Len(P) /\ i - 1 \in 1 .. (Len(P) - 1)
    BY WithoutFirst
  <2>2. Q[i] = Tail(P)[i - 1]
    BY <1>1, <2>1, WithoutFirst
  <2> QED
    BY <2>1, <2>2, WithoutFirst
<1> QED
  BY <1>2, <1>3, WithoutFirst

(* What is left when a call has been made: the blocks without the first, or *)
(* with what is left of it.                                                   *)
LEMMA RestIs ==
  ASSUME NEW P \in Seq(Blocks), pending = P, P # <<>>
  PROVE  /\ NextCall \in Calls /\ NextCall = P[1][1] /\ P[1] \in Seq(Calls) /\ P[1] # <<>>
         /\ Rest \in Seq(Blocks)
         /\ \/ Len(P[1]) = 1 /\ Rest = Tail(P)
            \/ Len(P[1]) > 1 /\ Tail(P[1]) \in Blocks /\ Rest = <<Tail(P[1])>> \o Tail(P)
<1>1. Head(P) = P[1] /\ P[1] \in Seq(Calls) /\ P[1] # <<>> /\ Tail(P) \in Seq(Blocks)
  BY WithoutFirst DEF Blocks
<1>2. NextCall = P[1][1] /\ NextCall \in Calls /\ Tail(P[1]) \in Seq(Calls)
  BY <1>1, WithoutFirst DEF NextCall
<1>3. CASE Tail(P[1]) = <<>>
  <2>1. Len(P[1]) = 1
    <3> DEFINE T == Tail(P[1])
    <3>1. Len(T) = Len(P[1]) - 1 /\ Len(P[1]) \in Nat
      BY <1>1, WithoutFirst
    <3>2. T = <<>>
      BY <1>3
    <3> HIDE DEF T
    <3>3. Len(T) = 0
      BY <3>2
    <3> QED
      BY <3>1, <3>3
  <2>2. Rest = Tail(P)
    BY <1>1, <1>3 DEF Rest
  <2> QED
    BY <1>1, <1>2, <2>1, <2>2
<1>4. CASE Tail(P[1]) # <<>>
  <2>1. Tail(P[1]) \in Blocks /\ Len(P[1]) > 1
    BY <1>1, <1>2, <1>4 DEF Blocks
  <2>2. Rest = <<Tail(P[1])>> \o Tail(P)
    BY <1>1, <1>4 DEF Rest
  <2> QED
    BY <1>2, <1>1, <2>1, <2>2, WithFirst
<1> QED
  BY <1>3, <1>4

(* The blocks for the keys of a Ledger: removals, then creations. *)
LEMMA LedgerBlocksAre ==
  ASSUME stored \in Storage, NEW R \in SUBSET SeedKeys, NEW C \in SUBSET SeedKeys,
         NEW remove \in Orders(R), NEW create \in Orders(C)
  PROVE  LET L == LedgerBlocks(remove, create)
         IN  /\ L \in Seq(Blocks)
             /\ \E n \in 0 .. Len(L) :
                   /\ \A i \in 1 .. n : \E k \in R : L[i] = LedgerRemoval(k)
                   /\ \A i \in (n + 1) .. Len(L) : \E k \in C : L[i] = LedgerCreation(k)
<1>1. /\ \E n \in Nat : remove \in [1 .. n -> R]
      /\ \E m \in Nat : create \in [1 .. m -> C]
  <2>1. IsFiniteSet(R) /\ IsFiniteSet(C)
    BY ManagementAssumption, FS_Subset
  <2>2. Cardinality(R) \in Nat /\ Cardinality(C) \in Nat
    BY <2>1, FS_CardinalityType
  <2> QED
    BY <2>2 DEF Orders
<1>2. PICK n \in Nat : remove \in [1 .. n -> R]
  BY <1>1
<1>3. PICK m \in Nat : create \in [1 .. m -> C]
  BY <1>1
<1> DEFINE rs == [i \in 1 .. n |-> LedgerRemoval(remove[i])]
           cs == [i \in 1 .. m |-> LedgerCreation(create[i])]
<1>4. ASSUME NEW k \in SeedKeys PROVE LedgerRemoval(k) \in Blocks
  <2> DEFINE w == CHOOSE w \in OwnedBy(stored, {k}) : TRUE
  <2>1. OfKey(k, Call("removeKeys", {k})) \in Calls
    BY DEF OfKey, Call, Calls, CallsOf
  <2>2. ASSUME OwnedBy(stored, {k}) # {} PROVE OfKey(k, Call("removeAccounts", {w})) \in Calls
    <3>1. w \in Wallets
      BY <2>2 DEF OwnedBy, Storage
    <3> HIDE DEF w
    <3> QED
      BY <3>1 DEF OfKey, Call, Calls, CallsOf
  <2> QED
    BY <2>1, <2>2 DEF LedgerRemoval, Blocks
<1>5. ASSUME NEW k \in SeedKeys PROVE LedgerCreation(k) \in Blocks
  <2> DEFINE w == CHOOSE w \in Wallets : OwnerOf[w] = k
  <2>1. w \in Wallets
    BY ManagementAssumption
  <2> HIDE DEF w
  <2>2. OfKey(k, Call("createKeys", {k})) \in Calls /\ OfKey(k, CreateUnder(k, w)) \in Calls
    BY <2>1 DEF OfKey, CreateUnder, Call, Calls, CallsOf
  <2> QED
    BY <2>2 DEF LedgerCreation, Blocks, w
<1>6. rs \in Seq(Blocks) /\ Len(rs) = n /\ cs \in Seq(Blocks) /\ Len(cs) = m
  BY <1>2, <1>3, <1>4, <1>5
<1>7. LedgerBlocks(remove, create) = rs \o cs
  BY <1>2, <1>3 DEF LedgerBlocks
<1>8. \A i \in 1 .. n : rs[i] = LedgerRemoval(remove[i]) /\ remove[i] \in R
  BY <1>2
<1>9. \A i \in 1 .. m : cs[i] = LedgerCreation(create[i]) /\ create[i] \in C
  BY <1>3
<1> HIDE DEF rs, cs
<1>10. /\ rs \o cs \in Seq(Blocks) /\ Len(rs \o cs) = n + m
       /\ \A i \in 1 .. n : (rs \o cs)[i] = rs[i]
       /\ \A i \in (n + 1) .. (n + m) : (rs \o cs)[i] = cs[i - n] /\ i - n \in 1 .. m
  BY <1>6
<1>11. n \in 0 .. Len(rs \o cs)
  BY <1>10
<1> QED
  BY <1>7, <1>8, <1>9, <1>10, <1>11

(* The calls of every kind are of theirs. *)
LEMMA CallTypes ==
  /\ \A K \in SUBSET SeedKeys : \A n \in {"createKeys", "createSelectedKey", "removeKeys"} :
        Call(n, K) \in Calls /\ Try(n, K) \in Calls
  /\ \A W \in SUBSET Wallets :
        \A n \in {"createAccount", "createAccounts", "removeAccounts", "selectAccount", "show", "hide"} :
           Call(n, W) \in Calls /\ Try(n, W) \in Calls
  /\ \A L \in SUBSET (Wallets \X SeedKeys) : Call("link", L) \in Calls
  /\ \A S \in SUBSET Seeds : Call("selectSeed", S) \in Calls
  /\ \A T \in SUBSET (Seeds \cup SeedKeys \cup Wallets \cup {Nobody}) :
        \A n \in {"look", "ensure", "logOut"} : Call(n, T) \in Calls /\ Try(n, T) \in Calls
  /\ \A c \in Calls : \A k \in SeedKeys \cup {Nobody} : [c EXCEPT !.undo = k] \in Calls
  /\ \A c \in Calls : \A x \in SeedKeys \cup Wallets \cup {Nobody} : [c EXCEPT !.item = x] \in Calls
<1>1. \A K \in SUBSET SeedKeys : \A n \in {"createKeys", "createSelectedKey", "removeKeys"} :
         Call(n, K) \in Calls /\ Try(n, K) \in Calls
  BY DEF Call, Try, Calls, CallsOf
<1>2. \A W \in SUBSET Wallets :
        \A n \in {"createAccount", "createAccounts", "removeAccounts", "selectAccount", "show", "hide"} :
           Call(n, W) \in Calls /\ Try(n, W) \in Calls
  BY DEF Call, Try, Calls, CallsOf
<1>3. \A L \in SUBSET (Wallets \X SeedKeys) : Call("link", L) \in Calls
  BY DEF Call, Calls, CallsOf
<1>4. \A S \in SUBSET Seeds : Call("selectSeed", S) \in Calls
  BY DEF Call, Calls, CallsOf
<1>5. \A T \in SUBSET (Seeds \cup SeedKeys \cup Wallets \cup {Nobody}) :
        \A n \in {"look", "ensure", "logOut"} : Call(n, T) \in Calls /\ Try(n, T) \in Calls
  BY DEF Call, Try, Calls, CallsOf
<1>6. \A c \in Calls : \A k \in SeedKeys \cup {Nobody} : [c EXCEPT !.undo = k] \in Calls
  BY DEF Calls, CallsOf
<1>7. \A c \in Calls : \A x \in SeedKeys \cup Wallets \cup {Nobody} : [c EXCEPT !.item = x] \in Calls
  BY DEF Calls, CallsOf
<1> QED
  BY <1>1, <1>2, <1>3, <1>4, <1>5, <1>6, <1>7

(* A handler may begin with blocks and an end that are typed. *)
LEMMA BeginTypes ==
  ASSUME ManagementTypeOK, NEW B \in Seq(Blocks), NEW a \in Ends, Begin(B, a),
         a.go = "key" => a.key \in SeedKeys, a.go = "account" => a.account \in Wallets,
         strays' \subseteq Wallets, astray' \in BOOLEAN
  PROVE  ManagementTypeOK'
BY DEF ManagementTypeOK, Begin

(* One block of calls. *)
LEMMA StartTypes ==
  ASSUME ManagementTypeOK, NEW calls \in Blocks, NEW a \in Ends, Start(calls, a),
         a.go = "key" => a.key \in SeedKeys, a.go = "account" => a.account \in Wallets
  PROVE  ManagementTypeOK'
<1>1. <<calls>> \in Seq(Blocks)
  OBVIOUS
<1>2. strays' \subseteq Wallets /\ astray' \in BOOLEAN
  BY DEF Start, ManagementTypeOK
<1>3. Begin(<<calls>>, a)
  BY DEF Start
<1> QED
  BY <1>1, <1>2, <1>3, BeginTypes

(* A handler that goes on, or ends. *)
LEMMA ContinueTypes ==
  ASSUME ManagementTypeOK, NEW B \in Seq(Blocks), NEW a \in Ends, Continue(B, a),
         a.go = "key" => a.key \in SeedKeys, a.go = "account" => a.account \in Wallets,
         stored' \in Storage, strays' \subseteq Wallets, astray' \in BOOLEAN, UNCHANGED handlers
  PROVE  ManagementTypeOK'
<1>1. Stay \in Ends /\ Stay.go = "stay"
  BY DEF Stay, Ends
<1>2. CASE B = <<>>
  <2>1. place' = Arrive(place, a) /\ after' = Stay /\ pending' = B
    BY <1>2 DEF Continue
  <2>2. place' \in Pages /\ (place'.step = "manageAccount" => place'.account \in Wallets)
    BY <2>1, ArriveTypes DEF ManagementTypeOK
  <2> QED
    BY <1>1, <2>1, <2>2 DEF ManagementTypeOK
<1>3. CASE B # <<>>
  BY <1>3 DEF Continue, ManagementTypeOK
<1> QED
  BY <1>2, <1>3

(* The actions that turn the pages. *)
Turns ==
    \/ ClosePanel \/ OnManageSeeds \/ AddAccountCard \/ AddSeed \/ TurnSeedStep \/ LeaveCreateSeed
    \/ BackToSeeds \/ AddDerivedKey \/ EnterPassword \/ BackToSeed
    \/ AddAccount \/ TurnAccountStep \/ BackFromIndex \/ BackToKey
    \/ \E w \in Wallets : OnManageAccount(w)
    \/ \E s \in Seeds : OnManageMasterKey(s)
    \/ \E k \in SeedKeys :
          \/ OnManageDerivedKey(k) \/ CheckKey(k) \/ CheckLedgerKey(k)
          \/ OnChangeDerivedKey(k) \/ ManageLinkedKey(k)

(* The actions that begin a handler; one shows the page of a seed that has   *)
(* no account to select instead.                                              *)
Handles ==
    \/ LogOut \/ SaveLedgerAccounts \/ OnSubmitKeys \/ OnSelectAccount \/ OnToggleVisibility
    \/ \E s \in Seeds \ LedgerSeeds, W \in SUBSET Wallets :
          /\ \A w \in W : OwnerOf[w] = FirstKeyOf[s]
          /\ (W # {} /\ ImportAccount(FirstKeyOf[s], W)) \/ SubmitSeed(FirstKeyOf[s], W)
               \/ (\E w \in W : NewAccount(FirstKeyOf[s], w))
    \/ \E s \in LedgerSeeds, K \in SUBSET SeedKeys :
          (\A k \in K : SeedOf[k] = s) /\ LedgerSignIn(s, K)
    \/ \E w \in Wallets : Slide(w) \/ OnSubmit(w) \/ OnAddExisting(w)
    \/ \E s \in Seeds : OnSelectMaster(s)

(* There are no others. *)
LEMMA TurnsAndHandles ==
  ManagementNext => Succeed \/ Fail \/ CloseWindow \/ Turns \/ Handles
BY DEF ManagementNext, Turns, Handles

(* A page that is turned is a page, and nothing else changes. *)
LEMMA TurnTyped ==
  ASSUME ManagementTypeOK, Turns
  PROVE  /\ place' \in Pages /\ (place'.step = "manageAccount" => place'.account \in Wallets)
         /\ UNCHANGED <<stored, pending, after, handlers, strays, astray>>
<1> /\ place \in Pages /\ (place.step = "manageAccount" => place.account \in Wallets) /\ stored \in Storage
  BY DEF ManagementTypeOK
<1> USE DEF Visit, Pages, At, GoTo, Closed, AtStep
<1>1. CASE ClosePanel BY <1>1 DEF ClosePanel
<1>2. CASE OnManageSeeds BY <1>2 DEF OnManageSeeds
<1>3. CASE AddAccountCard
  <2> DEFINE keys == KeysOf(stored, stored.seed)
  <2>1. keys \subseteq SeedKeys /\ stored.seed \in Seeds \cup {Nobody}
    BY DEF KeysOf, Storage
  <2>2. keys # {} => (CHOOSE k \in keys : TRUE) \in SeedKeys
    BY <2>1
  <2> HIDE DEF keys
  <2> QED
    BY <1>3, <2>1, <2>2 DEF AddAccountCard, keys
<1>4. CASE AddSeed BY <1>4 DEF AddSeed
<1>5. CASE TurnSeedStep BY <1>5 DEF TurnSeedStep, SeedSteps, SeedStepBack
<1>6. CASE LeaveCreateSeed BY <1>6 DEF LeaveCreateSeed
<1>7. CASE BackToSeeds BY <1>7 DEF BackToSeeds
<1>8. CASE AddDerivedKey BY <1>8 DEF AddDerivedKey
<1>9. CASE EnterPassword
  <2>1. KeysOf(stored, place.seed) \subseteq SeedKeys
    BY DEF KeysOf, Storage
  <2> QED
    BY <1>9, <2>1 DEF EnterPassword
<1>10. CASE BackToSeed BY <1>10 DEF BackToSeed
<1>11. CASE AddAccount BY <1>11 DEF AddAccount
<1>12. CASE TurnAccountStep BY <1>12 DEF TurnAccountStep, AccountSteps
<1>13. CASE BackFromIndex BY <1>13 DEF BackFromIndex
<1>14. CASE BackToKey BY <1>14 DEF BackToKey
<1>15. CASE \E w \in Wallets : OnManageAccount(w) BY <1>15 DEF OnManageAccount
<1>16. CASE \E s \in Seeds : OnManageMasterKey(s) BY <1>16 DEF OnManageMasterKey
<1>17. CASE \E k \in SeedKeys : OnManageDerivedKey(k) BY <1>17 DEF OnManageDerivedKey
<1>18. CASE \E k \in SeedKeys : CheckKey(k) BY <1>18 DEF CheckKey
<1>19. CASE \E k \in SeedKeys : CheckLedgerKey(k)
  <2>1. PICK k \in SeedKeys : CheckLedgerKey(k)
    BY <1>19
  <2>2. [place EXCEPT !.selected = @ \ {k}, !.unselected = @ \cup {k}] \in Pages
    OBVIOUS
  <2>3. [place EXCEPT !.selected = @ \cup {k}, !.unselected = @ \ {k}] \in Pages
    OBVIOUS
  <2> QED
    BY <2>1, <2>2, <2>3 DEF CheckLedgerKey
<1>20. CASE \E k \in SeedKeys : OnChangeDerivedKey(k) BY <1>20 DEF OnChangeDerivedKey
<1>21. CASE \E k \in SeedKeys : ManageLinkedKey(k) BY <1>21 DEF ManageLinkedKey
<1> QED
  BY <1>1, <1>2, <1>3, <1>4, <1>5, <1>6, <1>7, <1>8, <1>9, <1>10, <1>11, <1>12, <1>13, <1>14, <1>15,
     <1>16, <1>17, <1>18, <1>19, <1>20, <1>21 DEF Turns

(* A handler begins with calls and an end of their kinds. *)
LEMMA HandleTyped ==
  ASSUME ManagementTypeOK, Handles
  PROVE  ManagementTypeOK'
<1>1. /\ Stay \in Ends /\ Stay.go = "stay"
      /\ \A g \in {"seed", "seeds", "panel", "main"} : [Stay EXCEPT !.go = g] \in Ends
  BY DEF Stay, Ends
<1>2. \A g \in {"seed", "seeds", "panel", "main"} : [Stay EXCEPT !.go = g].go = g
  BY DEF Stay
<1>3. \A c1 \in Calls : <<c1>> \in Blocks
  BY DEF Blocks
<1>4. \A c1, c2 \in Calls : <<c1, c2>> \in Blocks
  BY DEF Blocks
<1>5. \A c1, c2, c3 \in Calls : <<c1, c2, c3>> \in Blocks
  BY DEF Blocks
<1>6. \A c1, c2, c3, c4 \in Calls : <<c1, c2, c3, c4>> \in Blocks
  BY DEF Blocks
<1>7. /\ stored.keys \subseteq SeedKeys /\ stored.entries \subseteq Wallets
      /\ place.seed \in Seeds \cup {Nobody} /\ place.key \in SeedKeys \cup {Nobody}
      /\ place.account \in Wallets \cup {Nobody}
      /\ place.selected \subseteq SeedKeys /\ place.unselected \subseteq SeedKeys
      /\ strays \subseteq Wallets /\ astray \in BOOLEAN
  BY DEF ManagementTypeOK, Storage, Pages
<1>8. \A K : OwnedBy(stored, K) \subseteq Wallets /\ LinkedTo(stored, K) \subseteq Wallets
  BY <1>7 DEF OwnedBy, LinkedTo
<1>9. \A s : KeysOf(stored, s) \subseteq SeedKeys /\ Listed(stored, s) \subseteq Wallets
  BY <1>7, <1>8 DEF KeysOf, Listed, Under
<1>10. CASE LogOut
  <2>1. stored.keys \cup {Nobody} \in SUBSET (Seeds \cup SeedKeys \cup Wallets \cup {Nobody})
    BY <1>7
  <2>2. Call("logOut", stored.keys \cup {Nobody}) \in Calls
    BY <2>1, CallTypes
  <2> QED
    BY <1>1, <1>2, <1>3, <1>10, <2>2, StartTypes DEF LogOut
<1>11. CASE SaveLedgerAccounts
  <2>1. PICK remove \in Orders(place.unselected), create \in Orders(place.selected) :
             Begin(LedgerBlocks(remove, create),
                   [Stay EXCEPT !.go = IF place.step = "createKey" THEN "seed" ELSE "seeds"])
    BY <1>11 DEF SaveLedgerAccounts
  <2>2. LedgerBlocks(remove, create) \in Seq(Blocks)
    BY <1>7, LedgerBlocksAre DEF ManagementTypeOK
  <2>3. strays' \subseteq Wallets /\ astray' = astray
    BY <1>7, <1>8, <1>11 DEF SaveLedgerAccounts
  <2> QED
    BY <1>1, <1>2, <1>7, <2>1, <2>2, <2>3, BeginTypes
<1>12. CASE OnSubmitKeys
  <2> DEFINE known == KeysOf(stored, place.seed)
             removed == known \ place.selected
             W == OwnedBy(stored, removed) \cap Listed(stored, stored.seed)
             create == place.selected \ known
             calls == KeyCallsOf(create, removed, W)
  <2>1. /\ calls # <<>> /\ Begin(<<calls>>, [Stay EXCEPT !.go = "seed"])
        /\ strays' = strays \cup (OwnedBy(stored, removed) \ W) \cup LinkedTo(stored, removed)
        /\ astray' = (astray \/ OwnerOf[stored.account] \in removed)
    BY <1>12 DEF OnSubmitKeys
  <2>2. create \in SUBSET SeedKeys /\ removed \in SUBSET SeedKeys /\ W \in SUBSET Wallets
    BY <1>7, <1>8, <1>9
  <2> HIDE DEF create, removed, W
  <2>3. Try("createKeys", create) \in Calls /\ Try("removeAccounts", W) \in Calls /\ Try("removeKeys", removed) \in Calls
    BY <2>2, CallTypes
  <2>4. \A c \in Calls : IfAny(c) \in Seq(Calls)
    BY DEF IfAny
  <2>5. calls \in Seq(Calls)
    BY <2>3, <2>4 DEF KeyCallsOf
  <2> HIDE DEF calls
  <2>6. <<calls>> \in Seq(Blocks)
    BY <2>1, <2>5 DEF Blocks
  <2>7. strays' \subseteq Wallets /\ astray' \in BOOLEAN
    BY <1>7, <1>8, <2>1
  <2> QED
    BY <1>1, <1>2, <2>1, <2>6, <2>7, BeginTypes
<1>13. CASE OnSelectAccount
  <2> DEFINE item == IF ReachedByKey THEN Nobody ELSE place.account
             c3 == [Call("selectAccount", {place.account}) EXCEPT !.item = item]
  <2>1. place.account \in Wallets /\ place.seed \in Seeds
    BY <1>7, <1>13 DEF OnSelectAccount, AtStep, ManagementTypeOK
  <2>2. Call("selectSeed", {place.seed}) \in Calls /\ Call("show", {place.account}) \in Calls
    BY <2>1, CallTypes
  <2>3. Call("selectAccount", {place.account}) \in Calls /\ item \in SeedKeys \cup Wallets \cup {Nobody}
    BY <2>1, CallTypes
  <2> HIDE DEF item
  <2>4. c3 \in Calls
    BY <2>3, CallTypes
  <2>5. Start(<<Call("selectSeed", {place.seed}), Call("show", {place.account}), c3>>, [Stay EXCEPT !.go = "main"])
    BY <1>13 DEF OnSelectAccount, item
  <2> HIDE DEF c3
  <2> QED
    BY <1>1, <1>2, <1>5, <2>2, <2>4, <2>5, StartTypes
<1>14. CASE OnToggleVisibility
  <2>1. place.account \in Wallets
    BY <1>14 DEF OnToggleVisibility, AtStep, ManagementTypeOK
  <2>2. Call("hide", {place.account}) \in Calls /\ Call("show", {place.account}) \in Calls
    BY <2>1, CallTypes
  <2> QED
    BY <1>1, <1>3, <1>14, <2>2, StartTypes DEF OnToggleVisibility
<1>15. ASSUME NEW s \in Seeds, NEW W \in SUBSET Wallets, ImportAccount(FirstKeyOf[s], W) PROVE ManagementTypeOK'
  <2>1. FirstKeyOf[s] \in SeedKeys
    BY ManagementAssumption
  <2> DEFINE k == FirstKeyOf[s]
             c1 == Call("createSelectedKey", {k})
             c2 == [Call("look", {k}) EXCEPT !.undo = k]
             c3 == [Call("createAccounts", W) EXCEPT !.undo = k]
             c4 == [Call("ensure", {}) EXCEPT !.undo = k]
  <2>2. c1 \in Calls /\ c2 \in Calls /\ c3 \in Calls /\ c4 \in Calls
    BY <2>1, CallTypes
  <2>3. Start(<<c1, c2, c3, c4>>, Stay)
    BY <1>15 DEF ImportAccount
  <2> HIDE DEF c1, c2, c3, c4
  <2> QED
    BY <1>1, <1>6, <2>2, <2>3, StartTypes
<1>16. ASSUME NEW s \in Seeds, NEW W \in SUBSET Wallets, SubmitSeed(FirstKeyOf[s], W) PROVE ManagementTypeOK'
  <2>1. FirstKeyOf[s] \in SeedKeys
    BY ManagementAssumption
  <2> DEFINE k == FirstKeyOf[s]
             a == [Stay EXCEPT !.go = "key", !.key = k]
             c1 == Call("createKeys", {k})
             c2 == Try("look", {k})
             c3 == Try("createAccounts", W)
             c4 == Try("ensure", {})
  <2>2. c1 \in Calls /\ c2 \in Calls /\ c3 \in Calls /\ c4 \in Calls
    BY <2>1, CallTypes
  <2>3. a \in Ends /\ a.go = "key" /\ a.key \in SeedKeys
    BY <2>1 DEF Stay, Ends
  <2>4. Start(IF W = {} THEN <<c1>> ELSE <<c1, c2, c3, c4>>, a)
    BY <1>16 DEF SubmitSeed
  <2> HIDE DEF c1, c2, c3, c4, a
  <2>5. CASE W = {}
    BY <1>3, <2>2, <2>3, <2>4, <2>5, StartTypes
  <2>6. CASE W # {}
    BY <1>6, <2>2, <2>3, <2>4, <2>6, StartTypes
  <2> QED
    BY <2>5, <2>6
<1>17. ASSUME NEW s \in Seeds, NEW w \in Wallets, NewAccount(FirstKeyOf[s], w) PROVE ManagementTypeOK'
  <2>1. FirstKeyOf[s] \in SeedKeys
    BY ManagementAssumption
  <2> DEFINE k == FirstKeyOf[s]
             c1 == Call("createSelectedKey", {k})
             c2 == CreateUnder(k, w)
  <2>2. c1 \in Calls /\ c2 \in Calls
    BY <2>1, CallTypes DEF CreateUnder
  <2>3. Start(<<c1, c2>>, Stay)
    BY <1>17 DEF NewAccount
  <2> HIDE DEF c1, c2
  <2> QED
    BY <1>1, <1>4, <2>2, <2>3, StartTypes
<1>18. ASSUME NEW s \in LedgerSeeds, NEW K \in SUBSET SeedKeys, LedgerSignIn(s, K) PROVE ManagementTypeOK'
  <2>1. PICK create \in Orders(K) :
             Begin(LedgerBlocks(<<>>, create) \o <<<<Call("look", {s}), Call("selectSeed", {s})>>>>, Stay)
    BY <1>18 DEF LedgerSignIn
  <2>2. <<>> \in Orders({})
    <3>1. Cardinality({}) = 0
      BY FS_EmptySet
    <3> QED
      BY <3>1 DEF Orders
  <2>3. LedgerBlocks(<<>>, create) \in Seq(Blocks)
    BY <2>2, LedgerBlocksAre DEF ManagementTypeOK
  <2>4. s \in Seeds
    BY ManagementAssumption
  <2>5. Call("look", {s}) \in Calls /\ Call("selectSeed", {s}) \in Calls
    BY <2>4, CallTypes
  <2>6. <<<<Call("look", {s}), Call("selectSeed", {s})>>>> \in Seq(Blocks)
    BY <1>4, <2>5
  <2>7. LedgerBlocks(<<>>, create) \o <<<<Call("look", {s}), Call("selectSeed", {s})>>>> \in Seq(Blocks)
    BY <2>3, <2>6
  <2> QED
    BY <1>1, <1>7, <1>18, <2>1, <2>7, BeginTypes DEF LedgerSignIn
<1>19. ASSUME NEW w \in Wallets, Slide(w) PROVE ManagementTypeOK'
  BY <1>1, <1>3, <1>19, CallTypes, StartTypes DEF Slide
<1>20. ASSUME NEW w \in Wallets, NEW calls \in Blocks, SubmitAccount(w, calls) PROVE ManagementTypeOK'
  <2>1. [Stay EXCEPT !.go = "account", !.account = w] \in Ends
    BY DEF Stay, Ends
  <2>2. [Stay EXCEPT !.go = "account", !.account = w].account = w /\ [Stay EXCEPT !.go = "account", !.account = w].go = "account"
    BY DEF Stay
  <2>3. Begin(<<calls>>, [Stay EXCEPT !.go = "account", !.account = w]) /\ strays' \subseteq Wallets /\ astray' = astray
    BY <1>7, <1>20 DEF SubmitAccount
  <2>4. <<calls>> \in Seq(Blocks)
    OBVIOUS
  <2> QED
    BY <1>7, <2>1, <2>2, <2>3, <2>4, BeginTypes
<1>21. ASSUME NEW w \in Wallets, OnSubmit(w) PROVE ManagementTypeOK'
  <2>1. <<Call("createAccount", {w})>> \in Blocks
    BY <1>3, CallTypes
  <2> QED
    BY <1>20, <1>21, <2>1 DEF OnSubmit
<1>22. ASSUME NEW w \in Wallets, OnAddExisting(w) PROVE ManagementTypeOK'
  <2>1. Call("look", {w}) \in Calls /\ Call("createAccount", {w}) \in Calls /\ Call("show", {w}) \in Calls
    BY CallTypes
  <2>2. CASE SubmitAccount(w, <<Call("look", {w}), Call("createAccount", {w})>>)
    BY <1>4, <1>20, <2>1, <2>2
  <2>3. CASE /\ <<w, place.key>> \in Custody
             /\ SubmitAccount(w, <<Call("look", {w}), Call("link", {<<w, place.key>>}),
                                    IF w \in stored.entries THEN Call("show", {w})
                                    ELSE Call("createAccount", {w})>>)
    <3> DEFINE c == IF w \in stored.entries THEN Call("show", {w}) ELSE Call("createAccount", {w})
               c1 == Call("look", {w})
               c2 == Call("link", {<<w, place.key>>})
    <3>1. c2 \in Calls
      BY <2>3, CallTypes, ManagementAssumption
    <3>2. c \in Calls
      BY <2>1
    <3>3. SubmitAccount(w, <<c1, c2, c>>)
      BY <2>3
    <3> HIDE DEF c, c1, c2
    <3> QED
      BY <1>5, <1>20, <2>1, <3>1, <3>2, <3>3 DEF c1
  <2> QED
    BY <1>22, <2>2, <2>3 DEF OnAddExisting
<1>23. ASSUME NEW s \in Seeds, OnSelectMaster(s) PROVE ManagementTypeOK'
  <2>1. CASE \E w \in Listed(stored, s) :
                Start(<<Call("selectSeed", {s}), Call("selectAccount", {w})>>, [Stay EXCEPT !.go = "panel"])
    <3>1. PICK w \in Listed(stored, s) :
                Start(<<Call("selectSeed", {s}), Call("selectAccount", {w})>>, [Stay EXCEPT !.go = "panel"])
      BY <2>1
    <3>2. Call("selectSeed", {s}) \in Calls /\ Call("selectAccount", {w}) \in Calls
      BY <1>9, CallTypes
    <3> QED
      BY <1>1, <1>2, <1>4, <3>1, <3>2, StartTypes
  <2>2. CASE Visit([place EXCEPT !.panel = "seeds", !.step = "manageSeed", !.local = "index", !.seed = s])
    <3>1. place' \in Pages /\ place'.step = "manageSeed"
      BY <2>2 DEF Visit, ManagementTypeOK, Pages
    <3> QED
      BY <2>2, <3>1 DEF Visit, ManagementTypeOK
  <2> QED
    BY <1>23, <2>1, <2>2 DEF OnSelectMaster
<1> QED
  BY <1>10, <1>11, <1>12, <1>13, <1>14, <1>15, <1>16, <1>17, <1>18, <1>19, <1>21, <1>22, <1>23 DEF Handles

(* A call that is made, or fails, is of its kind. *)
LEMMA CallTyped ==
  ASSUME ManagementTypeOK, Succeed \/ Fail
  PROVE  ManagementTypeOK'
<1>1. /\ stored \in Storage /\ strays \subseteq Wallets /\ after \in Ends
      /\ (after.go = "key" => after.key \in SeedKeys) /\ (after.go = "account" => after.account \in Wallets)
      /\ pending \in Seq(Blocks) /\ pending # <<>> /\ astray \in BOOLEAN
  BY DEF ManagementTypeOK, Succeed, Fail
<1>2. NextCall \in Calls /\ Rest \in Seq(Blocks) /\ Tail(pending) \in Seq(Blocks)
  BY <1>1, RestIs, WithoutFirst
<1>3. CASE Succeed
  <2>1. PICK b \in Outcomes(stored, NextCall) :
          /\ stored' = b /\ Continue(Rest, after)
          /\ astray' = (LosesSelected(NextCall, stored, b) \/ (astray /\ ~FindsSelected(NextCall)))
          /\ strays' = strays \ (stored.entries \ b.entries)
    BY <1>3 DEF Succeed
  <2>2. stored' \in Storage
    BY <1>1, <1>2, <2>1, OutcomeTypes
  <2>3. strays' \subseteq Wallets /\ astray' \in BOOLEAN /\ UNCHANGED handlers
    BY <1>1, <1>3, <2>1 DEF Succeed
  <2> QED
    BY <1>1, <1>2, <2>1, <2>2, <2>3, ContinueTypes
<1>4. CASE Fail
  <2> DEFINE c == NextCall
             undone == IF c.undo = Nobody THEN <<>>
                       ELSE <<<<[Call("removeKeys", {c.undo}) EXCEPT !.item = c.undo]>>>>
             a == IF c.stay THEN Stay ELSE after
  <2>1. PICK b \in Failures(stored, c) :
          /\ stored' = b /\ Continue(undone \o Tail(pending), a)
          /\ astray' = (astray \/ LosesSelected(c, stored, b) \/ Interrupted(pending, b))
          /\ strays' = (strays \cup OwnedBy(b, {c.undo}) \cup LinkedTo(b, {c.undo})) \ (stored.entries \ b.entries)
    BY <1>4 DEF Fail
  <2>2. b \in Storage
    BY <1>1, <1>2, <2>1, OutcomeTypes
  <2>3. strays' \subseteq Wallets /\ astray' \in BOOLEAN /\ UNCHANGED handlers
    BY <1>1, <1>4, <2>1, <2>2 DEF Fail, OwnedBy, LinkedTo, Storage
  <2>4. undone \in Seq(Blocks)
    <3>1. CASE c.undo = Nobody
      BY <3>1
    <3>2. CASE c.undo # Nobody
      <4>1. c.undo \in SeedKeys
        BY <1>2, <3>2 DEF Calls, CallsOf
      <4>2. [Call("removeKeys", {c.undo}) EXCEPT !.item = c.undo] \in Calls
        BY <4>1, CallTypes
      <4>3. <<[Call("removeKeys", {c.undo}) EXCEPT !.item = c.undo]>> \in Blocks
        BY <4>2 DEF Blocks
      <4> QED
        BY <3>2, <4>3
    <3> QED
      BY <3>1, <3>2
  <2>5. a \in Ends /\ (a.go = "key" => a.key \in SeedKeys) /\ (a.go = "account" => a.account \in Wallets)
    BY <1>1 DEF Stay, Ends
  <2> HIDE DEF undone, a
  <2>6. undone \o Tail(pending) \in Seq(Blocks)
    BY <1>2, <2>4
  <2> QED
    BY <2>1, <2>2, <2>3, <2>5, <2>6, ContinueTypes
<1> QED
  BY <1>3, <1>4

(* The types are kept. *)
LEMMA ManagementNextTypes == ManagementTypeOK /\ [ManagementNext]_managementVars => ManagementTypeOK'
<1> SUFFICES ASSUME ManagementTypeOK, [ManagementNext]_managementVars PROVE ManagementTypeOK'
  OBVIOUS
<1>1. CASE Succeed \/ Fail
  BY <1>1, CallTyped
<1>2. CASE CloseWindow
  BY <1>2 DEF CloseWindow, ManagementTypeOK, Closed, Pages, Stay, Ends
<1>3. CASE Turns
  BY <1>3, TurnTyped DEF ManagementTypeOK
<1>4. CASE Handles
  BY <1>4, HandleTyped
<1>5. CASE UNCHANGED managementVars
  BY <1>5 DEF managementVars, ManagementTypeOK
<1> QED
  BY <1>1, <1>2, <1>3, <1>4, <1>5, TurnsAndHandles

(* They hold at first. *)
LEMMA ManagementInitTypes == ManagementInit => ManagementTypeOK
<1> SUFFICES ASSUME ManagementInit PROVE ManagementTypeOK
  OBVIOUS
<1>1. Nothing \in Storage
  BY DEF Nothing, Storage
<1>2. Closed \in Pages /\ Closed.step = "manageSeeds"
  BY DEF Closed, Pages
<1>3. Stay \in Ends /\ Stay.go = "stay"
  BY DEF Stay, Ends
<1>4. <<>> \in Seq(Blocks)
  OBVIOUS
<1>5. stored \in Storage
  BY <1>1, ManagementAssumption DEF ManagementInit
<1>6. strays \subseteq Wallets /\ astray \in BOOLEAN
  BY <1>5 DEF ManagementInit, Storage
<1> QED
  BY <1>2, <1>3, <1>4, <1>5, <1>6 DEF ManagementInit, ManagementTypeOK

----------------------------------------------------------------------------
(* Accounts have keys. *)

HasKey(b, w) == OwnerOf[w] \in b.keys \/ \E k \in b.keys : <<w, k>> \in b.external

CreateNames == {"createAccount", "createAccounts"}
AddNames == CreateNames \cup {"link"}
RemoveNames == {"removeKeys", "removeAccounts", "logOut"}
Names(block) == {block[j].name : j \in DOMAIN block}

(* Before a key is removed its accounts are, but for those that stray. *)
RemovalSafe(block, b, S) ==
    \A j \in DOMAIN block : block[j].name = "removeKeys" =>
       \A w \in OwnedBy(b, block[j].of) \cup LinkedTo(b, block[j].of) :
          w \in S \/ \E l \in 1 .. (j - 1) : block[l].name = "removeAccounts" /\ w \in block[l].of

(* Before an account is created its key is. *)
KeyBefore(block, j, w) ==
    \E l \in 1 .. (j - 1) :
       block[l].name \in {"createKeys", "createSelectedKey"} /\ OwnerOf[w] \in block[l].of

Waiting(block) ==
    \A j \in DOMAIN block : block[j].name \in CreateNames =>
       \A w \in block[j].of : KeyBefore(block, j, w)

(* In the block under way the key may be there, or the link to another. *)
Links(c, w, b) == c.name = "link" /\ \E k \in b.keys : <<w, k>> \in c.of
LinkBefore(block, j, w, b) == \E l \in 1 .. (j - 1) : Links(block[l], w, b)

Supplied(block, b, S) ==
    \A j \in DOMAIN block : block[j].name \in CreateNames =>
       \A w \in block[j].of :
          w \in S \/ HasKey(b, w) \/ KeyBefore(block, j, w) \/ LinkBefore(block, j, w, b)

(* What removes comes before what adds, in blocks of its own. *)
Ordered(P) ==
    /\ \A i \in DOMAIN P : Names(P[i]) \cap CreateNames # {} => Names(P[i]) \cap RemoveNames = {}
    /\ \A i, j \in DOMAIN P : i <= j /\ "removeKeys" \in Names(P[j]) => Names(P[i]) \cap AddNames = {}

KeysSafe(P, b, S) ==
    /\ \A w \in b.entries \ S : HasKey(b, w)
    /\ \A i \in DOMAIN P : RemovalSafe(P[i], b, S)
    /\ \A i \in DOMAIN P \ {1} : Waiting(P[i])
    /\ 1 \in DOMAIN P => Supplied(P[1], b, S)
    /\ Ordered(P)

(* What a call changes, made or failed. *)
LEMMA ChangeIs ==
  ASSUME NEW b \in Storage, NEW c \in Calls, NEW d \in Outcomes(b, c) \cup Failures(b, c)
  PROVE  /\ c.name \notin CreateNames => d.entries \subseteq b.entries
         /\ d.entries \subseteq b.entries \cup c.of
         /\ c.name \notin {"removeAccounts", "logOut"} => b.entries \subseteq d.entries
         /\ c.name \notin {"removeKeys", "logOut"} => b.keys \subseteq d.keys
         /\ c.name = "removeKeys" => b.keys \ c.of \subseteq d.keys
         /\ c.name \notin {"link", "logOut"} => d.external = b.external
         /\ c.name = "link" => b.external \subseteq d.external
         /\ c.name = "logOut" => d = b \/ d.entries = {}
<1>1. CASE c.name = "ensure"
  <2>1. d \in Ensured(b) \cup {b}
    BY <1>1 DEF Outcomes, Failures
  <2>2. d.entries = b.entries /\ d.keys = b.keys /\ d.external = b.external
    <3>1. d = b \/ \E w \in b.entries : d \in EnsuredBy(b, w)
      BY <2>1 DEF Ensured
    <3> QED
      BY <3>1 DEF EnsuredBy, Storage
  <2> QED
    BY <1>1, <2>2
<1>2. CASE c.name # "ensure"
  <2>1. PICK part \in SUBSET c.of : d = Effect(b, c.name, part)
    BY <1>2 DEF Outcomes, Failures
  <2>2. CASE part = {} \/ c.name = "look"
    BY <2>1, <2>2 DEF Effect
  <2>3. CASE part # {} /\ c.name \in {"createKeys", "createSelectedKey", "removeKeys"}
    BY <2>1, <2>3 DEF Effect, Storage, CreateNames
  <2>4. CASE part # {} /\ c.name \in {"createAccount", "createAccounts", "removeAccounts"}
    BY <2>1, <2>4 DEF Effect, Storage, CreateNames
  <2>5. CASE part # {} /\ c.name \in {"selectAccount", "show", "hide"}
    BY <2>1, <2>5 DEF Effect, Storage, CreateNames
  <2>6. CASE part # {} /\ c.name \in {"selectSeed", "link"}
    BY <2>1, <2>6 DEF Effect, Storage, CreateNames
  <2>7. CASE part # {} /\ c.name = "logOut"
    BY <2>1, <2>7 DEF Effect, Nothing, CreateNames
  <2> QED
    BY <1>2, <2>2, <2>3, <2>4, <2>5, <2>6, <2>7 DEF Calls, CallsOf
<1> QED
  BY <1>1, <1>2

(* What a call has changed that is made. *)
LEMMA MadeIs ==
  ASSUME NEW b \in Storage, NEW c \in Calls, NEW d \in Outcomes(b, c)
  PROVE  /\ c.name \in {"createKeys", "createSelectedKey"} => c.of \subseteq d.keys
         /\ c.name = "removeAccounts" => d.entries \cap c.of = {}
         /\ c.name = "link" => c.of \subseteq d.external
<1>1. c.name # "ensure" => d = Effect(b, c.name, c.of)
  BY DEF Outcomes
<1>2. CASE c.of = {}
  BY <1>2
<1>3. CASE c.of # {} /\ c.name \in {"createKeys", "createSelectedKey"}
  BY <1>1, <1>3 DEF Effect, Storage
<1>4. CASE c.of # {} /\ c.name = "removeAccounts"
  BY <1>1, <1>4 DEF Effect, Storage
<1>5. CASE c.of # {} /\ c.name = "link"
  BY <1>1, <1>5 DEF Effect, Storage
<1> QED
  BY <1>2, <1>3, <1>4, <1>5

(* What follows a removal is still safe when nothing was added. *)
LEMMA RemovalKept ==
  ASSUME NEW X, NEW b \in Storage, NEW d \in Storage, NEW S, NEW T, RemovalSafe(X, b, S),
         d.entries \subseteq b.entries, d.external = b.external, S \ (b.entries \ d.entries) \subseteq T
  PROVE  RemovalSafe(X, d, T)
BY DEF RemovalSafe, OwnedBy, LinkedTo

(* And what is left of the block, whose accounts removed are not there.     *)
LEMMA RemovalRest ==
  ASSUME NEW X \in Seq(Calls), X # <<>>, NEW b \in Storage, NEW d \in Storage, NEW S, NEW T,
         RemovalSafe(X, b, S), d.entries \subseteq b.entries, d.external = b.external,
         S \ (b.entries \ d.entries) \subseteq T,
         X[1].name = "removeAccounts" => d.entries \cap X[1].of = {}
  PROVE  RemovalSafe(Tail(X), d, T)
<1> SUFFICES ASSUME NEW j \in DOMAIN Tail(X), Tail(X)[j].name = "removeKeys",
                    NEW w \in OwnedBy(d, Tail(X)[j].of) \cup LinkedTo(d, Tail(X)[j].of), w \notin T
             PROVE  \E l \in 1 .. (j - 1) : Tail(X)[l].name = "removeAccounts" /\ w \in Tail(X)[l].of
  BY DEF RemovalSafe
<1>1. /\ j + 1 \in DOMAIN X /\ Tail(X)[j] = X[j + 1] /\ j \in 1 .. (Len(X) - 1) /\ Len(X) \in Nat
      /\ \A i \in 1 .. (Len(X) - 1) : Tail(X)[i] = X[i + 1]
  BY WithoutFirst
<1>2. w \in d.entries /\ w \in OwnedBy(b, X[j + 1].of) \cup LinkedTo(b, X[j + 1].of) /\ w \notin S
  BY <1>1 DEF OwnedBy, LinkedTo
<1>3. PICK l \in 1 .. (j + 1 - 1) : X[l].name = "removeAccounts" /\ w \in X[l].of
  BY <1>1, <1>2 DEF RemovalSafe
<1>4. l # 1
  BY <1>2, <1>3
<1>5. l - 1 \in 1 .. (j - 1) /\ l - 1 \in 1 .. (Len(X) - 1) /\ (l - 1) + 1 = l
  BY <1>1, <1>3, <1>4
<1>6. Tail(X)[l - 1] = X[l]
  BY <1>1, <1>5
<1> QED
  BY <1>3, <1>5, <1>6

(* The accounts still to be created have their keys, or will have. *)
LEMMA SuppliedRest ==
  ASSUME NEW X \in Seq(Calls), X # <<>>, NEW b \in Storage, NEW d \in Storage, NEW S, NEW T,
         Supplied(X, b, S), b.keys \subseteq d.keys, b.external \subseteq d.external, S \subseteq T,
         X[1].name \in {"createKeys", "createSelectedKey"} => X[1].of \subseteq d.keys,
         X[1].name = "link" => X[1].of \subseteq d.external
  PROVE  Supplied(Tail(X), d, T)
<1> SUFFICES ASSUME NEW j \in DOMAIN Tail(X), Tail(X)[j].name \in CreateNames, NEW w \in Tail(X)[j].of,
                    w \notin T, ~HasKey(d, w)
             PROVE  KeyBefore(Tail(X), j, w) \/ LinkBefore(Tail(X), j, w, d)
  BY DEF Supplied
<1>1. /\ j + 1 \in DOMAIN X /\ Tail(X)[j] = X[j + 1] /\ j \in 1 .. (Len(X) - 1) /\ Len(X) \in Nat
      /\ \A i \in 1 .. (Len(X) - 1) : Tail(X)[i] = X[i + 1]
  BY WithoutFirst
<1>2. w \notin S /\ ~HasKey(b, w)
  BY DEF HasKey
<1>3. KeyBefore(X, j + 1, w) \/ LinkBefore(X, j + 1, w, b)
  BY <1>1, <1>2 DEF Supplied
<1>4. CASE KeyBefore(X, j + 1, w)
  <2>1. PICK l \in 1 .. (j + 1 - 1) :
             X[l].name \in {"createKeys", "createSelectedKey"} /\ OwnerOf[w] \in X[l].of
    BY <1>4 DEF KeyBefore
  <2>2. l # 1
    BY <2>1 DEF HasKey
  <2>3. l - 1 \in 1 .. (j - 1) /\ l - 1 \in 1 .. (Len(X) - 1) /\ (l - 1) + 1 = l
    BY <1>1, <2>1, <2>2
  <2>4. Tail(X)[l - 1] = X[l]
    BY <1>1, <2>3
  <2> QED
    BY <2>1, <2>3, <2>4 DEF KeyBefore
<1>5. CASE LinkBefore(X, j + 1, w, b)
  <2>1. PICK l \in 1 .. (j + 1 - 1) : Links(X[l], w, b)
    BY <1>5 DEF LinkBefore
  <2>2. l # 1
    BY <2>1 DEF HasKey, Links
  <2>3. l - 1 \in 1 .. (j - 1) /\ l - 1 \in 1 .. (Len(X) - 1) /\ (l - 1) + 1 = l
    BY <1>1, <2>1, <2>2
  <2>4. Tail(X)[l - 1] = X[l]
    BY <1>1, <2>3
  <2> QED
    BY <2>1, <2>3, <2>4 DEF LinkBefore, Links
<1> QED
  BY <1>3, <1>4, <1>5

(* The names of what is left of a block. *)
LEMMA RestNames ==
  ASSUME NEW X \in Seq(Calls), X # <<>>
  PROVE  Names(Tail(X)) \subseteq Names(X) /\ X[1].name \in Names(X)
<1>1. \A j \in DOMAIN Tail(X) : Tail(X)[j] = X[j + 1] /\ j + 1 \in DOMAIN X
  BY WithoutFirst
<1>2. 1 \in DOMAIN X
  BY WithoutFirst
<1> QED
  BY <1>1, <1>2 DEF Names

(* The order of blocks without the first, or with another first. *)
LEMMA OrderedRest ==
  ASSUME NEW P \in Seq(Blocks), P # <<>>, Ordered(P)
  PROVE  /\ Ordered(Tail(P))
         /\ \A x \in Blocks : Names(x) \subseteq Names(P[1]) \/ Names(x) = {"removeKeys"}
                             => Ordered(<<x>> \o Tail(P))
<1>1. \A i \in DOMAIN Tail(P) : i \in Nat /\ i + 1 \in DOMAIN P /\ Tail(P)[i] = P[i + 1]
  BY WithoutFirst
<1>2. Ordered(Tail(P))
  <2>1. \A i, j \in DOMAIN Tail(P) : i <= j => i + 1 <= j + 1
    BY <1>1
  <2> QED
    BY <1>1, <2>1 DEF Ordered
<1>3. ASSUME NEW x \in Blocks, Names(x) \subseteq Names(P[1]) \/ Names(x) = {"removeKeys"}
      PROVE  Ordered(<<x>> \o Tail(P))
  <2> DEFINE Q == <<x>> \o Tail(P)
  <2>1. Q[1] = x /\ DOMAIN Q = DOMAIN P /\ \A i \in DOMAIN P \ {1} : Q[i] = P[i]
    BY WithFirst
  <2>2. 1 \in DOMAIN P /\ \A i \in DOMAIN P : i \in Nat /\ 1 <= i
    BY WithoutFirst
  <2> HIDE DEF Q
  <2>3. \A i \in DOMAIN Q : Names(Q[i]) \subseteq Names(P[i]) \/ (i = 1 /\ Names(Q[i]) = {"removeKeys"})
    <3>1. Names(Q[1]) \subseteq Names(P[1]) \/ Names(Q[1]) = {"removeKeys"}
      BY <1>3, <2>1
    <3>2. \A i \in DOMAIN P \ {1} : Names(Q[i]) = Names(P[i])
      BY <2>1
    <3> QED
      BY <2>1, <3>1, <3>2
  <2>4. \A i \in DOMAIN Q : Names(Q[i]) \cap CreateNames # {} => Names(Q[i]) \cap RemoveNames = {}
    BY <2>1, <2>3 DEF Ordered, CreateNames, RemoveNames
  <2>5. ASSUME NEW i \in DOMAIN Q, NEW j \in DOMAIN Q, i <= j, "removeKeys" \in Names(Q[j])
        PROVE  Names(Q[i]) \cap AddNames = {}
    <3>1. CASE Names(Q[i]) = {"removeKeys"}
      BY <3>1 DEF AddNames, CreateNames
    <3>2. CASE Names(Q[i]) \subseteq Names(P[i])
      <4>1. CASE Names(Q[j]) \subseteq Names(P[j])
        BY <2>1, <2>5, <3>2, <4>1 DEF Ordered
      <4>2. CASE j = 1
        <5>1. i = 1
          BY <2>1, <2>2, <2>5, <4>2
        <5>2. Names(Q[i]) = {"removeKeys"} \/ "removeKeys" \in Names(P[1])
          BY <1>3, <2>1, <2>5, <4>2, <5>1
        <5> QED
          BY <2>2, <3>1, <3>2, <5>1, <5>2 DEF Ordered
      <4> QED
        BY <2>3, <4>1, <4>2
    <3> QED
      BY <2>3, <3>1, <3>2
  <2> QED
    BY <2>4, <2>5 DEF Ordered, Q
<1> QED
  BY <1>2, <1>3

(* A step of a handler leaves it safe: the call at the head has led from b  *)
(* to d, and is followed by what is left of its block, by the removal of a   *)
(* key, or by the next block.                                                *)
LEMMA SafeAfter ==
  ASSUME NEW P \in Seq(Blocks), P # <<>>, NEW b \in Storage, NEW S, KeysSafe(P, b, S),
         NEW d \in Outcomes(b, P[1][1]) \cup Failures(b, P[1][1]), d \in Storage,
         NEW T, S \ (b.entries \ d.entries) \subseteq T
  PROVE  /\ KeysSafe(Tail(P), d, T \ (b.entries \ d.entries))
         /\ \A x \in Blocks :
               /\ Names(x) \subseteq Names(P[1]) \/ Names(x) = {"removeKeys"}
               /\ RemovalSafe(x, d, T \ (b.entries \ d.entries))
               /\ Supplied(x, d, T \ (b.entries \ d.entries))
               => KeysSafe(<<x>> \o Tail(P), d, T \ (b.entries \ d.entries))
<1> DEFINE c == P[1][1]
           U == T \ (b.entries \ d.entries)
<1>1. P[1] \in Seq(Calls) /\ P[1] # <<>> /\ c \in Calls /\ 1 \in DOMAIN P /\ c.name \in Names(P[1])
  BY WithoutFirst, RestNames DEF Blocks
<1>2. S \ (b.entries \ d.entries) \subseteq U
  OBVIOUS
<1>3. /\ c.name \notin CreateNames => d.entries \subseteq b.entries
      /\ d.entries \subseteq b.entries \cup c.of
      /\ c.name \notin {"removeAccounts", "logOut"} => b.entries \subseteq d.entries
      /\ c.name \notin {"removeKeys", "logOut"} => b.keys \subseteq d.keys
      /\ c.name = "removeKeys" => b.keys \ c.of \subseteq d.keys
      /\ c.name \notin {"link", "logOut"} => d.external = b.external
      /\ c.name = "link" => b.external \subseteq d.external
      /\ c.name = "logOut" => d = b \/ d.entries = {}
  BY <1>1, ChangeIs
<1> HIDE DEF U
<1>4. \A w \in d.entries \ U : HasKey(d, w)
  <2> SUFFICES ASSUME NEW w \in d.entries, w \notin U PROVE HasKey(d, w)
    OBVIOUS
  <2>1. w \notin S
    BY <1>2
  <2>2. CASE c.name = "logOut"
    BY <1>3, <2>1, <2>2 DEF KeysSafe
  <2>3. CASE c.name = "removeKeys"
    <3>1. w \in b.entries /\ HasKey(b, w) /\ d.external = b.external
      BY <1>3, <2>1, <2>3 DEF CreateNames, KeysSafe
    <3>2. w \notin OwnedBy(b, c.of) \cup LinkedTo(b, c.of)
      <4>1. RemovalSafe(P[1], b, S) /\ 1 \in DOMAIN P[1]
        BY <1>1, WithoutFirst DEF KeysSafe
      <4>2. \A v \in OwnedBy(b, c.of) \cup LinkedTo(b, c.of) :
               v \in S \/ \E l \in 1 .. (1 - 1) : P[1][l].name = "removeAccounts" /\ v \in P[1][l].of
        BY <2>3, <4>1 DEF RemovalSafe
      <4>3. 1 .. (1 - 1) = {}
        OBVIOUS
      <4> QED
        BY <2>1, <4>2, <4>3
    <3> QED
      BY <1>3, <2>3, <3>1, <3>2 DEF HasKey, OwnedBy, LinkedTo
  <2>4. CASE c.name \notin {"logOut", "removeKeys"}
    <3>1. b.keys \subseteq d.keys /\ b.external \subseteq d.external
      BY <1>3, <2>4
    <3>2. CASE w \in b.entries
      <4>1. HasKey(b, w)
        BY <2>1, <3>2 DEF KeysSafe
      <4> QED
        BY <3>1, <4>1 DEF HasKey
    <3>3. CASE w \notin b.entries
      <4>1. w \in c.of /\ c.name \in CreateNames
        BY <1>3, <3>3
      <4>2. Supplied(P[1], b, S) /\ 1 \in DOMAIN P[1]
        BY <1>1, WithoutFirst DEF KeysSafe
      <4>3. HasKey(b, w) \/ KeyBefore(P[1], 1, w) \/ LinkBefore(P[1], 1, w, b)
        BY <2>1, <4>1, <4>2 DEF Supplied
      <4>4. ~KeyBefore(P[1], 1, w) /\ ~LinkBefore(P[1], 1, w, b)
        BY DEF KeyBefore, LinkBefore
      <4> QED
        BY <3>1, <4>3, <4>4 DEF HasKey
    <3> QED
      BY <3>2, <3>3
  <2> QED
    BY <2>2, <2>3, <2>4
<1>5. \A i \in DOMAIN P : RemovalSafe(P[i], d, U)
  <2> SUFFICES ASSUME NEW i \in DOMAIN P PROVE RemovalSafe(P[i], d, U)
    OBVIOUS
  <2>1. RemovalSafe(P[i], b, S)
    BY DEF KeysSafe
  <2>2. CASE c.name \in AddNames
    <3>1. 1 <= i
      BY WithoutFirst
    <3>2. "removeKeys" \notin Names(P[i])
      BY <1>1, <2>2, <3>1 DEF KeysSafe, Ordered
    <3> QED
      BY <3>2 DEF RemovalSafe, Names
  <2>3. CASE c.name = "logOut" /\ d # b
    BY <1>3, <2>3 DEF RemovalSafe, OwnedBy, LinkedTo
  <2>4. CASE c.name \notin AddNames /\ (c.name # "logOut" \/ d = b)
    <3>1. d.entries \subseteq b.entries /\ d.external = b.external
      BY <1>3, <2>4 DEF AddNames
    <3> QED
      BY <1>2, <2>1, <3>1, RemovalKept
  <2> QED
    BY <2>2, <2>3, <2>4
<1>6. \A i \in DOMAIN P \ {1} : Waiting(P[i])
  BY DEF KeysSafe
<1>7. /\ Ordered(P) /\ Ordered(Tail(P))
      /\ \A x \in Blocks : Names(x) \subseteq Names(P[1]) \/ Names(x) = {"removeKeys"}
                          => Ordered(<<x>> \o Tail(P))
  BY OrderedRest DEF KeysSafe
<1>8. KeysSafe(Tail(P), d, U)
  <2>1. \A i \in DOMAIN Tail(P) : i + 1 \in DOMAIN P \ {1} /\ Tail(P)[i] = P[i + 1]
    BY WithoutFirst
  <2>2. \A i \in DOMAIN Tail(P) : RemovalSafe(Tail(P)[i], d, U) /\ Waiting(Tail(P)[i])
    BY <1>5, <1>6, <2>1
  <2>3. 1 \in DOMAIN Tail(P) => Supplied(Tail(P)[1], d, U)
    BY <2>2 DEF Waiting, Supplied
  <2> QED
    BY <1>4, <1>7, <2>2, <2>3 DEF KeysSafe
<1>9. ASSUME NEW x \in Blocks, Names(x) \subseteq Names(P[1]) \/ Names(x) = {"removeKeys"},
             RemovalSafe(x, d, U), Supplied(x, d, U)
      PROVE  KeysSafe(<<x>> \o Tail(P), d, U)
  <2> DEFINE Q == <<x>> \o Tail(P)
  <2>1. Q[1] = x /\ DOMAIN Q = DOMAIN P /\ \A i \in DOMAIN P \ {1} : Q[i] = P[i]
    BY WithFirst
  <2>2. Ordered(Q)
    BY <1>7, <1>9
  <2> HIDE DEF Q
  <2>3. \A i \in DOMAIN Q : RemovalSafe(Q[i], d, U)
    <3>1. \A i \in DOMAIN P \ {1} : RemovalSafe(Q[i], d, U)
      BY <1>5, <2>1
    <3> QED
      BY <1>9, <2>1, <3>1
  <2>4. \A i \in DOMAIN Q \ {1} : Waiting(Q[i])
    BY <1>6, <2>1
  <2> QED
    BY <1>4, <1>9, <2>1, <2>2, <2>3, <2>4 DEF KeysSafe, Q
<1> QED
  BY <1>8, <1>9 DEF U

(* A call that is made. *)
LEMMA SucceedSafe ==
  ASSUME ManagementTypeOK, KeysSafe(pending, stored, strays), Succeed
  PROVE  KeysSafe(pending, stored, strays)'
<1> DEFINE P == pending
           b == stored
           S == strays
           c == P[1][1]
           d == stored'
           U == S \ (b.entries \ d.entries)
<1>1. P \in Seq(Blocks) /\ P # <<>> /\ b \in Storage
  BY DEF ManagementTypeOK, Succeed
<1>2. /\ NextCall = c /\ c \in Calls /\ P[1] \in Seq(Calls) /\ P[1] # <<>>
      /\ Rest = Tail(P) \/ (Tail(P[1]) \in Blocks /\ Rest = <<Tail(P[1])>> \o Tail(P))
  BY <1>1, RestIs
<1>3. d \in Outcomes(b, c) /\ pending' = Rest /\ strays' = U
  BY <1>2 DEF Succeed, Continue
<1>4. d \in Storage
  BY <1>1, <1>2, <1>3, OutcomeTypes
<1>5. /\ c.name \notin CreateNames => d.entries \subseteq b.entries
      /\ c.name \notin {"removeAccounts", "logOut"} => b.entries \subseteq d.entries
      /\ c.name \notin {"removeKeys", "logOut"} => b.keys \subseteq d.keys
      /\ c.name \notin {"link", "logOut"} => d.external = b.external
      /\ c.name = "link" => b.external \subseteq d.external
      /\ c.name = "logOut" => d = b \/ d.entries = {}
      /\ c.name \in {"createKeys", "createSelectedKey"} => c.of \subseteq d.keys
      /\ c.name = "removeAccounts" => d.entries \cap c.of = {}
      /\ c.name = "link" => c.of \subseteq d.external
  BY <1>1, <1>2, <1>3, ChangeIs, MadeIs
<1>6. /\ KeysSafe(Tail(P), d, U)
      /\ \A x \in Blocks :
            /\ Names(x) \subseteq Names(P[1]) \/ Names(x) = {"removeKeys"}
            /\ RemovalSafe(x, d, U) /\ Supplied(x, d, U)
            => KeysSafe(<<x>> \o Tail(P), d, U)
  <2>1. d \in Outcomes(b, c) \cup Failures(b, c) /\ S \ (b.entries \ d.entries) \subseteq S
    BY <1>3
  <2> QED
    BY <1>1, <1>4, <2>1, SafeAfter
<1> HIDE DEF U
<1>7. CASE Rest = Tail(P)
  BY <1>3, <1>6, <1>7
<1>8. CASE Tail(P[1]) \in Blocks /\ Rest = <<Tail(P[1])>> \o Tail(P)
  <2>1. Names(Tail(P[1])) \subseteq Names(P[1]) /\ c.name \in Names(P[1])
    BY <1>2, RestNames
  <2>2. 1 \in DOMAIN P /\ Ordered(P) /\ RemovalSafe(P[1], b, S) /\ Supplied(P[1], b, S)
    BY <1>1, WithoutFirst DEF KeysSafe
  <2>3. RemovalSafe(Tail(P[1]), d, U)
    <3>1. CASE c.name \in AddNames
      <4>1. "removeKeys" \notin Names(P[1])
        BY <2>1, <2>2, <3>1 DEF Ordered
      <4>2. "removeKeys" \notin Names(Tail(P[1]))
        BY <2>1, <4>1
      <4> QED
        BY <4>2 DEF RemovalSafe, Names
    <3>2. CASE c.name = "logOut" /\ d # b
      BY <1>5, <3>2 DEF RemovalSafe, OwnedBy, LinkedTo
    <3>3. CASE c.name \notin AddNames /\ (c.name # "logOut" \/ d = b)
      <4>1. d.entries \subseteq b.entries /\ d.external = b.external
        BY <1>5, <3>3 DEF AddNames
      <4>2. S \ (b.entries \ d.entries) \subseteq U
        BY DEF U
      <4> QED
        BY <1>1, <1>2, <1>4, <1>5, <2>2, <4>1, <4>2, RemovalRest
    <3> QED
      BY <3>1, <3>2, <3>3
  <2>4. Supplied(Tail(P[1]), d, U)
    <3>1. CASE Names(P[1]) \cap CreateNames = {}
      <4>1. Names(Tail(P[1])) \cap CreateNames = {}
        BY <2>1, <3>1
      <4> QED
        BY <4>1 DEF Supplied, Names
    <3>2. CASE Names(P[1]) \cap CreateNames # {}
      <4>1. c.name \notin RemoveNames
        BY <2>1, <2>2, <3>2 DEF Ordered
      <4>2. b.keys \subseteq d.keys /\ b.external \subseteq d.external /\ b.entries \subseteq d.entries
        BY <1>5, <4>1 DEF RemoveNames
      <4>3. S \subseteq U
        BY <4>2 DEF U
      <4> QED
        BY <1>1, <1>2, <1>4, <1>5, <2>2, <4>2, <4>3, SuppliedRest
    <3> QED
      BY <3>1, <3>2
  <2>5. KeysSafe(<<Tail(P[1])>> \o Tail(P), d, U)
    BY <1>6, <1>8, <2>1, <2>3, <2>4
  <2> QED
    BY <1>3, <1>8, <2>5
<1> QED
  BY <1>2, <1>7, <1>8

(* A call that fails. *)
LEMMA FailSafe ==
  ASSUME ManagementTypeOK, KeysSafe(pending, stored, strays), Fail
  PROVE  KeysSafe(pending, stored, strays)'
<1> DEFINE P == pending
           b == stored
           S == strays
           c == P[1][1]
           d == stored'
           T == S \cup OwnedBy(d, {c.undo}) \cup LinkedTo(d, {c.undo})
           U == T \ (b.entries \ d.entries)
           x == <<[Call("removeKeys", {c.undo}) EXCEPT !.item = c.undo]>>
<1>1. P \in Seq(Blocks) /\ P # <<>> /\ b \in Storage
  BY DEF ManagementTypeOK, Fail
<1>2. NextCall = c /\ c \in Calls /\ Tail(P) \in Seq(Blocks)
  BY <1>1, RestIs, WithoutFirst
<1>3. /\ d \in Failures(b, c) /\ strays' = U
      /\ pending' = (IF c.undo = Nobody THEN <<>> ELSE <<x>>) \o Tail(P)
  BY <1>2 DEF Fail, Continue
<1>4. d \in Storage
  BY <1>1, <1>2, <1>3, OutcomeTypes
<1>5. /\ KeysSafe(Tail(P), d, U)
      /\ \A y \in Blocks :
            /\ Names(y) \subseteq Names(P[1]) \/ Names(y) = {"removeKeys"}
            /\ RemovalSafe(y, d, U) /\ Supplied(y, d, U)
            => KeysSafe(<<y>> \o Tail(P), d, U)
  <2>1. d \in Outcomes(b, c) \cup Failures(b, c) /\ S \ (b.entries \ d.entries) \subseteq T
    BY <1>3
  <2> HIDE DEF T
  <2> QED
    BY <1>1, <1>4, <2>1, SafeAfter
<1>6. CASE c.undo = Nobody
  <2>1. pending' = Tail(P)
    BY <1>2, <1>3, <1>6
  <2> HIDE DEF U
  <2> QED
    BY <1>3, <1>5, <2>1
<1>7. CASE c.undo # Nobody
  <2> DEFINE k == c.undo
             r == [Call("removeKeys", {k}) EXCEPT !.item = k]
  <2>1. k \in SeedKeys
    BY <1>2, <1>7 DEF Calls, CallsOf
  <2>2. r \in Calls /\ r.name = "removeKeys" /\ r.of = {k}
    BY <2>1, CallTypes DEF Call
  <2>3. x = <<r>>
    OBVIOUS
  <2>4. \A w \in OwnedBy(d, {k}) \cup LinkedTo(d, {k}) : w \in U
    BY DEF OwnedBy, LinkedTo
  <2> HIDE DEF U, x, r, T
  <2>5. x \in Blocks /\ DOMAIN x = {1} /\ x[1] = r
    BY <2>2, <2>3 DEF Blocks
  <2>6. Names(x) = {"removeKeys"}
    BY <2>2, <2>5 DEF Names
  <2>7. RemovalSafe(x, d, U)
    BY <2>2, <2>4, <2>5 DEF RemovalSafe
  <2>8. Supplied(x, d, U)
    BY <2>2, <2>5 DEF Supplied, CreateNames
  <2>9. pending' = <<x>> \o Tail(P)
    BY <1>3, <1>7
  <2> QED
    BY <1>3, <1>5, <2>5, <2>6, <2>7, <2>8, <2>9
<1> QED
  BY <1>6, <1>7

(* A handler of one block that is safe. *)
LEMMA OneBlockSafe ==
  ASSUME NEW X, NEW b, NEW S, \A w \in b.entries \ S : HasKey(b, w),
         RemovalSafe(X, b, S), Supplied(X, b, S),
         Names(X) \cap CreateNames # {} => Names(X) \cap RemoveNames = {},
         "removeKeys" \in Names(X) => Names(X) \cap AddNames = {}
  PROVE  KeysSafe(<<X>>, b, S)
<1>1. DOMAIN <<X>> = {1} /\ <<X>>[1] = X
  OBVIOUS
<1>2. Ordered(<<X>>)
  BY <1>1 DEF Ordered
<1> QED
  BY <1>1, <1>2 DEF KeysSafe

(* One that neither creates an account nor removes a key is. *)
LEMMA HarmlessSafe ==
  ASSUME NEW X, NEW b, NEW S, \A w \in b.entries \ S : HasKey(b, w),
         \A j \in DOMAIN X : X[j].name \notin CreateNames \cup {"removeKeys"}
  PROVE  KeysSafe(<<X>>, b, S)
<1>1. Names(X) \cap CreateNames = {} /\ "removeKeys" \notin Names(X)
  BY DEF Names
<1>2. RemovalSafe(X, b, S) /\ Supplied(X, b, S)
  BY DEF RemovalSafe, Supplied
<1> QED
  BY <1>1, <1>2, OneBlockSafe

(* And one that creates a key and accounts of it. *)
LEMMA KeyFirstWaits ==
  ASSUME NEW X \in Blocks, NEW k, X[1].name \in {"createKeys", "createSelectedKey"}, k \in X[1].of,
         \A j \in DOMAIN X : X[j].name \notin RemoveNames \cup {"link"},
         \A j \in DOMAIN X : X[j].name \in CreateNames => \A w \in X[j].of : OwnerOf[w] = k
  PROVE  /\ Waiting(X) /\ Names(X) \cap RemoveNames = {}
         /\ \A b, S : RemovalSafe(X, b, S) /\ Supplied(X, b, S)
<1>1. Names(X) \cap RemoveNames = {} /\ \A j \in DOMAIN X : X[j].name # "removeKeys"
  BY DEF Names, RemoveNames
<1>2. ASSUME NEW j \in DOMAIN X, X[j].name \in CreateNames, NEW w \in X[j].of PROVE KeyBefore(X, j, w)
  <2>1. j # 1
    BY <1>2 DEF CreateNames
  <2>2. 1 \in 1 .. (j - 1)
    BY <2>1 DEF Blocks
  <2> QED
    BY <1>2, <2>2 DEF KeyBefore
<1> QED
  BY <1>1, <1>2 DEF Waiting, Supplied, RemovalSafe

(* It keeps the keys of the accounts. *)
LEMMA KeyFirstSafe ==
  ASSUME NEW X \in Blocks, NEW k, X[1].name \in {"createKeys", "createSelectedKey"}, k \in X[1].of,
         \A j \in DOMAIN X : X[j].name \notin RemoveNames \cup {"link"},
         \A j \in DOMAIN X : X[j].name \in CreateNames => \A w \in X[j].of : OwnerOf[w] = k,
         NEW b, NEW S, \A w \in b.entries \ S : HasKey(b, w)
  PROVE  KeysSafe(<<X>>, b, S)
<1>1. Names(X) \cap RemoveNames = {} /\ RemovalSafe(X, b, S) /\ Supplied(X, b, S)
  BY KeyFirstWaits
<1>2. "removeKeys" \notin Names(X)
  BY <1>1 DEF RemoveNames
<1> QED
  BY <1>1, <1>2, OneBlockSafe

(* The blocks for the keys of a Ledger: the accounts of the keys removed are *)
(* strays.                                                                    *)
LEMMA LedgerSafe ==
  ASSUME stored \in Storage, NEW R \in SUBSET SeedKeys, NEW C \in SUBSET SeedKeys,
         NEW remove \in Orders(R), NEW create \in Orders(C), NEW S,
         OwnedBy(stored, R) \cup LinkedTo(stored, R) \subseteq S
  PROVE  LET L == LedgerBlocks(remove, create)
         IN  /\ L \in Seq(Blocks) /\ Ordered(L)
             /\ \A i \in DOMAIN L : RemovalSafe(L[i], stored, S) /\ Waiting(L[i])
             /\ R = {} => \A i \in DOMAIN L : Names(L[i]) \cap RemoveNames = {}
<1> DEFINE L == LedgerBlocks(remove, create)
<1>1. L \in Seq(Blocks)
  BY LedgerBlocksAre
<1>2. PICK n \in 0 .. Len(L) :
          /\ \A i \in 1 .. n : \E k \in R : L[i] = LedgerRemoval(k)
          /\ \A i \in (n + 1) .. Len(L) : \E k \in C : L[i] = LedgerCreation(k)
  BY LedgerBlocksAre
<1> HIDE DEF L
<1>3. ASSUME NEW k \in R
      PROVE  LET X == LedgerRemoval(k)
             IN  /\ RemovalSafe(X, stored, S) /\ Waiting(X)
                 /\ Names(X) \cap AddNames = {}
  <2> DEFINE c1 == OfKey(k, Call("removeKeys", {k}))
             c2 == OfKey(k, Call("removeAccounts", {CHOOSE w \in OwnedBy(stored, {k}) : TRUE}))
             X == LedgerRemoval(k)
  <2>1. c1.name = "removeKeys" /\ c1.of = {k} /\ c2.name = "removeAccounts"
    BY DEF OfKey, Call
  <2>2. X = <<c1>> \o <<>> \/ X = <<c1>> \o <<c2>>
    BY DEF LedgerRemoval
  <2> HIDE DEF c1, c2, X
  <2>3. \A j \in DOMAIN X : X[j] = c1 \/ X[j] = c2
    BY <2>2
  <2>4. \A w \in OwnedBy(stored, {k}) \cup LinkedTo(stored, {k}) : w \in S
    BY DEF OwnedBy, LinkedTo
  <2>5. RemovalSafe(X, stored, S)
    BY <2>1, <2>3, <2>4 DEF RemovalSafe
  <2>6. Waiting(X) /\ Names(X) \cap AddNames = {}
    BY <2>1, <2>3 DEF Waiting, Names, AddNames, CreateNames
  <2> QED
    BY <2>5, <2>6 DEF X
<1>4. ASSUME NEW k \in C
      PROVE  LET X == LedgerCreation(k)
             IN  /\ RemovalSafe(X, stored, S) /\ Waiting(X)
                 /\ Names(X) \cap RemoveNames = {}
  <2> DEFINE w == CHOOSE w \in Wallets : OwnerOf[w] = k
             c1 == OfKey(k, Call("createKeys", {k}))
             c2 == OfKey(k, CreateUnder(k, w))
             X == LedgerCreation(k)
  <2>1. OwnerOf[w] = k /\ w \in Wallets
    BY ManagementAssumption
  <2> HIDE DEF w
  <2>2. c1.name = "createKeys" /\ c1.of = {k} /\ c2.name = "createAccount" /\ c2.of = {w} /\ c1 \in Calls /\ c2 \in Calls
    BY <2>1 DEF OfKey, Call, CreateUnder, Calls, CallsOf
  <2>3. X = <<c1, c2>>
    BY DEF LedgerCreation, w
  <2> HIDE DEF c1, c2, X
  <2>4. X \in Blocks /\ X[1] = c1 /\ \A j \in DOMAIN X : X[j] = c1 \/ X[j] = c2
    BY <2>2, <2>3 DEF Blocks
  <2>5. \A j \in DOMAIN X : X[j].name \notin RemoveNames \cup {"link"}
    BY <2>2, <2>4 DEF RemoveNames
  <2>6. \A j \in DOMAIN X : X[j].name \in CreateNames => \A v \in X[j].of : OwnerOf[v] = k
    BY <2>1, <2>2, <2>4 DEF CreateNames
  <2>7. X[1].name \in {"createKeys", "createSelectedKey"} /\ k \in X[1].of
    BY <2>2, <2>4
  <2> QED
    BY <2>4, <2>5, <2>6, <2>7, KeyFirstWaits DEF X
<1>5. DOMAIN L = 1 .. Len(L) /\ Len(L) \in Nat
  BY <1>1
<1>6. \A i \in DOMAIN L :
         \/ i \in 1 .. n /\ \E k \in R : L[i] = LedgerRemoval(k)
         \/ i \in (n + 1) .. Len(L) /\ \E k \in C : L[i] = LedgerCreation(k)
  BY <1>2, <1>5
<1>7. \A i \in DOMAIN L : RemovalSafe(L[i], stored, S) /\ Waiting(L[i])
  BY <1>3, <1>4, <1>6
<1>8. /\ \A i \in DOMAIN L : i <= n => Names(L[i]) \cap AddNames = {}
      /\ \A i \in DOMAIN L : i > n => Names(L[i]) \cap RemoveNames = {}
  <2>1. \A i \in 1 .. n : i <= n /\ ~(i > n)
    BY <1>2
  <2>2. \A i \in (n + 1) .. Len(L) : i > n /\ ~(i <= n)
    BY <1>2, <1>5
  <2>3. ASSUME NEW i \in DOMAIN L, i <= n
        PROVE  Names(L[i]) \cap AddNames = {}
    <3>1. PICK k \in R : L[i] = LedgerRemoval(k)
      BY <1>6, <2>2, <2>3
    <3> QED
      BY <1>3, <3>1
  <2>4. ASSUME NEW i \in DOMAIN L, i > n
        PROVE  Names(L[i]) \cap RemoveNames = {}
    <3>1. PICK k \in C : L[i] = LedgerCreation(k)
      BY <1>6, <2>1, <2>4
    <3> QED
      BY <1>4, <3>1
  <2> QED
    BY <2>3, <2>4
<1>9. Ordered(L)
  <2>1. \A i \in DOMAIN L : Names(L[i]) \cap CreateNames # {} => Names(L[i]) \cap RemoveNames = {}
    BY <1>8 DEF AddNames
  <2>2. ASSUME NEW i \in DOMAIN L, NEW j \in DOMAIN L, i <= j, "removeKeys" \in Names(L[j])
        PROVE  Names(L[i]) \cap AddNames = {}
    <3>1. ~(j > n)
      BY <1>8, <2>2 DEF RemoveNames
    <3>2. i <= n
      BY <1>2, <1>5, <2>2, <3>1
    <3> QED
      BY <1>8, <3>2
  <2>3. ASSUME NEW i \in DOMAIN L, Names(L[i]) \cap CreateNames # {}
        PROVE  Names(L[i]) \cap RemoveNames = {}
    <3>1. ~(i <= n)
      BY <1>8, <2>3 DEF AddNames
    <3>2. i > n
      BY <1>2, <1>5, <3>1
    <3> QED
      BY <1>8, <3>2
  <2> QED
    BY <2>2, <2>3 DEF Ordered
<1>10. R = {} => \A i \in DOMAIN L : Names(L[i]) \cap RemoveNames = {}
  BY <1>4, <1>6
<1> QED
  BY <1>1, <1>7, <1>9, <1>10 DEF L

(* The keys that are chosen: what of their accounts is removed is, first.    *)
LEMMA KeyCallsSafe ==
  ASSUME NEW create \in SUBSET SeedKeys, NEW removed \in SUBSET SeedKeys, NEW W \in SUBSET Wallets,
         NEW S, \A w \in OwnedBy(stored, removed) \cup LinkedTo(stored, removed) : w \in S \cup W
  PROVE  LET X == KeyCallsOf(create, removed, W)
         IN  RemovalSafe(X, stored, S) /\ Names(X) \cap AddNames = {}
<1> DEFINE a == Try("createKeys", create)
           b == Try("removeAccounts", W)
           c == Try("removeKeys", removed)
           x == IfAny(a)
           y == IfAny(b)
           z == IfAny(c)
           X == KeyCallsOf(create, removed, W)
<1>1. /\ a.name = "createKeys" /\ b.name = "removeAccounts" /\ c.name = "removeKeys"
      /\ b.of = W /\ c.of = removed /\ a \in Calls /\ b \in Calls /\ c \in Calls
  <2>1. a \in Calls /\ b \in Calls /\ c \in Calls
    BY CallTypes
  <2> QED
    BY <2>1 DEF Try, Call
<1>2. x \in {<<>>, <<a>>} /\ y = (IF b.of = {} THEN <<>> ELSE <<b>>) /\ z \in {<<>>, <<c>>}
  BY DEF IfAny
<1>3. X = (x \o y) \o z
  BY DEF KeyCallsOf
<1> HIDE DEF a, b, c, x, y, z, X
<1>4. x \in Seq(Calls) /\ y \in Seq(Calls) /\ z \in Seq(Calls)
  <2>1. \A d \in Calls : <<d>> \in Seq(Calls)
    OBVIOUS
  <2>2. <<>> \in Seq(Calls)
    OBVIOUS
  <2> QED
    BY <1>1, <1>2, <2>1, <2>2
<1>5. X \in Seq(Calls) /\ Len(X) = Len(x) + Len(y) + Len(z)
  BY <1>3, <1>4
<1>6. /\ \A j \in 1 .. Len(x) : X[j] = a
      /\ \A j \in (Len(x) + 1) .. (Len(x) + Len(y)) : X[j] = b
      /\ \A j \in (Len(x) + Len(y) + 1) .. Len(X) : X[j] = c
  <2>1. \A j \in 1 .. Len(x) : x[j] = a
    BY <1>2
  <2>2. \A j \in 1 .. Len(y) : y[j] = b
    BY <1>2
  <2>3. \A j \in 1 .. Len(z) : z[j] = c
    BY <1>2
  <2>4. /\ \A j \in 1 .. Len(x) : X[j] = x[j]
        /\ \A j \in (Len(x) + 1) .. (Len(x) + Len(y)) : X[j] = y[j - Len(x)]
        /\ \A j \in (Len(x) + Len(y) + 1) .. Len(X) : X[j] = z[j - Len(x) - Len(y)]
    BY <1>3, <1>4, <1>5
  <2>5. Len(x) \in Nat /\ Len(y) \in Nat /\ Len(z) \in Nat
    BY <1>4
  <2>6. \A j \in (Len(x) + 1) .. (Len(x) + Len(y)) : j - Len(x) \in 1 .. Len(y)
    BY <2>5
  <2>7. \A j \in (Len(x) + Len(y) + 1) .. Len(X) : j - Len(x) - Len(y) \in 1 .. Len(z)
    BY <1>5, <2>5
  <2> QED
    BY <2>1, <2>2, <2>3, <2>4, <2>6, <2>7
<1>7. DOMAIN X = 1 .. Len(X) /\ Len(x) \in Nat /\ Len(y) \in Nat /\ Len(z) \in Nat
  BY <1>4, <1>5
<1>8. \A j \in DOMAIN X : \/ j \in 1 .. Len(x)
                         \/ j \in (Len(x) + 1) .. (Len(x) + Len(y))
                         \/ j \in (Len(x) + Len(y) + 1) .. Len(X)
  BY <1>5, <1>7
<1>9. \A j \in DOMAIN X : X[j] = a \/ X[j] = b \/ X[j] = c
  BY <1>6, <1>8
<1>10. Names(X) \cap AddNames = {}
  BY <1>1, <1>9 DEF Names, AddNames, CreateNames
<1>11. ASSUME NEW j \in DOMAIN X, X[j].name = "removeKeys", NEW w \in W
       PROVE  \E l \in 1 .. (j - 1) : X[l].name = "removeAccounts" /\ w \in X[l].of
  <2>1. y = <<b>>
    BY <1>1, <1>2, <1>11
  <2>2. Len(y) = 1
    BY <2>1
  <2>3. X[Len(x) + 1] = b
    BY <1>6, <1>7, <2>2
  <2>4. j \in (Len(x) + Len(y) + 1) .. Len(X)
    BY <1>1, <1>6, <1>8, <1>11
  <2>5. Len(x) + 1 \in 1 .. (j - 1)
    BY <1>5, <1>7, <2>2, <2>4
  <2> QED
    BY <1>1, <1>11, <2>3, <2>5
<1>12. \A j \in DOMAIN X : X[j].name = "removeKeys" => X[j].of = removed
  BY <1>1, <1>9
<1>13. RemovalSafe(X, stored, S)
  <2> SUFFICES ASSUME NEW j \in DOMAIN X, X[j].name = "removeKeys",
                      NEW w \in OwnedBy(stored, X[j].of) \cup LinkedTo(stored, X[j].of), w \notin S
               PROVE  \E l \in 1 .. (j - 1) : X[l].name = "removeAccounts" /\ w \in X[l].of
    BY DEF RemovalSafe
  <2>1. w \in W
    BY <1>12
  <2> QED
    BY <1>11, <2>1
<1> QED
  BY <1>10, <1>13 DEF X

(* The calls that add an account under a key.                                *)
LEMMA AddSafe ==
  ASSUME NEW X \in Blocks, NEW w, NEW b, NEW S, \A v \in b.entries \ S : HasKey(b, v),
         \A j \in DOMAIN X : X[j].name \notin RemoveNames,
         \A j \in DOMAIN X : X[j].name \in CreateNames =>
            X[j].of = {w} /\ (w \in S \/ HasKey(b, w) \/ LinkBefore(X, j, w, b))
  PROVE  KeysSafe(<<X>>, b, S)
<1>1. Names(X) \cap RemoveNames = {} /\ "removeKeys" \notin Names(X)
  BY DEF Names, RemoveNames
<1>2. RemovalSafe(X, b, S) /\ Supplied(X, b, S)
  BY DEF RemovalSafe, RemoveNames, Supplied
<1> QED
  BY <1>1, <1>2, OneBlockSafe

(* Blocks of which each creates the key before the account.                 *)
LEMMA BlocksSafe ==
  ASSUME NEW P, NEW b, NEW S, \A w \in b.entries \ S : HasKey(b, w), Ordered(P),
         \A i \in DOMAIN P : RemovalSafe(P[i], b, S) /\ Waiting(P[i])
  PROVE  KeysSafe(P, b, S)
BY DEF KeysSafe, Supplied, Waiting

(* Each handler begins with calls that are safe.                            *)
LEMMA HandleSafe ==
  ASSUME ManagementTypeOK, KeysSafe(pending, stored, strays), Handles
  PROVE  KeysSafe(pending, stored, strays)'
<1>1. \A w \in stored.entries \ strays : HasKey(stored, w)
  BY DEF KeysSafe
<1>2. /\ stored \in Storage /\ stored.keys \subseteq SeedKeys /\ stored.entries \subseteq Wallets
      /\ place.seed \in Seeds \cup {Nobody} /\ place.key \in SeedKeys \cup {Nobody}
      /\ place.account \in Wallets \cup {Nobody}
      /\ place.selected \subseteq SeedKeys /\ place.unselected \subseteq SeedKeys
  BY DEF ManagementTypeOK, Storage, Pages
<1>3. \A K : OwnedBy(stored, K) \subseteq Wallets /\ LinkedTo(stored, K) \subseteq Wallets
  BY <1>2 DEF OwnedBy, LinkedTo
<1>4. \A s : KeysOf(stored, s) \subseteq SeedKeys
  BY <1>2 DEF KeysOf
<1>5. ASSUME NEW X, NEW T, KeysSafe(X, stored, T), pending' = X, stored' = stored, strays' = T
      PROVE  KeysSafe(pending, stored, strays)'
  BY <1>5
<1>6. ASSUME NEW calls, NEW a, Start(calls, a), KeysSafe(<<calls>>, stored, strays)
      PROVE  KeysSafe(pending, stored, strays)'
  BY <1>5, <1>6 DEF Start, Begin
<1>7. ASSUME NEW calls, NEW a, Start(calls, a),
             \A j \in DOMAIN calls : calls[j].name \notin CreateNames \cup {"removeKeys"}
      PROVE  KeysSafe(pending, stored, strays)'
  BY <1>1, <1>6, <1>7, HarmlessSafe
<1>8. ASSUME NEW k \in SeedKeys, NEW X \in Blocks, NEW a, Start(X, a),
             X[1].name \in {"createKeys", "createSelectedKey"}, k \in X[1].of,
             \A j \in DOMAIN X : X[j].name \notin RemoveNames \cup {"link"},
             \A j \in DOMAIN X : X[j].name \in CreateNames => \A w \in X[j].of : OwnerOf[w] = k
      PROVE  KeysSafe(pending, stored, strays)'
  <2>1. KeysSafe(<<X>>, stored, strays)
    BY <1>1, <1>8, KeyFirstSafe
  <2> QED
    BY <1>6, <1>8, <2>1
<1>9. \A n, of : Call(n, of).name = n /\ Call(n, of).of = of
  BY DEF Call
<1>10. CASE LogOut
  <2> DEFINE c == Call("logOut", stored.keys \cup {Nobody})
  <2>1. Start(<<c>>, [Stay EXCEPT !.go = "main"]) /\ c.name = "logOut"
    BY <1>9, <1>10 DEF LogOut
  <2> HIDE DEF c
  <2> QED
    BY <1>7, <2>1 DEF CreateNames
<1>11. CASE SaveLedgerAccounts
  <2>1. PICK remove \in Orders(place.unselected), create \in Orders(place.selected) :
             Begin(LedgerBlocks(remove, create),
                   [Stay EXCEPT !.go = IF place.step = "createKey" THEN "seed" ELSE "seeds"])
    BY <1>11 DEF SaveLedgerAccounts
  <2> DEFINE L == LedgerBlocks(remove, create)
             T == strays \cup OwnedBy(stored, place.unselected) \cup LinkedTo(stored, place.unselected)
  <2>2. Ordered(L) /\ \A i \in DOMAIN L : RemovalSafe(L[i], stored, T) /\ Waiting(L[i])
    BY <1>2, LedgerSafe
  <2>3. pending' = L /\ stored' = stored
    BY <2>1 DEF Begin
  <2>4. strays' = T /\ \A w \in stored.entries \ T : HasKey(stored, w)
    BY <1>1, <1>11 DEF SaveLedgerAccounts
  <2> HIDE DEF L, T
  <2>5. KeysSafe(L, stored, T)
    BY <2>2, <2>4, BlocksSafe
  <2> QED
    BY <1>5, <2>3, <2>4, <2>5
<1>12. CASE OnSubmitKeys
  <2> DEFINE known == KeysOf(stored, place.seed)
             removed == known \ place.selected
             W == OwnedBy(stored, removed) \cap Listed(stored, stored.seed)
             create == place.selected \ known
             X == KeyCallsOf(create, removed, W)
             T == strays \cup (OwnedBy(stored, removed) \ W) \cup LinkedTo(stored, removed)
  <2>1. pending' = <<X>> /\ stored' = stored /\ strays' = T
    BY <1>12 DEF OnSubmitKeys, Begin
  <2>2. create \in SUBSET SeedKeys /\ removed \in SUBSET SeedKeys /\ W \in SUBSET Wallets
    BY <1>2, <1>3, <1>4
  <2>3. \A w \in OwnedBy(stored, removed) \cup LinkedTo(stored, removed) : w \in T \cup W
    OBVIOUS
  <2>4. \A w \in stored.entries \ T : HasKey(stored, w)
    BY <1>1
  <2> HIDE DEF create, removed, W, T
  <2>5. RemovalSafe(X, stored, T) /\ Names(X) \cap AddNames = {}
    BY <2>2, <2>3, KeyCallsSafe
  <2> HIDE DEF X
  <2>6. Names(X) \cap CreateNames = {}
    BY <2>5 DEF AddNames
  <2>7. Supplied(X, stored, T)
    BY <2>6 DEF Supplied, Names
  <2>8. KeysSafe(<<X>>, stored, T)
    BY <2>4, <2>5, <2>6, <2>7, OneBlockSafe
  <2> QED
    BY <1>5, <2>1, <2>8
<1>13. CASE OnSelectAccount
  <2> DEFINE c1 == Call("selectSeed", {place.seed})
             c2 == Call("show", {place.account})
             c3 == [Call("selectAccount", {place.account}) EXCEPT
                       !.item = IF ReachedByKey THEN Nobody ELSE place.account]
  <2>1. Start(<<c1, c2, c3>>, [Stay EXCEPT !.go = "main"])
    BY <1>13 DEF OnSelectAccount
  <2>2. c1.name = "selectSeed" /\ c2.name = "show" /\ c3.name = "selectAccount"
    BY DEF Call
  <2> HIDE DEF c1, c2, c3
  <2> QED
    BY <1>7, <2>1, <2>2 DEF CreateNames
<1>14. CASE OnToggleVisibility
  <2> DEFINE c == Call(IF place.account \in stored.visible THEN "hide" ELSE "show", {place.account})
  <2>1. Start(<<c>>, Stay) /\ c.name \in {"hide", "show"}
    BY <1>9, <1>14 DEF OnToggleVisibility
  <2> HIDE DEF c
  <2> QED
    BY <1>7, <2>1 DEF CreateNames
<1>15. ASSUME NEW s \in Seeds, NEW W \in SUBSET Wallets, ImportAccount(FirstKeyOf[s], W),
              \A w \in W : OwnerOf[w] = FirstKeyOf[s]
       PROVE  KeysSafe(pending, stored, strays)'
  <2> DEFINE k == FirstKeyOf[s]
             c1 == Call("createSelectedKey", {k})
             c2 == [Call("look", {k}) EXCEPT !.undo = k]
             c3 == [Call("createAccounts", W) EXCEPT !.undo = k]
             c4 == [Call("ensure", {}) EXCEPT !.undo = k]
  <2>1. k \in SeedKeys
    BY ManagementAssumption
  <2>2. c1 \in Calls /\ c2 \in Calls /\ c3 \in Calls /\ c4 \in Calls
    BY <2>1, CallTypes
  <2>3. /\ c1.name = "createSelectedKey" /\ c1.of = {k} /\ c2.name = "look"
        /\ c3.name = "createAccounts" /\ c3.of = W /\ c4.name = "ensure"
    BY DEF Call
  <2>4. Start(<<c1, c2, c3, c4>>, Stay)
    BY <1>15 DEF ImportAccount
  <2>5. \A w \in W : OwnerOf[w] = k
    BY <1>15
  <2> HIDE DEF c1, c2, c3, c4, k
  <2>6. <<c1, c2, c3, c4>> \in Blocks
    BY <2>2 DEF Blocks
  <2> QED
    BY <1>8, <2>1, <2>3, <2>4, <2>5, <2>6 DEF CreateNames, RemoveNames
<1>16. ASSUME NEW s \in Seeds, NEW W \in SUBSET Wallets, SubmitSeed(FirstKeyOf[s], W),
              \A w \in W : OwnerOf[w] = FirstKeyOf[s]
       PROVE  KeysSafe(pending, stored, strays)'
  <2> DEFINE k == FirstKeyOf[s]
             a == [Stay EXCEPT !.go = "key", !.key = k]
             c1 == Call("createKeys", {k})
             c2 == Try("look", {k})
             c3 == Try("createAccounts", W)
             c4 == Try("ensure", {})
  <2>1. k \in SeedKeys
    BY ManagementAssumption
  <2>2. c1 \in Calls /\ c2 \in Calls /\ c3 \in Calls /\ c4 \in Calls
    BY <2>1, CallTypes
  <2>3. /\ c1.name = "createKeys" /\ c1.of = {k} /\ c2.name = "look"
        /\ c3.name = "createAccounts" /\ c3.of = W /\ c4.name = "ensure"
    BY DEF Call, Try
  <2>4. Start(IF W = {} THEN <<c1>> ELSE <<c1, c2, c3, c4>>, a)
    BY <1>16 DEF SubmitSeed
  <2>5. \A w \in W : OwnerOf[w] = k
    BY <1>16
  <2> HIDE DEF c1, c2, c3, c4, k, a
  <2>6. <<c1, c2, c3, c4>> \in Blocks /\ <<c1>> \in Blocks
    BY <2>2 DEF Blocks
  <2>7. CASE W = {}
    BY <1>8, <2>1, <2>3, <2>4, <2>6, <2>7 DEF CreateNames, RemoveNames
  <2>8. CASE W # {}
    BY <1>8, <2>1, <2>3, <2>4, <2>5, <2>6, <2>8 DEF CreateNames, RemoveNames
  <2> QED
    BY <2>7, <2>8
<1>17. ASSUME NEW s \in Seeds, NEW w \in Wallets, NewAccount(FirstKeyOf[s], w), OwnerOf[w] = FirstKeyOf[s]
       PROVE  KeysSafe(pending, stored, strays)'
  <2> DEFINE k == FirstKeyOf[s]
             c1 == Call("createSelectedKey", {k})
             c2 == CreateUnder(k, w)
  <2>1. k \in SeedKeys
    BY ManagementAssumption
  <2>2. c1 \in Calls /\ c2 \in Calls
    BY <2>1, CallTypes DEF CreateUnder
  <2>3. c1.name = "createSelectedKey" /\ c1.of = {k} /\ c2.name = "createAccount" /\ c2.of = {w}
    BY DEF Call, CreateUnder
  <2>4. Start(<<c1, c2>>, Stay) /\ OwnerOf[w] = k
    BY <1>17 DEF NewAccount
  <2> HIDE DEF c1, c2, k
  <2>5. <<c1, c2>> \in Blocks
    BY <2>2 DEF Blocks
  <2> QED
    BY <1>8, <2>1, <2>3, <2>4, <2>5 DEF CreateNames, RemoveNames
<1>18. ASSUME NEW s \in LedgerSeeds, NEW K \in SUBSET SeedKeys, LedgerSignIn(s, K)
       PROVE  KeysSafe(pending, stored, strays)'
  <2> DEFINE X == <<Call("look", {s}), Call("selectSeed", {s})>>
  <2>1. PICK create \in Orders(K) : Begin(LedgerBlocks(<<>>, create) \o <<X>>, Stay)
    BY <1>18 DEF LedgerSignIn
  <2> DEFINE L == LedgerBlocks(<<>>, create)
             P == L \o <<X>>
  <2>2. <<>> \in Orders({})
    <3>1. Cardinality({}) = 0
      BY FS_EmptySet
    <3> QED
      BY <3>1 DEF Orders
  <2>3. OwnedBy(stored, {}) \cup LinkedTo(stored, {}) \subseteq strays
    BY DEF OwnedBy, LinkedTo
  <2>4. /\ L \in Seq(Blocks)
        /\ \A i \in DOMAIN L : RemovalSafe(L[i], stored, strays) /\ Waiting(L[i])
        /\ \A i \in DOMAIN L : Names(L[i]) \cap RemoveNames = {}
    BY <1>2, <2>2, <2>3, LedgerSafe
  <2>5. \A j \in DOMAIN X : X[j].name \in {"look", "selectSeed"}
    BY <1>9
  <2> HIDE DEF L, X
  <2>6. RemovalSafe(X, stored, strays) /\ Waiting(X) /\ Names(X) \cap RemoveNames = {}
    BY <2>5 DEF RemovalSafe, Waiting, Names, CreateNames, RemoveNames
  <2>7. \A i \in DOMAIN P : P[i] = X \/ \E l \in DOMAIN L : P[i] = L[l]
    BY <2>4
  <2> HIDE DEF P
  <2>8. \A i \in DOMAIN P : /\ RemovalSafe(P[i], stored, strays) /\ Waiting(P[i])
                            /\ Names(P[i]) \cap RemoveNames = {}
    BY <2>4, <2>6, <2>7
  <2>9. Ordered(P)
    BY <2>8 DEF Ordered, RemoveNames
  <2>10. KeysSafe(P, stored, strays)
    BY <1>1, <2>8, <2>9, BlocksSafe
  <2>11. pending' = P /\ stored' = stored /\ strays' = strays
    BY <1>18, <2>1 DEF LedgerSignIn, Begin, P, L
  <2> QED
    BY <1>5, <2>10, <2>11
<1>19. ASSUME NEW w \in Wallets, Slide(w) PROVE KeysSafe(pending, stored, strays)'
  <2> DEFINE c == Call("selectAccount", {w})
  <2>1. Start(<<c>>, Stay) /\ c.name = "selectAccount"
    BY <1>9, <1>19 DEF Slide
  <2> HIDE DEF c
  <2> QED
    BY <1>7, <2>1 DEF CreateNames
<1>20. ASSUME NEW w \in Wallets, NEW X \in Blocks, SubmitAccount(w, X),
              \A j \in DOMAIN X : X[j].name \notin RemoveNames,
              \A j \in DOMAIN X : X[j].name \in CreateNames =>
                 X[j].of = {w} /\ (place.key \in stored.keys =>
                                     HasKey(stored, w) \/ LinkBefore(X, j, w, stored))
       PROVE  KeysSafe(pending, stored, strays)'
  <2> DEFINE T == IF place.key \in stored.keys THEN strays ELSE strays \cup {w}
  <2>1. pending' = <<X>> /\ stored' = stored /\ strays' = T
    BY <1>20 DEF SubmitAccount, Begin
  <2>2. \A v \in stored.entries \ T : HasKey(stored, v)
    BY <1>1
  <2>3. place.key \notin stored.keys => w \in T
    OBVIOUS
  <2> HIDE DEF T
  <2>4. KeysSafe(<<X>>, stored, T)
    BY <1>20, <2>2, <2>3, AddSafe
  <2> QED
    BY <1>5, <2>1, <2>4
<1>21. ASSUME NEW w \in Wallets, OnSubmit(w) PROVE KeysSafe(pending, stored, strays)'
  <2> DEFINE c == Call("createAccount", {w})
  <2>1. SubmitAccount(w, <<c>>) /\ OwnerOf[w] = place.key
    BY <1>21 DEF OnSubmit
  <2>2. c \in Calls /\ c.name = "createAccount" /\ c.of = {w}
    BY <1>9, CallTypes
  <2> HIDE DEF c
  <2>3. <<c>> \in Blocks /\ (place.key \in stored.keys => HasKey(stored, w))
    BY <2>1, <2>2 DEF Blocks, HasKey
  <2> QED
    BY <1>20, <2>1, <2>2, <2>3 DEF RemoveNames
<1>22. ASSUME NEW w \in Wallets, OnAddExisting(w) PROVE KeysSafe(pending, stored, strays)'
  <2> DEFINE c1 == Call("look", {w})
             c2 == Call("link", {<<w, place.key>>})
             c3 == IF w \in stored.entries THEN Call("show", {w}) ELSE Call("createAccount", {w})
             c == Call("createAccount", {w})
  <2>1. c1 \in Calls /\ c1.name = "look" /\ c \in Calls /\ c.name = "createAccount" /\ c.of = {w}
    BY <1>9, CallTypes
  <2>2. c3 \in Calls /\ c3.name \in {"show", "createAccount"} /\ c3.of = {w}
    BY <1>9, CallTypes
  <2>3. CASE OwnerOf[w] = place.key /\ SubmitAccount(w, <<c1, c>>)
    <3> HIDE DEF c1, c
    <3>1. <<c1, c>> \in Blocks /\ (place.key \in stored.keys => HasKey(stored, w))
      BY <2>1, <2>3 DEF Blocks, HasKey
    <3> QED
      BY <1>20, <2>1, <2>3, <3>1 DEF RemoveNames, CreateNames
  <2>4. CASE <<w, place.key>> \in Custody /\ SubmitAccount(w, <<c1, c2, c3>>)
    <3>1. c2 \in Calls /\ c2.name = "link" /\ c2.of = {<<w, place.key>>}
      BY <1>9, <2>4, CallTypes, ManagementAssumption
    <3> DEFINE X == <<c1, c2, c3>>
    <3> HIDE DEF c1, c2, c3
    <3>2. X \in Blocks /\ X[1] = c1 /\ X[2] = c2 /\ X[3] = c3 /\ DOMAIN X = 1 .. 3
      BY <2>1, <2>2, <3>1 DEF Blocks
    <3>3. SubmitAccount(w, X)
      BY <2>4
    <3> HIDE DEF X
    <3>4. place.key \in stored.keys => LinkBefore(X, 3, w, stored)
      BY <3>1, <3>2 DEF LinkBefore, Links
    <3>5. \A j \in DOMAIN X : X[j].name \notin RemoveNames /\ (X[j].name \in CreateNames => j = 3)
      BY <2>1, <2>2, <3>1, <3>2 DEF RemoveNames, CreateNames
    <3> QED
      BY <1>20, <2>2, <3>2, <3>3, <3>4, <3>5
  <2> QED
    BY <1>22, <2>3, <2>4 DEF OnAddExisting
<1>23. ASSUME NEW s \in Seeds, OnSelectMaster(s) PROVE KeysSafe(pending, stored, strays)'
  <2>1. CASE \E w \in Listed(stored, s) :
                Start(<<Call("selectSeed", {s}), Call("selectAccount", {w})>>, [Stay EXCEPT !.go = "panel"])
    <3>1. PICK w \in Listed(stored, s) :
                Start(<<Call("selectSeed", {s}), Call("selectAccount", {w})>>, [Stay EXCEPT !.go = "panel"])
      BY <2>1
    <3> DEFINE c1 == Call("selectSeed", {s})
               c2 == Call("selectAccount", {w})
    <3>2. c1.name = "selectSeed" /\ c2.name = "selectAccount" /\ Start(<<c1, c2>>, [Stay EXCEPT !.go = "panel"])
      BY <1>9, <3>1
    <3> HIDE DEF c1, c2
    <3> QED
      BY <1>7, <3>2 DEF CreateNames
  <2>2. CASE Visit([place EXCEPT !.panel = "seeds", !.step = "manageSeed", !.local = "index", !.seed = s])
    BY <1>5, <2>2 DEF Visit
  <2> QED
    BY <1>23, <2>1, <2>2 DEF OnSelectMaster
<1> QED
  BY <1>10, <1>11, <1>12, <1>13, <1>14, <1>15, <1>16, <1>17, <1>18, <1>19, <1>21, <1>22, <1>23 DEF Handles

(* Every step keeps the keys of the accounts.                               *)
LEMMA KeysSafeNext ==
  ManagementTypeOK /\ KeysSafe(pending, stored, strays) /\ [ManagementNext]_managementVars
     => KeysSafe(pending, stored, strays)'
<1> SUFFICES ASSUME ManagementTypeOK, KeysSafe(pending, stored, strays), [ManagementNext]_managementVars
             PROVE  KeysSafe(pending, stored, strays)'
  OBVIOUS
<1>1. ASSUME UNCHANGED <<stored, strays>>, pending' = pending \/ pending' = <<>>
      PROVE  KeysSafe(pending, stored, strays)'
  <2>1. KeysSafe(<<>>, stored, strays)
    BY DEF KeysSafe, Ordered
  <2> QED
    BY <1>1, <2>1
<1>2. CASE CloseWindow
  BY <1>1, <1>2 DEF CloseWindow
<1>3. CASE Turns
  BY <1>1, <1>3, TurnTyped
<1>4. CASE UNCHANGED managementVars
  BY <1>1, <1>4 DEF managementVars
<1> QED
  BY <1>2, <1>3, <1>4, SucceedSafe, FailSafe, HandleSafe, TurnsAndHandles

(* The types hold.                                                          *)
THEOREM ManagementTypes == ManagementSpec => []ManagementTypeOK
<1> QED
  BY ManagementInitTypes, ManagementNextTypes, PTL DEF ManagementSpec

(* The accounts have keys.                                                  *)
THEOREM KeysOutlive == ManagementSpec => []KeysOutliveAccounts
<1>1. ManagementInit => KeysSafe(pending, stored, strays)
  <2> SUFFICES ASSUME ManagementInit PROVE KeysSafe(pending, stored, strays)
    OBVIOUS
  <2>1. \A w \in stored.entries \ strays : HasKey(stored, w)
    BY DEF ManagementInit, HasKey, LinkedTo
  <2> QED
    BY <2>1 DEF ManagementInit, KeysSafe, Ordered
<1>2. KeysSafe(pending, stored, strays) => KeysOutliveAccounts
  BY DEF KeysSafe, KeysOutliveAccounts, HasKey, LinkedTo
<1> QED
  BY <1>1, <1>2, KeysSafeNext, ManagementTypes, PTL DEF ManagementSpec

----------------------------------------------------------------------------
(* The account that is selected. *)

(* The calls that a handler has still to make. *)
CallsIn(P) == UNION {{P[i][j] : j \in DOMAIN P[i]} : i \in DOMAIN P}

(* A call that does not lose the account a without being noted. *)
Tame(c, a) ==
    /\ c.name \notin {"selectSeed", "createSelectedKey", "selectAccount", "logOut"}
    /\ c.name = "createAccount" => c.of # {}
    /\ c.name = "hide" => a \notin c.of
    /\ c.name = "removeKeys" => c.item # Nobody \/ OwnerOf[a] \notin c.of
    /\ c.name = "removeAccounts" => c.item # Nobody \/ a \notin c.of

(* One that does not lose any. *)
Steady(c) ==
    /\ c.name \in {"look", "createKeys", "createAccount", "createAccounts", "ensure", "show", "link",
                   "removeKeys", "removeAccounts"}
    /\ c.name = "createAccount" => c.of # {}
    /\ c.name \in {"removeKeys", "removeAccounts"} => c.item # Nobody

(* What a handler under way may be: calls that lose no account; calls that   *)
(* change another account than the one selected, or its key;                  *)
Calm(P) == \A c \in CallsIn(P) : Steady(c)
Sparing(P) ==
    \A c \in CallsIn(P) :
       /\ c.name \in {"createKeys", "removeKeys", "removeAccounts", "show", "hide"}
       /\ c.name = "hide" => stored.account # Nobody
       /\ astray \/ Tame(c, stored.account)

(* the first seed, that is selected before there is an account;               *)
NewSeed(P) ==
    /\ astray \/ stored.account = Nobody
    /\ Len(P) = 1 /\ P[1][1].name = "createSelectedKey"
    /\ \A j \in DOMAIN P[1] \ {1} : Steady(P[1][j])

(* the keys of a Ledger, whose seed is selected in the end;                   *)
SelectsSeed(c, s) == c.name = "selectSeed" /\ c.of = {s}
Creates(c, s) == c.name = "createAccount" /\ \E w \in Wallets : c.of = {w} /\ SeedOf[OwnerOf[w]] = s
SignInBlock(X, s) ==
    /\ Len(X) = 2
    /\ \/ /\ X[1].name = "createKeys" /\ Creates(X[2], s)
          /\ \A w \in X[2].of : OwnerOf[w] \in X[1].of
       \/ X[1].name = "look" /\ SelectsSeed(X[2], s)
SignInRest(X, s, K) ==
    /\ Len(X) = 1
    /\ \/ Creates(X[1], s) /\ \A w \in X[1].of : OwnerOf[w] \in K
       \/ X[1].name = "removeKeys" /\ X[1].item # Nobody
       \/ SelectsSeed(X[1], s)
SignsIn(P, s) ==
    /\ astray \/ stored.account = Nobody \/ stored.account \in Under(stored, s)
    /\ \A i \in DOMAIN P : SignInBlock(P[i], s) \/ (i = 1 /\ SignInRest(P[i], s, stored.keys))

(* a switch to an account that is listed, or will be when it is selected;     *)
Targets(c, s, b) ==
    /\ c.name = "selectAccount"
    /\ \E w \in Wallets : c.of = {w} /\ (c.item # Nobody \/ w \in Under(b, s))
SwitchBlock(X, b) ==
    \/ Len(X) = 1 /\ Targets(X[1], b.seed, b) /\ X[1].of \subseteq b.visible
    \/ Len(X) = 2 /\ X[1].name = "show" /\ X[1].of = X[2].of /\ Targets(X[2], b.seed, b)
    \/ /\ Len(X) = 2 /\ X[2].of \subseteq b.visible
       /\ \E s \in Seeds : SelectsSeed(X[1], s) /\ Targets(X[2], s, b)
    \/ /\ Len(X) = 3 /\ X[2].name = "show" /\ X[2].of = X[3].of
       /\ \E s \in Seeds : SelectsSeed(X[1], s) /\ Targets(X[3], s, b)
Switches(P, b) == Len(P) = 1 /\ SwitchBlock(P[1], b)

(* or the end.                                                                *)
Leaves(P) == Len(P) = 1 /\ Len(P[1]) = 1 /\ P[1][1].name = "logOut" /\ P[1][1].of # {} /\ after.go = "main"

SelectedOK(b) == b.account \in Listed(b, b.seed) \cup {Nobody}

(* With a panel open an account is selected; without one none is hidden.     *)
PanelInv == place.panel # "none" \/ after.go = "account" => stored.account # Nobody
Common == (stored.account = Nobody => stored.entries \subseteq stored.visible) /\ PanelInv

Underway ==
    \/ Switches(pending, stored) /\ (astray \/ stored.account \in stored.visible \cup {Nobody})
    \/ /\ astray \/ SelectedOK(stored)
       /\ \/ Calm(pending) \/ Sparing(pending) \/ NewSeed(pending) \/ Leaves(pending)
          \/ \E s \in Seeds : SignsIn(pending, s)

SelectedInv == Common /\ Underway

----------------------------------------------------------------------------

(* The calls of a handler of one block. *)
LEMMA CallsInOne ==
  ASSUME NEW P, DOMAIN P = {1}, NEW c \in CallsIn(P)
  PROVE  \E j \in DOMAIN P[1] : c = P[1][j]
BY DEF CallsIn

(* What a call does to the selection. *)
LEMMA SelectionIs ==
  ASSUME NEW b \in Storage, NEW c \in Calls, NEW d \in Outcomes(b, c) \cup Failures(b, c)
  PROVE  /\ c.name \notin {"createAccount", "ensure", "selectAccount", "logOut"} => d.account = b.account
         /\ c.name \notin {"selectSeed", "createSelectedKey", "ensure", "logOut"} => d.seed = b.seed
         /\ c.name \notin {"hide", "logOut"} => b.visible \subseteq d.visible
         /\ c.name = "hide" => b.visible \ c.of \subseteq d.visible
         /\ c.name \in CreateNames => d.entries \ b.entries \subseteq d.visible
         /\ c.name = "createAccount" => d = b \/ d.account \in c.of \cap d.visible \cap d.entries
         /\ c.name = "selectAccount" => d.account \in c.of \cup {b.account}
         /\ c.name = "ensure" => \/ d = b
                                 \/ /\ b.account \notin b.entries /\ d.account \in b.entries
                                    /\ d.visible = b.visible
<1>1. CASE c.name = "ensure"
  <2>1. d \in Ensured(b) \cup {b}
    BY <1>1 DEF Outcomes, Failures
  <2>2. d = b \/ (b.account \notin b.entries /\ \E w \in b.entries : d \in EnsuredBy(b, w))
    BY <2>1 DEF Ensured
  <2>3. \/ d = b
        \/ b.account \notin b.entries /\ d.account \in b.entries /\ d.visible = b.visible
    BY <2>2 DEF EnsuredBy, Storage
  <2> QED
    BY <1>1, <2>3 DEF CreateNames
<1>2. CASE c.name # "ensure"
  <2>1. PICK part \in SUBSET c.of : d = Effect(b, c.name, part)
    BY <1>2 DEF Outcomes, Failures
  <2>2. CASE part = {} \/ c.name = "look"
    BY <2>1, <2>2 DEF Effect, CreateNames
  <2>3. CASE part # {} /\ c.name \in {"createKeys", "createSelectedKey", "removeKeys"}
    BY <2>1, <2>3 DEF Effect, Storage, CreateNames
  <2>4. CASE part # {} /\ c.name \in {"createAccount", "createAccounts", "removeAccounts"}
    BY <2>1, <2>4 DEF Effect, Storage, CreateNames
  <2>5. CASE part # {} /\ c.name \in {"selectAccount", "show", "hide"}
    BY <2>1, <2>5 DEF Effect, Storage, CreateNames
  <2>6. CASE part # {} /\ c.name \in {"selectSeed", "link"}
    BY <2>1, <2>6 DEF Effect, Storage, CreateNames
  <2>7. CASE part # {} /\ c.name = "logOut"
    BY <2>1, <2>7 DEF Effect, CreateNames
  <2> QED
    BY <1>2, <2>2, <2>3, <2>4, <2>5, <2>6, <2>7 DEF Calls, CallsOf
<1> QED
  BY <1>1, <1>2

(* The keys of an account of a seed that stay keep it there. *)
LEMMA UnderKept ==
  ASSUME NEW b, NEW d, NEW s, NEW a \in Under(b, s), a \in d.entries, b.external \subseteq d.external,
         \A k \in b.keys : k \in d.keys \/ (OwnerOf[a] # k /\ <<a, k>> \notin b.external)
  PROVE  a \in Under(d, s)
BY DEF Under, OwnedBy, LinkedTo, KeysOf

(* An account that a call does not lose. *)
LEMMA AccountKept ==
  ASSUME NEW b \in Storage, NEW c \in Calls, NEW d \in Outcomes(b, c) \cup Failures(b, c), NEW s,
         c.name # "logOut", ~LosesSelected(c, b, d),
         c.name \in {"removeKeys", "removeAccounts"} => Tame(c, b.account), b.account \in Under(b, s)
  PROVE  b.account \in Under(d, s)
<1> DEFINE a == b.account
<1>1. a \in b.entries
  BY DEF Under, OwnedBy, LinkedTo
<1>2. CASE c.name \notin {"removeKeys", "removeAccounts"}
  <2>1. b.entries \subseteq d.entries /\ b.keys \subseteq d.keys /\ b.external \subseteq d.external
    BY <1>2, ChangeIs
  <2> QED
    BY <1>1, <2>1, UnderKept
<1>3. CASE c.name = "removeKeys"
  <2>1. a \notin LinkedTo(b, c.of) /\ (c.item # Nobody => a \notin OwnedBy(b, c.of))
    BY <1>3 DEF LosesSelected
  <2>2. OwnerOf[a] \notin c.of
    BY <1>1, <1>3, <2>1 DEF Tame, OwnedBy
  <2>3. \A k \in c.of : <<a, k>> \notin b.external
    BY <1>1, <2>1 DEF LinkedTo
  <2>4. b.entries \subseteq d.entries /\ b.keys \ c.of \subseteq d.keys /\ b.external = d.external
    BY <1>3, ChangeIs
  <2> QED
    BY <1>1, <2>2, <2>3, <2>4, UnderKept
<1>4. CASE c.name = "removeAccounts"
  <2>1. a \notin c.of
    BY <1>1, <1>4 DEF LosesSelected, Tame
  <2>2. b.keys \subseteq d.keys /\ b.external = d.external
    BY <1>4, ChangeIs
  <2>3. a \in d.entries
    <3>1. PICK part \in SUBSET c.of : d = Effect(b, "removeAccounts", part)
      BY <1>4 DEF Outcomes, Failures
    <3>2. d.entries = b.entries \ part
      BY <3>1 DEF Effect, Storage
    <3> QED
      BY <1>1, <2>1, <3>2
  <2> QED
    BY <2>2, <2>3, UnderKept
<1> QED
  BY <1>2, <1>3, <1>4

(* A tame call, made or failed, leaves the account selected listed, or is    *)
(* noted: lost says so in the end.                                            *)
LEMMA TameKeeps ==
  ASSUME NEW b \in Storage, NEW c \in Calls, NEW d \in Outcomes(b, c) \cup Failures(b, c), d \in Storage,
         Tame(c, b.account), NEW lost,
         ~lost => /\ ~LosesSelected(c, b, d)
                  /\ SelectedOK(b) \/ (c.name = "createAccount" /\ d = Effect(b, c.name, c.of)),
         b.account = Nobody => b.entries \subseteq b.visible
  PROVE  lost \/ SelectedOK(d)
<1> SUFFICES ASSUME ~lost PROVE SelectedOK(d)
  OBVIOUS
<1>1. \A s : Under(b, s) \subseteq b.entries
  BY DEF Under, OwnedBy, LinkedTo
<1>2. CASE c.name = "createAccount"
  <2>1. d.account \in Under(d, d.seed)
    BY <1>2 DEF LosesSelected
  <2>2. CASE d.account \in d.visible
    BY <2>1, <2>2 DEF SelectedOK, Listed
  <2>3. CASE d = b /\ SelectedOK(b)
    BY <2>3
  <2>4. CASE d = Effect(b, c.name, c.of)
    <3>1. c.of # {}
      BY <1>2 DEF Tame
    <3>2. d.account \in c.of /\ d.visible = b.visible \cup c.of
      BY <1>2, <2>4, <3>1 DEF Effect, Storage
    <3> QED
      BY <2>2, <3>2
  <2> QED
    BY <1>2, <2>2, <2>3, <2>4, SelectionIs
<1>3. CASE c.name = "ensure"
  <2>1. CASE d = b
    BY <1>3, <2>1
  <2>2. CASE d # b
    <3>1. b.account \notin b.entries /\ d.account \in b.entries /\ d.visible = b.visible
      BY <1>3, <2>2, SelectionIs
    <3>2. b.account = Nobody
      BY <1>1, <1>3, <3>1 DEF SelectedOK, Listed
    <3>3. d.account \in Under(d, d.seed)
      BY <1>3, <2>2 DEF LosesSelected
    <3> QED
      BY <3>1, <3>2, <3>3 DEF SelectedOK, Listed
  <2> QED
    BY <2>1, <2>2
<1>4. CASE c.name \notin {"createAccount", "ensure"}
  <2>1. SelectedOK(b)
    BY <1>4
  <2>2. d.account = b.account /\ d.seed = b.seed
    BY <1>4, SelectionIs DEF Tame
  <2>3. CASE b.account = Nobody
    BY <2>2, <2>3 DEF SelectedOK
  <2>4. CASE b.account \in Listed(b, b.seed)
    <3>1. b.account \in Under(d, d.seed)
      BY <2>2, <2>4, AccountKept DEF Tame, Listed
    <3>2. b.account \in d.visible
      BY <2>4, SelectionIs DEF Tame, Listed
    <3> QED
      BY <2>2, <3>1, <3>2 DEF SelectedOK, Listed
  <2> QED
    BY <2>1, <2>3, <2>4 DEF SelectedOK
<1> QED
  BY <1>2, <1>3, <1>4

(* Without an account selected none is hidden. *)
LEMMA NoneHidden ==
  ASSUME NEW b \in Storage, NEW c \in Calls, NEW d \in Outcomes(b, c) \cup Failures(b, c),
         b.account = Nobody => b.entries \subseteq b.visible, c.name = "hide" => b.account # Nobody
  PROVE  /\ d.account = Nobody => d.entries \subseteq d.visible
         /\ c.name # "logOut" /\ b.account # Nobody => d.account # Nobody
<1>1. c.name \in CreateNames \cup {"selectAccount"} => c.of \subseteq Wallets
  BY DEF Calls, CallsOf, CreateNames
<1>2. b.entries \subseteq Wallets /\ Nobody \notin Wallets
  BY ManagementAssumption DEF Storage
<1>3. CASE c.name = "logOut"
  <2>1. d = b \/ d.entries = {}
    BY <1>3, ChangeIs
  <2> QED
    BY <1>3, <2>1
<1>4. CASE c.name # "logOut"
  <2>1. b.account # Nobody => d.account # Nobody
    <3>1. CASE c.name \notin {"createAccount", "ensure", "selectAccount"}
      BY <1>4, <3>1, SelectionIs
    <3>2. CASE c.name = "createAccount"
      BY <1>1, <1>2, <3>2, SelectionIs DEF CreateNames
    <3>3. CASE c.name = "ensure"
      BY <1>2, <3>3, SelectionIs
    <3>4. CASE c.name = "selectAccount"
      BY <1>1, <1>2, <3>4, SelectionIs
    <3> QED
      BY <3>1, <3>2, <3>3, <3>4
  <2>2. ASSUME d.account = Nobody PROVE d.entries \subseteq d.visible
    <3>1. b.entries \subseteq b.visible /\ c.name # "hide"
      BY <2>1, <2>2
    <3>2. b.visible \subseteq d.visible
      BY <1>4, <3>1, SelectionIs
    <3>3. d.entries \ b.entries \subseteq d.visible
      BY ChangeIs, SelectionIs
    <3> QED
      BY <3>1, <3>2, <3>3
  <2> QED
    BY <2>1, <2>2
<1> QED
  BY <1>3, <1>4

(* The calls of what is left are among those there were. *)
LEMMA CallsLeft ==
  ASSUME NEW P \in Seq(Blocks), pending = P, P # <<>>
  PROVE  /\ CallsIn(Rest) \subseteq CallsIn(P) /\ CallsIn(Tail(P)) \subseteq CallsIn(P)
         /\ NextCall \in CallsIn(P)
         /\ \A c \in Calls : CallsIn(<<<<c>>>> \o Tail(P)) \subseteq {c} \cup CallsIn(Tail(P))
<1>1. /\ 1 \in DOMAIN P /\ P[1] \in Seq(Calls) /\ P[1] # <<>>
      /\ \A i \in DOMAIN Tail(P) : Tail(P)[i] = P[i + 1] /\ i + 1 \in DOMAIN P
  BY WithoutFirst DEF Blocks
<1>2. 1 \in DOMAIN P[1] /\ \A j \in DOMAIN Tail(P[1]) : Tail(P[1])[j] = P[1][j + 1] /\ j + 1 \in DOMAIN P[1]
  BY <1>1, WithoutFirst
<1>3. CallsIn(Tail(P)) \subseteq CallsIn(P)
  BY <1>1 DEF CallsIn
<1>4. NextCall \in CallsIn(P)
  <2>1. P[1][1] \in CallsIn(P)
    BY <1>1, <1>2 DEF CallsIn
  <2> QED
    BY <2>1, RestIs
<1>5. ASSUME NEW x \in Blocks, NEW T, \A j \in DOMAIN x : x[j] \in T
      PROVE  CallsIn(<<x>> \o Tail(P)) \subseteq T \cup CallsIn(Tail(P))
  <2> DEFINE Q == <<x>> \o Tail(P)
             U == Tail(P)
  <2>1. Q[1] = x /\ DOMAIN Q = DOMAIN P /\ \A i \in DOMAIN P \ {1} : Q[i] = P[i]
    BY WithFirst
  <2>2. \A i \in DOMAIN P \ {1} : i - 1 \in DOMAIN U /\ P[i] = U[i - 1]
    BY WithoutFirst
  <2> HIDE DEF Q, U
  <2>3. \A i \in DOMAIN Q : \A j \in DOMAIN Q[i] : Q[i][j] \in T \cup CallsIn(U)
    BY <1>5, <2>1, <2>2 DEF CallsIn
  <2>4. CallsIn(Q) \subseteq T \cup CallsIn(U)
    BY <2>3 DEF CallsIn
  <2> QED
    BY <2>4 DEF Q, U
<1>6. CallsIn(Rest) \subseteq CallsIn(P)
  <2>1. CASE Rest = Tail(P)
    BY <1>3, <2>1
  <2>2. CASE Tail(P[1]) \in Blocks /\ Rest = <<Tail(P[1])>> \o Tail(P)
    <3>1. \A j \in DOMAIN Tail(P[1]) : Tail(P[1])[j] \in CallsIn(P)
      BY <1>1, <1>2 DEF CallsIn
    <3> QED
      BY <1>3, <1>5, <2>2, <3>1
  <2> QED
    BY <2>1, <2>2, RestIs
<1>7. ASSUME NEW c \in Calls PROVE CallsIn(<<<<c>>>> \o Tail(P)) \subseteq {c} \cup CallsIn(Tail(P))
  <2>1. <<c>> \in Blocks /\ \A j \in DOMAIN <<c>> : <<c>>[j] \in {c}
    BY DEF Blocks
  <2> QED
    BY <1>5, <2>1
<1> QED
  BY <1>3, <1>4, <1>6, <1>7

(* What a call that is made, or fails, does. *)
LEMMA SucceedIs ==
  ASSUME ManagementTypeOK, Succeed
  PROVE  /\ pending \in Seq(Blocks) /\ pending # <<>> /\ NextCall \in Calls
         /\ stored \in Storage /\ stored' \in Storage /\ stored' \in Outcomes(stored, NextCall)
         /\ astray' = (LosesSelected(NextCall, stored, stored') \/ (astray /\ ~FindsSelected(NextCall)))
         /\ Continue(Rest, after) /\ pending' = Rest
<1>1. pending \in Seq(Blocks) /\ pending # <<>> /\ stored \in Storage
  BY DEF ManagementTypeOK, Succeed
<1>2. NextCall \in Calls
  BY <1>1, RestIs
<1>3. PICK b \in Outcomes(stored, NextCall) :
        /\ stored' = b /\ Continue(Rest, after)
        /\ astray' = (LosesSelected(NextCall, stored, b) \/ (astray /\ ~FindsSelected(NextCall)))
  BY DEF Succeed
<1>4. pending' = Rest
  BY <1>3 DEF Continue
<1> QED
  BY <1>1, <1>2, <1>3, <1>4, OutcomeTypes

(* A removal that follows a failure is steady. *)
LEMMA FailIs ==
  ASSUME ManagementTypeOK, Fail
  PROVE  /\ pending \in Seq(Blocks) /\ pending # <<>> /\ NextCall \in Calls
         /\ stored \in Storage /\ stored' \in Storage /\ stored' \in Failures(stored, NextCall)
         /\ astray' = (astray \/ LosesSelected(NextCall, stored, stored') \/ Interrupted(pending, stored'))
         /\ \E a \in {Stay, after} : Continue(pending', a)
         /\ \/ pending' = Tail(pending)
            \/ \E r \in Calls : /\ r.name = "removeKeys" /\ r.item # Nobody
                                /\ pending' = <<<<r>>>> \o Tail(pending)
<1>1. pending \in Seq(Blocks) /\ pending # <<>> /\ stored \in Storage
  BY DEF ManagementTypeOK, Fail
<1>2. NextCall \in Calls
  BY <1>1, RestIs
<1> DEFINE c == NextCall
           r == [Call("removeKeys", {c.undo}) EXCEPT !.item = c.undo]
           undone == IF c.undo = Nobody THEN <<>> ELSE <<<<r>>>>
<1>3. PICK b \in Failures(stored, c) :
        /\ stored' = b /\ Continue(undone \o Tail(pending), IF c.stay THEN Stay ELSE after)
        /\ astray' = (astray \/ LosesSelected(c, stored, b) \/ Interrupted(pending, b))
  BY DEF Fail
<1>4. pending' = undone \o Tail(pending)
  BY <1>3 DEF Continue
<1>5. \E a \in {Stay, after} : Continue(pending', a)
  BY <1>3, <1>4
<1>6. CASE c.undo = Nobody
  <2>1. pending' = Tail(pending)
    BY <1>1, <1>4, <1>6, WithoutFirst
  <2> QED
    BY <1>1, <1>2, <1>3, <1>5, <2>1, OutcomeTypes
<1>7. CASE c.undo # Nobody
  <2>1. c.undo \in SeedKeys
    BY <1>2, <1>7 DEF Calls, CallsOf
  <2>2. r \in Calls /\ r.name = "removeKeys" /\ r.item # Nobody
    BY <1>7, <2>1, CallTypes DEF Call
  <2> HIDE DEF r
  <2>3. pending' = <<<<r>>>> \o Tail(pending)
    BY <1>4, <1>7
  <2> QED
    BY <1>1, <1>2, <1>3, <1>5, <2>2, <2>3, OutcomeTypes
<1> QED
  BY <1>6, <1>7

(* What is left of the handler, with a removal perhaps. *)
Left(P) ==
    \/ pending' = Tail(P)
    \/ \E r \in Calls : r.name = "removeKeys" /\ r.item # Nobody /\ pending' = <<<<r>>>> \o Tail(P)

(* What the two have in common. *)
LEMMA CallIs ==
  ASSUME ManagementTypeOK, Succeed \/ Fail
  PROVE  /\ pending \in Seq(Blocks) /\ pending # <<>> /\ NextCall \in Calls
         /\ stored \in Storage /\ stored' \in Storage
         /\ stored' \in Outcomes(stored, NextCall) \cup Failures(stored, NextCall)
         /\ astray' \/ /\ ~LosesSelected(NextCall, stored, stored')
                       /\ \/ ~astray
                          \/ FindsSelected(NextCall) /\ stored' = Effect(stored, NextCall.name, NextCall.of)
         /\ \E a \in {Stay, after} : Continue(pending', a)
         /\ pending' = Rest \/ Left(pending)
<1>1. CASE Succeed
  <2>1. FindsSelected(NextCall) => stored' = Effect(stored, NextCall.name, NextCall.of)
    BY <1>1, SucceedIs DEF FindsSelected, Outcomes
  <2> QED
    BY <1>1, <2>1, SucceedIs
<1>2. CASE Fail
  BY <1>2, FailIs DEF Left
<1> QED
  BY <1>1, <1>2

(* The calls left, but for the removal, were there before. *)
LEMMA LeftCalls ==
  ASSUME NEW P \in Seq(Blocks), pending = P, P # <<>>, pending' = Rest \/ Left(P)
  PROVE  \A c \in CallsIn(pending') : c \in CallsIn(P) \/ (c.name = "removeKeys" /\ c.item # Nobody)
<1>1. CASE pending' = Rest \/ pending' = Tail(P)
  BY <1>1, CallsLeft
<1>2. ASSUME NEW r \in Calls, r.name = "removeKeys", r.item # Nobody, pending' = <<<<r>>>> \o Tail(P)
      PROVE  \A c \in CallsIn(pending') : c \in CallsIn(P) \/ (c.name = "removeKeys" /\ c.item # Nobody)
  <2>1. CallsIn(pending') \subseteq {r} \cup CallsIn(P)
    BY <1>2, CallsLeft
  <2> QED
    BY <1>2, <2>1
<1> QED
  BY <1>1, <1>2 DEF Left

(* Where the page is when a handler goes on, or ends.                        *)
LEMMA PanelKept ==
  ASSUME ManagementTypeOK, NEW B, NEW a \in {Stay, after}, Continue(B, a),
         place.panel # "none" \/ after.go = "account" => stored'.account # Nobody
  PROVE  PanelInv'
<1>1. place \in Pages /\ after \in Ends /\ Stay \in Ends /\ Stay.go = "stay"
  BY DEF ManagementTypeOK, Stay, Ends
<1>2. a \in Ends /\ (a.go = "account" => after.go = "account")
  BY <1>1
<1>3. place' = place \/ (place' = Arrive(place, a) /\ after' = Stay)
  BY DEF Continue
<1>4. after' = Stay \/ after' = a
  BY DEF Continue
<1>5. Arrive(place, a).panel # "none" => place.panel # "none" \/ a.go = "account"
  <2>1. a.go \in {"stay", "key", "seed", "seeds", "account", "panel", "main"}
    BY <1>2 DEF Ends
  <2>2. CASE a.go \in {"stay", "key"}
    BY <1>1, <2>2 DEF Arrive, At, Pages
  <2>3. CASE a.go \in {"seed", "seeds"}
    BY <1>1, <2>3 DEF Arrive, At, Pages
  <2>4. CASE a.go = "account"
    BY <2>4
  <2>5. CASE a.go \in {"panel", "main"}
    BY <1>1, <2>5 DEF Arrive, Closed, Pages
  <2> QED
    BY <2>1, <2>2, <2>3, <2>4, <2>5
<1> QED
  BY <1>1, <1>2, <1>3, <1>4, <1>5 DEF PanelInv

(* What holds of every handler holds after a call but for the last. *)
LEMMA CommonKept ==
  ASSUME ManagementTypeOK, Common, Succeed \/ Fail, NextCall.name # "logOut",
         NextCall.name = "hide" => stored.account # Nobody
  PROVE  Common' /\ (stored.account # Nobody => stored'.account # Nobody)
<1>1. PICK a \in {Stay, after} : Continue(pending', a)
  BY CallIs
<1>2. /\ stored'.account = Nobody => stored'.entries \subseteq stored'.visible
      /\ stored.account # Nobody => stored'.account # Nobody
  BY CallIs, NoneHidden DEF Common
<1>3. PanelInv'
  BY <1>1, <1>2, PanelKept DEF Common, PanelInv
<1> QED
  BY <1>2, <1>3 DEF Common

(* Calls that lose no account. *)
LEMMA CalmKept ==
  ASSUME ManagementTypeOK, Common, Succeed \/ Fail, Calm(pending), astray \/ SelectedOK(stored)
  PROVE  Common' /\ Calm(pending') /\ (astray' \/ SelectedOK(stored'))
<1> DEFINE c == NextCall
<1>1. Steady(c)
  BY CallIs, CallsLeft DEF Calm
<1>2. Tame(c, stored.account) /\ c.name \notin {"logOut", "hide", "selectAccount"}
  BY <1>1 DEF Steady, Tame
<1>3. Common'
  BY <1>2, CommonKept
<1>4. astray' \/ SelectedOK(stored')
  <2>1. ~astray' => /\ ~LosesSelected(c, stored, stored')
                    /\ \/ SelectedOK(stored)
                       \/ c.name = "createAccount" /\ stored' = Effect(stored, c.name, c.of)
    BY <1>2, CallIs DEF FindsSelected
  <2> HIDE DEF c
  <2> QED
    BY <1>2, <2>1, CallIs, TameKeeps DEF Common, c
<1>5. Calm(pending')
  BY CallIs, LeftCalls DEF Calm, Steady
<1> QED
  BY <1>3, <1>4, <1>5

(* Calls that spare the account selected. *)
LEMMA SparingKept ==
  ASSUME ManagementTypeOK, Common, Succeed \/ Fail, Sparing(pending), astray \/ SelectedOK(stored)
  PROVE  Common' /\ Sparing(pending)' /\ (astray' \/ SelectedOK(stored'))
<1> DEFINE c == NextCall
<1>1. /\ c.name \in {"createKeys", "removeKeys", "removeAccounts", "show", "hide"}
      /\ c.name = "hide" => stored.account # Nobody
      /\ astray \/ Tame(c, stored.account)
  BY CallIs, CallsLeft DEF Sparing
<1>2. Common' /\ (stored.account # Nobody => stored'.account # Nobody)
  BY <1>1, CommonKept
<1>3. (astray => astray') /\ (astray' \/ ~LosesSelected(c, stored, stored'))
  BY <1>1, CallIs DEF FindsSelected
<1>4. stored'.account = stored.account
  BY <1>1, CallIs, SelectionIs
<1>5. astray' \/ SelectedOK(stored')
  <2>1. ~astray' => /\ ~LosesSelected(c, stored, stored')
                    /\ \/ SelectedOK(stored)
                       \/ c.name = "createAccount" /\ stored' = Effect(stored, c.name, c.of)
    BY <1>3
  <2> HIDE DEF c
  <2> QED
    BY <1>1, <1>3, <2>1, CallIs, TameKeeps DEF Common, c
<1>6. \A x \in CallsIn(pending') : x \in CallsIn(pending) \/ (x.name = "removeKeys" /\ x.item # Nobody)
  BY CallIs, LeftCalls
<1>7. ASSUME NEW x \in CallsIn(pending')
      PROVE  /\ x.name \in {"createKeys", "removeKeys", "removeAccounts", "show", "hide"}
             /\ x.name = "hide" => stored'.account # Nobody
             /\ astray' \/ Tame(x, stored'.account)
  <2>1. CASE x \in CallsIn(pending)
    BY <1>3, <1>4, <2>1 DEF Sparing
  <2>2. CASE x.name = "removeKeys" /\ x.item # Nobody
    BY <2>2 DEF Tame
  <2> QED
    BY <1>6, <2>1, <2>2
<1>8. Sparing(pending)'
  BY <1>7 DEF Sparing
<1> QED
  BY <1>2, <1>5, <1>8

(* A handler of one block ends when a call fails. *)
LEMMA OneBlockLeft ==
  ASSUME NEW P \in Seq(Blocks), pending = P, Len(P) = 1
  PROVE  /\ Tail(P) = <<>> /\ P # <<>> /\ (Left(P) => Calm(pending'))
         /\ Len(P[1]) = 1 => Rest = <<>>
         /\ Len(P[1]) > 1 => Len(Rest) = 1 /\ Rest[1] = Tail(P[1])
<1>1. P # <<>>
  <2> DEFINE E == <<>>
  <2>1. Len(E) = 0 /\ 0 # 1
    OBVIOUS
  <2> HIDE DEF E
  <2>2. P # E
    BY <2>1
  <2> QED
    BY <2>2 DEF E
<1>2. Tail(P) = <<>>
  <2> DEFINE T == Tail(P)
  <2>1. T \in Seq(Blocks) /\ Len(T) = 0
    BY <1>1, WithoutFirst
  <2> HIDE DEF T
  <2>2. T = <<>>
    BY <2>1
  <2> QED
    BY <2>2 DEF T
<1>3. CallsIn(<<>>) = {}
  BY DEF CallsIn
<1>4. ASSUME Left(P) PROVE Calm(pending')
  <2>1. CASE pending' = <<>>
    BY <1>3, <2>1 DEF Calm
  <2>2. ASSUME NEW r \in Calls, r.name = "removeKeys", r.item # Nobody, pending' = <<<<r>>>> \o Tail(P)
        PROVE  Calm(pending')
    <3>1. CallsIn(pending') \subseteq {r} \cup CallsIn(Tail(P))
      BY <1>1, <2>2, CallsLeft
    <3>2. CallsIn(pending') \subseteq {r}
      BY <1>2, <1>3, <3>1
    <3> QED
      BY <2>2, <3>2 DEF Calm, Steady
  <2> QED
    BY <1>2, <1>4, <2>1, <2>2 DEF Left
<1>5. ASSUME Len(P[1]) = 1 PROVE Rest = <<>>
  <2>1. ~(Len(P[1]) > 1)
    BY <1>5
  <2> QED
    BY <1>1, <1>2, <2>1, RestIs
<1>6. ASSUME Len(P[1]) > 1 PROVE Len(Rest) = 1 /\ Rest[1] = Tail(P[1])
  <2>1. Len(P[1]) # 1
    <3>1. ~(1 > 1)
      OBVIOUS
    <3> QED
      BY <1>6, <3>1
  <2>2. Tail(P[1]) \in Blocks /\ Rest = <<Tail(P[1])>> \o Tail(P)
    BY <1>1, <2>1, RestIs
  <2> QED
    BY <1>1, <2>2, WithFirst
<1> QED
  BY <1>1, <1>2, <1>4, <1>5, <1>6

(* The first seed. *)
LEMMA NewSeedKept ==
  ASSUME ManagementTypeOK, Common, Succeed \/ Fail, NewSeed(pending)
  PROVE  Common' /\ Calm(pending') /\ (astray' \/ SelectedOK(stored'))
<1> DEFINE X == pending[1]
<1>1. /\ pending \in Seq(Blocks) /\ pending # <<>> /\ Len(pending) = 1
      /\ NextCall = X[1] /\ X \in Seq(Calls) /\ X # <<>>
  BY CallIs, RestIs DEF NewSeed
<1>2. NextCall.name = "createSelectedKey" /\ (astray \/ stored.account = Nobody)
  BY <1>1 DEF NewSeed
<1>3. Common'
  BY <1>2, CommonKept
<1>4. stored'.account = stored.account /\ (astray => astray')
  BY <1>2, CallIs, SelectionIs DEF FindsSelected
<1>5. astray' \/ SelectedOK(stored')
  BY <1>2, <1>4 DEF SelectedOK
<1>6. ASSUME pending' = Rest PROVE Calm(pending')
  <2>1. CASE Len(X) = 1
    <3>1. Rest = <<>>
      BY <1>1, <2>1, OneBlockLeft
    <3>2. CallsIn(<<>>) = {}
      BY DEF CallsIn
    <3> QED
      BY <1>6, <3>1, <3>2 DEF Calm
  <2>2. CASE Len(X) > 1
    <3>1. Rest \in Seq(Blocks) /\ Len(Rest) = 1 /\ Rest[1] = Tail(X)
      BY <1>1, <2>2, RestIs, OneBlockLeft
    <3>2. \A j \in DOMAIN Tail(X) : Steady(Tail(X)[j])
      BY <1>1, WithoutFirst DEF NewSeed
    <3> DEFINE Q == Rest
    <3>3. Q \in Seq(Blocks) /\ Len(Q) = 1 /\ \A j \in DOMAIN Q[1] : Steady(Q[1][j])
      BY <3>1, <3>2
    <3> HIDE DEF Q
    <3>4. DOMAIN Q = {1}
      BY <3>3
    <3>5. ASSUME NEW e \in CallsIn(Q) PROVE Steady(e)
      BY <3>3, <3>4, CallsInOne
    <3>6. pending' = Q
      BY <1>6 DEF Q
    <3> QED
      BY <3>5, <3>6 DEF Calm
  <2> QED
    BY <1>1, <2>1, <2>2
<1> QED
  BY <1>1, <1>3, <1>5, <1>6, CallIs, OneBlockLeft

(* The end. *)
LEMMA LeavesKept ==
  ASSUME ManagementTypeOK, Common, Succeed \/ Fail, Leaves(pending), astray \/ SelectedOK(stored)
  PROVE  Common' /\ Calm(pending') /\ (astray' \/ SelectedOK(stored'))
<1>1. NextCall.name = "logOut" /\ NextCall.of # {} /\ Len(pending) = 1 /\ Len(pending[1]) = 1 /\ after.go = "main"
  BY CallIs, RestIs DEF Leaves
<1>2. Tail(pending) = <<>> /\ Rest = <<>>
  <2>1. pending \in Seq(Blocks) /\ pending # <<>> /\ Len(pending) = 1 /\ ~(Len(pending[1]) > 1)
    BY <1>1, CallIs
  <2>2. Tail(pending) \in Seq(Blocks) /\ Len(Tail(pending)) = 0
    BY <2>1, WithoutFirst
  <2>3. Tail(pending) = <<>>
    <3> DEFINE T == Tail(pending)
    <3>1. T \in Seq(Blocks) /\ Len(T) = 0
      BY <2>2
    <3> HIDE DEF T
    <3>2. T = <<>>
      BY <3>1
    <3> QED
      BY <3>2 DEF T
  <2>4. Rest = Tail(pending)
    BY <2>1, RestIs
  <2> QED
    BY <2>3, <2>4
<1>3. CallsIn(<<>>) = {}
  BY DEF CallsIn
<1>4. Calm(pending')
  <2>1. CASE pending' = <<>>
    BY <1>3, <2>1 DEF Calm
  <2>2. ASSUME NEW r \in Calls, r.name = "removeKeys", r.item # Nobody, pending' = <<<<r>>>> \o Tail(pending)
        PROVE  Calm(pending')
    <3>1. CallsIn(pending') \subseteq {r}
      BY <1>2, <1>3, <2>2, CallIs, CallsLeft
    <3> QED
      BY <2>2, <3>1 DEF Calm, Steady
  <2> QED
    BY <1>2, <2>1, <2>2, CallIs DEF Left
<1>5. CASE Succeed
  <2>1. stored' = Nothing
    BY <1>1, <1>5, SucceedIs DEF Outcomes, Effect
  <2>2. pending' = <<>> /\ Continue(<<>>, after)
    BY <1>2, <1>5, SucceedIs
  <2>3. place' = Closed /\ after' = Stay
    BY <1>1, <2>2 DEF Continue, Arrive
  <2>4. PanelInv'
    BY <2>3 DEF PanelInv, Closed, Stay
  <2> QED
    BY <1>4, <2>1, <2>4 DEF Common, SelectedOK, Nothing
<1>6. CASE Fail
  <2>1. stored' = stored
    BY <1>1, <1>6, FailIs DEF Failures, Effect
  <2>2. astray => astray'
    BY <1>6, FailIs
  <2>3. PICK a \in {Stay, after} : Continue(pending', a)
    BY CallIs
  <2>4. PanelInv'
    BY <2>1, <2>3, PanelKept DEF Common, PanelInv
  <2> QED
    BY <1>4, <2>1, <2>2, <2>4 DEF Common
<1> QED
  BY <1>5, <1>6

(* The keys of a Ledger: each account created is of the seed that is         *)
(* selected in the end.                                                       *)
LEMMA SignInCall ==
  ASSUME ManagementTypeOK, pending # <<>>, NEW s, SignsIn(pending, s)
  PROVE  LET c == NextCall
         IN  /\ \/ c.name \in {"createKeys", "look"} /\ SignInBlock(pending[1], s)
                \/ Creates(c, s) /\ \A w \in c.of : OwnerOf[w] \in stored.keys
                \/ c.name = "removeKeys" /\ c.item # Nobody
                \/ SelectsSeed(c, s)
             /\ Rest # Tail(pending) => SignInBlock(pending[1], s)
<1>1. pending \in Seq(Blocks) /\ 1 \in DOMAIN pending
  BY WithoutFirst DEF ManagementTypeOK
<1>2. NextCall = pending[1][1] /\ (Len(pending[1]) = 1 => Rest = Tail(pending))
  <2>1. Rest = Tail(pending) \/ Len(pending[1]) > 1
    BY <1>1, RestIs
  <2>2. NextCall = pending[1][1]
    BY <1>1, RestIs
  <2>3. Len(pending[1]) = 1 => ~(Len(pending[1]) > 1)
    OBVIOUS
  <2> QED
    BY <2>1, <2>2, <2>3
<1>3. SignInBlock(pending[1], s) \/ SignInRest(pending[1], s, stored.keys)
  BY <1>1 DEF SignsIn
<1> QED
  BY <1>2, <1>3 DEF SignInBlock, SignInRest

(* Each call leaves the account selected in the seed that is signed in.      *)
LEMMA SignInAccount ==
  ASSUME ManagementTypeOK, Succeed \/ Fail, NEW s \in Seeds, SignsIn(pending, s)
  PROVE  astray' \/ stored'.account = Nobody \/ stored'.account \in Under(stored', s)
<1> DEFINE c == NextCall
           b == stored
           d == stored'
<1>1. /\ pending # <<>> /\ c \in Calls /\ b \in Storage /\ d \in Outcomes(b, c) \cup Failures(b, c)
      /\ astray' \/ /\ ~LosesSelected(c, b, d)
                    /\ ~astray \/ (FindsSelected(c) /\ d = Effect(b, c.name, c.of))
  BY CallIs
<1>2. \/ c.name \in {"createKeys", "look", "selectSeed"} \/ (c.name = "removeKeys" /\ c.item # Nobody)
      \/ Creates(c, s) /\ \A w \in c.of : OwnerOf[w] \in b.keys
  BY <1>1, SignInCall DEF SelectsSeed
<1>3. astray \/ b.account = Nobody \/ b.account \in Under(b, s)
  BY DEF SignsIn
<1> HIDE DEF c, b, d
<1>4. CASE c.name \in {"createKeys", "look", "selectSeed"} \/ (c.name = "removeKeys" /\ c.item # Nobody)
  <2>1. d.account = b.account /\ ~FindsSelected(c) /\ c.name # "logOut"
    BY <1>1, <1>4, SelectionIs DEF FindsSelected
  <2>2. c.name \in {"removeKeys", "removeAccounts"} => Tame(c, b.account)
    BY <1>4 DEF Tame
  <2> SUFFICES ASSUME ~astray', b.account # Nobody PROVE b.account \in Under(d, s)
    BY <2>1 DEF d
  <2>3. ~LosesSelected(c, b, d) /\ b.account \in Under(b, s)
    BY <1>1, <1>3, <2>1
  <2> QED
    BY <1>1, <2>1, <2>2, <2>3, AccountKept
<1>5. CASE Creates(c, s) /\ \A w \in c.of : OwnerOf[w] \in b.keys
  <2>1. PICK w \in Wallets : c.of = {w} /\ SeedOf[OwnerOf[w]] = s
    BY <1>5 DEF Creates
  <2>2. c.name = "createAccount"
    BY <1>5 DEF Creates
  <2>3. b.keys \subseteq d.keys
    BY <1>1, <2>2, ChangeIs
  <2>4. CASE d.account = w /\ w \in d.entries
    <3>1. OwnerOf[w] \in KeysOf(d, s)
      BY <1>5, <2>1, <2>3 DEF KeysOf
    <3> QED
      BY <2>4, <3>1 DEF Under, OwnedBy, d
  <2>5. CASE d = Effect(b, c.name, c.of)
    <3>1. c.of # {}
      BY <2>1
    <3>2. d.account = (CHOOSE v \in c.of : TRUE) /\ d.entries = b.entries \cup c.of
      BY <1>1, <2>2, <2>5, <3>1 DEF Effect, Storage
    <3>3. d.account = w /\ w \in d.entries
      BY <2>1, <3>2
    <3> QED
      BY <2>4, <3>3
  <2>6. CASE d = b /\ (astray' \/ ~astray)
    BY <1>1, <1>3, <2>6 DEF d, b
  <2>7. d = b \/ d.account \in c.of \cap d.visible \cap d.entries
    BY <1>1, <2>2, SelectionIs
  <2> QED
    BY <1>1, <2>1, <2>4, <2>5, <2>6, <2>7
<1> QED
  BY <1>2, <1>4, <1>5

(* And leaves blocks of the same kind.                                       *)
LEMMA SignInBlocks ==
  ASSUME ManagementTypeOK, Succeed \/ Fail, NEW s \in Seeds, SignsIn(pending, s)
  PROVE  \A i \in DOMAIN pending' : SignInBlock(pending'[i], s) \/ (i = 1 /\ SignInRest(pending'[i], s, stored'.keys))
<1> DEFINE P == pending
<1>1. P \in Seq(Blocks) /\ P # <<>> /\ (pending' = Rest \/ Left(P))
  BY CallIs
<1>2. \A i \in DOMAIN P \ {1} : SignInBlock(P[i], s)
  BY DEF SignsIn
<1>3. \A i \in DOMAIN Tail(P) : Tail(P)[i] = P[i + 1] /\ i + 1 \in DOMAIN P \ {1}
  BY <1>1, WithoutFirst
<1>4. CASE pending' = Tail(P)
  BY <1>2, <1>3, <1>4
<1>5. ASSUME NEW x \in Blocks, SignInRest(x, s, stored'.keys), pending' = <<x>> \o Tail(P)
      PROVE  \A i \in DOMAIN pending' : SignInBlock(pending'[i], s) \/ (i = 1 /\ SignInRest(pending'[i], s, stored'.keys))
  <2> DEFINE Q == <<x>> \o Tail(P)
  <2>1. Q[1] = x /\ DOMAIN Q = DOMAIN P /\ \A i \in DOMAIN P \ {1} : Q[i] = P[i]
    BY <1>1, WithFirst
  <2> HIDE DEF Q, P
  <2>2. pending' = Q
    BY <1>5 DEF Q
  <2>3. SignInRest(pending'[1], s, stored'.keys)
    BY <1>5, <2>1, <2>2 DEF SignInRest
  <2> QED
    BY <1>2, <2>1, <2>2, <2>3
<1>6. ASSUME NEW r \in Calls, r.name = "removeKeys", r.item # Nobody, pending' = <<<<r>>>> \o Tail(P)
      PROVE  \A i \in DOMAIN pending' : SignInBlock(pending'[i], s) \/ (i = 1 /\ SignInRest(pending'[i], s, stored'.keys))
  <2>1. <<r>> \in Blocks /\ Len(<<r>>) = 1 /\ <<r>>[1] = r
    BY DEF Blocks
  <2>2. SignInRest(<<r>>, s, stored'.keys)
    BY <1>6, <2>1 DEF SignInRest
  <2> QED
    BY <1>5, <1>6, <2>1, <2>2
<1>7. CASE pending' = Rest /\ Rest # Tail(P) /\ Succeed
  <2> DEFINE X == P[1]
             x == Tail(P[1])
  <2>1. /\ NextCall = X[1] /\ X \in Seq(Calls) /\ X # <<>> /\ x \in Blocks /\ pending' = <<x>> \o Tail(P)
    BY <1>1, <1>7, RestIs
  <2>2. SignInBlock(X, s)
    BY <1>1, <1>7, SignInCall
  <2>3. Len(x) = 1 /\ x[1] = X[2]
    BY <2>1, <2>2, WithoutFirst DEF SignInBlock
  <2>4. CASE X[1].name = "createKeys" /\ Creates(X[2], s) /\ \A w \in X[2].of : OwnerOf[w] \in X[1].of
    <3>1. X[1].of \subseteq stored'.keys
      <4>1. NextCall.name = "createKeys"
        BY <2>1, <2>4
      <4>2. NextCall.of \subseteq stored'.keys
        BY <1>7, <4>1, SucceedIs, MadeIs
      <4> QED
        BY <2>1, <4>2
    <3>2. Creates(x[1], s) /\ \A w \in x[1].of : OwnerOf[w] \in stored'.keys
      BY <2>3, <2>4, <3>1
    <3> HIDE DEF x, X
    <3>3. SignInRest(x, s, stored'.keys)
      BY <2>3, <3>2 DEF SignInRest, Creates
    <3> QED
      BY <1>5, <2>1, <3>3
  <2>5. CASE X[1].name = "look" /\ SelectsSeed(X[2], s)
    <3> HIDE DEF x, X
    <3>1. SignInRest(x, s, stored'.keys)
      BY <2>3, <2>5 DEF SignInRest, SelectsSeed
    <3> QED
      BY <1>5, <2>1, <3>1
  <2> QED
    BY <2>2, <2>4, <2>5 DEF SignInBlock
<1>8. CASE Succeed
  BY <1>1, <1>4, <1>7, <1>8, SucceedIs
<1>9. CASE Fail
  BY <1>4, <1>6, <1>9, FailIs
<1> QED
  BY <1>8, <1>9

(* So that signing in to a Ledger leaves it listed.                          *)
LEMMA SignInKept ==
  ASSUME ManagementTypeOK, Common, Succeed \/ Fail, NEW s \in Seeds, SignsIn(pending, s),
         astray \/ SelectedOK(stored)
  PROVE  Common' /\ SignsIn(pending, s)' /\ (astray' \/ SelectedOK(stored'))
<1> DEFINE c == NextCall
           b == stored
           d == stored'
<1>1. /\ pending # <<>> /\ c \in Calls /\ b \in Storage /\ d \in Storage /\ d \in Outcomes(b, c) \cup Failures(b, c)
      /\ astray' \/ /\ ~LosesSelected(c, b, d)
                    /\ ~astray \/ (FindsSelected(c) /\ d = Effect(b, c.name, c.of))
  BY CallIs
<1>2. \/ c.name \in {"createKeys", "look"} \/ Creates(c, s)
      \/ c.name = "removeKeys" /\ c.item # Nobody
      \/ SelectsSeed(c, s)
  BY <1>1, SignInCall
<1>3. c.name \notin {"logOut", "hide", "selectAccount"}
  BY <1>2 DEF Creates, SelectsSeed
<1>4. Common'
  BY <1>3, CommonKept
<1>5. SignsIn(pending, s)'
  BY SignInAccount, SignInBlocks DEF SignsIn
<1>6. CASE SelectsSeed(c, s)
  <2>1. c.name = "selectSeed" /\ c.of = {s}
    BY <1>6 DEF SelectsSeed
  <2>2. d.account = b.account /\ b.visible \subseteq d.visible /\ ~FindsSelected(c)
    BY <1>1, <2>1, SelectionIs DEF FindsSelected
  <2>3. d.seed = b.seed \/ d.seed = s
    <3>1. PICK part \in SUBSET c.of : d = Effect(b, c.name, part)
      BY <1>1, <2>1 DEF Outcomes, Failures
    <3>2. CASE part = {}
      BY <3>1, <3>2 DEF Effect
    <3>3. CASE part = {s}
      <4>1. d.seed = (CHOOSE x \in {s} : TRUE)
        BY <1>1, <2>1, <3>1, <3>3 DEF Effect, Storage
      <4> QED
        BY <4>1
    <3> QED
      BY <2>1, <3>2, <3>3
  <2> SUFFICES ASSUME ~astray', b.account # Nobody PROVE b.account \in Under(d, d.seed) \cap d.visible
    BY <1>4, <1>5, <2>2 DEF SelectedOK, Listed
  <2>4. ~LosesSelected(c, b, d) /\ b.account \in Under(b, s) /\ b.account \in Listed(b, b.seed)
    BY <1>1, <2>2 DEF SignsIn, SelectedOK
  <2>5. b.account \in Under(d, b.seed) /\ b.account \in Under(d, s) /\ b.account \in b.visible
    <3>1. b.account \in Under(b, b.seed) /\ b.account \in b.visible
      BY <2>4 DEF Listed
    <3> HIDE DEF c, b, d
    <3> QED
      BY <1>1, <2>1, <2>4, <3>1, AccountKept
  <2> QED
    BY <2>2, <2>3, <2>5
<1>7. CASE ~SelectsSeed(c, s)
  <2>1. Tame(c, b.account)
    BY <1>2, <1>7 DEF Tame, Creates
  <2>2. ~astray' => /\ ~LosesSelected(c, b, d)
                    /\ \/ SelectedOK(b)
                       \/ c.name = "createAccount" /\ d = Effect(b, c.name, c.of)
    BY <1>1, <1>3 DEF FindsSelected
  <2>3. b.account = Nobody => b.entries \subseteq b.visible
    BY DEF Common
  <2> HIDE DEF c, b, d
  <2>4. astray' \/ SelectedOK(d)
    BY <1>1, <2>1, <2>2, <2>3, TameKeeps
  <2> QED
    BY <1>4, <1>5, <2>4 DEF d
<1> QED
  BY <1>4, <1>5, <1>6, <1>7

(* A switch goes on, and its account will be listed. *)
LEMMA SwitchGoesOn ==
  ASSUME ManagementTypeOK, Common, Succeed, Switches(pending, stored),
         astray \/ stored.account \in stored.visible \cup {Nobody}
  PROVE  Common' /\ Underway'
<1> DEFINE c == NextCall
           b == stored
           d == stored'
           X == pending[1]
           x == Tail(X)
<1>1. /\ pending \in Seq(Blocks) /\ pending # <<>> /\ c \in Calls /\ b \in Storage /\ d \in Storage
      /\ d \in Outcomes(b, c) /\ pending' = Rest
      /\ astray' = (LosesSelected(c, b, d) \/ (astray /\ ~FindsSelected(c)))
  BY SucceedIs
<1>2. c = X[1] /\ X \in Seq(Calls) /\ X # <<>> /\ Len(pending) = 1 /\ SwitchBlock(X, b)
  BY <1>1, RestIs DEF Switches
<1>3. c.name \in {"selectAccount", "show", "selectSeed"}
  BY <1>2 DEF SwitchBlock, Targets, SelectsSeed
<1>4. Common'
  BY <1>3, CommonKept
<1>5. /\ Len(X) = 1 => Rest = <<>>
      /\ Len(X) > 1 => Len(Rest) = 1 /\ Rest[1] = x
  BY <1>1, <1>2, OneBlockLeft
<1>6. d = Effect(b, c.name, c.of)
  BY <1>1, <1>3 DEF Outcomes
<1>7. CASE Len(X) = 1
  <2>1. c.name = "selectAccount" /\ c.of \subseteq b.visible
    BY <1>2, <1>7 DEF SwitchBlock, Targets
  <2>2. PICK w \in Wallets : c.of = {w} /\ (c.item # Nobody \/ w \in Under(b, b.seed))
    BY <1>2, <1>7 DEF SwitchBlock, Targets
  <2>3. astray' = (c.item # Nobody)
    BY <1>1, <2>1 DEF LosesSelected, FindsSelected
  <2>4. pending' = <<>> /\ CallsIn(<<>>) = {}
    BY <1>1, <1>5, <1>7 DEF CallsIn
  <2>5. ASSUME c.item = Nobody PROVE SelectedOK(d)
    <3>1. w \in Under(b, b.seed) /\ w \in b.entries
      BY <2>2, <2>5 DEF Under, OwnedBy, LinkedTo
    <3>2. d = [b EXCEPT !.account = w]
      <4>1. {w} # {} /\ {w} \subseteq b.entries /\ (CHOOSE v \in {w} : TRUE) = w
        BY <3>1
      <4> QED
        BY <1>6, <2>1, <2>2, <4>1 DEF Effect
    <3>3. d.account = w /\ d.seed = b.seed /\ d.visible = b.visible /\ Under(d, b.seed) = Under(b, b.seed)
      BY <3>2 DEF Storage, Under, OwnedBy, LinkedTo, KeysOf
    <3> QED
      BY <2>1, <2>2, <3>1, <3>3 DEF SelectedOK, Listed
  <2> QED
    BY <1>4, <2>3, <2>4, <2>5 DEF Underway, Calm
<1>8. CASE Len(X) > 1
  <2>1. c.name \in {"show", "selectSeed"}
    BY <1>2, <1>8 DEF SwitchBlock, SelectsSeed
  <2>2. astray' = astray /\ d.account = b.account /\ b.visible \subseteq d.visible
    <3>1. ~LosesSelected(c, b, d)
      BY <2>1 DEF LosesSelected
    <3>2. ~FindsSelected(c) /\ astray \in BOOLEAN
      BY <2>1 DEF FindsSelected, ManagementTypeOK
    <3>3. d.account = b.account /\ b.visible \subseteq d.visible
      <4>1. d \in Outcomes(b, c) \cup Failures(b, c)
        BY <1>1
      <4> HIDE DEF c, b, d
      <4> QED
        BY <1>1, <2>1, <4>1, SelectionIs
    <3> QED
      BY <1>1, <3>1, <3>2, <3>3
  <2>3. b.entries \subseteq d.entries /\ b.keys \subseteq d.keys /\ b.external \subseteq d.external
    BY <1>1, <2>1, ChangeIs
  <2>4. ASSUME NEW y, NEW s, Targets(y, s, b) PROVE Targets(y, s, d)
    <3>1. \A w \in Under(b, s) : w \in b.entries
      BY DEF Under, OwnedBy, LinkedTo
    <3>2. \A w \in Under(b, s) : w \in Under(d, s)
      BY <2>3, <3>1, UnderKept
    <3> QED
      BY <2>4, <3>2 DEF Targets
  <2>5. /\ Len(X) = 2 => Len(x) = 1 /\ x[1] = X[2]
        /\ Len(X) = 3 => Len(x) = 2 /\ x[1] = X[2] /\ x[2] = X[3]
    BY <1>2, WithoutFirst
  <2>6. SwitchBlock(x, d)
    <3>1. CASE Len(X) = 2 /\ X[1].name = "show" /\ X[1].of = X[2].of /\ Targets(X[2], b.seed, b)
      <4>1. X[1].of # {}
        BY <3>1 DEF Targets
      <4>2. d.seed = b.seed /\ X[1].of \subseteq d.visible
        <5>1. d = Effect(b, "show", X[1].of)
          BY <1>2, <1>6, <3>1
        <5>2. d = [b EXCEPT !.visible = @ \cup X[1].of]
          BY <4>1, <5>1 DEF Effect
        <5> QED
          BY <1>1, <5>2 DEF Storage
      <4>3. Targets(X[2], d.seed, d)
        BY <2>4, <3>1, <4>2
      <4> HIDE DEF x, X, d, b, c
      <4> QED
        BY <2>5, <3>1, <4>2, <4>3 DEF SwitchBlock
    <3>2. ASSUME NEW s \in Seeds, SelectsSeed(X[1], s) PROVE d.seed = s
      <4>1. {s} # {} /\ (CHOOSE v \in {s} : TRUE) = s
        OBVIOUS
      <4>2. d = Effect(b, "selectSeed", {s})
        BY <1>2, <1>6, <3>2 DEF SelectsSeed
      <4>3. d = [b EXCEPT !.seed = s]
        BY <4>1, <4>2 DEF Effect
      <4> QED
        BY <1>1, <4>3 DEF Storage
    <3>3. ASSUME NEW s \in Seeds, SelectsSeed(X[1], s), Targets(X[2], s, b), Len(X) = 2,
                 X[2].of \subseteq b.visible
          PROVE  SwitchBlock(x, d)
      <4>1. Targets(X[2], d.seed, d) /\ X[2].of \subseteq d.visible
        BY <2>2, <2>4, <3>2, <3>3
      <4> HIDE DEF x, X, d, b, c
      <4> QED
        BY <2>5, <3>3, <4>1 DEF SwitchBlock
    <3>4. ASSUME NEW s \in Seeds, SelectsSeed(X[1], s), Targets(X[3], s, b), Len(X) = 3,
                 X[2].name = "show", X[2].of = X[3].of
          PROVE  SwitchBlock(x, d)
      <4>1. Targets(X[3], d.seed, d)
        BY <2>4, <3>2, <3>4
      <4> HIDE DEF x, X, d, b, c
      <4> QED
        BY <2>5, <3>4, <4>1 DEF SwitchBlock
    <3> QED
      BY <1>2, <1>8, <3>1, <3>3, <3>4 DEF SwitchBlock
  <2>7. Switches(pending, stored)'
    BY <1>1, <1>5, <1>8, <2>6 DEF Switches
  <2> QED
    BY <1>4, <2>2, <2>7 DEF Underway
<1> QED
  BY <1>2, <1>7, <1>8 DEF SwitchBlock

(* Or is interrupted. *)
LEMMA SwitchEnds ==
  ASSUME ManagementTypeOK, Common, Fail, Switches(pending, stored),
         astray \/ stored.account \in stored.visible \cup {Nobody}
  PROVE  Common' /\ Underway'
<1> DEFINE c == NextCall
           b == stored
           d == stored'
           X == pending[1]
<1>1. /\ pending \in Seq(Blocks) /\ pending # <<>> /\ c \in Calls /\ b \in Storage
      /\ d \in Failures(b, c) /\ Left(pending)
      /\ astray' = (astray \/ LosesSelected(c, b, d) \/ Interrupted(pending, d))
  BY FailIs DEF Left
<1>2. c = X[1] /\ X \in Seq(Calls) /\ X # <<>> /\ Len(pending) = 1 /\ SwitchBlock(X, b)
  BY <1>1, RestIs DEF Switches
<1>3. c.name \in {"selectAccount", "show", "selectSeed"}
  BY <1>2 DEF SwitchBlock, Targets, SelectsSeed
<1>4. Common' /\ Calm(pending')
  BY <1>1, <1>2, <1>3, CommonKept, OneBlockLeft
<1>5. \E j \in DOMAIN X : X[j].name = "selectAccount"
  BY <1>2 DEF SwitchBlock, Targets
<1>6. 1 \in DOMAIN pending
  BY <1>1, WithoutFirst
<1>7. ASSUME ~astray' PROVE SelectedOK(d)
  <2>1. d.account \in Under(d, d.seed)
    BY <1>1, <1>5, <1>6, <1>7 DEF Interrupted
  <2>2. b.visible \subseteq d.visible
    BY <1>1, <1>3, SelectionIs
  <2>3. d.account \in b.visible \cup {Nobody}
    <3>1. CASE c.name # "selectAccount"
      BY <1>1, <1>3, <1>7, <3>1, SelectionIs
    <3>2. CASE c.name = "selectAccount"
      <4>1. c.of \subseteq b.visible
        BY <1>2, <3>2 DEF SwitchBlock, SelectsSeed
      <4> QED
        BY <1>1, <1>7, <3>2, <4>1, SelectionIs
    <3> QED
      BY <3>1, <3>2
  <2> QED
    BY <2>1, <2>2, <2>3 DEF SelectedOK, Listed
<1> QED
  BY <1>4, <1>7 DEF Underway

(* Every call. *)
LEMMA CallSelected ==
  ASSUME ManagementTypeOK, SelectedInv, Succeed \/ Fail
  PROVE  SelectedInv'
<1>1. CASE Switches(pending, stored) /\ (astray \/ stored.account \in stored.visible \cup {Nobody})
  BY <1>1, SwitchGoesOn, SwitchEnds DEF SelectedInv
<1>2. CASE Calm(pending) /\ (astray \/ SelectedOK(stored))
  BY <1>2, CalmKept DEF SelectedInv, Underway
<1>3. CASE Sparing(pending) /\ (astray \/ SelectedOK(stored))
  BY <1>3, SparingKept DEF SelectedInv, Underway
<1>4. CASE NewSeed(pending) /\ (astray \/ SelectedOK(stored))
  BY <1>4, NewSeedKept DEF SelectedInv, Underway
<1>5. CASE Leaves(pending) /\ (astray \/ SelectedOK(stored))
  BY <1>5, LeavesKept DEF SelectedInv, Underway
<1>6. ASSUME NEW s \in Seeds, SignsIn(pending, s), astray \/ SelectedOK(stored) PROVE SelectedInv'
  BY <1>6, SignInKept DEF SelectedInv, Underway
<1> QED
  BY <1>1, <1>2, <1>3, <1>4, <1>5, <1>6 DEF SelectedInv, Underway

(* No handler is under way, no switch is. *)
LEMMA NoneSwitches == ASSUME pending = <<>> PROVE ~Switches(pending, stored)
<1> DEFINE E == <<>>
<1>1. Len(E) = 0 /\ 0 # 1
  OBVIOUS
<1> HIDE DEF E
<1>2. pending = E
  BY DEF E
<1> QED
  BY <1>1, <1>2 DEF Switches

(* The calls with which a handler begins lose nothing. *)
LEMMA HandleSelected ==
  ASSUME ManagementTypeOK, SelectedInv, Handles
  PROVE  SelectedInv'
<1>1. /\ stored \in Storage /\ stored.keys \subseteq SeedKeys /\ stored.entries \subseteq Wallets
      /\ place.seed \in Seeds \cup {Nobody} /\ place.key \in SeedKeys \cup {Nobody}
      /\ place.account \in Wallets \cup {Nobody}
      /\ place.selected \subseteq SeedKeys /\ place.unselected \subseteq SeedKeys
  BY DEF ManagementTypeOK, Storage, Pages
<1>2. Nobody \notin Seeds /\ Nobody \notin SeedKeys /\ Nobody \notin Wallets
  BY ManagementAssumption
<1>3. pending = <<>> => astray \/ SelectedOK(stored)
  BY NoneSwitches DEF SelectedInv, Underway
<1>4. /\ \A n, of : Call(n, of).name = n /\ Call(n, of).of = of /\ Call(n, of).item = Nobody
      /\ \A n, of : Try(n, of).name = n /\ Try(n, of).of = of
  BY DEF Call, Try
<1>5. \A X : DOMAIN <<X>> = {1} /\ <<X>>[1] = X /\ Len(<<X>>) = 1
  OBVIOUS
<1>6. ASSUME NEW P, NEW a, Begin(P, a), a.go = "account" => stored.account # Nobody
      PROVE  /\ Common' /\ stored' = stored /\ pending' = P /\ after' = a
             /\ astray \/ SelectedOK(stored)
  BY <1>3, <1>6 DEF Begin, Common, PanelInv, SelectedInv
<1>7. ASSUME NEW P, NEW a, Begin(P, a), a.go = "account" => stored.account # Nobody,
             UNCHANGED astray, Calm(P)
      PROVE  SelectedInv'
  <2>1. Common' /\ stored' = stored /\ pending' = P /\ (astray' \/ SelectedOK(stored'))
    BY <1>6, <1>7
  <2>2. Calm(pending')
    BY <1>7, <2>1
  <2> QED
    BY <2>1, <2>2 DEF SelectedInv, Underway
<1>8. ASSUME NEW X, NEW a, Begin(<<X>>, a), a.go = "account" => stored.account # Nobody,
             UNCHANGED astray, \A j \in DOMAIN X : Steady(X[j])
      PROVE  SelectedInv'
  <2> DEFINE P == <<X>>
  <2>1. Begin(P, a) /\ DOMAIN P = {1} /\ P[1] = X
    BY <1>8
  <2> HIDE DEF P
  <2>2. Calm(P)
    BY <1>8, <2>1, CallsInOne DEF Calm
  <2> QED
    BY <1>7, <1>8, <2>1, <2>2
<1>9. ASSUME NEW X, NEW a, Begin(<<X>>, a), a.go # "account",
             astray => astray',
             \A j \in DOMAIN X :
               /\ X[j].name \in {"createKeys", "removeKeys", "removeAccounts", "show", "hide"}
               /\ X[j].name = "hide" => stored.account # Nobody
               /\ astray' \/ Tame(X[j], stored.account)
      PROVE  SelectedInv'
  <2> DEFINE P == <<X>>
  <2>1. Begin(P, a) /\ DOMAIN P = {1} /\ P[1] = X
    BY <1>9
  <2> HIDE DEF P
  <2>2. Common' /\ stored' = stored /\ pending' = P /\ (astray' \/ SelectedOK(stored'))
    BY <1>6, <1>9, <2>1
  <2>3. ASSUME NEW c \in CallsIn(P)
        PROVE  /\ c.name \in {"createKeys", "removeKeys", "removeAccounts", "show", "hide"}
               /\ c.name = "hide" => stored'.account # Nobody
               /\ astray' \/ Tame(c, stored'.account)
    BY <1>9, <2>1, <2>2, CallsInOne
  <2>4. Sparing(pending)'
    BY <2>2, <2>3 DEF Sparing
  <2> QED
    BY <2>2, <2>4 DEF SelectedInv, Underway
<1>10. ASSUME NEW X, NEW a, Start(X, a), a.go # "account", SelectedOK(stored) \/ astray => SwitchBlock(X, stored)
       PROVE  SelectedInv'
  <2> DEFINE P == <<X>>
  <2>1. Begin(P, a) /\ Len(P) = 1 /\ P[1] = X /\ astray' = astray
    BY <1>10 DEF Start
  <2> HIDE DEF P
  <2>2. Common' /\ stored' = stored /\ pending' = P /\ (astray \/ SelectedOK(stored))
    BY <1>6, <1>10, <2>1
  <2>3. Switches(pending, stored)'
    BY <1>10, <2>1, <2>2 DEF Switches
  <2>4. astray' \/ stored'.account \in stored'.visible \cup {Nobody}
    BY <2>1, <2>2 DEF SelectedOK, Listed
  <2> QED
    BY <2>2, <2>3, <2>4 DEF SelectedInv, Underway
<1>11. AtWelcome /\ (astray \/ SelectedOK(stored)) => astray \/ stored.account = Nobody
  <2>1. stored.seed = Nobody => KeysOf(stored, stored.seed) = {}
    BY <1>1, <1>2, ManagementAssumption DEF KeysOf
  <2>2. AtWelcome => Listed(stored, stored.seed) = {}
    BY <2>1 DEF AtWelcome, Listed, Under, OwnedBy, LinkedTo
  <2> QED
    BY <2>2 DEF SelectedOK
<1>12. ASSUME NEW X, NEW a, Start(X, a), a.go # "account", AtWelcome, X[1].name = "createSelectedKey",
              \A j \in DOMAIN X \ {1} : Steady(X[j])
       PROVE  SelectedInv'
  <2> DEFINE P == <<X>>
  <2>1. Begin(P, a) /\ Len(P) = 1 /\ P[1] = X /\ astray' = astray
    BY <1>12 DEF Start
  <2> HIDE DEF P
  <2>2. Common' /\ stored' = stored /\ pending' = P /\ (astray \/ SelectedOK(stored))
    BY <1>6, <1>12, <2>1
  <2>3. NewSeed(pending)'
    BY <1>11, <1>12, <2>1, <2>2 DEF NewSeed
  <2> QED
    BY <2>1, <2>2, <2>3 DEF SelectedInv, Underway
<1>13. CASE LogOut
  <2> DEFINE c == Call("logOut", stored.keys \cup {Nobody})
             P == <<<<c>>>>
             a == [Stay EXCEPT !.go = "main"]
  <2>1. Begin(P, a) /\ astray' = astray
    BY <1>13 DEF LogOut, Start
  <2>2. c.name = "logOut" /\ c.of # {} /\ a.go = "main"
    BY <1>4 DEF Stay
  <2>3. Len(P) = 1 /\ Len(P[1]) = 1 /\ P[1][1] = c
    OBVIOUS
  <2> HIDE DEF c, P, a
  <2>4. Common' /\ stored' = stored /\ pending' = P /\ after' = a /\ (astray \/ SelectedOK(stored))
    BY <1>6, <2>1, <2>2
  <2>5. Leaves(pending)'
    BY <2>2, <2>3, <2>4 DEF Leaves
  <2> QED
    BY <2>1, <2>4, <2>5 DEF SelectedInv, Underway
<1>14. CASE SaveLedgerAccounts
  <2>1. PICK remove \in Orders(place.unselected), create \in Orders(place.selected) :
             Begin(LedgerBlocks(remove, create),
                   [Stay EXCEPT !.go = IF place.step = "createKey" THEN "seed" ELSE "seeds"])
    BY <1>14 DEF SaveLedgerAccounts
  <2> DEFINE L == LedgerBlocks(remove, create)
             a == [Stay EXCEPT !.go = IF place.step = "createKey" THEN "seed" ELSE "seeds"]
  <2>2. L \in Seq(Blocks) /\ \A i \in DOMAIN L : \E k \in SeedKeys : L[i] \in {LedgerRemoval(k), LedgerCreation(k)}
    <3> HIDE DEF L
    <3>1. PICK n \in 0 .. Len(L) :
                   /\ \A i \in 1 .. n : \E k \in place.unselected : L[i] = LedgerRemoval(k)
                   /\ \A i \in (n + 1) .. Len(L) : \E k \in place.selected : L[i] = LedgerCreation(k)
      BY <1>1, LedgerBlocksAre DEF L
    <3>2. L \in Seq(Blocks)
      BY <1>1, LedgerBlocksAre DEF L
    <3>3. ASSUME NEW i \in DOMAIN L PROVE i \in 1 .. n \/ i \in (n + 1) .. Len(L)
      BY <3>2
    <3> QED
      BY <1>1, <3>1, <3>2, <3>3
  <2>3. ASSUME NEW k \in SeedKeys, NEW j \in DOMAIN LedgerRemoval(k) PROVE Steady(LedgerRemoval(k)[j])
    <3>1. \A n, of : /\ OfKey(k, Call(n, of)).name = n /\ OfKey(k, Call(n, of)).item = k
      BY DEF OfKey, Call
    <3>2. \A n \in {"removeKeys", "removeAccounts"} : \A of : Steady(OfKey(k, Call(n, of)))
      BY <1>2, <3>1 DEF Steady
    <3> DEFINE c1 == OfKey(k, Call("removeKeys", {k}))
               w == CHOOSE w \in OwnedBy(stored, {k}) : TRUE
               c2 == OfKey(k, Call("removeAccounts", {w}))
    <3>3. Steady(c1) /\ Steady(c2)
      BY <3>2
    <3>4. LedgerRemoval(k) = <<c1>> \o (IF OwnedBy(stored, {k}) = {} THEN <<>> ELSE <<c2>>)
      BY DEF LedgerRemoval
    <3> HIDE DEF c1, c2
    <3>5. LedgerRemoval(k)[j] \in {c1, c2}
      <4> DEFINE X == LedgerRemoval(k)
      <4>1. CASE X = <<c1>> \o <<>>
        BY <2>3, <4>1
      <4>2. CASE X = <<c1>> \o <<c2>>
        BY <2>3, <4>2
      <4> QED
        BY <3>4, <4>1, <4>2
    <3> QED
      BY <3>3, <3>5
  <2>4. ASSUME NEW k \in SeedKeys, NEW j \in DOMAIN LedgerCreation(k) PROVE Steady(LedgerCreation(k)[j])
    <3>1. \A w : /\ OfKey(k, CreateUnder(k, w)).name = "createAccount" /\ OfKey(k, CreateUnder(k, w)).of = {w}
      BY DEF OfKey, CreateUnder, Call
    <3>2. OfKey(k, Call("createKeys", {k})).name = "createKeys"
      BY DEF OfKey, Call
    <3>3. Steady(OfKey(k, Call("createKeys", {k}))) /\ \A w : Steady(OfKey(k, CreateUnder(k, w)))
      BY <3>1, <3>2 DEF Steady
    <3> QED
      BY <3>3 DEF LedgerCreation
  <2>5. Begin(L, a) /\ a.go # "account" /\ astray' = astray
    BY <1>14, <2>1 DEF SaveLedgerAccounts, Stay
  <2> HIDE DEF L, a
  <2>6. ASSUME NEW i \in DOMAIN L, NEW j \in DOMAIN L[i] PROVE Steady(L[i][j])
    BY <2>2, <2>3, <2>4, <2>6
  <2>7. Calm(L)
    BY <2>6 DEF Calm, CallsIn
  <2> QED
    BY <1>7, <2>5, <2>7
<1>15. CASE OnSubmitKeys
  <2> DEFINE known == KeysOf(stored, place.seed)
             removed == known \ place.selected
             W == OwnedBy(stored, removed) \cap Listed(stored, stored.seed)
             create == place.selected \ known
             X == KeyCallsOf(create, removed, W)
             a == [Stay EXCEPT !.go = "seed"]
  <2>1. Begin(<<X>>, a) /\ a.go # "account" /\ (astray' = (astray \/ OwnerOf[stored.account] \in removed))
    BY <1>15 DEF OnSubmitKeys, Stay
  <2>2. \A w \in W : OwnerOf[w] \in removed
    BY DEF OwnedBy
  <2>3. stored.account # Nobody
    BY <1>15 DEF OnSubmitKeys, AtSelection
  <2> DEFINE c1 == Try("createKeys", create)
             c2 == Try("removeAccounts", W)
             c3 == Try("removeKeys", removed)
  <2>4. c1.name = "createKeys" /\ c2.name = "removeAccounts" /\ c2.of = W /\ c3.name = "removeKeys" /\ c3.of = removed
    BY <1>4
  <2>5. X = IfAny(c1) \o IfAny(c2) \o IfAny(c3)
    BY DEF KeyCallsOf
  <2> HIDE DEF known, removed, W, create, X, a, c1, c2, c3
  <2>6. \A j \in DOMAIN X : X[j] \in {c1, c2, c3}
    BY <2>5 DEF IfAny
  <2>7. ASSUME NEW c \in {c1, c2, c3}
        PROVE  /\ c.name \in {"createKeys", "removeKeys", "removeAccounts"}
               /\ astray' \/ Tame(c, stored.account)
    BY <2>1, <2>2, <2>4 DEF Tame
  <2> QED
    BY <1>9, <2>1, <2>6, <2>7
<1>16. CASE OnSelectAccount
  <2> DEFINE s == place.seed
             w == place.account
             c1 == Call("selectSeed", {s})
             c2 == Call("show", {w})
             c3 == [Call("selectAccount", {w}) EXCEPT !.item = IF ReachedByKey THEN Nobody ELSE w]
             X == <<c1, c2, c3>>
             a == [Stay EXCEPT !.go = "main"]
  <2>1. Start(X, a) /\ a.go # "account" /\ s \in Seeds
    BY <1>1, <1>16 DEF OnSelectAccount, Stay
  <2>2. w \in Wallets
    BY <1>16 DEF OnSelectAccount, AtStep, ManagementTypeOK
  <2>3. c1.name = "selectSeed" /\ c1.of = {s} /\ c2.name = "show" /\ c2.of = {w}
    BY <1>4
  <2>4. c3.name = "selectAccount" /\ c3.of = {w} /\ c3.item = (IF ReachedByKey THEN Nobody ELSE w)
    BY DEF Call
  <2>5. ReachedByKey => w \in Under(stored, s)
    BY DEF ReachedByKey, Under, OwnedBy, LinkedTo
  <2>6. Len(X) = 3 /\ X[1] = c1 /\ X[2] = c2 /\ X[3] = c3
    OBVIOUS
  <2> HIDE DEF X, a, c1, c2, c3, w, s
  <2>7. Targets(c3, s, stored)
    BY <1>2, <2>2, <2>4, <2>5 DEF Targets
  <2>8. SwitchBlock(X, stored)
    BY <2>1, <2>3, <2>4, <2>6, <2>7 DEF SwitchBlock, SelectsSeed
  <2> QED
    BY <1>10, <2>1, <2>8
<1>17. CASE OnToggleVisibility
  <2> DEFINE c == Call(IF place.account \in stored.visible THEN "hide" ELSE "show", {place.account})
             X == <<c>>
  <2>1. Begin(<<X>>, Stay) /\ Stay.go # "account" /\ astray' = astray
    BY <1>17 DEF OnToggleVisibility, Start, Stay
  <2>2. c.name \in {"hide", "show"} /\ c.of = {place.account}
    BY <1>4
  <2>3. place.account # stored.account /\ place.panel # "none"
    BY <1>17 DEF OnToggleVisibility, AtStep
  <2>4. stored.account # Nobody
    BY <2>3 DEF SelectedInv, Common, PanelInv
  <2>5. DOMAIN X = {1} /\ X[1] = c
    OBVIOUS
  <2> HIDE DEF X, c
  <2>6. Tame(c, stored.account)
    BY <2>2, <2>3 DEF Tame
  <2> QED
    BY <1>9, <2>1, <2>2, <2>4, <2>5, <2>6
<1>18. ASSUME NEW k \in SeedKeys, NEW W \in SUBSET Wallets, ImportAccount(k, W)
       PROVE  SelectedInv'
  <2> DEFINE c1 == Call("createSelectedKey", {k})
             c2 == [Call("look", {k}) EXCEPT !.undo = k]
             c3 == [Call("createAccounts", W) EXCEPT !.undo = k]
             c4 == [Call("ensure", {}) EXCEPT !.undo = k]
             X == <<c1, c2, c3, c4>>
  <2>1. c1.name = "createSelectedKey" /\ c2.name = "look" /\ c3.name = "createAccounts" /\ c4.name = "ensure"
    BY DEF Call
  <2>2. Start(X, Stay) /\ Stay.go # "account" /\ AtWelcome
    BY <1>18 DEF ImportAccount, Stay
  <2>3. DOMAIN X = 1 .. 4 /\ X[1] = c1 /\ X[2] = c2 /\ X[3] = c3 /\ X[4] = c4
    OBVIOUS
  <2> HIDE DEF X, c1, c2, c3, c4
  <2>4. \A j \in DOMAIN X \ {1} : Steady(X[j])
    BY <2>1, <2>3 DEF Steady
  <2> QED
    BY <1>12, <2>1, <2>2, <2>3, <2>4
<1>19. ASSUME NEW k \in SeedKeys, NEW w \in Wallets, NewAccount(k, w)
       PROVE  SelectedInv'
  <2> DEFINE c1 == Call("createSelectedKey", {k})
             c2 == CreateUnder(k, w)
             X == <<c1, c2>>
  <2>1. c1.name = "createSelectedKey" /\ c2.name = "createAccount" /\ c2.of = {w}
    BY DEF Call, CreateUnder
  <2>2. Start(X, Stay) /\ Stay.go # "account" /\ AtWelcome
    BY <1>19 DEF NewAccount, Stay
  <2>3. DOMAIN X = 1 .. 2 /\ X[1] = c1 /\ X[2] = c2
    OBVIOUS
  <2> HIDE DEF X, c1, c2
  <2>4. \A j \in DOMAIN X \ {1} : Steady(X[j])
    BY <2>1, <2>3 DEF Steady
  <2> QED
    BY <1>12, <2>1, <2>2, <2>3, <2>4
<1>20. ASSUME NEW k \in SeedKeys, NEW W \in SUBSET Wallets, SubmitSeed(k, W)
       PROVE  SelectedInv'
  <2> DEFINE c1 == Call("createKeys", {k})
             c2 == Try("look", {k})
             c3 == Try("createAccounts", W)
             c4 == Try("ensure", {})
             X == IF W = {} THEN <<c1>> ELSE <<c1, c2, c3, c4>>
             a == [Stay EXCEPT !.go = "key", !.key = k]
  <2>1. c1.name = "createKeys" /\ c2.name = "look" /\ c3.name = "createAccounts" /\ c4.name = "ensure"
    BY <1>4
  <2>2. Begin(<<X>>, a) /\ a.go # "account" /\ astray' = astray
    BY <1>20 DEF SubmitSeed, Start, Stay
  <2> HIDE DEF c1, c2, c3, c4, a
  <2>3. \A j \in DOMAIN X : X[j] \in {c1, c2, c3, c4}
    OBVIOUS
  <2> HIDE DEF X
  <2>4. \A j \in DOMAIN X : Steady(X[j])
    BY <2>1, <2>3 DEF Steady
  <2> QED
    BY <1>8, <2>2, <2>4
<1>21. ASSUME NEW s \in Seeds, NEW K \in SUBSET SeedKeys, \A k \in K : SeedOf[k] = s, LedgerSignIn(s, K)
       PROVE  SelectedInv'
  <2> DEFINE X == <<Call("look", {s}), Call("selectSeed", {s})>>
  <2>1. PICK create \in Orders(K) : Begin(LedgerBlocks(<<>>, create) \o <<X>>, Stay)
    BY <1>21 DEF LedgerSignIn
  <2> DEFINE L == LedgerBlocks(<<>>, create)
             P == L \o <<X>>
  <2>2. <<>> \in Orders({})
    <3>1. Cardinality({}) = 0
      BY FS_EmptySet
    <3> QED
      BY <3>1 DEF Orders
  <2>3. L \in Seq(Blocks) /\ \A i \in DOMAIN L : \E k \in K : L[i] = LedgerCreation(k)
    <3> HIDE DEF L
    <3>1. PICK n \in 0 .. Len(L) :
                   /\ \A i \in 1 .. n : \E k \in {} : L[i] = LedgerRemoval(k)
                   /\ \A i \in (n + 1) .. Len(L) : \E k \in K : L[i] = LedgerCreation(k)
      BY <1>1, <2>2, LedgerBlocksAre DEF L
    <3>2. L \in Seq(Blocks)
      BY <1>1, <2>2, LedgerBlocksAre DEF L
    <3>3. ASSUME NEW i \in DOMAIN L PROVE i \in 1 .. n \/ i \in (n + 1) .. Len(L)
      BY <3>2
    <3> QED
      BY <3>1, <3>2, <3>3
  <2>4. ASSUME NEW k \in K PROVE SignInBlock(LedgerCreation(k), s)
    <3> DEFINE w == CHOOSE w \in Wallets : OwnerOf[w] = k
               c1 == OfKey(k, Call("createKeys", {k}))
               c2 == OfKey(k, CreateUnder(k, w))
               C == <<c1, c2>>
    <3>1. w \in Wallets /\ OwnerOf[w] = k
      BY ManagementAssumption
    <3> HIDE DEF w
    <3>2. c1.name = "createKeys" /\ c1.of = {k} /\ c2.name = "createAccount" /\ c2.of = {w}
      BY DEF OfKey, CreateUnder, Call
    <3>3. Len(C) = 2 /\ C[1] = c1 /\ C[2] = c2
      OBVIOUS
    <3>4. LedgerCreation(k) = C
      BY DEF LedgerCreation, w
    <3> HIDE DEF C, c1, c2
    <3>5. SeedOf[OwnerOf[w]] = s
      BY <1>21, <3>1
    <3>6. Creates(c2, s)
      BY <3>1, <3>2, <3>5 DEF Creates
    <3> QED
      BY <3>1, <3>2, <3>3, <3>4, <3>6 DEF SignInBlock
  <2>5. SignInBlock(X, s)
    <3> DEFINE c1 == Call("look", {s})
               c2 == Call("selectSeed", {s})
    <3>1. c1.name = "look" /\ c2.name = "selectSeed" /\ c2.of = {s}
      BY <1>4
    <3>2. Len(X) = 2 /\ X[1] = c1 /\ X[2] = c2
      OBVIOUS
    <3> HIDE DEF c1, c2, X
    <3> QED
      BY <3>1, <3>2 DEF SignInBlock, SelectsSeed
  <2>6. Begin(P, Stay) /\ Stay.go # "account" /\ astray' = astray /\ AtWelcome
    BY <1>21, <2>1 DEF LedgerSignIn, Stay
  <2> HIDE DEF L, X
  <2>7. \A i \in DOMAIN P : P[i] = X \/ \E l \in DOMAIN L : P[i] = L[l]
    BY <2>3
  <2> HIDE DEF P
  <2>8. \A i \in DOMAIN P : SignInBlock(P[i], s)
    BY <2>3, <2>4, <2>5, <2>7
  <2>9. Common' /\ stored' = stored /\ pending' = P /\ (astray \/ SelectedOK(stored))
    BY <1>6, <2>6
  <2>10. SignsIn(pending, s)'
    BY <1>11, <2>6, <2>8, <2>9 DEF SignsIn
  <2> QED
    BY <2>6, <2>9, <2>10 DEF SelectedInv, Underway
<1>22. ASSUME NEW w \in Wallets, Slide(w) PROVE SelectedInv'
  <2> DEFINE c == Call("selectAccount", {w})
             X == <<c>>
  <2>1. Start(X, Stay) /\ Stay.go # "account" /\ w \in Listed(stored, stored.seed)
    BY <1>22 DEF Slide, Stay
  <2>2. c.name = "selectAccount" /\ c.of = {w} /\ Len(X) = 1 /\ X[1] = c
    BY <1>4
  <2> HIDE DEF c, X
  <2>3. SwitchBlock(X, stored)
    BY <2>1, <2>2 DEF SwitchBlock, Targets, Listed
  <2> QED
    BY <1>10, <2>1, <2>3
<1>23. ASSUME NEW w \in Wallets, NEW X, SubmitAccount(w, X), \E l : AtForm(l),
              \A j \in DOMAIN X : Steady(X[j])
       PROVE  SelectedInv'
  <2> DEFINE a == [Stay EXCEPT !.go = "account", !.account = w]
  <2>1. Begin(<<X>>, a) /\ UNCHANGED astray
    BY <1>23 DEF SubmitAccount
  <2>2. place.panel # "none"
    BY <1>23 DEF AtForm
  <2>3. stored.account # Nobody
    BY <2>2 DEF SelectedInv, Common, PanelInv
  <2> HIDE DEF a
  <2> QED
    BY <1>8, <1>23, <2>1, <2>3
<1>24. \A w : /\ Steady(Call("createAccount", {w})) /\ Steady(Call("look", {w})) /\ Steady(Call("show", {w}))
              /\ Steady(Call("link", {w}))
  BY <1>4 DEF Steady
<1>25. ASSUME NEW w \in Wallets, OnSubmit(w) PROVE SelectedInv'
  <2> DEFINE c == Call("createAccount", {w})
  <2>1. SubmitAccount(w, <<c>>) /\ \E l : AtForm(l)
    BY <1>25 DEF OnSubmit
  <2>2. Steady(c)
    BY <1>24
  <2> HIDE DEF c
  <2> QED
    BY <1>23, <2>1, <2>2
<1>26. ASSUME NEW w \in Wallets, OnAddExisting(w) PROVE SelectedInv'
  <2> DEFINE c1 == Call("look", {w})
             c2 == Call("link", {<<w, place.key>>})
             c3 == IF w \in stored.entries THEN Call("show", {w}) ELSE Call("createAccount", {w})
             c == Call("createAccount", {w})
  <2>1. Steady(c1) /\ Steady(c2) /\ Steady(c3) /\ Steady(c)
    BY <1>24
  <2>2. /\ \E l : AtForm(l)
        /\ SubmitAccount(w, <<c1, c>>) \/ SubmitAccount(w, <<c1, c2, c3>>)
    BY <1>26 DEF OnAddExisting
  <2> HIDE DEF c1, c2, c3, c
  <2>3. CASE SubmitAccount(w, <<c1, c>>)
    BY <1>23, <2>1, <2>2, <2>3
  <2>4. CASE SubmitAccount(w, <<c1, c2, c3>>)
    BY <1>23, <2>1, <2>2, <2>4
  <2> QED
    BY <2>2, <2>3, <2>4
<1>27. ASSUME NEW s \in Seeds, OnSelectMaster(s) PROVE SelectedInv'
  <2>1. ASSUME NEW w \in Listed(stored, s),
               Start(<<Call("selectSeed", {s}), Call("selectAccount", {w})>>, [Stay EXCEPT !.go = "panel"])
        PROVE  SelectedInv'
    <3> DEFINE c1 == Call("selectSeed", {s})
               c2 == Call("selectAccount", {w})
               X == <<c1, c2>>
               a == [Stay EXCEPT !.go = "panel"]
    <3>1. Start(X, a) /\ a.go # "account"
      BY <2>1 DEF Stay
    <3>2. c1.name = "selectSeed" /\ c1.of = {s} /\ c2.name = "selectAccount" /\ c2.of = {w}
      BY <1>4
    <3>3. Len(X) = 2 /\ X[1] = c1 /\ X[2] = c2
      OBVIOUS
    <3> HIDE DEF c1, c2, X, a
    <3>4. w \in Wallets /\ w \in Under(stored, s) /\ w \in stored.visible
      BY <1>1 DEF Listed, Under, OwnedBy, LinkedTo
    <3>5. SelectsSeed(c1, s) /\ Targets(c2, s, stored) /\ c2.of \subseteq stored.visible
      BY <3>2, <3>4 DEF SelectsSeed, Targets
    <3>6. SwitchBlock(X, stored)
      BY <3>3, <3>5 DEF SwitchBlock
    <3> QED
      BY <1>10, <3>1, <3>6
  <2>2. CASE Visit([place EXCEPT !.panel = "seeds", !.step = "manageSeed", !.local = "index", !.seed = s])
    <3>1. stored.account # Nobody
      BY <1>27 DEF OnSelectMaster, OnMain, AtMain
    <3>2. UNCHANGED <<stored, pending, after, astray>>
      BY <2>2 DEF Visit
    <3>3. Common'
      BY <3>1, <3>2 DEF SelectedInv, Common, PanelInv
    <3>4. Underway'
      BY <3>2 DEF SelectedInv, Underway, Sparing, NewSeed, Leaves, SignsIn
    <3> QED
      BY <3>3, <3>4 DEF SelectedInv
  <2> QED
    BY <1>27, <2>1, <2>2 DEF OnSelectMaster
<1>28. LedgerSeeds \subseteq Seeds /\ \A s \in Seeds : FirstKeyOf[s] \in SeedKeys
  BY ManagementAssumption
<1> QED
  BY <1>13, <1>14, <1>15, <1>16, <1>17, <1>18, <1>19, <1>20, <1>21, <1>22, <1>25, <1>26, <1>27, <1>28 DEF Handles

(* A page that is turned opens over an account that is selected. *)
LEMMA TurnSelected ==
  ASSUME ManagementTypeOK, SelectedInv, Turns
  PROVE  SelectedInv'
<1>1. UNCHANGED <<stored, pending, after, astray>>
  BY TurnTyped
<1>2. place'.panel # "none" => place.panel # "none" \/ OnMain
  <2> place \in Pages
    BY DEF ManagementTypeOK
  <2> USE DEF Visit, Pages, At, GoTo, Closed, AtStep
  <2>1. CASE ClosePanel BY <2>1 DEF ClosePanel
  <2>2. CASE OnManageSeeds BY <2>2 DEF OnManageSeeds
  <2>3. CASE AddAccountCard BY <2>3 DEF AddAccountCard
  <2>4. CASE AddSeed BY <2>4 DEF AddSeed
  <2>5. CASE TurnSeedStep BY <2>5 DEF TurnSeedStep
  <2>6. CASE LeaveCreateSeed BY <2>6 DEF LeaveCreateSeed
  <2>7. CASE BackToSeeds BY <2>7 DEF BackToSeeds
  <2>8. CASE AddDerivedKey BY <2>8 DEF AddDerivedKey
  <2>9. CASE EnterPassword BY <2>9 DEF EnterPassword
  <2>10. CASE BackToSeed BY <2>10 DEF BackToSeed
  <2>11. CASE AddAccount BY <2>11 DEF AddAccount
  <2>12. CASE TurnAccountStep BY <2>12 DEF TurnAccountStep, AtForm
  <2>13. CASE BackFromIndex BY <2>13 DEF BackFromIndex, AtForm
  <2>14. CASE BackToKey BY <2>14 DEF BackToKey
  <2>15. CASE \E w \in Wallets : OnManageAccount(w) BY <2>15 DEF OnManageAccount
  <2>16. CASE \E s \in Seeds : OnManageMasterKey(s) BY <2>16 DEF OnManageMasterKey
  <2>17. CASE \E k \in SeedKeys : OnManageDerivedKey(k) BY <2>17 DEF OnManageDerivedKey
  <2>18. CASE \E k \in SeedKeys : CheckKey(k) BY <2>18 DEF CheckKey, AtSelection
  <2>19. CASE \E k \in SeedKeys : CheckLedgerKey(k) BY <2>19 DEF CheckLedgerKey, LedgerAt
  <2>20. CASE \E k \in SeedKeys : OnChangeDerivedKey(k) BY <2>20 DEF OnChangeDerivedKey, AtForm
  <2>21. CASE \E k \in SeedKeys : ManageLinkedKey(k) BY <2>21 DEF ManageLinkedKey
  <2> QED
    BY <2>1, <2>2, <2>3, <2>4, <2>5, <2>6, <2>7, <2>8, <2>9, <2>10, <2>11,
       <2>12, <2>13, <2>14, <2>15, <2>16, <2>17, <2>18, <2>19, <2>20, <2>21 DEF Turns
<1>3. OnMain => stored.account # Nobody
  BY DEF OnMain, AtMain
<1>4. Common'
  BY <1>1, <1>2, <1>3 DEF SelectedInv, Common, PanelInv
<1>5. Underway'
  BY <1>1 DEF SelectedInv, Underway, Sparing, NewSeed, Leaves, SignsIn
<1> QED
  BY <1>4, <1>5 DEF SelectedInv

(* A window that is closed ends its handler. *)
LEMMA CloseSelected ==
  ASSUME ManagementTypeOK, SelectedInv, CloseWindow
  PROVE  SelectedInv'
<1>1. /\ place' = Closed /\ pending' = <<>> /\ after' = Stay /\ stored' = stored
      /\ astray' = (astray \/ Interrupted(pending, stored))
  BY DEF CloseWindow
<1>2. Common'
  BY <1>1 DEF SelectedInv, Common, PanelInv, Closed, Stay
<1>3. CallsIn(<<>>) = {}
  BY DEF CallsIn
<1>4. Calm(pending')
  BY <1>1, <1>3 DEF Calm
<1>5. ASSUME Switches(pending, stored), stored.account \in stored.visible \cup {Nobody}, ~astray'
      PROVE  SelectedOK(stored)
  <2> DEFINE X == pending[1]
  <2>1. Len(pending) = 1 /\ SwitchBlock(X, stored)
    BY <1>5 DEF Switches
  <2>2. 1 \in DOMAIN pending
    BY <2>1 DEF ManagementTypeOK
  <2>3. X \in Seq(Calls)
    BY <2>2 DEF ManagementTypeOK, Blocks
  <2>4. \E j \in DOMAIN X : X[j].name = "selectAccount"
    BY <2>1, <2>3 DEF SwitchBlock, Targets
  <2>5. stored.account \in Under(stored, stored.seed)
    BY <1>1, <1>5, <2>2, <2>4 DEF Interrupted
  <2> QED
    BY <1>5, <2>5 DEF SelectedOK, Listed
<1>6. astray' \/ SelectedOK(stored')
  BY <1>1, <1>5 DEF SelectedInv, Underway
<1> QED
  BY <1>2, <1>4, <1>6 DEF SelectedInv, Underway

(* At first the account selected is listed, or noted. *)
LEMMA SelectedInit == ManagementInit => SelectedInv
<1> SUFFICES ASSUME ManagementInit PROVE SelectedInv
  OBVIOUS
<1>1. pending = <<>> /\ after = Stay /\ place = Closed
  BY DEF ManagementInit
<1>2. astray \/ SelectedOK(stored)
  BY DEF ManagementInit, SelectedOK
<1>3. stored.account = Nobody => stored.entries = {}
  BY ManagementAssumption DEF ManagementInit, Nothing
<1>4. Common
  BY <1>1, <1>3 DEF Common, PanelInv, Closed, Stay
<1>5. CallsIn(<<>>) = {}
  BY DEF CallsIn
<1>6. Calm(pending)
  BY <1>1, <1>5 DEF Calm
<1> QED
  BY <1>2, <1>4, <1>6 DEF SelectedInv, Underway

(* Every step leaves the account selected listed. *)
LEMMA SelectedNext == ManagementTypeOK /\ SelectedInv /\ [ManagementNext]_managementVars => SelectedInv'
<1> SUFFICES ASSUME ManagementTypeOK, SelectedInv, [ManagementNext]_managementVars PROVE SelectedInv'
  OBVIOUS
<1>1. CASE UNCHANGED managementVars
  <2>1. UNCHANGED <<stored, place, pending, after, astray>>
    BY <1>1 DEF managementVars
  <2> QED
    BY <2>1 DEF SelectedInv, Common, PanelInv, Underway, Sparing, NewSeed, Leaves, SignsIn
<1> QED
  BY <1>1, CallSelected, TurnSelected, CloseSelected, HandleSelected, TurnsAndHandles

(* Between handlers the account selected is among those the main page lists  *)
(* for the seed selected, unless it was lost where the code is known to.     *)
THEOREM SelectedListed == ManagementSpec => []SelectedIsListed
<1>1. ManagementTypeOK /\ SelectedInv => SelectedIsListed
  <2> SUFFICES ASSUME ManagementTypeOK, SelectedInv, pending = <<>>, ~astray PROVE SelectedOK(stored)
    BY DEF SelectedIsListed, SelectedOK
  <2>1. ~Switches(pending, stored)
    BY NoneSwitches
  <2> QED
    BY <2>1 DEF SelectedInv, Underway
<1> QED
  BY <1>1, SelectedInit, SelectedNext, ManagementTypes, PTL DEF ManagementSpec

----------------------------------------------------------------------------
(* A set with 0, and with the successor of each of its numbers, has all. *)
LEMMA AllNumbers ==
  ASSUME NEW T \in SUBSET Nat, 0 \in T, \A n \in T : n + 1 \in T
  PROVE  \A n \in Nat : n \in T
<1> DEFINE U == Nat \ T
<1>1. SUFFICES ASSUME U # {} PROVE FALSE
  OBVIOUS
<1>2. PICK m \in U : \A k \in U : <<k, m>> \notin OpToRel(<, Nat)
  <2>1. U \subseteq Nat
    OBVIOUS
  <2> HIDE DEF U
  <2> QED
    BY <1>1, <2>1, WFMin, NatLessThanWellFounded, Zenon
<1>3. \A k \in U : ~(k < m)
  BY <1>2, Zenon DEF OpToRel
<1>4. m # 0 /\ m - 1 \in Nat /\ m - 1 < m
  OBVIOUS
<1>5. m - 1 \in T
  BY <1>3, <1>4
<1> QED
  BY <1>4, <1>5

(* A pass of the loop over the batch from f to l. *)
Pass(g, f, l, n) ==
    IF n = 0 THEN aggregated
    ELSE IF l + 1 - n \in Looked(f..l) THEN Aggregate(g[n - 1], l + 1 - n)
    ELSE g[n - 1]

IsLoop(g, f, l, N) == g = [n \in 0..N |-> Pass(g, f, l, n)]

(* The loop can be run for any number of passes. *)
LEMMA LoopRuns ==
  ASSUME NEW f, NEW l, NEW N \in Nat
  PROVE  \E g : IsLoop(g, f, l, N)
<1> DEFINE T == {n \in Nat : \E g : IsLoop(g, f, l, n)}
<1>1. 0 \in T
  <2> DEFINE g == [n \in 0..0 |-> aggregated]
  <2>1. g = [n \in 0..0 |-> Pass(g, f, l, n)]
    BY DEF Pass
  <2> QED
    BY <2>1 DEF IsLoop
<1>2. ASSUME NEW n \in T PROVE n + 1 \in T
  <2>1. PICK g : g = [k \in 0..n |-> Pass(g, f, l, k)]
    BY DEF IsLoop
  <2> DEFINE h == [k \in 0 .. n + 1 |-> IF k = n + 1 THEN Pass(g, f, l, k) ELSE g[k]]
  <2>2. n \in Nat
    OBVIOUS
  <2>3. ASSUME NEW k \in 0 .. n + 1 PROVE h[k] = Pass(h, f, l, k)
    <3>1. k # 0 => k - 1 \in 0..n /\ h[k - 1] = g[k - 1]
      BY <2>2
    <3>2. Pass(h, f, l, k) = Pass(g, f, l, k)
      BY <3>1 DEF Pass
    <3>3. k # n + 1 => g[k] = Pass(g, f, l, k)
      BY <2>1, <2>2
    <3> QED
      BY <3>2, <3>3
  <2>4. h = [k \in 0 .. n + 1 |-> Pass(h, f, l, k)]
    <3> DEFINE h2 == [k \in 0 .. n + 1 |-> Pass(h, f, l, k)]
    <3> QED
      BY <2>3
  <2>5. IsLoop(h, f, l, n + 1)
    BY <2>4 DEF IsLoop
  <2>6. n + 1 \in Nat
    BY <2>2
  <2> HIDE DEF h
  <2> QED
    BY <2>5, <2>6
<1>3. T \in SUBSET Nat
  OBVIOUS
<1> HIDE DEF T
<1>4. N \in T
  BY <1>1, <1>2, <1>3, AllNumbers
<1> QED
  BY <1>4 DEF T

(* And what it makes of the table is what its last pass does. *)
LEMMA LoopIs ==
  ASSUME NEW f \in Nat, NEW l \in Nat, f <= l + 1
  PROVE  \E g : IsLoop(g, f, l, l + 1 - f) /\ AggregatedBy(f, l) = g[l + 1 - f]
<1> DEFINE N == l + 1 - f
           g == CHOOSE h : h = [n \in 0..N |-> Pass(h, f, l, n)]
<1>1. N \in Nat
  OBVIOUS
<1>2. \E h : h = [n \in 0..N |-> Pass(h, f, l, n)]
  <2> HIDE DEF N
  <2>1. PICK h : IsLoop(h, f, l, N)
    BY <1>1, LoopRuns
  <2>2. h = [n \in 0..N |-> Pass(h, f, l, n)]
    BY <2>1 DEF IsLoop
  <2> QED
    BY <2>2
<1>3. g = [n \in 0..N |-> Pass(g, f, l, n)]
  BY <1>2
<1>4. AggregatedBy(f, l) = g[N]
  BY DEF AggregatedBy, Pass
<1> QED
  BY <1>3, <1>4 DEF IsLoop

(* The votes among the transactions of D, and what is made of them. *)
VotesIn(D, id) == {i \in D : chain[i].id = id /\ chain[i].kind \in {"submit", "confirm"}}

MadeOf(info, V) ==
    /\ Len(info.confirmations) = Cardinality(V)
    /\ \A i \in V :
          /\ \E n \in 1..Len(info.confirmations) : info.confirmations[n] = chain[i].by
          /\ chain[i].kind = "submit" => info.created = "submission"
          /\ chain[i].kind = "confirm" /\ chain[i].out => info.final # 0

Infos == [confirmations : Seq(Custodians), final : Nat, created : {"unknown", "submission", "id"}]
Made(table, D) == table \in [Ids -> Infos] /\ \A id \in Ids : MadeOf(table[id], VotesIn(D, id))

TransactionsInv ==
    /\ chain \in Chains
    /\ first \in Nat \ {0} /\ last \in Nat /\ last <= Len(chain) /\ first <= last + 1
    /\ last = 0 => first = 1
    /\ ~doubled => passed \subseteq first..last /\ Made(aggregated, (first..last) \ passed)

(* A transaction of the account. *)
LEMMA TransactionIs ==
  ASSUME chain \in Chains, NEW i \in 1 .. Len(chain)
  PROVE  /\ chain[i].kind \in Kinds /\ chain[i].id \in Ids /\ chain[i].by \in Custodians
         /\ chain[i].out \in BOOLEAN /\ i \in Nat /\ i # 0 /\ Len(chain) \in Nat
<1> DEFINE S == [kind : Kinds, id : Ids, by : Custodians, out : BOOLEAN]
<1>1. chain \in Seq(S)
  BY ChainsAssumption
<1>2. chain[i] \in S /\ i \in Nat /\ i # 0 /\ Len(chain) \in Nat
  <2> HIDE DEF S
  <2> QED
    BY <1>1
<1> QED
  BY <1>2

(* The transaction i is added to info. *)
OneMore(info, more, i) ==
    /\ more.confirmations = Append(info.confirmations, chain[i].by)
    /\ info.created = "submission" => more.created = "submission"
    /\ info.final # 0 => more.final # 0
    /\ chain[i].kind = "submit" => more.created = "submission"
    /\ chain[i].kind = "confirm" /\ chain[i].out => more.final # 0

(* What an append makes of a sequence. *)
LEMMA AppendIs ==
  ASSUME NEW S, NEW s \in Seq(S), NEW e \in S, NEW t, t = Append(s, e)
  PROVE  /\ Len(s) \in Nat /\ Len(t) = Len(s) + 1 /\ t[Len(s) + 1] = e
         /\ \A n \in 1 .. Len(s) : t[n] = s[n]
OBVIOUS

(* A vote is added to what was made of those before. *)
LEMMA VoteAdded ==
  ASSUME NEW info \in Infos, NEW V \in SUBSET (1 .. Len(chain)), MadeOf(info, V), IsFiniteSet(V),
         chain \in Chains, NEW i \in 1 .. Len(chain), i \notin V, NEW more \in Infos,
         OneMore(info, more, i)
  PROVE  MadeOf(more, V \cup {i})
<1> DEFINE s == info.confirmations
           t == more.confirmations
<1>1. s \in Seq(Custodians) /\ chain[i].by \in Custodians /\ t = Append(s, chain[i].by)
  BY TransactionIs DEF Infos, OneMore
<1> HIDE DEF s, t
<1>2. /\ Len(s) \in Nat /\ Len(t) = Len(s) + 1 /\ t[Len(s) + 1] = chain[i].by
      /\ \A n \in 1 .. Len(s) : t[n] = s[n]
  BY <1>1, AppendIs
<1>3. Cardinality(V \cup {i}) = Cardinality(V) + 1
  BY FS_AddElement
<1>4. Len(t) = Cardinality(V \cup {i})
  BY <1>2, <1>3 DEF MadeOf, s
<1>5. ASSUME NEW j \in V \cup {i}
      PROVE  /\ \E n \in 1 .. Len(t) : t[n] = chain[j].by
             /\ chain[j].kind = "submit" => more.created = "submission"
             /\ chain[j].kind = "confirm" /\ chain[j].out => more.final # 0
  <2>1. CASE j = i
    <3>1. Len(s) + 1 \in 1 .. Len(t)
      BY <1>2
    <3> QED
      BY <1>2, <2>1, <3>1 DEF OneMore
  <2>2. CASE j \in V
    <3>1. PICK n \in 1 .. Len(s) : s[n] = chain[j].by
      BY <2>2 DEF MadeOf, s
    <3>2. n \in 1 .. Len(t) /\ t[n] = chain[j].by
      BY <1>2, <3>1
    <3>3. /\ chain[j].kind = "submit" => info.created = "submission"
          /\ chain[j].kind = "confirm" /\ chain[j].out => info.final # 0
      BY <2>2 DEF MadeOf
    <3> QED
      BY <3>2, <3>3 DEF OneMore
  <2> QED
    BY <2>1, <2>2
<1> QED
  BY <1>4, <1>5 DEF MadeOf, t

(* The votes with one transaction more. *)
LEMMA VotesWith ==
  ASSUME chain \in Chains, NEW D \in SUBSET (1 .. Len(chain)), NEW i \in 1 .. Len(chain), i \notin D,
         NEW id
  PROVE  /\ VotesIn(D, id) \in SUBSET (1 .. Len(chain)) /\ IsFiniteSet(VotesIn(D, id))
         /\ i \notin VotesIn(D, id)
         /\ VotesIn(D \cup {i}, id) = IF chain[i].id = id /\ chain[i].kind \in {"submit", "confirm"}
                                      THEN VotesIn(D, id) \cup {i} ELSE VotesIn(D, id)
<1>1. IsFiniteSet(1 .. Len(chain))
  <2>1. Len(chain) \in Int /\ 1 \in Int
    BY TransactionIs
  <2> QED
    BY <2>1, FS_Interval
<1>2. VotesIn(D, id) \in SUBSET (1 .. Len(chain)) /\ i \notin VotesIn(D, id)
  BY DEF VotesIn
<1>3. IsFiniteSet(VotesIn(D, id))
  BY <1>1, <1>2, FS_Subset
<1> QED
  BY <1>2, <1>3 DEF VotesIn

(* A table is made of one transaction more when only the row of its vote *)
(* changes, and has it.                                                  *)
LEMMA VoteMakes ==
  ASSUME chain \in Chains, NEW D \in SUBSET (1 .. Len(chain)), NEW table, Made(table, D),
         NEW i \in 1 .. Len(chain), i \notin D, chain[i].kind \in {"submit", "confirm"},
         NEW c, c = chain[i].id, NEW info, info = table[c], NEW more \in Infos,
         NEW t, t = [table EXCEPT ![c] = more],
         OneMore(info, more, i)
  PROVE  Made(t, D \cup {i})
<1>1. table \in [Ids -> Infos] /\ c \in Ids /\ \A id \in Ids : MadeOf(table[id], VotesIn(D, id))
  BY TransactionIs DEF Made
<1>2. t \in [Ids -> Infos] /\ t[c] = more /\ \A id \in Ids : id # c => t[id] = table[id]
  BY <1>1
<1>3. MadeOf(more, VotesIn(D \cup {i}, c))
  <2> DEFINE V == VotesIn(D, c)
  <2>1. VotesIn(D \cup {i}, c) = V \cup {i}
    BY VotesWith
  <2>2. info \in Infos /\ MadeOf(info, V) /\ V \in SUBSET (1 .. Len(chain)) /\ IsFiniteSet(V) /\ i \notin V
    BY <1>1, VotesWith
  <2> HIDE DEF V
  <2>3. MadeOf(more, V \cup {i})
    BY <2>2, VoteAdded
  <2> QED
    BY <2>1, <2>3
<1>4. ASSUME NEW id \in Ids PROVE MadeOf(t[id], VotesIn(D \cup {i}, id))
  <2>1. CASE id = c
    BY <1>2, <1>3, <2>1
  <2>2. CASE id # c
    <3>1. VotesIn(D \cup {i}, id) = VotesIn(D, id)
      BY <2>2, VotesWith
    <3> QED
      BY <1>1, <1>2, <2>2, <3>1
  <2> QED
    BY <2>1, <2>2
<1> QED
  BY <1>2, <1>4 DEF Made

(* A transaction adds its vote, if it is one. *)
LEMMA AggregateMakes ==
  ASSUME chain \in Chains, NEW D \in SUBSET (1 .. Len(chain)), NEW table, Made(table, D),
         NEW i \in 1 .. Len(chain), i \notin D
  PROVE  Made(Aggregate(table, i), D \cup {i})
<1> DEFINE c == chain[i].id
           t == Aggregate(table, i)
           info == table[c]
           cs == Append(info.confirmations, chain[i].by)
<1>1. table \in [Ids -> Infos] /\ c \in Ids /\ chain[i].by \in Custodians /\ i \in Nat /\ i # 0
  BY TransactionIs DEF Made
<1>2. info \in Infos /\ cs \in Seq(Custodians)
  <2>1. info \in Infos
    BY <1>1
  <2>2. info.confirmations \in Seq(Custodians)
    BY <2>1 DEF Infos
  <2> QED
    BY <1>1, <2>1, <2>2
<1>3. CASE chain[i].kind \notin {"submit", "confirm"}
  <2>1. t = table
    BY <1>3 DEF Aggregate
  <2>2. \A id \in Ids : VotesIn(D \cup {i}, id) = VotesIn(D, id)
    BY <1>3, VotesWith
  <2> QED
    BY <2>1, <2>2 DEF Made
<1>4. CASE chain[i].kind = "submit"
  <2> DEFINE more == [info EXCEPT !.confirmations = cs, !.created = "submission"]
  <2>1. t = [table EXCEPT ![c] = more]
    BY <1>1, <1>4 DEF Aggregate, Submitted
  <2> HIDE DEF t, c, info, cs
  <2>2. /\ more \in Infos /\ more.confirmations = cs
        /\ more.created = "submission" /\ more.final = info.final
    BY <1>2 DEF Infos
  <2> HIDE DEF more
  <2>3. c = chain[i].id /\ info = table[c] /\ cs = Append(info.confirmations, chain[i].by)
    BY DEF c, info, cs
  <2>4. Made(t, D \cup {i})
    <3>1. OneMore(info, more, i)
      BY <1>4, <2>2, <2>3 DEF OneMore
    <3> QED
      BY <1>4, <2>1, <2>2, <2>3, <3>1, VoteMakes
  <2> QED
    BY <2>4 DEF t
<1>5. CASE chain[i].kind = "confirm"
  <2> DEFINE more == [info EXCEPT !.confirmations = cs,
                                  !.final = IF chain[i].out THEN i ELSE @,
                                  !.created = IF @ = "unknown" THEN "id" ELSE @]
  <2>1. t = [table EXCEPT ![c] = more]
    BY <1>1, <1>5 DEF Aggregate, Confirmed
  <2> HIDE DEF t, c, info, cs
  <2>2. /\ more \in Infos /\ more.confirmations = cs
        /\ more.created = (IF info.created = "unknown" THEN "id" ELSE info.created)
        /\ more.final = (IF chain[i].out THEN i ELSE info.final)
    BY <1>1, <1>2 DEF Infos
  <2> HIDE DEF more
  <2>3. c = chain[i].id /\ info = table[c] /\ cs = Append(info.confirmations, chain[i].by)
    BY DEF c, info, cs
  <2>4. OneMore(info, more, i)
    BY <1>1, <1>5, <2>2, <2>3 DEF OneMore
  <2>5. Made(t, D \cup {i})
    BY <1>5, <2>1, <2>2, <2>3, <2>4, VoteMakes
  <2> QED
    BY <2>5 DEF t
<1> QED
  BY <1>3, <1>4, <1>5

(* The loop adds those it looks at. *)
LEMMA LoopMakes ==
  ASSUME chain \in Chains, NEW f \in Nat \ {0}, NEW l \in Nat, f <= l + 1, l <= Len(chain),
         NEW D \in SUBSET (1 .. Len(chain)), D \cap (f..l) = {}, Made(aggregated, D)
  PROVE  Made(AggregatedBy(f, l), D \cup Looked(f..l))
<1> DEFINE N == l + 1 - f
           K == Looked(f..l)
<1>1. N \in Nat /\ K \subseteq f..l
  BY DEF Looked
<1>2. PICK g : IsLoop(g, f, l, N) /\ AggregatedBy(f, l) = g[N]
  BY LoopIs
<1>3. \A n \in 0..N : g[n] = Pass(g, f, l, n)
  <2> HIDE DEF N
  <2> QED
    BY <1>2 DEF IsLoop
<1> DEFINE Upto(n) == D \cup (K \cap (l + 1 - n .. l))
           T == {n \in Nat : n <= N => Made(g[n], Upto(n))}
<1>4. 0 \in T
  <2>1. g[0] = aggregated
    BY <1>1, <1>3 DEF Pass
  <2>2. Upto(0) = D
    BY <1>1
  <2> QED
    BY <2>1, <2>2
<1>5. ASSUME NEW n \in Nat, Made(g[n], Upto(n)), n + 1 <= N PROVE Made(g[n + 1], Upto(n + 1))
  <2> DEFINE i == l + 1 - (n + 1)
  <2>1. n + 1 \in 0..N /\ n + 1 # 0 /\ (n + 1) - 1 = n /\ i \in f..l /\ i \in 1 .. Len(chain)
    BY <1>5, TransactionIs
  <2>2. g[n + 1] = Pass(g, f, l, n + 1)
    BY <1>3, <2>1
  <2>3. g[n + 1] = IF i \in K THEN Aggregate(g[n], i) ELSE g[n]
    BY <2>1, <2>2 DEF Pass
  <2>4. Upto(n + 1) = IF i \in K THEN Upto(n) \cup {i} ELSE Upto(n)
    <3> HIDE DEF K
    <3>1. l + 1 - (n + 1) .. l = (l + 1 - n .. l) \cup {i}
      BY <1>5
    <3> HIDE DEF i
    <3> QED
      BY <3>1
  <2>5. Upto(n) \in SUBSET (1 .. Len(chain)) /\ i \notin Upto(n)
    <3> HIDE DEF K
    <3>1. K \subseteq 1 .. Len(chain)
      BY <1>1, TransactionIs
    <3>2. i \notin D /\ i \notin l + 1 - n .. l
      BY <2>1
    <3> QED
      BY <3>1, <3>2
  <2> HIDE DEF Upto, i, K
  <2>6. CASE i \in K
    BY <1>5, <2>1, <2>3, <2>4, <2>5, <2>6, AggregateMakes
  <2>7. CASE i \notin K
    BY <1>5, <2>3, <2>4, <2>7
  <2> QED
    BY <2>6, <2>7
<1>6. \A n \in T : n + 1 \in T
  <2> TAKE n \in T
  <2> HIDE DEF Upto
  <2>1. n \in Nat /\ n + 1 \in Nat /\ (n + 1 <= N => n <= N)
    BY <1>1
  <2>2. n + 1 <= N => Made(g[n + 1], Upto(n + 1))
    <3>1. SUFFICES ASSUME n + 1 <= N PROVE Made(g[n + 1], Upto(n + 1))
      OBVIOUS
    <3>2. n \in Nat /\ Made(g[n], Upto(n))
      BY <2>1, <3>1
    <3> QED
      BY <1>5, <3>1, <3>2
  <2> QED
    BY <2>1, <2>2
<1>7. T \in SUBSET Nat
  OBVIOUS
<1> HIDE DEF T
<1>8. N \in T
  BY <1>1, <1>4, <1>6, <1>7, AllNumbers
<1>9. Made(g[N], Upto(N))
  BY <1>1, <1>8 DEF T
<1>10. Upto(N) = D \cup K
  BY <1>1
<1> QED
  BY <1>2, <1>9, <1>10

(* What was made of nothing found. *)
LEMMA NothingMade == Made(NoMultisig, {})
<1>1. NothingYet \in Infos
  <2>1. <<>> \in Seq(Custodians)
    OBVIOUS
  <2> QED
    BY <2>1 DEF NothingYet, Infos
<1>2. NoMultisig \in [Ids -> Infos] /\ \A id \in Ids : NoMultisig[id] = NothingYet
  BY <1>1 DEF NoMultisig
<1>3. \A id \in Ids : VotesIn({}, id) = {}
  BY DEF VotesIn
<1>4. MadeOf(NothingYet, {})
  <2>1. Cardinality({}) = 0 /\ Len(<<>>) = 0
    BY FS_EmptySet
  <2> QED
    BY <2>1 DEF MadeOf, NothingYet
<1> QED
  BY <1>2, <1>3, <1>4 DEF Made

(* What is made depends on the transactions of the account alone. *)
LEMMA MadeAgain ==
  ASSUME NEW table, NEW D, Made(table, D), chain' = chain, aggregated' = table,
         (first' .. last') \ passed' = D
  PROVE  Made(aggregated, (first..last) \ passed)'
BY DEF Made, MadeOf, VotesIn

(* A batch beside the transactions found so far: what the loop makes of it *)
(* counts those it looked at, and the others are passed.                    *)
LEMMA BatchMakes ==
  ASSUME TransactionsInv, ~doubled, NEW f \in Nat \ {0}, NEW l \in Nat, f <= l + 1, l <= Len(chain),
         NEW S, S = (first..last) \cup (f..l), (first..last) \cap (f..l) = {},
         first' .. last' = S, UpdateTransactions(f, l)
  PROVE  passed' \subseteq S /\ Made(aggregated, (first..last) \ passed)'
<1> DEFINE B == f..l
           R == first..last
           K == Looked(B)
           D == R \ passed
<1>1. chain \in Chains /\ passed \subseteq R /\ Made(aggregated, D) /\ chain' = chain
  BY DEF TransactionsInv, UpdateTransactions
<1>2. D \in SUBSET (1 .. Len(chain))
  <2>1. Len(chain) \in Nat
    BY <1>1, ChainsAssumption
  <2>2. R \subseteq 1 .. Len(chain)
    BY <2>1 DEF TransactionsInv
  <2> QED
    BY <2>2
<1>3. K \subseteq B
  BY DEF Looked
<1>4. CASE owned
  <2>1. aggregated' = AggregatedBy(f, l) /\ passed' = passed \cup (B \ K)
    BY <1>4 DEF UpdateTransactions
  <2>2. D \cap (f..l) = {}
    OBVIOUS
  <2> HIDE DEF D
  <2>3. Made(AggregatedBy(f, l), D \cup Looked(f..l))
    BY <1>1, <1>2, <2>2, LoopMakes
  <2> HIDE DEF R, B, K
  <2>4. S = R \cup B /\ R \cap B = {}
    BY DEF R, B
  <2>5. S \ passed' = D \cup K /\ passed' \subseteq S
    BY <1>1, <1>3, <2>1, <2>4 DEF D
  <2>6. Made(AggregatedBy(f, l), D \cup K)
    BY <2>3 DEF K, B
  <2> QED
    BY <1>1, <2>1, <2>5, <2>6, MadeAgain
<1>5. CASE ~owned
  <2>1. aggregated' = aggregated /\ passed' = passed \cup B
    BY <1>5 DEF UpdateTransactions
  <2>2. S = R \cup B /\ R \cap B = {}
    OBVIOUS
  <2> HIDE DEF R, B, K
  <2>3. S \ passed' = D /\ passed' \subseteq S
    BY <1>1, <2>1, <2>2
  <2> HIDE DEF D
  <2> QED
    BY <1>1, <2>1, <2>3, MadeAgain
<1> QED
  BY <1>4, <1>5

(* TransactionsInv: initially, ... *)
LEMMA TransactionsStart ==
  ASSUME TransactionsInit PROVE TransactionsInv
<1>1. /\ chain \in Chains /\ doubled = FALSE /\ first = 1 /\ last = 0 /\ aggregated = NoMultisig /\ passed = {}
  BY DEF TransactionsInit
<1>2. Len(chain) \in Nat
  BY <1>1, ChainsAssumption
<1>3. (first..last) \ passed = {} /\ passed \subseteq first..last
  BY <1>1
<1>4. Made(aggregated, (first..last) \ passed)
  BY <1>1, <1>3, NothingMade
<1> QED
  BY <1>1, <1>2, <1>3, <1>4 DEF TransactionsInv

(* ... and in every step. *)
LEMMA TransactionsStep ==
  ASSUME TransactionsInv, [TransactionsNext]_transactionVars
  PROVE  TransactionsInv'
<1>1. /\ chain \in Chains /\ first \in Nat \ {0} /\ last \in Nat /\ last <= Len(chain) /\ first <= last + 1
      /\ (last = 0 => first = 1) /\ Len(chain) \in Nat
  <2>1. chain \in Chains
    BY DEF TransactionsInv
  <2>2. Len(chain) \in Nat
    BY <2>1, ChainsAssumption
  <2> QED
    BY <2>2 DEF TransactionsInv
<1>2. CASE FindNew
  <2>1. PICK l \in last + 1 .. Len(chain) : \E f \in last + 1 .. l :
          /\ last = 0 \/ f = last + 1
          /\ first' = IF last = 0 THEN f ELSE first
          /\ last' = l
          /\ UpdateTransactions(f, l)
    BY <1>2 DEF FindNew
  <2>2. PICK f \in last + 1 .. l :
          /\ last = 0 \/ f = last + 1
          /\ first' = IF last = 0 THEN f ELSE first
          /\ last' = l
          /\ UpdateTransactions(f, l)
    BY <2>1
  <2>3. l \in Nat /\ l # 0 /\ f \in Nat \ {0} /\ f <= l + 1 /\ l <= Len(chain) /\ last < l
    BY <1>1
  <2>4. chain' = chain /\ doubled' = doubled
    BY <2>2 DEF UpdateTransactions
  <2>5. (first..last) \cap (f..l) = {} /\ first' .. last' = (first..last) \cup (f..l)
    BY <1>1, <2>2, <2>3
  <2>6. ~doubled => passed' \subseteq first' .. last' /\ Made(aggregated, (first..last) \ passed)'
    BY <2>2, <2>3, <2>5, BatchMakes
  <2>7. first' \in Nat \ {0} /\ last' \in Nat /\ last' <= Len(chain) /\ first' <= last' + 1 /\ last' # 0
    BY <1>1, <2>2, <2>3
  <2> QED
    BY <1>1, <2>4, <2>6, <2>7 DEF TransactionsInv
<1>3. CASE FindOld
  <2>1. PICK f \in 1 .. first - 1 : first' = f /\ last' = last /\ UpdateTransactions(f, first - 1)
    BY <1>3 DEF FindOld
  <2>2. last # 0
    BY <1>1, <1>3 DEF FindOld
  <2> DEFINE l == first - 1
  <2>3. l \in Nat /\ f \in Nat \ {0} /\ f <= l + 1 /\ l <= Len(chain)
    BY <1>1
  <2>4. chain' = chain /\ doubled' = doubled
    BY <2>1 DEF UpdateTransactions
  <2>5. (first..last) \cap (f..l) = {} /\ first' .. last' = (first..last) \cup (f..l)
    BY <1>1, <2>1, <2>3
  <2>6. UpdateTransactions(f, l)
    BY <2>1
  <2>7. first' \in Nat \ {0} /\ last' = last /\ first' <= last' + 1
    BY <1>1, <2>1
  <2> HIDE DEF l
  <2>8. ~doubled => passed' \subseteq first' .. last' /\ Made(aggregated, (first..last) \ passed)'
    BY <2>3, <2>5, <2>6, BatchMakes
  <2> QED
    BY <1>1, <2>2, <2>4, <2>7, <2>8 DEF TransactionsInv
<1>4. CASE StopWallets
  <2>1. /\ chain' = chain /\ doubled' = FALSE
        /\ first' = 1 /\ last' = 0 /\ aggregated' = NoMultisig /\ passed' = {}
    BY <1>4 DEF StopWallets
  <2>2. (first' .. last') \ passed' = {}
    BY <2>1
  <2>3. Made(aggregated, (first..last) \ passed)'
    BY <2>1, <2>2, NothingMade, MadeAgain
  <2> QED
    BY <1>1, <2>1, <2>3 DEF TransactionsInv
<1>5. CASE ForgetAccount
  BY <1>1, <1>5 DEF ForgetAccount, TransactionsInv
<1>6. ASSUME UNCHANGED <<chain, owned, first, last, aggregated, passed, doubled>> PROVE TransactionsInv'
  <2>1. /\ chain' = chain /\ first' = first /\ last' = last
        /\ aggregated' = aggregated /\ passed' = passed /\ doubled' = doubled
    BY <1>6
  <2>2. ~doubled => passed' \subseteq first' .. last' /\ Made(aggregated, (first..last) \ passed)
    BY <2>1 DEF TransactionsInv
  <2>3. (first' .. last') \ passed' = (first..last) \ passed
    BY <2>1
  <2>4. ~doubled => Made(aggregated, (first..last) \ passed)'
    BY <2>1, <2>2, <2>3, MadeAgain
  <2> QED
    BY <1>1, <1>6, <2>1, <2>2, <2>4 DEF TransactionsInv
<1>7. CASE StartAgain
  BY <1>6, <1>7 DEF StartAgain
<1>8. CASE \E table \in Tables : UpdateRow(table)
  BY <1>1, <1>6, <1>8 DEF UpdateRow
<1>9. CASE UNCHANGED transactionVars
  BY <1>1, <1>6, <1>9 DEF transactionVars
<1> QED
  BY <1>2, <1>3, <1>4, <1>5, <1>7, <1>8, <1>9 DEF TransactionsNext

(* Whatever the batches and their order, each multisig transaction has the *)
(* votes found for it, once each.                                           *)
THEOREM FoundAggregated == TransactionsSpec => []AggregatesWhatIsFound
<1>1. TransactionsInit => TransactionsInv
  BY TransactionsStart
<1>2. TransactionsInv /\ [TransactionsNext]_transactionVars => TransactionsInv'
  BY TransactionsStep
<1>3. TransactionsInv => AggregatesWhatIsFound
  <2>1. \A id : Votes(id) = VotesIn((first..last) \ passed, id)
    BY DEF Votes, VotesIn
  <2> QED
    BY <2>1 DEF TransactionsInv, AggregatesWhatIsFound, Made, MadeOf
<1> QED
  BY <1>1, <1>2, <1>3, PTL DEF TransactionsSpec
=============================================================================
