---------------------------- MODULE LedgerBridge ----------------------------
(***************************************************************************)
(* The hardware wallet.  The bridge of the background posts its questions  *)
(* to an iframe, which answers by messages to the window: a reply names    *)
(* the action, not the question, and every listener hears every message.   *)
(* A page of keys is a loop of questions, one after the other's answer.    *)
(* The popup turns these pages (Ledger/AccountSelector), checks the        *)
(* connection when that fails (LedgerConnector), and asks for the master   *)
(* key when the accounts are saved (AccountManager, SignIn).               *)
(***************************************************************************)
EXTENDS Naturals, Sequences

CONSTANTS
    LedgerCalls,    \* places for calls of the bridge under way
    PerPage,        \* 5 in the code
    MaxPage,        \* bounds the pages turned
    OtherAccounts   \* what the keystore asks the bridge about

ASSUME LedgerAssumption ==
    /\ PerPage \in Nat \ {0} /\ MaxPage \in Nat \ {0} /\ OtherAccounts \subseteq Nat

VARIABLES
    frameLoaded,    \* whether the iframe listens to messages
    posted,         \* the questions the iframe has got and not answered
    bridgeCall,     \* the calls
    page,           \* the page of keys last asked for
    shared,         \* history: the calls with something under way beside them
    ledgerStep,     \* "closed", "connecting" or "selecting"
    busy,           \* the selector is "loading" a page, "saving", or "no"
    leftSaving,     \* a selector that is no more is still saving
    shownPage,      \* what it shows: the number, 0 for none yet, ...
    shownKeys       \* ... whether its keys are its own, and their call was shared

bridgeVars == <<frameLoaded, posted, bridgeCall, shared>>
selectorVars == <<ledgerStep, busy, leftSaving, shownPage, shownKeys>>
ledgerVars == <<bridgeVars, page, selectorVars>>

(* Who waits for a call: the selector for its page, one that is no more for *)
(* its own, the connector, the page for the master key, or the keystore.    *)
Roles == {"load", "stale load", "check", "master", "other"}
LedgerActions == {"get-public-key", "sign-message"}

(* accounts: what a call asks about, in order; got: of each answer it took, *)
(* whether it is the one that was asked for.                                 *)
NoCall == [role |-> "other", action |-> "get-public-key", accounts |-> <<>>, number |-> 0,
           got |-> <<>>, state |-> "idle"]

NoKeys == [own |-> TRUE, crossed |-> FALSE]

(* The accounts of a page, from 0.  The first of them tells its number      *)
(* (setCurrentPage), which the model keeps beside them.                      *)
AccountsOf(number) == [i \in 1 .. PerPage |-> (number - 1) * PerPage + (i - 1)]

LedgerInit ==
    /\ frameLoaded = FALSE /\ posted = {} /\ page = 0 /\ shared = {}
    /\ bridgeCall = [c \in LedgerCalls |-> NoCall]
    /\ ledgerStep = "closed" /\ busy = "no" /\ leftSaving = FALSE
    /\ shownPage = 0 /\ shownKeys = NoKeys

Listening == {c \in LedgerCalls : bridgeCall[c].state = "running"}
Question(c, action, account) == [call |-> c, action |-> action, account |-> account]

(* Nobody checks that the frame is loaded: what is posted before is lost. *)
Post(questions) == IF frameLoaded THEN questions ELSE {}

LoadFrame ==
    /\ ~frameLoaded /\ frameLoaded' = TRUE
    /\ UNCHANGED <<posted, bridgeCall, shared, page, selectorVars>>

(* A call begins with its first question. *)
StartBridgeCall(c, role, action, accounts, number) ==
    /\ bridgeCall[c].state = "idle" /\ \A q \in posted : q.call # c
    /\ bridgeCall' = [bridgeCall EXCEPT ![c] =
           [role |-> role, action |-> action, accounts |-> accounts, number |-> number,
            got |-> <<>>, state |-> "running"]]
    /\ posted' = posted \cup Post({Question(c, action, accounts[1])})
    /\ shared' = IF posted = {} /\ Listening = {} THEN shared
                 ELSE shared \cup Listening \cup {c}
    /\ UNCHANGED frameLoaded

(* __getPage(): from 1, and by increments of one. *)
LoadPage(c, role, number) ==
    /\ page' = number
    /\ StartBridgeCall(c, role, "get-public-key", AccountsOf(number), number)

Own(got) == \A i \in DOMAIN got : got[i]

GivenUp(l) == [l EXCEPT !.got = <<>>, !.state = "failed"]

(* What a listener makes of the answer to a question. *)
Hear(l, q) ==
    IF l.action # q.action THEN GivenUp(l)
    ELSE [l EXCEPT !.got = Append(@, q.account = l.accounts[Len(l.got) + 1]),
                   !.state = IF Len(l.got) + 1 = Len(l.accounts) THEN "done" ELSE "running"]

(* Every listener is removed by the first message it hears; a loop that     *)
(* goes on listens again, to the answer to its next question.                *)
Reply(q) ==
    /\ q \in posted
    /\ bridgeCall' = [c \in LedgerCalls |->
           IF c \in Listening THEN Hear(bridgeCall[c], q) ELSE bridgeCall[c]]
    /\ posted' = (posted \ {q}) \cup
           Post({Question(c, bridgeCall[c].action, bridgeCall[c].accounts[Len(bridgeCall[c].got) + 2]) :
                    c \in {d \in Listening : Hear(bridgeCall[d], q).state = "running"}})
    /\ UNCHANGED <<frameLoaded, shared, page, selectorVars>>

(* The frame answers that it failed, or another message comes, of another   *)
(* origin or another kind: whoever listens gives up, the frame does not.     *)
HearFailure ==
    /\ Listening # {} \/ posted # {}
    /\ posted' = posted \/ \E q \in posted : posted' = posted \ {q}
    /\ bridgeCall' = [c \in LedgerCalls |->
           IF c \in Listening THEN GivenUp(bridgeCall[c]) ELSE bridgeCall[c]]
    /\ UNCHANGED <<frameLoaded, shared, page, selectorVars>>

----------------------------------------------------------------------------
(* The popup. *)

CallsFor(role) == {c \in LedgerCalls : bridgeCall[c].role = role /\ bridgeCall[c].state # "idle"}

ShowNothing == shownPage' = 0 /\ shownKeys' = NoKeys

OpenSelector ==
    /\ ledgerStep = "closed" /\ ledgerStep' = "selecting"
    /\ busy' = "loading" /\ ShowNothing
    /\ UNCHANGED <<bridgeVars, page, leftSaving>>

(* A selector asks for the first page when it appears, ... *)
LoadFirst(c) ==
    /\ ledgerStep = "selecting" /\ shownPage = 0 /\ CallsFor("load") = {}
    /\ LoadPage(c, "load", 1) /\ UNCHANGED selectorVars

(* ... then for those the user turns to.  Nothing is turned under the loader. *)
TurnPage(c, number) ==
    /\ ledgerStep = "selecting" /\ busy = "no" /\ number <= MaxPage
    /\ number = page + 1 \/ (shownPage > 1 /\ number = IF page - 1 <= 0 THEN 1 ELSE page - 1)
    /\ busy' = "loading" /\ LoadPage(c, "load", number)
    /\ UNCHANGED <<ledgerStep, leftSaving, shownPage, shownKeys>>

(* saveAccounts(): createLedgerKey() asks through the keystore. *)
SaveAccounts ==
    /\ ledgerStep = "selecting" /\ busy = "no" /\ busy' = "saving"
    /\ UNCHANGED <<bridgeVars, page, ledgerStep, leftSaving, shownPage, shownKeys>>

(* saveAccounts() is done, and onSuccess() may ask for the master key.  The *)
(* loader is gone then.                                                      *)
SavingEnds ==
    /\ \/ busy = "saving" /\ busy' = "no" /\ UNCHANGED leftSaving
       \/ leftSaving /\ leftSaving' = FALSE /\ UNCHANGED busy
    /\ \/ \E c \in LedgerCalls : StartBridgeCall(c, "master", "get-public-key", <<0>>, 0)
       \/ UNCHANGED bridgeVars
    /\ UNCHANGED <<page, ledgerStep, shownPage, shownKeys>>

(* The connector's own frame has spoken. *)
CheckConnection(c) ==
    /\ ledgerStep = "connecting"
    /\ LoadPage(c, "check", 1) /\ UNCHANGED selectorVars

(* The keystore, for a key to be created or a message to be signed. *)
AskForOther(c, action, account) ==
    /\ StartBridgeCall(c, "other", action, <<account>>, 0)
    /\ UNCHANGED <<page, selectorVars>>

(* What becomes of the calls of a selector, or of a window, that is left. *)
Forget(calls, roles, role) ==
    [c \in LedgerCalls |-> IF calls[c].role \in roles THEN [calls[c] EXCEPT !.role = role] ELSE calls[c]]

Taken(c) == [bridgeCall EXCEPT ![c] = NoCall]
Retire(c) == shared' = shared \ {c} /\ UNCHANGED <<frameLoaded, posted, page>>

GoToConnector(calls) ==
    /\ ledgerStep' = "connecting" /\ busy' = "no"
    /\ leftSaving' = (leftSaving \/ busy = "saving")
    /\ bridgeCall' = Forget(calls, {"load"}, "stale load")
    /\ ShowNothing

CloseManager(calls) ==
    /\ ledgerStep' = "closed" /\ busy' = "no" /\ leftSaving' = FALSE
    /\ bridgeCall' = Forget(calls, {"load", "stale load", "check", "master"}, "other")
    /\ ShowNothing

(* Back, or the window is closed.  The loop in the background goes on. *)
LeaveLedger ==
    /\ ledgerStep # "closed" /\ CloseManager(bridgeCall)
    /\ UNCHANGED <<frameLoaded, posted, shared, page>>

(* getNewPage() has its page. *)
ShowPage(c) ==
    /\ bridgeCall[c].role = "load" /\ bridgeCall[c].state = "done"
    /\ bridgeCall' = Taken(c) /\ busy' = "no"
    /\ shownPage' = bridgeCall[c].number
    /\ shownKeys' = [own |-> Own(bridgeCall[c].got), crossed |-> c \in shared]
    /\ Retire(c) /\ UNCHANGED <<ledgerStep, leftSaving>>

(* Mutant: the error is shown, and the selector stays. *)
LoadFailsInPlace(c) ==
    /\ bridgeCall[c].role \in {"load", "stale load"} /\ bridgeCall[c].state = "failed"
    /\ bridgeCall' = Taken(c) /\ busy' = "no"
    /\ Retire(c) /\ UNCHANGED <<ledgerStep, leftSaving, shownPage, shownKeys>>

(* getNewPage() has failed, of this selector or of one before it: onError(). *)
LoadFails(c) ==
    /\ bridgeCall[c].role \in {"load", "stale load"} /\ bridgeCall[c].state = "failed"
    /\ GoToConnector(Taken(c))
    /\ Retire(c)

(* onNext() shows the selector anew, unless it is shown. *)
ConnectionChecked(c) ==
    /\ bridgeCall[c].role = "check" /\ bridgeCall[c].state = "done"
    /\ bridgeCall' = Taken(c)
    /\ IF ledgerStep = "connecting"
         THEN /\ ledgerStep' = "selecting" /\ busy' = "loading"
              /\ ShowNothing /\ UNCHANGED leftSaving
         ELSE UNCHANGED selectorVars
    /\ Retire(c)

(* onSuccess() has the master key, and leaves, or has not. *)
MasterKeyArrives(c) ==
    /\ bridgeCall[c].role = "master"
    /\ \/ bridgeCall[c].state = "done" /\ CloseManager(Taken(c))
       \/ bridgeCall[c].state = "failed" /\ GoToConnector(Taken(c))
    /\ Retire(c)

(* Nobody does anything about the others. *)
CallEnds(c) ==
    /\ \/ bridgeCall[c].role = "other" /\ bridgeCall[c].state \in {"done", "failed"}
       \/ bridgeCall[c].role = "stale load" /\ bridgeCall[c].state = "done"
       \/ bridgeCall[c].role = "check" /\ bridgeCall[c].state = "failed"
    /\ bridgeCall' = Taken(c)
    /\ Retire(c) /\ UNCHANGED selectorVars

LedgerNext ==
    \/ LoadFrame \/ HearFailure \/ OpenSelector \/ SaveAccounts \/ SavingEnds \/ LeaveLedger
    \/ \E q \in posted : Reply(q)
    \/ \E c \in LedgerCalls :
          \/ LoadFirst(c) \/ CheckConnection(c)
          \/ \E number \in 1 .. MaxPage : TurnPage(c, number)
          \/ \E action \in LedgerActions, account \in OtherAccounts : AskForOther(c, action, account)
          \/ ShowPage(c) \/ LoadFails(c) \/ ConnectionChecked(c) \/ MasterKeyArrives(c) \/ CallEnds(c)

LedgerSpec == LedgerInit /\ [][LedgerNext]_ledgerVars

----------------------------------------------------------------------------
(* A selector at rest shows the page that the next and the previous one are *)
(* counted from, whatever failed, was left or was checked before; and the   *)
(* keys of a page, as of every call, are those of its accounts, in order,   *)
(* unless something else was under way with the call: replies name actions. *)
PagesAreOwn ==
    /\ ledgerStep = "selecting" /\ busy # "loading" =>
          /\ shownPage = page
          /\ shownKeys.own \/ shownKeys.crossed
    /\ \A c \in LedgerCalls \ shared :
          bridgeCall[c].state = "done" => Own(bridgeCall[c].got)
=============================================================================
