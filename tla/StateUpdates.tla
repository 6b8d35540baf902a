----------------------------- MODULE StateUpdates -----------------------------
(***************************************************************************)
(* How the popup learns the state of the controllers: it asks for it once, *)
(* while its own code loads, and hears of the changes after that, at most  *)
(* once in 200 ms.  Not every change is announced: the metadata of the      *)
(* pages changes silently, and goes with the next update of the rest.       *)
(***************************************************************************)
EXTENDS Naturals, Sequences

CONSTANTS
    MaxVersion,     \* bounds the changes that are announced
    MaxMetadata,    \* bounds those that are not
    MaxQueue,       \* bounds the updates sent at the end of network changes
    NoState         \* undefined

(* What getState() answers, in versions: of the four controllers the        *)
(* background subscribes to, and of the metadata of the permissions.         *)
Versions == 0 .. MaxVersion
ControllerState == [announced : Versions, metadata : 0 .. MaxMetadata]

ASSUME StateAssumption ==
    MaxVersion \in Nat /\ MaxMetadata \in Nat /\ MaxQueue \in Nat /\ NoState \notin ControllerState

VARIABLES
    controllers,    \* the state
    updateTimer, shouldRepeat,  \* _updateDebounce
    toPopup,        \* the updates and the answer on their way
    popup,          \* "closed", "asking", "loading" or "loaded"
    codeLoaded,     \* init() of the popup has ended
    answer,         \* what getState() has answered
    shownState,     \* what the popup shows
    replaced,       \* history: the newest change an older answer was shown over
    lastChange      \* history: the state at the last change announced

popupVars == <<popup, codeLoaded, answer, shownState, replaced>>
stateVars == <<controllers, updateTimer, shouldRepeat, toPopup, popupVars, lastChange>>

StateInit ==
    /\ controllers = [announced |-> 0, metadata |-> 0] /\ lastChange = controllers
    /\ updateTimer = FALSE /\ shouldRepeat = FALSE /\ toPopup = <<>>
    /\ popup = "closed" /\ codeLoaded = FALSE /\ answer = NoState
    /\ shownState = NoState /\ replaced = 0

SendUpdate(state) ==
    toPopup' = IF popup = "closed" THEN toPopup ELSE Append(toPopup, [type |-> "update", state |-> state])

(* update() of one of the four controllers tells its listeners, one of whom *)
(* is _debouncedSendUpdate().                                                *)
ChangeState ==
    /\ controllers.announced < MaxVersion
    /\ controllers' = [controllers EXCEPT !.announced = @ + 1] /\ lastChange' = controllers'
    /\ IF updateTimer
         THEN shouldRepeat' = TRUE /\ UNCHANGED <<updateTimer, toPopup>>
         ELSE shouldRepeat' = FALSE /\ updateTimer' = TRUE /\ SendUpdate(controllers')
    /\ UNCHANGED popupVars

(* addDomainMetadata(): nobody has subscribed to the permissions. *)
ChangeMetadata ==
    /\ controllers.metadata < MaxMetadata
    /\ controllers' = [controllers EXCEPT !.metadata = @ + 1]
    /\ UNCHANGED <<updateTimer, shouldRepeat, toPopup, popupVars, lastChange>>

(* changeNetwork() sends an update of its own, whatever the timer. *)
EndNetworkChange ==
    /\ Len(toPopup) < MaxQueue /\ SendUpdate(controllers)
    /\ UNCHANGED <<controllers, updateTimer, shouldRepeat, popupVars, lastChange>>

(* Mutant: what changed before the timer is not sent after it. *)
TimerEndsOnly ==
    /\ updateTimer /\ updateTimer' = FALSE
    /\ UNCHANGED <<controllers, shouldRepeat, toPopup, popupVars, lastChange>>

UpdateTimerFires ==
    /\ updateTimer
    /\ IF shouldRepeat
         THEN shouldRepeat' = FALSE /\ SendUpdate(controllers) /\ UNCHANGED updateTimer
         ELSE updateTimer' = FALSE /\ UNCHANGED <<shouldRepeat, toPopup>>
    /\ UNCHANGED <<controllers, popupVars, lastChange>>

(* The popup listens before it asks. *)
OpenPopup ==
    /\ popup = "closed" /\ popup' = "asking"
    /\ UNCHANGED <<controllers, updateTimer, shouldRepeat, toPopup, codeLoaded, answer, shownState,
                   replaced, lastChange>>

AnswerState ==
    /\ popup = "asking" /\ popup' = "loading"
    /\ toPopup' = Append(toPopup, [type |-> "answer", state |-> controllers])
    /\ UNCHANGED <<controllers, updateTimer, shouldRepeat, codeLoaded, answer, shownState, replaced, lastChange>>

LoadCode ==
    /\ popup # "closed" /\ ~codeLoaded /\ codeLoaded' = TRUE
    /\ UNCHANGED <<controllers, updateTimer, shouldRepeat, toPopup, popup, answer, shownState, replaced, lastChange>>

HearMessage ==
    /\ toPopup # <<>> /\ toPopup' = Tail(toPopup)
    /\ IF Head(toPopup).type = "update"
         THEN shownState' = Head(toPopup).state /\ UNCHANGED answer
         ELSE answer' = Head(toPopup).state /\ UNCHANGED shownState
    /\ UNCHANGED <<controllers, updateTimer, shouldRepeat, popup, codeLoaded, replaced, lastChange>>

(* Promise.all() has both: the answer is shown whatever was heard since. *)
ShowAnswer ==
    /\ popup = "loading" /\ codeLoaded /\ answer # NoState
    /\ popup' = "loaded" /\ shownState' = answer
    /\ replaced' = IF shownState # NoState /\ shownState.announced > answer.announced
                     THEN shownState.announced ELSE 0
    /\ UNCHANGED <<controllers, updateTimer, shouldRepeat, toPopup, codeLoaded, answer, lastChange>>

(* Also by itself, when there is no account yet or already one. *)
ClosePopup ==
    /\ popup # "closed" /\ popup' = "closed"
    /\ toPopup' = <<>> /\ codeLoaded' = FALSE /\ answer' = NoState
    /\ shownState' = NoState /\ replaced' = 0
    /\ UNCHANGED <<controllers, updateTimer, shouldRepeat, lastChange>>

StateNext ==
    \/ ChangeState \/ ChangeMetadata \/ EndNetworkChange \/ UpdateTimerFires
    \/ OpenPopup \/ AnswerState \/ LoadCode \/ HearMessage \/ ShowAnswer \/ ClosePopup

(* The timer, the background, the loader of the code and the port are fair, *)
(* the port even when it has ever more to bring.                             *)
StateProgress == UpdateTimerFires \/ AnswerState \/ LoadCode \/ ShowAnswer

StateSpec ==
    StateInit /\ [][StateNext]_stateVars /\ WF_stateVars(StateProgress) /\ WF_stateVars(HearMessage)

----------------------------------------------------------------------------
NotOlder(state, than) == state.announced >= than.announced /\ state.metadata >= than.metadata

(* A popup that is loaded never shows less than the first answer it got;    *)
(* and every change announced is shown to a popup that stays open, or a      *)
(* later one, with the metadata as they were at that change.  Excepted are    *)
(* the changes whose update came before the popup was loaded, and was        *)
(* replaced by an older answer: those wait for the next change, as do the     *)
(* metadata that changed alone.                                               *)
ChangesAreShown ==
    /\ [](popup = "loaded" => NotOlder(shownState, answer))
    /\ \A v \in Versions :
          controllers.announced = v /\ popup # "closed" ~>
              \/ popup = "closed"
              \/ /\ popup = "loaded"
                 /\ \/ replaced >= v /\ v > 0
                    \/ /\ shownState.announced >= v
                       /\ lastChange.announced = v => NotOlder(shownState, lastChange)
=============================================================================
