----------------------------- MODULE ProviderApi -----------------------------
(***************************************************************************)
(* The requests of the pages in the background: what each needs to be      *)
(* permitted, what the user must approve first, and in which window.       *)
(* ApprovalController keeps the approvals until they are decided or, for   *)
(* those that sign, until they are signed; PermissionsController keeps     *)
(* what the user granted to an origin; triggerUi() opens the window.       *)
(***************************************************************************)
EXTENDS Naturals, Sequences, FiniteSets

CONSTANTS
    Requests,
    ApiWorkloads,   \* which request each is, in one behaviour
    Origins, Accounts,
    MaxTempOrigins, \* 100 in the code
    NoAccount       \* undefined

----------------------------------------------------------------------------
(* The methods, by what their handlers do. *)

(* Ask the network through the connection, or the wallet of the account. *)
TransportMethods == {"getFullContractState", "getAccountsByCodeHash", "getTransactions",
                     "getTransaction", "findTransaction"}
LocalMethods == {"runLocal"}
FeeMethods == {"estimateFees"}

(* Compute the answer at once. *)
CellMethods == {"getExpectedAddress", "getBocHash", "packIntoCell", "unpackFromCell",
                "extractPublicKey", "codeToTvc", "mergeTvc", "splitTvc"}
CodeMethods == {"setCodeSalt", "getCodeSalt", "encodeInternalInput", "decodeInput",
                "decodeEvent", "decodeOutput"}
TransactionMethods == {"decodeTransaction", "decodeTransactionEvents", "verifySignature"}
StateMethods == {"getProviderState"}

(* Call the subscription controller, the last one with a message. *)
SubscriptionMethods == {"subscribe", "unsubscribe", "unsubscribeAll"}
UnsignedMethods == {"sendUnsignedExternalMessage"}

(* Ask the user: for a password to sign with, ... *)
DataMethods == {"signData", "signDataRaw", "encryptData", "decryptData"}
ExternalMethods == {"sendExternalMessage", "sendExternalMessageDelayed"}
MessageMethods == {"sendMessage", "sendMessageDelayed"}
SigningMethods == DataMethods \cup ExternalMethods \cup MessageMethods

Permissions == {"basic", "accountInteraction"}

(* What a handler requires of its origin. *)
Needs(name) ==
    IF name \in SigningMethods \cup FeeMethods \cup {"changeAccount", "addAsset"}
      THEN {"accountInteraction"}
    ELSE IF name \in {"requestPermissions", "disconnect", "unsubscribe", "unsubscribeAll",
                      "sendDomainMetadata", "logOut"} \cup StateMethods
      THEN {}
    ELSE {"basic"}

Methods ==
    TransportMethods \cup LocalMethods \cup FeeMethods \cup CellMethods \cup CodeMethods
    \cup TransactionMethods \cup StateMethods \cup SubscriptionMethods \cup UnsignedMethods
    \cup SigningMethods
    \cup {"requestPermissions", "changeAccount", "disconnect", "addAsset", "sendDomainMetadata"}

(* A request names the permissions it asks for or the account it acts for. *)
(* The user's logOut() takes part as a request of no page.                  *)
ApiRequest == [name : Methods \cup {"logOut", "unknown"}, origin : Origins,
               asks : SUBSET Permissions, account : Accounts]

ASSUME ApiAssumption ==
    /\ ApiWorkloads \subseteq [Requests -> ApiRequest]
    /\ NoAccount \notin Accounts /\ MaxTempOrigins \in Nat \ {0}

----------------------------------------------------------------------------
VARIABLES
    request,        \* the requests
    pc,             \* where the handler of each is
    pending,        \* the requests with a pending approval
    permissions,    \* of each origin
    copied,         \* the permissions a request has copied
    trigger,        \* where the triggerUi() of each approval is
    approvalWindow, \* "none", "loading" or "connected"
    mainOpen,       \* the popup, or the extension in the active tab, is open
    reserved,       \* reservedControllerConnections
    metadata, storedMetadata,   \* the origins whose metadata is known, and stored
    metadataCopy,
    tempOrigins,    \* pendingMetadataOrigins
    granted,        \* history: what the user last granted to each origin
    outdated        \* history: the origins whose permissions changed behind a copy

windowVars == <<trigger, approvalWindow, mainOpen, reserved>>
permissionVars == <<permissions, copied, granted, outdated>>
metadataVars == <<metadata, storedMetadata, metadataCopy, tempOrigins>>
apiVars == <<request, pc, pending, permissionVars, windowVars, metadataVars>>

Permission == [basic : BOOLEAN, account : Accounts \cup {NoAccount}]
Nothing == [basic |-> FALSE, account |-> NoAccount]
Ended == {"answered", "failed"}
Places == {"idle", "asking", "approving", "preparing", "signing", "sending", "saving"} \cup Ended

Origin(r) == request[r].origin
Held(r) == permissions[Origin(r)]

(* Every variable has its type. *)
ApiTypeOK ==
    /\ request \in [Requests -> ApiRequest] /\ pc \in [Requests -> Places]
    /\ pending \subseteq Requests
    /\ permissions \in [Origins -> Permission] /\ granted \in [Origins -> Permission]
    /\ copied \in [Requests -> Permission] /\ outdated \subseteq Origins
    /\ trigger \in [Requests -> {"none", "querying", "showing", "querying again", "showing again"}]
    /\ approvalWindow \in {"none", "loading", "connected"} /\ mainOpen \in BOOLEAN
    /\ reserved \in 0 .. Cardinality(Requests)
    /\ metadata \subseteq Origins /\ storedMetadata \subseteq Origins
    /\ metadataCopy \in [Requests -> SUBSET Origins] /\ tempOrigins \in Seq(Origins)

ApiInit ==
    /\ request \in ApiWorkloads /\ pc = [r \in Requests |-> "idle"]
    /\ pending = {}
    /\ permissions \in [Origins -> {Nothing} \cup {[basic |-> TRUE, account |-> a] : a \in Accounts}]
    /\ granted = permissions /\ outdated = {}
    /\ copied = [r \in Requests |-> Nothing]
    /\ trigger = [r \in Requests |-> "none"] /\ approvalWindow = "none"
    /\ mainOpen = FALSE /\ reserved = 0
    /\ metadata = {} /\ storedMetadata = {} /\ tempOrigins = <<>>
    /\ metadataCopy = [r \in Requests |-> {}]

Goto(r, place) == pc' = [pc EXCEPT ![r] = place]

Name(r) == request[r].name
Begins(r, names) == pc[r] = "idle" /\ Name(r) \in names

(* requirePermissions(). *)
Permitted(r) ==
    /\ "basic" \in Needs(Name(r)) => Held(r).basic
    /\ "accountInteraction" \in Needs(Name(r)) => Held(r).account # NoAccount

(* The account or the key a request names is the one its origin may use. *)
IsAllowed(r) == Permitted(r) /\ Held(r).account = request[r].account

----------------------------------------------------------------------------
(* Requests the user is not asked about. *)

(* The checks of the permissions, of the parameters, of the tab and of the  *)
(* account a request names; a method nobody knows.                          *)
Refuse(r) ==
    /\ Begins(r, (Methods \cup {"unknown"}) \ (StateMethods \cup {"disconnect"}))
    /\ Name(r) = "changeAccount" => ~Permitted(r)
    /\ Goto(r, "failed")
    /\ UNCHANGED <<request, pending, permissionVars, windowVars, metadataVars>>

(* decodeTransaction(), packIntoCell(), ...: answered before they return. *)
Compute(r) ==
    /\ Begins(r, CellMethods \cup CodeMethods \cup TransactionMethods \cup StateMethods)
    /\ Permitted(r)
    /\ Goto(r, "answered")
    /\ UNCHANGED <<request, pending, permissionVars, windowVars, metadataVars>>

AskNetwork(r) ==
    /\ Begins(r, TransportMethods \cup LocalMethods \cup SubscriptionMethods \cup UnsignedMethods)
    /\ Permitted(r)
    /\ Goto(r, "sending")
    /\ UNCHANGED <<request, pending, permissionVars, windowVars, metadataVars>>

EstimateFees(r) ==
    /\ Begins(r, FeeMethods) /\ IsAllowed(r)
    /\ Goto(r, "sending")
    /\ UNCHANGED <<request, pending, permissionVars, windowVars, metadataVars>>

(* The network answers, or the message is delivered or expires; the storage *)
(* has kept the permissions, or the list of tokens.                          *)
RequestEnds(r) ==
    /\ pc[r] \in {"sending", "saving"} /\ Name(r) \notin {"logOut", "sendDomainMetadata"}
    /\ Goto(r, "answered") \/ Goto(r, "failed")
    /\ UNCHANGED <<request, pending, permissionVars, windowVars, metadataVars>>

Disconnect(r) ==
    /\ Begins(r, {"disconnect"})
    /\ permissions' = [permissions EXCEPT ![Origin(r)] = Nothing]
    /\ granted' = [granted EXCEPT ![Origin(r)] = Nothing]
    /\ outdated' = outdated \ {Origin(r)}
    /\ Goto(r, "saving")
    /\ UNCHANGED <<request, pending, copied, windowVars, metadataVars>>

----------------------------------------------------------------------------
(* Requests the user is asked about. *)

(* addAndShowApprovalRequest(), whose triggerUi() asks for the active tabs. *)
AddApproval(r) ==
    /\ pending' = pending \cup {r}
    /\ reserved' = reserved + 1
    /\ trigger' = [trigger EXCEPT ![r] = "querying"]
    /\ Goto(r, "approving")
    /\ UNCHANGED <<request, permissions, granted, outdated, approvalWindow, mainOpen, metadataVars>>

HasAsked(r) ==
    /\ "basic" \in request[r].asks => Held(r).basic
    /\ "accountInteraction" \in request[r].asks => Held(r).account # NoAccount

RequestPermissions(r) ==
    /\ Begins(r, {"requestPermissions"})
    /\ \/ /\ HasAsked(r) /\ Goto(r, "answered")
          /\ UNCHANGED <<request, pending, permissionVars, windowVars, metadataVars>>
       \/ ~HasAsked(r) /\ AddApproval(r) /\ UNCHANGED copied

(* The permissions are copied before the user is asked. *)
ChangeAccount(r) ==
    /\ Begins(r, {"changeAccount"}) /\ Permitted(r)
    /\ copied' = [copied EXCEPT ![r] = Held(r)]
    /\ AddApproval(r)

(* Has the account the token?  If not, who is its root? *)
AddAsset(r) ==
    /\ Begins(r, {"addAsset"}) /\ IsAllowed(r)
    /\ Goto(r, "answered") \/ Goto(r, "asking")
    /\ UNCHANGED <<request, pending, permissionVars, windowVars, metadataVars>>

AssetDetails(r) ==
    /\ pc[r] = "asking"
    /\ \/ AddApproval(r) /\ UNCHANGED copied
       \/ /\ Goto(r, "failed")
          /\ UNCHANGED <<request, pending, permissionVars, windowVars, metadataVars>>

AskToSign(r) ==
    /\ Begins(r, SigningMethods) /\ IsAllowed(r)
    /\ AddApproval(r) /\ UNCHANGED copied

(* Mutant: what was asked for is added to what the origin has. *)
GrantMore(r, account) ==
    [basic |-> Held(r).basic \/ "basic" \in request[r].asks,
     account |-> IF "accountInteraction" \in request[r].asks THEN account ELSE Held(r).account]

(* What the approval of a request for permissions gives: what it asked for. *)
Grant(r, account) ==
    [basic |-> "basic" \in request[r].asks,
     account |-> IF "accountInteraction" \in request[r].asks THEN account ELSE NoAccount]

(* The user confirms in the approval window.  What signs keeps its approval *)
(* until it has signed.                                                      *)
Approve(r) ==
    /\ approvalWindow = "connected" /\ r \in pending /\ pc[r] = "approving"
    /\ IF Name(r) \in SigningMethods
         THEN /\ Goto(r, IF Name(r) \in MessageMethods THEN "preparing" ELSE "signing")
              /\ UNCHANGED <<pending, permissionVars>>
         ELSE /\ pending' = pending \ {r} /\ Goto(r, "saving") /\ UNCHANGED copied
              /\ IF Name(r) = "addAsset" THEN UNCHANGED <<permissions, granted, outdated>>
                 ELSE \E a \in Accounts :
                    LET o == Origin(r)
                        changes == Name(r) = "changeAccount"
                    IN  /\ permissions' = [permissions EXCEPT ![o] =
                              IF changes THEN [copied[r] EXCEPT !.account = a] ELSE Grant(r, a)]
                        /\ granted' = [granted EXCEPT ![o] =
                              [basic |-> IF changes THEN @.basic ELSE "basic" \in request[r].asks,
                               account |-> IF changes \/ "accountInteraction" \in request[r].asks
                                             THEN a ELSE NoAccount]]
                        /\ outdated' = IF changes /\ copied[r].basic # granted[o].basic
                                         THEN outdated \cup {o}
                                         ELSE IF changes THEN outdated ELSE outdated \ {o}
    /\ UNCHANGED <<request, windowVars, metadataVars>>

(* No button rejects a request for permissions or for another account: the  *)
(* user closes the window.                                                   *)
Reject(r) ==
    /\ approvalWindow = "connected" /\ r \in pending
    /\ Name(r) \notin {"requestPermissions", "changeAccount"}
    /\ pending' = pending \ {r}
    /\ pc' = IF pc[r] = "approving" THEN [pc EXCEPT ![r] = "failed"] ELSE pc
    /\ UNCHANGED <<request, permissionVars, windowVars, metadataVars>>

(* prepareTransfer(): there may be no wallet, no state, no contract. *)
PrepareMessage(r) ==
    /\ pc[r] = "preparing"
    /\ Goto(r, "signing") \/ Goto(r, "failed")
    /\ UNCHANGED <<request, pending, permissionVars, windowVars, metadataVars>>

(* Mutant: the approval stays if the signature fails. *)
FinishSigningOnly(r) ==
    /\ pc[r] = "signing"
    /\ \/ Goto(r, "failed") /\ pending' = pending
       \/ /\ Goto(r, IF Name(r) \in DataMethods THEN "answered" ELSE "sending")
          /\ pending' = pending \ {r}
    /\ UNCHANGED <<request, permissionVars, windowVars, metadataVars>>

FinishSigning(r) ==
    /\ pc[r] = "signing"
    /\ Goto(r, "failed") \/ Goto(r, IF Name(r) \in DataMethods THEN "answered" ELSE "sending")
    /\ pending' = pending \ {r}
    /\ UNCHANGED <<request, permissionVars, windowVars, metadataVars>>

(* Mutant: the approvals are forgotten and nobody is told. *)
ClearSilently(before) == pending' = {} /\ pc' = before

(* ApprovalController.clear() rejects what waits for the user. *)
Clear(before) ==
    /\ pending' = {}
    /\ pc' = [r \in Requests |->
                 IF r \in pending /\ before[r] = "approving" THEN "failed" ELSE before[r]]

----------------------------------------------------------------------------
(* The wallet and the metadata of the pages. *)

(* NekotonController.logOut() waits for the accounts and the subscriptions, *)
(* which may fail.                                                           *)
LogOut(r) ==
    /\ Begins(r, {"logOut"}) /\ (Goto(r, "sending") \/ Goto(r, "failed"))
    /\ UNCHANGED <<request, pending, permissionVars, windowVars, metadataVars>>

ForgetPermissions(r) ==
    /\ pc[r] = "sending" /\ Name(r) = "logOut"
    /\ Clear([pc EXCEPT ![r] = "answered"])
    /\ permissions' = [o \in Origins |-> Nothing] /\ granted' = permissions'
    /\ outdated' = {}
    /\ UNCHANGED <<request, copied, windowVars, metadataVars>>

Permittees == {o \in Origins : permissions[o] # Nothing}

(* addDomainMetadata() stores what is known and then shows what is new. *)
StoreMetadata(r) ==
    /\ Begins(r, {"sendDomainMetadata"})
    /\ LET full == Len(tempOrigins) >= MaxTempOrigins
           kept == IF full THEN Tail(tempOrigins) ELSE tempOrigins
       IN  /\ metadataCopy' = [metadataCopy EXCEPT ![r] =
                 (IF full /\ Head(tempOrigins) \notin Permittees
                    THEN metadata \ {Head(tempOrigins)} ELSE metadata) \cup {Origin(r)}]
           /\ tempOrigins' = IF \E i \in DOMAIN kept : kept[i] = Origin(r) THEN kept
                             ELSE Append(kept, Origin(r))
    /\ storedMetadata' = metadata
    /\ Goto(r, "saving")
    /\ UNCHANGED <<request, pending, permissionVars, windowVars, metadata>>

ShowMetadata(r) ==
    /\ pc[r] = "saving" /\ Name(r) = "sendDomainMetadata"
    /\ \/ Goto(r, "answered") /\ metadata' = metadataCopy[r]
       \/ Goto(r, "failed") /\ UNCHANGED metadata
    /\ UNCHANGED <<request, pending, permissionVars, windowVars, storedMetadata, metadataCopy, tempOrigins>>

----------------------------------------------------------------------------
(* The windows. *)

Showing == {r \in Requests : trigger[r] \in {"showing", "showing again"}}

(* triggerUi() has the tabs: nothing is shown while another is, or while    *)
(* the popup or a tab of the extension is in front of the user.              *)
TabsQueried(r) ==
    /\ trigger[r] \in {"querying", "querying again"}
    /\ trigger' = [trigger EXCEPT ![r] =
           IF Showing # {} \/ mainOpen THEN "none"
           ELSE IF @ = "querying" THEN "showing" ELSE "showing again"]
    /\ UNCHANGED <<request, pc, pending, permissionVars, approvalWindow, mainOpen, reserved, metadataVars>>

(* showPopup() focuses the window or opens one; if it throws, once more. *)
ShowPopup(r) ==
    /\ r \in Showing
    /\ \/ /\ trigger' = [trigger EXCEPT ![r] = "none"]
          /\ approvalWindow' = IF approvalWindow = "none" THEN "loading" ELSE approvalWindow
       \/ /\ trigger' = [trigger EXCEPT ![r] = IF @ = "showing" THEN "querying again" ELSE "none"]
          /\ UNCHANGED approvalWindow
    /\ UNCHANGED <<request, pc, pending, permissionVars, mainOpen, reserved, metadataVars>>

(* _setupControllerConnection() of the window. *)
WindowConnects ==
    /\ approvalWindow = "loading" /\ approvalWindow' = "connected"
    /\ reserved' = 0
    /\ UNCHANGED <<request, pc, pending, permissionVars, trigger, mainOpen, metadataVars>>

(* The last connection has ended and none is expected. *)
NoneLeft == approvalWindow' # "connected" /\ ~mainOpen' /\ reserved = 0

ConnectionEnds ==
    IF NoneLeft THEN Clear(pc) ELSE UNCHANGED <<pc, pending>>

(* The user closes the window, or it closes when nothing is left to approve. *)
CloseWindow ==
    /\ approvalWindow # "none" /\ approvalWindow' = "none"
    /\ UNCHANGED mainOpen
    /\ IF approvalWindow = "connected" THEN ConnectionEnds ELSE UNCHANGED <<pc, pending>>
    /\ UNCHANGED <<request, permissionVars, trigger, reserved, metadataVars>>

OpenMain ==
    /\ ~mainOpen /\ mainOpen' = TRUE
    /\ reserved' = 0
    /\ UNCHANGED <<request, pc, pending, permissionVars, trigger, approvalWindow, metadataVars>>

CloseMain ==
    /\ mainOpen /\ mainOpen' = FALSE
    /\ UNCHANGED approvalWindow
    /\ ConnectionEnds
    /\ UNCHANGED <<request, permissionVars, trigger, reserved, metadataVars>>

----------------------------------------------------------------------------
HandlerGoesOn(r) ==
    \/ RequestEnds(r) \/ AssetDetails(r) \/ PrepareMessage(r) \/ FinishSigning(r)
    \/ ForgetPermissions(r) \/ ShowMetadata(r)

TriggerGoesOn(r) == TabsQueried(r) \/ ShowPopup(r)

ApiNext ==
    \/ \E r \in Requests :
          \/ Refuse(r) \/ Compute(r) \/ AskNetwork(r) \/ EstimateFees(r) \/ Disconnect(r)
          \/ RequestPermissions(r) \/ ChangeAccount(r) \/ AddAsset(r) \/ AskToSign(r)
          \/ LogOut(r) \/ StoreMetadata(r)
          \/ Approve(r) \/ Reject(r)
          \/ HandlerGoesOn(r) \/ TriggerGoesOn(r)
    \/ WindowConnects \/ CloseWindow \/ OpenMain \/ CloseMain

(* The network and the storage answer, the browser shows the window, and    *)
(* the user does not keep a window open for ever.                            *)
ApiFairness ==
    /\ \A r \in Requests : WF_apiVars(HandlerGoesOn(r)) /\ WF_apiVars(TriggerGoesOn(r))
    /\ WF_apiVars(CloseWindow) /\ WF_apiVars(CloseMain)

ApiSpec == ApiInit /\ [][ApiNext]_apiVars /\ ApiFairness

----------------------------------------------------------------------------
(* Nothing the user can be shown is left of a request that has ended, but   *)
(* for a message that could not be prepared; what waits for the user can be *)
(* shown, and waits for nobody once the last window is gone.                 *)
ApprovalsHaveWaiters ==
    /\ \A r \in Requests : pc[r] = "approving" => r \in pending
    /\ \A r \in pending : \/ pc[r] \in {"approving", "preparing", "signing"}
                          \/ Name(r) \in MessageMethods /\ pc[r] = "failed"
    /\ (approvalWindow # "connected" /\ ~mainOpen /\ reserved = 0) => pending = {}

(* An origin has what the user granted last, unless an account was chosen   *)
(* for it on a copy older than that.                                         *)
PermissionsAreGranted == \A o \in Origins \ outdated : permissions[o] = granted[o]

(* No window is open or coming, but one is still expected: the last one      *)
(* never came, or it was closed after a request had raised the count that     *)
(* its connection had reset, and opened no other.  Closing it has then        *)
(* cleared nothing: all requests wait until a window is opened once more.     *)
Stranded ==
    /\ approvalWindow = "none" /\ reserved > 0
    /\ \A r \in Requests : trigger[r] = "none"

(* Every request ends, approved, rejected or given up with the window,      *)
(* or some are stranded; and they too end if the user opens the wallet       *)
(* again and again, for the last window to be closed then finds none         *)
(* expected.                                                                  *)
RequestsEnd ==
    /\ \A r \in Requests : pc[r] \notin Ended \cup {"idle"} ~> pc[r] \in Ended \/ Stranded
    /\ []<>mainOpen => \A r \in Requests : pc[r] \notin Ended \cup {"idle"} ~> pc[r] \in Ended
=============================================================================
