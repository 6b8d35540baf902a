-------------------------- MODULE ProviderApiProofs --------------------------
(***************************************************************************)
(* For any pages, requests and accounts: an approval waits for somebody,   *)
(* and can be shown or is cleared; an origin has what the user granted.    *)
(***************************************************************************)
EXTENDS ProviderApi, TLAPS

(* What the two invariants need of the types. *)
Kept ==
    /\ request \in [Requests -> ApiRequest] /\ pc \in [Requests -> Places]
    /\ pending \subseteq Requests /\ reserved \in Nat
    /\ \A r \in Requests : pc[r] = "preparing" => Name(r) \in MessageMethods

ApprovalInv == Kept /\ ApprovalsHaveWaiters

PermissionInv ==
    /\ permissions \in [Origins -> Permission] /\ granted \in [Origins -> Permission]
    /\ copied \in [Requests -> Permission]
    /\ PermissionsAreGranted

(* ApiInit establishes what is said of the approvals. *)
LEMMA ApiInitApprovals == ApiInit => ApprovalInv
<1> SUFFICES ASSUME ApiInit PROVE ApprovalInv
  OBVIOUS
<1>1. /\ pc = [r \in Requests |-> "idle"] /\ pending = {} /\ reserved = 0
      /\ request \in [Requests -> ApiRequest]
  BY ApiAssumption DEF ApiInit
<1> QED
  BY <1>1 DEF ApprovalInv, Kept, ApprovalsHaveWaiters, Places

(* A request nobody is asked about, which was not among the approvals and   *)
(* goes to a place where no approval is.                                     *)
LEMMA Unasked ==
  ASSUME ApprovalInv, NEW r \in Requests, NEW place \in Places, Goto(r, place),
         pc[r] \in {"idle", "asking", "sending", "saving"},
         place \notin {"approving", "preparing"},
         UNCHANGED <<request, pending, windowVars>>
  PROVE  ApprovalInv'
<1>1. r \notin pending
  BY DEF ApprovalInv, ApprovalsHaveWaiters
<1>2. pc' \in [Requests -> Places] /\ pc'[r] = place /\ \A q \in Requests \ {r} : pc'[q] = pc[q]
  BY DEF Goto, ApprovalInv, Kept
<1>3. Kept'
  BY <1>2 DEF ApprovalInv, Kept, windowVars, Name
<1>4. ApprovalsHaveWaiters'
  BY <1>1, <1>2 DEF ApprovalInv, ApprovalsHaveWaiters, Kept, windowVars, Name
<1> QED
  BY <1>3, <1>4 DEF ApprovalInv

(* A request the user is asked about: a window is expected. *)
LEMMA Asked ==
  ASSUME ApprovalInv, NEW r \in Requests, AddApproval(r), pc[r] \in {"idle", "asking"}
  PROVE  ApprovalInv'
<1>1. /\ pc' \in [Requests -> Places] /\ pc'[r] = "approving"
      /\ \A q \in Requests \ {r} : pc'[q] = pc[q]
  BY DEF AddApproval, Goto, ApprovalInv, Kept, Places
<1>2. reserved' \in Nat /\ reserved' # 0
  BY DEF AddApproval, ApprovalInv, Kept
<1>3. Kept'
  BY <1>1, <1>2 DEF ApprovalInv, Kept, AddApproval, Name
<1>4. ApprovalsHaveWaiters'
  BY <1>1, <1>2 DEF ApprovalInv, ApprovalsHaveWaiters, Kept, AddApproval, Name
<1> QED
  BY <1>3, <1>4 DEF ApprovalInv

(* A step that changes only the windows leaves the approvals in order if it *)
(* leaves no approval without a window.                                      *)
LEMMA WindowStep ==
  ASSUME ApprovalInv, UNCHANGED <<request, pc, pending>>, reserved' \in Nat,
         \/ pending = {} \/ approvalWindow' = "connected" \/ mainOpen' \/ reserved' # 0
  PROVE  ApprovalInv'
  BY DEF ApprovalInv, Kept, ApprovalsHaveWaiters, Name

(* clear() leaves no approval, and nobody waiting for one. *)
LEMMA Cleared ==
  ASSUME ApprovalInv, NEW before \in [Requests -> Places], Clear(before), request' = request,
         \A r \in Requests : before[r] = pc[r] \/ before[r] = "answered",
         reserved' \in Nat
  PROVE  ApprovalInv'
<1>1. pending' = {} /\ \A r \in Requests : pc'[r] = before[r] \/ pc'[r] = "failed"
  BY DEF Clear
<1>2. \A r \in Requests : before[r] = "approving" => pc'[r] = "failed"
  BY DEF Clear, ApprovalInv, ApprovalsHaveWaiters
<1>3. pc' \in [Requests -> Places]
  BY DEF Clear, Places, Ended
<1> QED
  BY <1>1, <1>2, <1>3 DEF ApprovalInv, Kept, ApprovalsHaveWaiters, Name

(* Each step by which a request begins. *)
LEMMA BeginsApprovals ==
  ASSUME ApprovalInv, NEW r \in Requests,
         \/ Refuse(r) \/ Compute(r) \/ AskNetwork(r) \/ EstimateFees(r) \/ Disconnect(r)
         \/ RequestPermissions(r) \/ ChangeAccount(r) \/ AddAsset(r) \/ AskToSign(r)
         \/ LogOut(r) \/ StoreMetadata(r)
  PROVE  ApprovalInv'
<1> USE DEF Begins, Places, Ended
<1>1. CASE Refuse(r) BY <1>1, Unasked DEF Refuse
<1>2. CASE Compute(r) BY <1>2, Unasked DEF Compute
<1>3. CASE AskNetwork(r) BY <1>3, Unasked DEF AskNetwork
<1>4. CASE EstimateFees(r) BY <1>4, Unasked DEF EstimateFees
<1>5. CASE Disconnect(r) BY <1>5, Unasked DEF Disconnect
<1>6. CASE RequestPermissions(r) BY <1>6, Unasked, Asked DEF RequestPermissions
<1>7. CASE ChangeAccount(r) BY <1>7, Asked DEF ChangeAccount
<1>8. CASE AddAsset(r) BY <1>8, Unasked DEF AddAsset
<1>9. CASE AskToSign(r) BY <1>9, Asked DEF AskToSign
<1>10. CASE LogOut(r) BY <1>10, Unasked DEF LogOut
<1>11. CASE StoreMetadata(r) BY <1>11, Unasked DEF StoreMetadata
<1> QED
  BY <1>1, <1>2, <1>3, <1>4, <1>5, <1>6, <1>7, <1>8, <1>9, <1>10, <1>11

(* The user approves: only what signs keeps its approval. *)
LEMMA ApproveApprovals ==
  ASSUME ApprovalInv, NEW r \in Requests, Approve(r)
  PROVE  ApprovalInv'
<1>1. CASE Name(r) \in SigningMethods
  <2>1. /\ Goto(r, IF Name(r) \in MessageMethods THEN "preparing" ELSE "signing")
        /\ UNCHANGED <<request, pending, windowVars>>
    BY <1>1 DEF Approve
  <2>2. /\ pc' \in [Requests -> Places] /\ pc'[r] \in {"preparing", "signing"}
        /\ pc'[r] = "preparing" => Name(r) \in MessageMethods
        /\ \A q \in Requests \ {r} : pc'[q] = pc[q]
    BY <2>1 DEF Goto, ApprovalInv, Kept, Places
  <2> QED
    BY <2>1, <2>2 DEF ApprovalInv, Kept, ApprovalsHaveWaiters, Name, windowVars
<1>2. CASE Name(r) \notin SigningMethods
  <2>1. /\ Goto(r, "saving") /\ pending' = pending \ {r}
        /\ UNCHANGED <<request, windowVars>>
    BY <1>2 DEF Approve
  <2>2. /\ pc' \in [Requests -> Places] /\ pc'[r] = "saving"
        /\ \A q \in Requests \ {r} : pc'[q] = pc[q]
    BY <2>1 DEF Goto, ApprovalInv, Kept, Places
  <2> QED
    BY <2>1, <2>2 DEF ApprovalInv, Kept, ApprovalsHaveWaiters, Name, windowVars
<1> QED
  BY <1>1, <1>2

(* The user rejects: whoever still waits is told. *)
LEMMA RejectApprovals ==
  ASSUME ApprovalInv, NEW r \in Requests, Reject(r)
  PROVE  ApprovalInv'
<1>1. pending' = pending \ {r} /\ UNCHANGED <<request, windowVars>>
  BY DEF Reject
<1>2. /\ pc' \in [Requests -> Places] /\ pc'[r] # "approving"
      /\ pc'[r] = pc[r] \/ pc'[r] = "failed"
      /\ \A q \in Requests \ {r} : pc'[q] = pc[q]
  BY DEF Reject, ApprovalInv, Kept, Places, Ended
<1> QED
  BY <1>1, <1>2 DEF ApprovalInv, Kept, ApprovalsHaveWaiters, Name, windowVars

(* The handlers go on. *)
LEMMA HandlerApprovals ==
  ASSUME ApprovalInv, NEW r \in Requests, HandlerGoesOn(r)
  PROVE  ApprovalInv'
<1> USE DEF Places, Ended
<1>1. CASE RequestEnds(r) BY <1>1, Unasked DEF RequestEnds
<1>2. CASE AssetDetails(r) BY <1>2, Unasked, Asked DEF AssetDetails
<1>3. CASE PrepareMessage(r)
  <2>1. /\ pc' \in [Requests -> Places] /\ pc'[r] \in {"signing", "failed"}
        /\ \A q \in Requests \ {r} : pc'[q] = pc[q]
        /\ Name(r) \in MessageMethods
        /\ UNCHANGED <<request, pending, windowVars>>
    BY <1>3 DEF PrepareMessage, Goto, ApprovalInv, Kept
  <2> QED
    BY <2>1 DEF ApprovalInv, Kept, ApprovalsHaveWaiters, Name, windowVars
<1>4. CASE FinishSigning(r)
  <2>1. /\ pc' \in [Requests -> Places] /\ pc'[r] \in {"failed", "answered", "sending"}
        /\ \A q \in Requests \ {r} : pc'[q] = pc[q]
        /\ pending' = pending \ {r} /\ UNCHANGED <<request, windowVars>>
    BY <1>4 DEF FinishSigning, Goto, ApprovalInv, Kept
  <2> QED
    BY <2>1 DEF ApprovalInv, Kept, ApprovalsHaveWaiters, Name, windowVars
<1>5. CASE ForgetPermissions(r)
  <2>1. /\ [pc EXCEPT ![r] = "answered"] \in [Requests -> Places]
        /\ \A q \in Requests : \/ [pc EXCEPT ![r] = "answered"][q] = pc[q]
                               \/ [pc EXCEPT ![r] = "answered"][q] = "answered"
    BY DEF ApprovalInv, Kept
  <2>2. Clear([pc EXCEPT ![r] = "answered"]) /\ request' = request /\ reserved' \in Nat
    BY <1>5 DEF ForgetPermissions, windowVars, ApprovalInv, Kept
  <2> QED
    BY <2>1, <2>2, Cleared
<1>6. CASE ShowMetadata(r) BY <1>6, Unasked DEF ShowMetadata
<1> QED
  BY <1>1, <1>2, <1>3, <1>4, <1>5, <1>6 DEF HandlerGoesOn

(* The windows come and go. *)
LEMMA WindowsApprovals ==
  ASSUME ApprovalInv,
         \/ \E r \in Requests : TriggerGoesOn(r)
         \/ WindowConnects \/ CloseWindow \/ OpenMain \/ CloseMain
  PROVE  ApprovalInv'
<1>1. ASSUME NEW r \in Requests, TabsQueried(r) PROVE ApprovalInv'
  BY <1>1, WindowStep DEF TabsQueried, ApprovalInv, Kept, ApprovalsHaveWaiters
<1>2. ASSUME NEW r \in Requests, ShowPopup(r) PROVE ApprovalInv'
  BY <1>2, WindowStep DEF ShowPopup, ApprovalInv, Kept, ApprovalsHaveWaiters
<1>3. CASE WindowConnects
  BY <1>3, WindowStep DEF WindowConnects, ApprovalInv, Kept
<1>4. CASE OpenMain
  BY <1>4, WindowStep DEF OpenMain, ApprovalInv, Kept
<1>5. pc \in [Requests -> Places] /\ reserved \in Nat
  BY DEF ApprovalInv, Kept
<1>6. CASE CloseWindow
  <2>1. CASE approvalWindow = "connected" /\ NoneLeft
    BY <1>5, <1>6, <2>1, Cleared DEF CloseWindow, ConnectionEnds
  <2>2. CASE approvalWindow = "connected" /\ ~NoneLeft
    BY <1>5, <1>6, <2>2, WindowStep DEF CloseWindow, ConnectionEnds, NoneLeft
  <2>3. CASE approvalWindow # "connected"
    BY <1>5, <1>6, <2>3, WindowStep DEF CloseWindow, ApprovalInv, ApprovalsHaveWaiters
  <2> QED
    BY <2>1, <2>2, <2>3
<1>7. CASE CloseMain
  <2>1. CASE NoneLeft
    BY <1>5, <1>7, <2>1, Cleared DEF CloseMain, ConnectionEnds
  <2>2. CASE ~NoneLeft
    BY <1>5, <1>7, <2>2, WindowStep DEF CloseMain, ConnectionEnds, NoneLeft
  <2> QED
    BY <2>1, <2>2
<1> QED
  BY <1>1, <1>2, <1>3, <1>4, <1>6, <1>7 DEF TriggerGoesOn

(* Every step keeps the approvals in order. *)
LEMMA ApiNextApprovals == ApprovalInv /\ [ApiNext]_apiVars => ApprovalInv'
<1> SUFFICES ASSUME ApprovalInv, [ApiNext]_apiVars PROVE ApprovalInv'
  OBVIOUS
<1>1. CASE UNCHANGED apiVars
  BY <1>1 DEF apiVars, windowVars, ApprovalInv, Kept, ApprovalsHaveWaiters, Name
<1> QED
  BY <1>1, BeginsApprovals, ApproveApprovals, RejectApprovals, HandlerApprovals, WindowsApprovals
     DEF ApiNext

----------------------------------------------------------------------------
(* ApiInit establishes what is said of the permissions. *)
LEMMA ApiInitPermissions == ApiInit => PermissionInv
<1> SUFFICES ASSUME ApiInit PROVE PermissionInv
  OBVIOUS
<1>1. Nothing \in Permission
  BY DEF Nothing, Permission
<1>2. \A a \in Accounts : [basic |-> TRUE, account |-> a] \in Permission
  BY DEF Permission
<1>3. permissions \in [Origins -> Permission]
  BY <1>1, <1>2 DEF ApiInit
<1> QED
  BY <1>1, <1>3 DEF ApiInit, PermissionInv, PermissionsAreGranted

(* The user approves: the origin has what was granted, or its permissions   *)
(* come from an older copy.                                                   *)
LEMMA ApprovePermissions ==
  ASSUME PermissionInv, NEW r \in Requests, request \in [Requests -> ApiRequest], Approve(r)
  PROVE  PermissionInv'
<1>1. CASE UNCHANGED permissionVars
  BY <1>1 DEF PermissionInv, PermissionsAreGranted, permissionVars
<1>2. CASE Name(r) \notin SigningMethods /\ Name(r) = "addAsset"
  BY <1>2 DEF PermissionInv, PermissionsAreGranted, Approve
<1>3. CASE Name(r) \notin SigningMethods /\ Name(r) = "changeAccount"
  <2> DEFINE o == Origin(r)
  <2>1. PICK a \in Accounts :
           /\ permissions' = [permissions EXCEPT ![o] = [copied[r] EXCEPT !.account = a]]
           /\ granted' = [granted EXCEPT ![o] = [basic |-> @.basic, account |-> a]]
           /\ outdated' = IF copied[r].basic # granted[o].basic THEN outdated \cup {o} ELSE outdated
           /\ UNCHANGED copied
    BY <1>3 DEF Approve
  <2>2. o \in Origins
    BY DEF Origin, ApiRequest
  <2>3. PICK p \in Permission : p = copied[r]
    BY DEF PermissionInv
  <2>4. PICK g \in Permission : g = granted[o]
    BY <2>2 DEF PermissionInv
  <2>5. [p EXCEPT !.account = a] = [basic |-> p.basic, account |-> a]
    BY DEF Permission
  <2>6. /\ permissions'[o] = [basic |-> p.basic, account |-> a]
        /\ granted'[o] = [basic |-> g.basic, account |-> a]
    BY <2>1, <2>2, <2>3, <2>4, <2>5 DEF PermissionInv
  <2>7. permissions'[o] \in Permission /\ granted'[o] \in Permission
    BY <2>6 DEF Permission
  <2>8. /\ permissions' \in [Origins -> Permission] /\ granted' \in [Origins -> Permission]
        /\ \A q \in Origins \ {o} : permissions'[q] = permissions[q] /\ granted'[q] = granted[q]
    BY <2>1, <2>7 DEF PermissionInv
  <2>9. o \notin outdated' => p.basic = g.basic
    BY <2>1, <2>3, <2>4
  <2>10. PermissionsAreGranted'
    BY <2>1, <2>6, <2>8, <2>9 DEF PermissionInv, PermissionsAreGranted
  <2> QED
    BY <2>1, <2>8, <2>10 DEF PermissionInv
<1>4. CASE Name(r) \notin SigningMethods \cup {"addAsset", "changeAccount"}
  <2> DEFINE o == Origin(r)
  <2>1. PICK a \in Accounts :
           /\ permissions' = [permissions EXCEPT ![o] = Grant(r, a)]
           /\ granted' = [granted EXCEPT ![o] = Grant(r, a)]
           /\ outdated' = outdated \ {o}
           /\ UNCHANGED copied
    BY <1>4 DEF Approve, Grant
  <2>2. o \in Origins
    BY DEF Origin, ApiRequest
  <2>3. Grant(r, a) \in Permission
    BY DEF Grant, Permission
  <2> QED
    BY <2>1, <2>2, <2>3 DEF PermissionInv, PermissionsAreGranted
<1> QED
  BY <1>1, <1>2, <1>3, <1>4 DEF Approve

(* Every other step that changes permissions. *)
LEMMA OtherPermissions ==
  ASSUME PermissionInv, NEW r \in Requests, request \in [Requests -> ApiRequest],
         Disconnect(r) \/ ChangeAccount(r) \/ ForgetPermissions(r)
  PROVE  PermissionInv'
<1>1. Origin(r) \in Origins /\ Nothing \in Permission
  BY DEF Origin, ApiRequest, Nothing, Permission
<1>2. CASE Disconnect(r)
  BY <1>1, <1>2 DEF Disconnect, PermissionInv, PermissionsAreGranted
<1>3. CASE ChangeAccount(r)
  BY <1>1, <1>3 DEF ChangeAccount, AddApproval, Held, PermissionInv, PermissionsAreGranted
<1>4. CASE ForgetPermissions(r)
  BY <1>1, <1>4 DEF ForgetPermissions, PermissionInv, PermissionsAreGranted
<1> QED
  BY <1>2, <1>3, <1>4

(* Every step keeps what is said of the permissions. *)
LEMMA ApiNextPermissions ==
  ApprovalInv /\ PermissionInv /\ [ApiNext]_apiVars => PermissionInv'
<1> SUFFICES ASSUME ApprovalInv, PermissionInv, [ApiNext]_apiVars PROVE PermissionInv'
  OBVIOUS
<1>1. request \in [Requests -> ApiRequest]
  BY DEF ApprovalInv, Kept
<1>2. ASSUME UNCHANGED permissionVars PROVE PermissionInv'
  BY <1>2 DEF PermissionInv, PermissionsAreGranted, permissionVars
<1>3. ASSUME NEW r \in Requests, Approve(r) PROVE PermissionInv'
  BY <1>1, <1>3, ApprovePermissions
<1>4. ASSUME NEW r \in Requests, Disconnect(r) \/ ChangeAccount(r) \/ ForgetPermissions(r)
      PROVE  PermissionInv'
  BY <1>1, <1>4, OtherPermissions
<1>5. ASSUME NEW r \in Requests,
             \/ Refuse(r) \/ Compute(r) \/ AskNetwork(r) \/ EstimateFees(r)
             \/ RequestPermissions(r) \/ AddAsset(r) \/ AskToSign(r)
             \/ LogOut(r) \/ StoreMetadata(r) \/ Reject(r)
             \/ RequestEnds(r) \/ AssetDetails(r) \/ PrepareMessage(r) \/ FinishSigning(r)
             \/ ShowMetadata(r) \/ TriggerGoesOn(r)
      PROVE  UNCHANGED permissionVars
  BY <1>5 DEF permissionVars, Refuse, Compute, AskNetwork, EstimateFees, RequestPermissions,
              AddApproval, AddAsset, AskToSign, LogOut, StoreMetadata, Reject, RequestEnds,
              AssetDetails, PrepareMessage, FinishSigning, ShowMetadata, TriggerGoesOn,
              TabsQueried, ShowPopup
<1>6. ASSUME WindowConnects \/ CloseWindow \/ OpenMain \/ CloseMain
      PROVE  UNCHANGED permissionVars
  BY <1>6 DEF permissionVars, WindowConnects, CloseWindow, OpenMain, CloseMain
<1>7. CASE UNCHANGED apiVars
  BY <1>2, <1>7 DEF apiVars, permissionVars
<1> QED
  BY <1>2, <1>3, <1>4, <1>5, <1>6, <1>7 DEF ApiNext, HandlerGoesOn

----------------------------------------------------------------------------
(* No approval outlives its request, but for a message that could not be    *)
(* prepared; who waits for the user has an approval; none is left when the   *)
(* last window is gone and none is expected (ApprovalController).            *)
THEOREM Approvals == ApiSpec => []ApprovalsHaveWaiters
<1>1. ApprovalInv => ApprovalsHaveWaiters
  BY DEF ApprovalInv
<1> QED
  BY <1>1, ApiInitApprovals, ApiNextApprovals, PTL DEF ApiSpec

(* An origin has what the user granted it last, unless changeAccount()      *)
(* wrote back a copy that had become old (PermissionsController).            *)
THEOREM Granted == ApiSpec => []PermissionsAreGranted
<1>1. PermissionInv => PermissionsAreGranted
  BY DEF PermissionInv
<1>2. ApiInit => ApprovalInv /\ PermissionInv
  BY ApiInitApprovals, ApiInitPermissions
<1>3. ApprovalInv /\ PermissionInv /\ [ApiNext]_apiVars => (ApprovalInv /\ PermissionInv)'
  BY ApiNextApprovals, ApiNextPermissions
<1> QED
  BY <1>1, <1>2, <1>3, PTL DEF ApiSpec
=============================================================================
