----------------------------- MODULE SigningForms -----------------------------
(***************************************************************************)
(* The forms of the popup that end in a signature: to send from a wallet,  *)
(* to confirm a multisig transaction, to deploy, and to approve what a     *)
(* page asks.  Each waits for fees, for the message of a token transfer    *)
(* and for the signature while the user edits, changes the key, goes back  *)
(* or turns to another approval.                                            *)
(***************************************************************************)
EXTENDS Naturals

CONSTANTS
    SignKeys,       \* the keys the form lets choose from
    MaxEdits,       \* bounds the times the user fills in a transfer
    NoMessage       \* undefined

DataForms == {"dataApproval", "signDataApproval"}
ApprovalForms == {"sendApproval"} \cup DataForms
FormKinds == ApprovalForms \cup {"send", "sendTokens", "confirm", "deploy"}
SendForms == {"send", "sendTokens"}

VARIABLES
    form,           \* which form this is
    chosenKey,      \* selectedKey
    edit,           \* what the user has filled in
    submittedEdit,  \* messageParams, 0 if undefined
    prepared,       \* messageToPrepare: for which key, of which edit
    preparing,      \* the token messages asked for
    estimating,     \* the messages whose fees are asked for
    fees,           \* the message whose fees are shown
    formStep,       \* "edit" (or a preview), "password" or "closed"
    inProcess, submitted, failed,   \* of the form and of its EnterPassword
    signing,        \* the message being signed, and by which key
    signingAgain,   \* a deployment is being signed twice
    signedMessage,  \* what has been signed last
    signatures,     \* history: how often, 2 if more
    rejected, switched      \* history: the user rejected, turned to another approval

signatureVars == <<signing, signingAgain, signedMessage, signatures>>
editVars == <<form, edit, submittedEdit, preparing>>
formVars == <<editVars, chosenKey, prepared, estimating, fees, formStep, inProcess, submitted,
              failed, signatureVars, rejected, switched>>

FormMessage == [key : SignKeys, edit : 0 .. MaxEdits]
FirstKey == CHOOSE k \in SignKeys : TRUE
For(k, e) == [key |-> k, edit |-> e]

FormInit ==
    /\ form \in FormKinds
    /\ chosenKey = FirstKey /\ edit = 0 /\ submittedEdit = 0
    /\ prepared = NoMessage /\ preparing = {} /\ fees = NoMessage
    /\ estimating = IF form \in {"sendApproval", "deploy"} THEN {For(chosenKey, 0)} ELSE {}
    /\ formStep = "edit" /\ inProcess = FALSE /\ submitted = FALSE /\ failed = FALSE
    /\ signing = NoMessage /\ signedMessage = NoMessage
    /\ signingAgain = FALSE /\ signatures = 0
    /\ rejected = FALSE /\ switched = FALSE

----------------------------------------------------------------------------
(* Filling in. *)

FillIn ==
    /\ form \in SendForms /\ formStep = "edit" /\ edit < MaxEdits
    /\ edit' = edit + 1
    /\ UNCHANGED <<form, submittedEdit, preparing, chosenKey, prepared, estimating, fees, formStep,
                   inProcess, submitted, failed, signatureVars, rejected, switched>>

(* The message is known: its fees are asked for, and the password. *)
PutMessage(m) ==
    /\ prepared' = m /\ submittedEdit' = m.edit
    /\ fees' = NoMessage /\ estimating' = estimating \cup {m}
    /\ formStep' = "password"

(* submitMessageParams(); a transfer of tokens waits for its message. *)
SubmitEdit(k, e) ==
    IF form = "send"
      THEN PutMessage(For(k, e)) /\ UNCHANGED preparing
      ELSE /\ preparing' = preparing \cup {For(k, e)}
           /\ UNCHANGED <<prepared, submittedEdit, fees, estimating, formStep>>

Proceed ==
    /\ form \in SendForms /\ formStep = "edit" /\ edit > 0
    /\ SubmitEdit(chosenKey, edit)
    /\ submitted' = FALSE
    /\ UNCHANGED <<form, edit, chosenKey, inProcess, failed, signatureVars, rejected, switched>>

(* prepareTokenMessage() answers, wherever the form is by now, or fails. *)
TokensPrepared(m) ==
    /\ m \in preparing /\ formStep # "closed"
    /\ preparing' = preparing \ {m}
    /\ \/ PutMessage(m) /\ submitted' = (submitted /\ formStep = "password")
       \/ UNCHANGED <<prepared, submittedEdit, fees, estimating, formStep, submitted>>
    /\ UNCHANGED <<form, edit, chosenKey, inProcess, failed, signatureVars, rejected, switched>>

(* The other forms go from their preview to the password. *)
Preview ==
    /\ form \notin SendForms /\ formStep = "edit" /\ (form \in DataForms => ~inProcess)
    /\ formStep' = "password" /\ submitted' = FALSE
    /\ IF form = "confirm"
         THEN fees' = NoMessage /\ estimating' = estimating \cup {For(chosenKey, 0)}
         ELSE UNCHANGED <<fees, estimating>>
    /\ UNCHANGED <<editVars, chosenKey, prepared, inProcess, failed, signatureVars,
                   rejected, switched>>

FeesArrive(m) ==
    /\ m \in estimating /\ estimating' = estimating \ {m}
    /\ fees' = m \/ UNCHANGED fees
    /\ UNCHANGED <<editVars, chosenKey, prepared, formStep, inProcess, submitted, failed,
                   signatureVars, rejected, switched>>

----------------------------------------------------------------------------
(* The password. *)

(* Mutant: the message prepared for the other key stays. *)
KeyOnly(k) ==
    /\ formStep = "password" /\ form \notin {"deploy"} \cup DataForms
    /\ k # chosenKey /\ chosenKey' = k
    /\ UNCHANGED <<editVars, prepared, estimating, fees, formStep, inProcess, submitted, failed,
                   signatureVars, rejected, switched>>

(* A form to send submits its message again, for the new key; the approval  *)
(* asks for the fees again.                                                  *)
ChangeKey(k) ==
    /\ formStep = "password" /\ form \notin {"deploy"} \cup DataForms
    /\ k # chosenKey /\ chosenKey' = k
    /\ IF form \in SendForms THEN SubmitEdit(k, submittedEdit)
       ELSE /\ estimating' = IF form = "sendApproval" THEN estimating \cup {For(k, 0)} ELSE estimating
            /\ UNCHANGED <<submittedEdit, preparing, prepared, fees, formStep>>
    /\ UNCHANGED <<form, edit, inProcess, submitted, failed, signatureVars, rejected, switched>>

(* Only the forms to send and to deploy forget the error of the last try.   *)
BeginSigning ==
    /\ signing' = [by |-> chosenKey,
                   message |-> IF form \in SendForms THEN prepared ELSE For(chosenKey, 0)]
    /\ inProcess' = TRUE /\ submitted' = TRUE
    /\ failed' = (failed /\ form \notin SendForms \cup {"deploy"})
    /\ UNCHANGED <<editVars, chosenKey, prepared, estimating, fees, formStep, signedMessage,
                   signatures, rejected, switched>>

(* What asks for the password shows it to be in process; data is signed     *)
(* from the preview if the password is cached.                               *)
SubmitPassword ==
    /\ ~inProcess
    /\ \/ formStep = "password" /\ ~(submitted /\ ~failed)
       \/ formStep = "edit" /\ form \in DataForms
    /\ form \in SendForms => prepared # NoMessage
    /\ form = "deploy" => fees # NoMessage
    /\ UNCHANGED signingAgain
    /\ BeginSigning

(* A cached password deploys at once, in process or not. *)
DeployAgain ==
    /\ form = "deploy" /\ formStep = "password" /\ fees # NoMessage
    /\ signing # NoMessage /\ ~signingAgain /\ signingAgain' = TRUE
    /\ BeginSigning

(* Mutant: the form of an approval is free again once its answer is given. *)
FreeAfterAnswer == FALSE

(* Whether the form stays disabled when it has succeeded: an approval does, *)
(* but for the one that signs data.                                          *)
StaysDisabled == form \in {"sendApproval", "dataApproval"}

(* The message is signed, or the password of an approval is checked. *)
Signed ==
    /\ signing # NoMessage /\ signingAgain' = FALSE
    /\ signing' = IF signingAgain THEN signing ELSE NoMessage
    /\ \/ /\ signedMessage' = signing /\ signatures' = IF signatures < 2 THEN signatures + 1 ELSE 2
          /\ formStep' = IF form \in ApprovalForms THEN formStep ELSE "closed"
          /\ inProcess' = (inProcess /\ StaysDisabled)
          /\ UNCHANGED failed
       \/ failed' = TRUE /\ inProcess' = FALSE /\ UNCHANGED <<signedMessage, signatures, formStep>>
    /\ UNCHANGED <<editVars, chosenKey, prepared, estimating, fees, submitted, rejected, switched>>

Back ==
    /\ formStep = "password" /\ formStep' = "edit"
    /\ form \notin DataForms \cup {"deploy"} => ~(submitted /\ ~failed)
    /\ fees' = IF form = "confirm" THEN NoMessage ELSE fees
    /\ failed' = (failed /\ form # "confirm")
    /\ UNCHANGED <<editVars, chosenKey, prepared, estimating, inProcess, submitted, signatureVars,
                   rejected, switched>>

----------------------------------------------------------------------------
(* Approvals. *)

(* The user rejects, or the account has been removed. *)
Refuses ==
    /\ form \in ApprovalForms /\ formStep = "edit" /\ ~inProcess
    /\ formStep' = "closed" /\ rejected' = TRUE
    /\ UNCHANGED <<editVars, chosenKey, prepared, estimating, fees, inProcess, submitted, failed,
                   signatureVars, switched>>

(* Another of several approvals is shown and then this one, anew. *)
SwitchApproval ==
    /\ form \in ApprovalForms /\ formStep # "closed"
    /\ formStep' = "edit" /\ chosenKey' = FirstKey /\ fees' = NoMessage
    /\ estimating' = IF form = "sendApproval" THEN {For(FirstKey, 0)} ELSE {}
    /\ inProcess' = FALSE /\ submitted' = FALSE /\ failed' = FALSE
    /\ switched' = TRUE
    /\ UNCHANGED <<editVars, prepared, signatureVars, rejected>>

(* The background has signed and deletes the approval. *)
ApprovalDeleted ==
    /\ form \in ApprovalForms /\ signedMessage # NoMessage /\ formStep # "closed"
    /\ formStep' = "closed"
    /\ UNCHANGED <<editVars, chosenKey, prepared, estimating, fees, inProcess, submitted, failed,
                   signatureVars, rejected, switched>>

FormNext ==
    \/ DeployAgain \/ FillIn \/ Proceed \/ Preview \/ SubmitPassword \/ Signed \/ Back
    \/ \E m \in FormMessage : TokensPrepared(m) \/ FeesArrive(m)
    \/ \E k \in SignKeys : ChangeKey(k)
    \/ Refuses \/ SwitchApproval \/ ApprovalDeleted

FormSpec == FormInit /\ [][FormNext]_formVars

----------------------------------------------------------------------------
(* The key that signs is the one the message was prepared for, and the      *)
(* message the one last submitted, unless it is of tokens: then the key or   *)
(* the form may have changed while the message was asked for.                *)
SignedAsPrepared ==
    \A s \in {signing, signedMessage} \ {NoMessage} :
        form # "sendTokens" => s.by = s.message.key /\ s.message.edit = submittedEdit

(* A form signs once, but for a deployment, and not what was rejected; an   *)
(* approval that was mounted anew meanwhile, or that signs data and is not   *)
(* disabled while it is signed, may.                                          *)
SignsOnce ==
    form # "signDataApproval" /\ ~switched =>
        /\ signatures > 1 => form = "deploy"
        /\ rejected => signing = NoMessage /\ signatures = 0
=============================================================================
