------------------------------- MODULE MCParts -------------------------------
(***************************************************************************)
(* The small machines side by side, for TLC: they share no state, so each  *)
(* behaviour runs one of them, its part, and leaves the others as they     *)
(* begin.                                                                   *)
(***************************************************************************)
EXTENDS WalletTransactions, TokenWalletSubscription, LedgerBridge, GqlSender, AccountKeys,
        ProviderStreams, SigningForms, StateUpdates, AccountsManagement

CONSTANTS
    Parts,
    u1, u2, l1, l2, k1, k2, x1, x2, f1, f2, f3, q1, q2, q3, t1, t2, o1, o2, s1, s2, w1, w2, w3, m1, m2, m3, seedA, seedB

VARIABLE part

partVars == <<part, transactionVars, tokenVars, ledgerVars, gqlVars, keyVars, streamVars, formVars, stateVars,
              managementVars>>

----------------------------------------------------------------------------
(* Parameters. *)

Send(kind, id, by, out) == [kind |-> kind, id |-> id, by |-> by, out |-> out]

(* Two owners confirm one or two multisig transactions among others. *)
MCChains ==
    {<<Send("submit", "1", "owner", FALSE), Send("confirm", "1", "other", TRUE)>>,
     <<Send("submit", "1", "owner", FALSE), Send("send", "0", "owner", TRUE),
       Send("confirm", "1", "other", FALSE), Send("confirm", "1", "third", TRUE)>>,
     <<Send("submit", "1", "owner", FALSE), Send("submit", "2", "other", FALSE),
       Send("confirm", "1", "other", TRUE), Send("confirm", "2", "owner", TRUE)>>,
     <<Send("submit", "1", "owner", FALSE), Send("submit", "0", "owner", TRUE),
       Send("plain", "0", "owner", FALSE), Send("confirm", "1", "other", TRUE)>>,
     <<Send("wallet", "0", "owner", FALSE), Send("submit", "2", "other", FALSE),
       Send("confirm", "2", "owner", TRUE)>>}

(* A table of each kind: cleared by stopSubscriptions() alone, by removeAccount() alone, ... *)
MCTables == {"unconfirmed", "custodians", "contractState"}

Change(name, keys) == [name |-> name, keys |-> keys]
MCKeyOperations ==
    {Change(name, {k1}) : name \in KeyNames} \cup
    {Change(name, {k2}) : name \in {"recent", "external", "create", "remove"}} \cup
    {Change(name, {k1, k2}) : name \in {"createMany", "removeMany"}}
MCKeyWorkloads == [KeyCalls -> MCKeyOperations]

(* Two frames in one tab, one of another origin, and a tab of their own. *)
MCOrigin == [f \in Frames |-> IF f = f3 THEN o2 ELSE o1]
MCTab == [f \in Frames |-> IF f = f1 THEN t1 ELSE IF f = f2 THEN t1 ELSE t2]
MCFrame == [r \in Requests |-> f1]
MCBatch == [r \in Requests |-> IF r = q3 THEN {q3} ELSE {q1, q2}]

(* A seed with two keys and a Ledger, a custodian of the first account.  The *)
(* popup is opened with nothing, or with the first seed in use.               *)
MCSeedOf == [k \in SeedKeys |-> IF k = m3 THEN seedB ELSE seedA]
MCFirstKeyOf == [s \in Seeds |-> IF s = seedA THEN m1 ELSE m3]
MCOwnerOf == [w \in Wallets |-> IF w = w1 THEN m1 ELSE IF w = w2 THEN m2 ELSE m3]
MCCustody == {<<w1, m3>>}
MCKept == {[keys |-> {m1, m2, m3}, entries |-> {w1, w2}, visible |-> {w1, w2},
            external |-> {}, seed |-> seedA, account |-> w1]}

----------------------------------------------------------------------------
(* The machines other than the part begin in one state. *)
PartsInit ==
    /\ part \in Parts
    /\ TransactionsInit /\ (part # "transactions" => chain = (CHOOSE c \in Chains : TRUE) /\ owned)
    /\ TokenInit /\ LedgerInit /\ GqlInit
    /\ KeysInit /\ (part # "keys" => keyOp = (CHOOSE w \in KeyWorkloads : TRUE) /\ keyStore = {})
    /\ StreamInit /\ (part # "streams" => \A f \in Frames : idCounter[f] = CHOOSE i \in FirstIds : TRUE)
    /\ FormInit /\ (part # "forms" => form = "send")
    /\ StateInit
    /\ ManagementInit /\ (part # "management" => stored = Nothing)

Run(name) == part = name /\ UNCHANGED part

PartsNext ==
    \/ Run("transactions") /\ TransactionsNext
       /\ UNCHANGED <<tokenVars, ledgerVars, gqlVars, keyVars, streamVars, formVars, stateVars,
                       managementVars>>
    \/ Run("token") /\ TokenNext
       /\ UNCHANGED <<transactionVars, ledgerVars, gqlVars, keyVars, streamVars, formVars, stateVars,
                       managementVars>>
    \/ Run("ledger") /\ LedgerNext
       /\ UNCHANGED <<transactionVars, tokenVars, gqlVars, keyVars, streamVars, formVars, stateVars,
                       managementVars>>
    \/ Run("gql") /\ GqlNext
       /\ UNCHANGED <<transactionVars, tokenVars, ledgerVars, keyVars, streamVars, formVars, stateVars,
                       managementVars>>
    \/ Run("keys") /\ KeysNext
       /\ UNCHANGED <<transactionVars, tokenVars, ledgerVars, gqlVars, streamVars, formVars, stateVars,
                       managementVars>>
    \/ Run("streams") /\ StreamNext
       /\ UNCHANGED <<transactionVars, tokenVars, ledgerVars, gqlVars, keyVars, formVars, stateVars,
                       managementVars>>
    \/ Run("forms") /\ FormNext
       /\ UNCHANGED <<transactionVars, tokenVars, ledgerVars, gqlVars, keyVars, streamVars, stateVars,
                       managementVars>>
    \/ Run("state") /\ StateNext
       /\ UNCHANGED <<transactionVars, tokenVars, ledgerVars, gqlVars, keyVars, streamVars, formVars,
                       managementVars>>
    \/ Run("management") /\ ManagementNext
       /\ UNCHANGED <<transactionVars, tokenVars, ledgerVars, gqlVars, keyVars, streamVars, formVars, stateVars>>

PartsFairness ==
    /\ WF_tokenVars(Run("token") /\ TokenProgress)
    /\ WF_stateVars(Run("state") /\ StateProgress)
    /\ WF_stateVars(Run("state") /\ HearMessage)
    /\ \A f \in Frames :
          /\ WF_streamVars(Run("streams") /\ TakeRequest(f))
          /\ WF_streamVars(Run("streams") /\ HearPort(f))
          /\ \A n \in Numbers : WF_streamVars(Run("streams") /\ FinishSome(f, n))

FairPartsSpec == PartsInit /\ [][PartsNext]_partVars /\ PartsFairness
=============================================================================
