----------------------------- MODULE MCProviderApi -----------------------------
(* ProviderApi for TLC: pairs of requests, one of each class of methods. *)
EXTENDS ProviderApi

CONSTANTS r1, r2, a1, a2, o1, o2

Ask(name, origin, asks, account) ==
    [name |-> name, origin |-> origin, asks |-> asks, account |-> account]

(* One method stands for those of its set. *)
MCAsks ==
    {Ask("requestPermissions", o1, {"basic"}, a1),
     Ask("requestPermissions", o1, {"basic", "accountInteraction"}, a1)}
    \cup {Ask(name, o1, {}, a1) :
             name \in {"changeAccount", "disconnect", "addAsset", "signData", "sendMessage",
                       "sendExternalMessage", "logOut"}}

MCOthers ==
    {Ask(name, o1, {}, a1) :
        name \in {"getTransactions", "packIntoCell", "estimateFees", "subscribe", "unknown",
                  "sendDomainMetadata"}}
    \cup {Ask("sendDomainMetadata", o2, {}, a1), Ask("requestPermissions", o2, {"basic"}, a1)}

(* Every two requests that ask the user, and any with one that does not. *)
MCApiWorkloads == {[r \in Requests |-> IF r = r1 THEN p ELSE q] :
                      p \in MCAsks \cup {Ask("sendDomainMetadata", o1, {}, a1)},
                      q \in MCAsks \cup MCOthers}
=============================================================================
