------------------------ MODULE MCAccountController ------------------------
(* Instances of AccountController for TLC. *)
EXTENDS AccountController

CONSTANTS a1, a2, r1, g1, g2, c1, c2

Call(name, a) ==
    [name |-> name, account |-> a, group |-> None, enable |-> {}, disable |-> {}, book |-> Empty]
Tokens(a, on, off) == [Call("tokens", a) EXCEPT !.enable = on, !.disable = off]
Switch(g) == [Call("switch", None) EXCEPT !.group = g]
Import(book) == [Call("import", None) EXCEPT !.book = book]

ToFirst == [m \in Messages |-> a1]

(* One account with a token in the first network, and two accounts. *)
OneAccount == [a \in Accounts |-> IF a = a1 THEN [NoTokens EXCEPT ![g1] = {r1}] ELSE None]
TwoAccounts == [a \in Accounts |-> IF a = a1 THEN [NoTokens EXCEPT ![g1] = {r1}] ELSE NoTokens]
MCBooks == {OneAccount, TwoAccounts}

Singles ==
    <<Call("start", None), Call("create", a2), Call("createMany", a2), Call("ensure", None),
      Call("select", a2), Call("remove", a1), Call("rename", a1), Call("logOut", None),
      Call("use", a1), Tokens(a1, {}, {r1}), Tokens(a1, {r1}, {}), Tokens(a2, {r1}, {}),
      Switch(g2), Import(OneAccount)>>

(* An account is removed and created again. *)
Again == <<Call("remove", a1), Call("create", a1)>>

(* Every pair of operations. *)
MCWorkloads ==
    {[p \in Calls |-> Again[IF p = c1 THEN 1 ELSE 2]]} \cup
    {[p \in Calls |-> Singles[IF p = c1 THEN ij[1] ELSE ij[2]]] :
        ij \in {kl \in (1..Len(Singles)) \X (1..Len(Singles)) : kl[1] <= kl[2]}}
=============================================================================
