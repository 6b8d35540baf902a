------------------------- MODULE WalletTransactions -------------------------
(***************************************************************************)
(* What TonWalletHandler and TokenWalletHandler make of the transactions   *)
(* of one account: the tables shown, and above all the multisig            *)
(* transactions put together from the submissions and confirmations found  *)
(* in batches, the newest batch first or last, each batch newest first.    *)
(***************************************************************************)
EXTENDS Naturals, Sequences, FiniteSets

CONSTANTS
    Chains,     \* the transactions the account may have, oldest first
    Ids,        \* of the multisig transactions; "0" is none
    Custodians, \* of the account
    Tables      \* the other tables of the controller the instance follows

Kinds == {"submit", "confirm", "send", "wallet", "plain"}

ASSUME ChainsAssumption ==
    /\ Tables \subseteq {"contractState", "unconfirmed", "custodians", "details", "tokenState",
                         "tokenTransactions"}
    /\ Chains \subseteq Seq([kind : Kinds, id : Ids, by : Custodians, out : BOOLEAN])

VARIABLES
    chain,
    owned,      \* the wallet supports multiple owners
    running,    \* the wallet subscription runs
    first, last,    \* the transactions found are those from first to last
    aggregated, \* accountMultisigTransactions of the account
    rows,       \* the other tables in which the account has a row
    passed,     \* history: found, but not looked at because of one before it
    doubled     \* history: the account was removed and added again

transactionVars == <<chain, owned, running, first, last, aggregated, rows, passed, doubled>>

NothingYet == [confirmations |-> <<>>, final |-> 0, created |-> "unknown"]
NoMultisig == [id \in Ids |-> NothingYet]

TransactionsInit ==
    /\ chain \in Chains /\ owned \in BOOLEAN
    /\ running = TRUE /\ first = 1 /\ last = 0
    /\ aggregated = NoMultisig /\ rows = {} /\ passed = {} /\ doubled = FALSE

(* The loop is left at an interaction that is no multisig method, and at a *)
(* submission that was sent at once.                                        *)
EndsLoop(t) ==
    \/ t.kind = "wallet"
    \/ t.kind = "submit" /\ (t.id = "0" \/ t.out)

Looked(indices) == {i \in indices : \A j \in indices : j >= i => ~EndsLoop(chain[j])}

(* Mutant: a confirmation found first dates the transaction for good. *)
SubmittedKeepingTime(info, i) ==
    [info EXCEPT !.confirmations = Append(@, chain[i].by),
                 !.created = IF @ = "unknown" THEN "submission" ELSE @]

Submitted(info, i) ==
    [info EXCEPT !.confirmations = Append(@, chain[i].by), !.created = "submission"]

(* The confirmation that sends something is the final one.  Without the    *)
(* submission the time is taken from the id.                                *)
Confirmed(info, i) ==
    [info EXCEPT !.confirmations = Append(@, chain[i].by),
                 !.final = IF chain[i].out THEN i ELSE @,
                 !.created = IF @ = "unknown" THEN "id" ELSE @]

Aggregate(table, i) ==
    CASE chain[i].kind = "submit" -> [table EXCEPT ![chain[i].id] = Submitted(@, i)]
      [] chain[i].kind = "confirm" -> [table EXCEPT ![chain[i].id] = Confirmed(@, i)]
      [] OTHER -> table

(* The loop over a batch, from the newest transaction: what the first n of  *)
(* it have made of the table.                                                *)
AggregatedBy(f, l) ==
    LET table[n \in 0 .. l + 1 - f] ==
          IF n = 0 THEN aggregated
          ELSE IF l + 1 - n \in Looked(f..l) THEN Aggregate(table[n - 1], l + 1 - n)
          ELSE table[n - 1]
    IN  table[l + 1 - f]

(* _updateTransactions() *)
UpdateTransactions(f, l) ==
    /\ aggregated' = IF owned THEN AggregatedBy(f, l) ELSE aggregated
    /\ passed' = passed \cup (IF owned THEN f..l \ Looked(f..l) ELSE f..l)
    /\ UNCHANGED <<chain, owned, running, rows, doubled>>

(* The wallet finds transactions newer than those found, ... *)
FindNew ==
    /\ running
    /\ \E l \in last + 1 .. Len(chain) : \E f \in last + 1 .. l :
          /\ last = 0 \/ f = last + 1
          /\ first' = IF last = 0 THEN f ELSE first
          /\ last' = l
          /\ UpdateTransactions(f, l)

(* ... or older, when it is created or they are preloaded. *)
FindOld ==
    /\ running /\ last > 0
    /\ \E f \in 1 .. first - 1 :
          /\ first' = f /\ UNCHANGED last
          /\ UpdateTransactions(f, first - 1)

(* The other callbacks of the two handlers write a row each. *)
UpdateRow(table) ==
    /\ running
    /\ rows' = rows \cup {table}
    /\ UNCHANGED <<chain, owned, running, first, last, aggregated, passed, doubled>>

(* _stopSubscriptions() clears the tables but two. *)
StopWallets ==
    /\ running
    /\ running' = FALSE /\ first' = 1 /\ last' = 0
    /\ aggregated' = NoMultisig /\ passed' = {} /\ doubled' = FALSE
    /\ rows' = rows \cap {"custodians", "details"}
    /\ UNCHANGED <<chain, owned>>

(* removeAccount() keeps the multisig transactions: an account added again *)
(* finds its confirmations there.  Once, until the subscriptions are       *)
(* stopped: the bound of the behaviour.                                     *)
ForgetAccount ==
    /\ running /\ ~doubled
    /\ running' = FALSE /\ first' = 1 /\ last' = 0
    /\ doubled' = TRUE
    /\ rows' = rows \ {"contractState", "custodians", "details", "tokenTransactions"}
    /\ UNCHANGED <<chain, owned, aggregated, passed>>

StartAgain ==
    /\ ~running /\ running' = TRUE
    /\ UNCHANGED <<chain, owned, first, last, aggregated, rows, passed, doubled>>

TransactionsNext ==
    \/ FindNew \/ FindOld \/ StopWallets \/ ForgetAccount \/ StartAgain
    \/ \E table \in Tables : UpdateRow(table)

TransactionsSpec == TransactionsInit /\ [][TransactionsNext]_transactionVars

Votes(id) ==
    {i \in first..last \ passed : chain[i].id = id /\ chain[i].kind \in {"submit", "confirm"}}

(* Whatever the batches and their order, each multisig transaction has the *)
(* confirmations found for it, once each, the time of its submission if it *)
(* is found, and a final transaction if one is found.  The exceptions: the *)
(* transactions of a batch behind one that ends the loop, and an account   *)
(* removed and added again.                                                 *)
AggregatesWhatIsFound ==
    ~doubled => \A id \in Ids :
        /\ Len(aggregated[id].confirmations) = Cardinality(Votes(id))
        /\ \A i \in Votes(id) :
              /\ \E n \in 1..Len(aggregated[id].confirmations) :
                    aggregated[id].confirmations[n] = chain[i].by
              /\ chain[i].kind = "submit" => aggregated[id].created = "submission"
              /\ chain[i].kind = "confirm" /\ chain[i].out => aggregated[id].final # 0
=============================================================================
