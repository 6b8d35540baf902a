--------------------------- MODULE MessageDelivery ---------------------------
(***************************************************************************)
(* What a contract subscription promises to those who send messages        *)
(* through it: each message is reported once, as sent when a block includes *)
(* it and as expired when no block does or will.  It may also fail to leave, *)
(* and is then reported to its sender and not by the subscription.         *)
(***************************************************************************)
CONSTANT Senders
VARIABLES status, included
vars == <<status, included>>

Init ==
    /\ status = [m \in Senders |-> "new"]
    /\ included = {}

(* The subscription starts to wait for a message. *)
Register(m) ==
    /\ status[m] = "new"
    /\ status' = [status EXCEPT ![m] = "pending"]
    /\ UNCHANGED included

(* The message is refused before the subscription knows it, or by the node. *)
Fail(m) ==
    /\ status[m] \in {"new", "pending"}
    /\ status' = [status EXCEPT ![m] = "failed"]
    /\ UNCHANGED included

(* A block includes messages; an expired one never is. *)
Include(messages) ==
    /\ \A m \in messages : status[m] \notin {"new", "expired"}
    /\ included' = included \cup messages
    /\ UNCHANGED status

Report(sent, expired) ==
    /\ \A m \in sent : status[m] = "pending" /\ m \in included
    /\ \A m \in expired : status[m] = "pending" /\ m \notin included
    /\ status' = [m \in Senders |-> IF m \in sent THEN "sent"
                                    ELSE IF m \in expired THEN "expired"
                                    ELSE status[m]]
    /\ UNCHANGED included

Next ==
    \/ \E m \in Senders : Register(m) \/ Fail(m)
    \/ \E messages \in SUBSET Senders : Include(messages)
    \/ \E sent, expired \in SUBSET Senders : Report(sent, expired)

Spec == Init /\ [][Next]_vars
=============================================================================
