---------------------- MODULE MCSubscriptionController ----------------------
(* Instances of SubscriptionController for TLC. *)
EXTENDS SubscriptionController

CONSTANTS m1, t1, t2, a1, a2

(* Messages to one address, or each to its own. *)
ToSame == [m \in Messages |-> a1]
ToApart == [m \in Messages |-> IF m = m1 THEN a1 ELSE a2]
FromApart == [m \in Messages |-> IF m = m1 THEN t1 ELSE t2]
=============================================================================
