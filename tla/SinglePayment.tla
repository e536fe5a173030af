--------------------------- MODULE SinglePayment ---------------------------
(***************************************************************************)
(* What paying the invoice of a submarine swap promises to the rest of the *)
(* backend: at any time at most one node has the invoice in flight, once a *)
(* node has settled it no other attempt starts, and a swap is abandoned    *)
(* only while nothing is in flight or settled, after which nothing starts. *)
(***************************************************************************)
CONSTANT Nodes

VARIABLES
    payment,    \* node -> "none", "inflight" or "settled"
    abandoned   \* the swap was given up, its lockup may be refunded

onceVars == <<payment, abandoned>>

Nothing == \A n \in Nodes : payment[n] = "none"

Init ==
    /\ payment = [n \in Nodes |-> "none"]
    /\ abandoned = FALSE

Send(n) ==
    /\ Nothing
    /\ ~abandoned
    /\ payment' = [payment EXCEPT ![n] = "inflight"]
    /\ UNCHANGED abandoned

Resolve(n) ==
    /\ payment[n] = "inflight"
    /\ \E result \in { "none", "settled" } :
         payment' = [payment EXCEPT ![n] = result]
    /\ UNCHANGED abandoned

Abandon ==
    /\ Nothing
    /\ abandoned' = TRUE
    /\ UNCHANGED payment

Next == Abandon \/ \E n \in Nodes : Send(n) \/ Resolve(n)
Spec == Init /\ [][Next]_onceVars

=============================================================================
