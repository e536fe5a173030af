--------------------------- MODULE MCSubmarineSwap ---------------------------
(* Instances of SubmarineSwap for model checking.                          *)
EXTENDS SubmarineSwap

CONSTANTS n1

OneNode == { n1 }
NoNodes == {}

t1 == [id |-> "t1", vout |-> 0]
t2 == [id |-> "t2", vout |-> 0]

OneLockup == { t1 }
TwoLockups == { t1, t2 }

ExactAndBlocked ==
    [l \in Lockups |-> IF l = t1 THEN { "exact" } ELSE { "blocked" }]
AnyAmount == [l \in Lockups |-> { "exact", "low", "over", "high" }]
OnlyLow == [l \in Lockups |-> { "low" }]

NoFaults == {}
CrashesAndTimeouts == { "crash", "timeouts" }
\* A connection to the node breaks, with the payment in flight or not.
Drops == { "earlyDrop" }

=============================================================================
