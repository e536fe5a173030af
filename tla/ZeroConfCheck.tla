--------------------------- MODULE ZeroConfCheck ---------------------------
(***************************************************************************)
(* What the trait ZeroConfCheck (boltzr/src/chain/elements/mod.rs)         *)
(* promises the UTXO nursery, whatever tool stands behind it: a check of   *)
(* an unconfirmed transaction is answered once, the answer "safe" is given *)
(* only when every bridge of the network has seen the transaction, and     *)
(* every check gets an answer.  A sender that is dropped without a value   *)
(* is an answer too: the nursery takes it for "unsafe"                     *)
(* (swap/utxo_nursery.rs, check_tx).                                       *)
(***************************************************************************)
CONSTANTS
    Calls,      \* calls of check_transaction
    TxOf        \* TxOf[c]: the transaction of a call

VARIABLES
    answer,     \* a call is "new", "asked", "safe" or "unsafe"
    quorum      \* transactions every bridge has seen

Init ==
    /\ answer = [c \in Calls |-> "new"]
    /\ quorum = {}

\* One step starts checks, or answers any number of them, as an entry with
\* several senders is.
Next ==
    \/ \E c \in Calls :
         /\ answer[c] = "new"
         /\ answer' = [answer EXCEPT ![c] = "asked"] /\ UNCHANGED quorum
    \/ \E cs \in SUBSET Calls, verdict \in { "safe", "unsafe" } :
         /\ \A c \in cs : answer[c] = "asked"
         /\ verdict = "safe" => \A c \in cs : TxOf[c] \in quorum
         /\ answer' = [c \in Calls |-> IF c \in cs THEN verdict ELSE answer[c]]
         /\ UNCHANGED quorum
    \/ /\ quorum \subseteq quorum' /\ UNCHANGED answer

\* One answer per check, and "safe" only with a quorum
SafeSpec == Init /\ [][Next]_<<answer, quorum>>

Spec ==
    /\ SafeSpec
    /\ \A c \in Calls : answer[c] = "asked" ~> answer[c] \in { "safe", "unsafe" }
=============================================================================
