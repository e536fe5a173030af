---------------------------- MODULE HttpZeroConf ----------------------------
(***************************************************************************)
(* The HTTP transport of the 0-conf tool of Liquid                         *)
(* (boltzr/src/chain/elements/zero_conf_tool/http.rs).  A task sweeps over *)
(* the transactions to check, asking a server about one after the other,   *)
(* while calls of check_transaction add more.                              *)
(***************************************************************************)
EXTENDS Naturals

CONSTANTS
    ZhCalls,        \* calls of check_transaction
    ZhTxs,          \* transactions
    ZhTxOf,         \* the transaction of a call
    ZhMaxRetries,   \* max_retries of the configuration
    MaxHttpErrors   \* bound on failing requests

ASSUME ZhAssumption ==
    ZhTxOf \in [ZhCalls -> ZhTxs] /\ ZhMaxRetries \in Nat \ {0} /\ MaxHttpErrors \in Nat

VARIABLES
    zhToCheck,  \* to_check: the transactions with an entry
    zhSenders,  \* the calls waiting in an entry
    zhRetries,  \* the retries of an entry
    zhPhase,    \* where the task is
    zhLeft,     \* the entries the sweep has yet to visit
    zhAsking,   \* the entry it holds the lock of while it asks
    zhRemove,   \* to_remove
    zhAnswer,   \* the calls, as in ZeroConfCheck
    zhQuorum,   \* transactions every bridge has seen
    zhErrors

zhVars == << zhToCheck, zhSenders, zhRetries, zhPhase, zhLeft, zhAsking, zhRemove,
             zhAnswer, zhQuorum, zhErrors >>

ZhInit ==
    /\ zhToCheck = {} /\ zhSenders = [t \in ZhTxs |-> {}]
    /\ zhRetries = [t \in ZhTxs |-> 0]
    /\ zhPhase = "sleep" /\ zhLeft = {} /\ zhAsking = {} /\ zhRemove = {}
    /\ zhAnswer = [c \in ZhCalls |-> "new"] /\ zhQuorum = {} /\ zhErrors = 0

\* All senders of the entries ts get an answer, and leave them.
ZhSend(ts, verdict) ==
    /\ zhAnswer' = [c \in ZhCalls |->
                      IF \E t \in ts : c \in zhSenders[t] THEN verdict ELSE zhAnswer[c]]
    /\ zhSenders' = [t \in ZhTxs |-> IF t \in ts THEN {} ELSE zhSenders[t]]

\* A sweep may or may not come to an entry that is added while it runs.
ZhVisits(t) ==
    zhLeft' \in { zhLeft } \cup (IF zhPhase = "sweep" /\ t \notin zhToCheck
                                THEN { zhLeft \cup { t } } ELSE {})

\* check_transaction adds a sender to the entry, a new one if there is none; it
\* waits while the sweep holds the entry.
ZhCheckTransaction(c) ==
    LET t == ZhTxOf[c]
    IN  /\ zhAnswer[c] = "new" /\ t \notin zhAsking
        /\ zhAnswer' = [zhAnswer EXCEPT ![c] = "asked"]
        /\ zhToCheck' = zhToCheck \cup { t }
        /\ zhSenders' = [zhSenders EXCEPT ![t] = @ \cup { c }]
        /\ ZhVisits(t)
        /\ UNCHANGED << zhRetries, zhPhase, zhAsking, zhRemove, zhQuorum, zhErrors >>

\* The network: every bridge has seen t.
ZhSeen(t) ==
    /\ t \notin zhQuorum /\ zhQuorum' = zhQuorum \cup { t }
    /\ UNCHANGED << zhToCheck, zhSenders, zhRetries, zhPhase, zhLeft, zhAsking,
                    zhRemove, zhAnswer, zhErrors >>

SweepStarts ==
    /\ zhPhase = "sleep" /\ zhPhase' = "sweep"
    /\ zhLeft' = zhToCheck
    /\ UNCHANGED << zhToCheck, zhSenders, zhRetries, zhAsking, zhRemove, zhAnswer,
                    zhQuorum, zhErrors >>

SweepAsks(t) ==
    /\ zhPhase = "sweep" /\ zhAsking = {} /\ t \in zhLeft
    /\ zhAsking' = { t } /\ zhLeft' = zhLeft \ { t }
    /\ UNCHANGED << zhToCheck, zhSenders, zhRetries, zhPhase, zhRemove, zhAnswer,
                    zhQuorum, zhErrors >>

\* The answer of the server: seen by all bridges, the last try, or try again.
SweepReads(t) ==
    /\ t \in zhAsking /\ zhAsking' = {}
    /\ \/ /\ t \in zhQuorum
          /\ ZhSend({ t }, "safe") /\ zhRemove' = zhRemove \cup { t }
          /\ UNCHANGED zhRetries
       \/ /\ zhRetries[t] + 1 >= ZhMaxRetries
          /\ ZhSend({ t }, "unsafe") /\ zhRemove' = zhRemove \cup { t }
          /\ UNCHANGED zhRetries
       \/ /\ zhRetries[t] + 1 < ZhMaxRetries
          /\ zhRetries' = [zhRetries EXCEPT ![t] = @ + 1]
          /\ UNCHANGED << zhRemove, zhSenders, zhAnswer >>
    /\ UNCHANGED << zhToCheck, zhPhase, zhLeft, zhQuorum, zhErrors >>

\* A request fails: the whole sweep is given up.
SweepFails ==
    /\ zhAsking # {} /\ zhErrors < MaxHttpErrors /\ zhErrors' = zhErrors + 1
    /\ zhAsking' = {} /\ zhLeft' = {} /\ zhRemove' = {}
    /\ zhPhase' = "drain"
    /\ UNCHANGED << zhToCheck, zhSenders, zhRetries, zhAnswer, zhQuorum >>

\* Every call is answered ...
DrainSenders ==
    /\ zhPhase = "drain" /\ zhPhase' = "clear"
    /\ ZhSend(zhToCheck, "unsafe")
    /\ UNCHANGED << zhToCheck, zhRetries, zhLeft, zhAsking, zhRemove, zhQuorum,
                    zhErrors >>

\* ... and all entries go, with the senders that were added since.
ClearToCheck ==
    /\ zhPhase = "clear" /\ zhPhase' = "sleep"
    /\ ZhSend(zhToCheck, "unsafe")
    /\ zhToCheck' = {} /\ zhRetries' = [t \in ZhTxs |-> 0]
    /\ UNCHANGED << zhLeft, zhAsking, zhRemove, zhQuorum, zhErrors >>

SweepEnds ==
    /\ zhPhase = "sweep" /\ zhAsking = {} /\ zhLeft = {}
    /\ zhPhase' = "remove"
    /\ UNCHANGED << zhToCheck, zhSenders, zhRetries, zhLeft, zhAsking, zhRemove,
                    zhAnswer, zhQuorum, zhErrors >>

\* A mutant: a call that came after the answer keeps waiting in no entry.
RemoveEntryKeepsSenders(t) ==
    /\ zhPhase = "remove" /\ t \in zhRemove
    /\ zhRemove' = zhRemove \ { t } /\ zhToCheck' = zhToCheck \ { t }
    /\ zhSenders' = [zhSenders EXCEPT ![t] = {}]
    /\ zhRetries' = [zhRetries EXCEPT ![t] = 0]
    /\ UNCHANGED << zhPhase, zhLeft, zhAsking, zhAnswer, zhQuorum, zhErrors >>

\* A decided entry is removed; a sender added after the decision is dropped.
RemoveEntry(t) ==
    /\ zhPhase = "remove" /\ t \in zhRemove
    /\ zhRemove' = zhRemove \ { t } /\ zhToCheck' = zhToCheck \ { t }
    /\ ZhSend({ t }, "unsafe")
    /\ zhRetries' = [zhRetries EXCEPT ![t] = 0]
    /\ UNCHANGED << zhPhase, zhLeft, zhAsking, zhQuorum, zhErrors >>

SweepSleeps ==
    /\ zhPhase = "remove" /\ zhRemove = {} /\ zhPhase' = "sleep"
    /\ UNCHANGED << zhToCheck, zhSenders, zhRetries, zhLeft, zhAsking, zhRemove,
                    zhAnswer, zhQuorum, zhErrors >>

ZhTask ==
    \/ \E t \in ZhTxs : SweepAsks(t) \/ SweepReads(t) \/ RemoveEntry(t)
    \/ SweepStarts \/ DrainSenders \/ ClearToCheck \/ SweepEnds \/ SweepSleeps

ZhNext ==
    \/ \E c \in ZhCalls : ZhCheckTransaction(c)
    \/ \E t \in ZhTxs : ZhSeen(t)
    \/ SweepFails \/ ZhTask

\* The task sweeps until the sidecar stops; a request ends after five seconds.
ZhFairness == WF_zhVars(ZhTask)

ZhSpec == ZhInit /\ [][ZhNext]_zhVars
FairZhSpec == ZhSpec /\ ZhFairness

-----------------------------------------------------------------------------
\* A call waits in the entry of its transaction until it is answered, and an
\* entry never reaches more retries than it may have.
ZhTypeOK ==
    /\ zhToCheck \subseteq ZhTxs /\ zhLeft \subseteq zhToCheck
    /\ zhRemove \subseteq zhToCheck /\ zhAsking \subseteq zhToCheck
    /\ zhRetries \in [ZhTxs -> 0 .. ZhMaxRetries - 1]
    /\ zhPhase \in { "sleep", "sweep", "remove", "drain", "clear" }
    /\ zhQuorum \subseteq ZhTxs /\ zhErrors \in 0 .. MaxHttpErrors
    /\ \A t \in ZhTxs : zhSenders[t] =
         { c \in ZhCalls : ZhTxOf[c] = t /\ zhAnswer[c] = "asked" }

\* The HTTP tool keeps the promise of ZeroConfCheck: one answer per call, "safe"
\* only with a quorum, and an answer to every call, those that come while the
\* sweep decides on, clears or removes their entry included.
HttpCheck == INSTANCE ZeroConfCheck
    WITH Calls <- ZhCalls, TxOf <- ZhTxOf, answer <- zhAnswer, quorum <- zhQuorum
HttpIsZeroConfCheck == HttpCheck!Spec
=============================================================================
