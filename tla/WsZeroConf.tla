----------------------------- MODULE WsZeroConf -----------------------------
(***************************************************************************)
(* The WebSocket transport of the 0-conf tool of Liquid                    *)
(* (boltzr/src/chain/elements/zero_conf_tool/ws).  Calls of                *)
(* check_transaction add an entry and a command; one worker keeps a        *)
(* connection to the server, subscribes to the transactions of the         *)
(* entries, and decides on an entry when a frame arrives or its deadline   *)
(* passes.  The connection is replaced when it breaks, and from time to    *)
(* time by a rotation that opens the new one first.                        *)
(***************************************************************************)
EXTENDS Naturals, Sequences, Functions

CONSTANTS
    ZwCalls,        \* calls of check_transaction
    ZwTxs,          \* transactions
    ZwTxOf,         \* the transaction of a call
    MaxBreaks       \* bound on failing connections

ASSUME ZwAssumption == ZwTxOf \in [ZwCalls -> ZwTxs] /\ MaxBreaks \in Nat

VARIABLES
    zwToCheck,      \* to_check: the calls waiting in an entry
    zwDue,          \* entries whose deadline has passed
    zwCmds,         \* subscribe commands
    zwPhase,        \* where the worker is
    zwSubscribed,   \* subscriptions of the connection
    zwReplacement,  \* subscriptions of the one that replaces it
    zwWork,         \* what is left to subscribe to, or to unsubscribe from
    zwAnswer,       \* the calls, as in ZeroConfCheck
    zwQuorum,       \* transactions every bridge has seen
    zwBreaks

zwVars == << zwToCheck, zwDue, zwCmds, zwPhase, zwSubscribed, zwReplacement, zwWork,
             zwAnswer, zwQuorum, zwBreaks >>
zwCalls == << zwToCheck, zwDue, zwAnswer >>

WsPhases == { "connect", "reconcile", "select", "unsubscribe", "rotate", "takeOver" }

ZwInit ==
    /\ zwToCheck = [t \in ZwTxs |-> {}] /\ zwDue = {} /\ zwCmds = << >>
    /\ zwPhase = "connect" /\ zwSubscribed = {} /\ zwReplacement = {} /\ zwWork = {}
    /\ zwAnswer = [c \in ZwCalls |-> "new"] /\ zwQuorum = {} /\ zwBreaks = 0

PendingTxs == { t \in ZwTxs : zwToCheck[t] # {} }

\* The entries ts are removed and their senders answered.
Decide(ts, verdict) ==
    /\ zwAnswer' = [c \in ZwCalls |->
                      IF \E t \in ts : c \in zwToCheck[t] THEN verdict ELSE zwAnswer[c]]
    /\ zwToCheck' = [t \in ZwTxs |-> IF t \in ts THEN {} ELSE zwToCheck[t]]
    /\ zwDue' = zwDue \ ts

Break == zwBreaks < MaxBreaks /\ zwBreaks' = zwBreaks + 1

\* check_transaction adds a sender to the entry, whose deadline is set when it
\* is new, and always a command.
ZwCheckTransaction(c) ==
    /\ zwAnswer[c] = "new"
    /\ zwAnswer' = [zwAnswer EXCEPT ![c] = "asked"]
    /\ zwToCheck' = [zwToCheck EXCEPT ![ZwTxOf[c]] = @ \cup { c }]
    /\ zwCmds' = Append(zwCmds, ZwTxOf[c])
    /\ UNCHANGED << zwDue, zwPhase, zwSubscribed, zwReplacement, zwWork, zwQuorum,
                    zwBreaks >>

\* The network: every bridge has seen t.
ZwSeen(t) ==
    /\ t \notin zwQuorum /\ zwQuorum' = zwQuorum \cup { t }
    /\ UNCHANGED << zwCalls, zwCmds, zwPhase, zwSubscribed, zwReplacement, zwWork,
                    zwBreaks >>

DeadlinePasses(t) ==
    /\ t \in PendingTxs \ zwDue /\ zwDue' = zwDue \cup { t }
    /\ UNCHANGED << zwToCheck, zwAnswer, zwCmds, zwPhase, zwSubscribed, zwReplacement,
                    zwWork, zwQuorum, zwBreaks >>

\* Connecting, which is tried again until it works; deadlines are watched
\* meanwhile.
Connects ==
    /\ zwPhase = "connect" /\ zwPhase' = "reconcile"
    /\ zwSubscribed' = {} /\ zwWork' = PendingTxs
    /\ UNCHANGED << zwCalls, zwCmds, zwReplacement, zwQuorum, zwBreaks >>

\* reconcile_subscriptions: what was pending when it started is subscribed to
\* on the new connection, one after the other.
Reconciles(t) ==
    /\ zwPhase = "reconcile" /\ t \in zwWork
    /\ zwWork' = zwWork \ { t } /\ zwSubscribed' = zwSubscribed \cup { t }
    /\ UNCHANGED << zwCalls, zwCmds, zwPhase, zwReplacement, zwQuorum, zwBreaks >>

Reconciled ==
    /\ zwPhase = "reconcile" /\ zwWork = {} /\ zwPhase' = "select"
    /\ UNCHANGED << zwCalls, zwCmds, zwSubscribed, zwReplacement, zwWork, zwQuorum,
                    zwBreaks >>

\* A read, a write or a subscription fails: the worker connects again.
ConnectionBreaks ==
    /\ zwPhase \in { "reconcile", "select", "unsubscribe" } /\ Break
    /\ zwPhase' = "connect" /\ zwSubscribed' = {} /\ zwWork' = {}
    /\ UNCHANGED << zwCalls, zwCmds, zwReplacement, zwQuorum >>

\* A frame of the server for a transaction: a snapshot with all bridges decides
\* on a pending entry, an error or the end of the subscription on any; the
\* transaction is unsubscribed from.  Another snapshot decides nothing.
HandleMessage(t) ==
    /\ zwPhase = "select" /\ t \in zwSubscribed
    /\ \/ t \in zwQuorum \cap PendingTxs /\ Decide({ t }, "safe")
       \/ Decide({ t }, "unsafe")
    /\ zwPhase' = "unsubscribe" /\ zwWork' = { t }
    /\ UNCHANGED << zwCmds, zwSubscribed, zwReplacement, zwQuorum, zwBreaks >>

\* A command for an entry that was decided on in the meantime is skipped.
HandleCommand ==
    /\ zwPhase = "select" /\ zwCmds # << >>
    /\ zwCmds' = Tail(zwCmds)
    /\ zwSubscribed' = IF Head(zwCmds) \in PendingTxs
                       THEN zwSubscribed \cup { Head(zwCmds) } ELSE zwSubscribed
    /\ UNCHANGED << zwCalls, zwPhase, zwReplacement, zwWork, zwQuorum, zwBreaks >>

\* A mutant: only a connected worker looks at the deadlines.
ExpireDeadlinesConnected ==
    /\ zwPhase = "select" /\ zwDue # {}
    /\ Decide(zwDue, "unsafe")
    /\ zwPhase' = "unsubscribe" /\ zwWork' = zwDue
    /\ UNCHANGED << zwCmds, zwSubscribed, zwReplacement, zwQuorum, zwBreaks >>

\* expire_deadlines: entries whose deadline passed are rejected; without a
\* connection there is nothing to unsubscribe from.
ExpireDeadlines ==
    /\ zwPhase \in { "connect", "select" } /\ zwDue # {}
    /\ Decide(zwDue, "unsafe")
    /\ IF zwPhase = "select" THEN zwPhase' = "unsubscribe" /\ zwWork' = zwDue
       ELSE UNCHANGED << zwPhase, zwWork >>
    /\ UNCHANGED << zwCmds, zwSubscribed, zwReplacement, zwQuorum, zwBreaks >>

Unsubscribes ==
    /\ zwPhase = "unsubscribe"
    /\ zwSubscribed' = zwSubscribed \ zwWork /\ zwWork' = {}
    /\ zwPhase' = "select"
    /\ UNCHANGED << zwCalls, zwCmds, zwReplacement, zwQuorum, zwBreaks >>

\* rotate_connection: the replacement is opened, and everything pending at that
\* time subscribed to on it.  The worker does nothing else meanwhile.
RotationStarts ==
    /\ zwPhase = "select" /\ zwPhase' = "rotate"
    /\ UNCHANGED << zwCalls, zwCmds, zwSubscribed, zwReplacement, zwWork, zwQuorum,
                    zwBreaks >>

ReplacementConnects ==
    /\ zwPhase = "rotate" /\ zwPhase' = "takeOver"
    /\ zwReplacement' = PendingTxs
    /\ UNCHANGED << zwCalls, zwCmds, zwSubscribed, zwWork, zwQuorum, zwBreaks >>

\* When that fails the current connection stays.
RotationFails ==
    /\ zwPhase \in { "rotate", "takeOver" } /\ Break
    /\ zwPhase' = "select" /\ zwReplacement' = {}
    /\ UNCHANGED << zwCalls, zwCmds, zwSubscribed, zwWork, zwQuorum >>

RotationEnds ==
    /\ zwPhase = "takeOver" /\ zwPhase' = "select"
    /\ zwSubscribed' = zwReplacement /\ zwReplacement' = {}
    /\ UNCHANGED << zwCalls, zwCmds, zwWork, zwQuorum, zwBreaks >>

ZwNext ==
    \/ \E c \in ZwCalls : ZwCheckTransaction(c)
    \/ \E t \in ZwTxs : ZwSeen(t) \/ DeadlinePasses(t) \/ Reconciles(t) \/ HandleMessage(t)
    \/ Connects \/ Reconciled \/ ConnectionBreaks \/ HandleCommand
    \/ ExpireDeadlines \/ Unsubscribes
    \/ RotationStarts \/ ReplacementConnects \/ RotationFails \/ RotationEnds

\* Deadlines pass, and the worker gets on with what it is doing: a connection
\* attempt has a time limit, and the ticker fires every 50 milliseconds in the
\* loops that select it, where it is polled before the rotation (hence strong
\* fairness).  Nothing is assumed of the server but that it does not send
\* frames without a pause, which the same loop would read first.
ZwFairness ==
    /\ \A t \in ZwTxs : WF_zwVars(DeadlinePasses(t)) /\ WF_zwVars(Reconciles(t))
    /\ WF_zwVars(Reconciled) /\ WF_zwVars(Unsubscribes)
    /\ WF_zwVars(ReplacementConnects) /\ WF_zwVars(RotationEnds)
    /\ SF_zwVars(ExpireDeadlines)

ZwSpec == ZwInit /\ [][ZwNext]_zwVars
FairZwSpec == ZwSpec /\ ZwFairness

-----------------------------------------------------------------------------
\* A call waits in the entry of its transaction until it is answered.
ZwTypeOK ==
    /\ zwDue \subseteq PendingTxs /\ Range(zwCmds) \subseteq ZwTxs
    /\ zwPhase \in WsPhases /\ zwWork \subseteq ZwTxs
    /\ zwSubscribed \subseteq ZwTxs /\ zwReplacement \subseteq ZwTxs
    /\ zwQuorum \subseteq ZwTxs /\ zwBreaks \in 0 .. MaxBreaks
    /\ \A t \in ZwTxs : zwToCheck[t] =
         { c \in ZwCalls : ZwTxOf[c] = t /\ zwAnswer[c] = "asked" }

\* While the worker listens to a connection it is subscribed to every pending
\* transaction, or the command to subscribe is still to be handled: neither a
\* reconnect, a rotation nor a decision on an earlier check of the same
\* transaction leaves a check that only its deadline can end.
PendingIsSubscribed ==
    zwPhase = "select" => PendingTxs \subseteq zwSubscribed \cup Range(zwCmds)

\* The WebSocket tool keeps the promise of ZeroConfCheck, whatever the server
\* does: a check whose connection breaks or rotates is answered by its deadline.
WsCheck == INSTANCE ZeroConfCheck
    WITH Calls <- ZwCalls, TxOf <- ZwTxOf, answer <- zwAnswer, quorum <- zwQuorum
WsIsZeroConfCheck == WsCheck!Spec
=============================================================================
