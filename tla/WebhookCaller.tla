---------------------------- MODULE WebhookCaller ----------------------------
(***************************************************************************)
(* The webhook callers of the sidecar (boltzr/src/webhook): the caller of  *)
(* swap status hooks, whose state is a database row, and the caller of     *)
(* BOLT12 invoice hooks, whose failed calls are kept in memory.  Both run  *)
(* the same generic Caller: a call made when the event happens, and a loop *)
(* that retries what failed.                                               *)
(*                                                                         *)
(* The statuses of a swap are numbered in the order in which the backend   *)
(* writes them; 0 means that the swap is not written yet.  An invoice hook *)
(* has one payload, 1.                                                     *)
(***************************************************************************)
EXTENDS Naturals, FiniteSets

CONSTANTS
    StatusHooks,    \* hooks of swaps
    InvoiceHooks,   \* hooks of BOLT12 invoice requests
    Included,       \* Included[h]: the statuses hook h was registered for
    MaxStatus,      \* bound: status changes of one swap
    MaxRetries,     \* config.max_retries
    MaxWhFaults     \* bound: restarts and failed database writes

ASSUME WhAssumption ==
    /\ StatusHooks \cap InvoiceHooks = {}
    /\ Included \in [StatusHooks -> SUBSET (1..MaxStatus)]
    /\ MaxStatus \in Nat \ {0} /\ MaxRetries \in Nat \ {0} /\ MaxWhFaults \in Nat

Hooks == StatusHooks \cup InvoiceHooks

VARIABLES
    whState,    \* the state column of web_hooks; for invoice hooks, to_retry
    whStatus,   \* the status of the swap in the database
    whOwed,     \* statuses the backend has written and not yet announced
    whStream,   \* the backend's swap update stream is up
    whCalls,    \* calls of call_webhook that have not returned
    whCount,    \* retry_count, 0 when there is no entry
    whLoop,     \* the retry loop: "off", "sleeping" or "round"
    whTodo,     \* hooks of this round that no worker has taken yet
    whFailed,   \* retries whose call returned something other than Success
    whTold,     \* history: the statuses the hook's endpoint has received
    whMasked,   \* history: hooks of which a failed call was not recorded
    whFaults    \* history: restarts and failed writes so far

whVars == << whState, whStatus, whOwed, whStream, whCalls, whCount, whLoop,
             whTodo, whFailed, whTold, whMasked, whFaults >>

RowStates == { "absent", "none", "ok", "failed", "abandoned" }
CallType == [ hook : Hooks, status : 1..MaxStatus, retry : BOOLEAN,
              posted : BOOLEAN ]

\* Nothing of an invoice hook is in memory before its call.
WhInit ==
    /\ whState = [h \in Hooks |-> "absent"]
    /\ whStatus = [h \in Hooks |-> IF h \in InvoiceHooks THEN 1 ELSE 0]
    /\ whOwed = [h \in Hooks |-> IF h \in InvoiceHooks THEN {1} ELSE {}]
    /\ whStream = TRUE
    /\ whCalls = {}
    /\ whCount = [h \in Hooks |-> 0]
    /\ whLoop = "off"
    /\ whTodo = {}
    /\ whFailed = {}
    /\ whTold = [h \in Hooks |-> {}]
    /\ whMasked = {}
    /\ whFaults = 0

-----------------------------------------------------------------------------
(* The two implementations of HookState.                                   *)

ShouldBeSkipped(c) == c.hook \in StatusHooks /\ c.status \notin Included[c.hook]

\* An UPDATE of a row that was deleted changes nothing; the map of the
\* invoice caller holds an entry exactly for the failed hooks.
SetRowState(old, s) == IF old = "absent" THEN old ELSE s
SetRetryState(s) == IF s = "failed" THEN s ELSE "absent"

SetState(h, s) ==
    [whState EXCEPT ![h] =
        IF h \in StatusHooks THEN SetRowState(@, s) ELSE SetRetryState(s)]

GetByStateFailed == { h \in Hooks : whState[h] = "failed" }

\* The payload of a retry: the CURRENT status of the swap, 0 when none.
GetRetryData(h) == whStatus[h]

-----------------------------------------------------------------------------
(* The backend: hooks are registered before the swap is written and removed *)
(* when its creation fails.                                                *)

CreateWebHook(h) ==
    /\ h \in StatusHooks /\ whStatus[h] = 0 /\ whState[h] = "absent"
    /\ whState' = [whState EXCEPT ![h] = "none"]
    /\ UNCHANGED << whStatus, whOwed, whStream, whCalls, whCount, whLoop,
                    whTodo, whFailed, whTold, whMasked, whFaults >>

DeleteWebHook(h) ==
    /\ h \in StatusHooks /\ whStatus[h] = 0 /\ whState[h] # "absent"
    /\ whState' = [whState EXCEPT ![h] = "absent"]
    /\ UNCHANGED << whStatus, whOwed, whStream, whCalls, whCount, whLoop,
                    whTodo, whFailed, whTold, whMasked, whFaults >>

WriteStatus(h) ==
    /\ h \in StatusHooks /\ whStatus[h] < MaxStatus
    /\ whStatus' = [whStatus EXCEPT ![h] = @ + 1]
    /\ whOwed' = [whOwed EXCEPT ![h] = @ \cup { whStatus[h] + 1 }]
    /\ UNCHANGED << whState, whStream, whCalls, whCount, whLoop, whTodo,
                    whFailed, whTold, whMasked, whFaults >>

\* 'swap.update' while the stream is down: nobody is told.
AnnounceLost(h, s) ==
    /\ h \in StatusHooks /\ s \in whOwed[h] /\ ~whStream
    /\ whOwed' = [whOwed EXCEPT ![h] = @ \ {s}]
    /\ whMasked' = whMasked \cup {h}
    /\ UNCHANGED << whState, whStatus, whStream, whCalls, whCount, whLoop,
                    whTodo, whFailed, whTold, whFaults >>

\* send_web_hook, and the call of an invoice hook.  Concurrent requests are
\* served in any order.
SendWebHook(h, s) ==
    /\ s \in whOwed[h] /\ (h \in StatusHooks => whStream)
    /\ whOwed' = [whOwed EXCEPT ![h] = @ \ {s}]
    /\ whCalls' = IF h \in StatusHooks /\ whState[h] = "absent" THEN whCalls
                  ELSE whCalls \cup { [hook |-> h, status |-> s,
                                       retry |-> FALSE, posted |-> FALSE] }
    /\ UNCHANGED << whState, whStatus, whStream, whCount, whLoop, whTodo,
                    whFailed, whTold, whMasked, whFaults >>

\* An error of the stream: the backend forgets it and never reopens it.
StreamFails ==
    /\ whStream
    /\ whStream' = FALSE
    /\ UNCHANGED << whState, whStatus, whOwed, whCalls, whCount, whLoop,
                    whTodo, whFailed, whTold, whMasked, whFaults >>

-----------------------------------------------------------------------------
(* call_webhook: a direct call and a retry alike.                          *)

Returned(c, result) ==
    /\ whCalls' = whCalls \ {c}
    /\ whFailed' = IF c.retry /\ result # "success"
                   THEN whFailed \cup { [hook |-> c.hook, result |-> result] }
                   ELSE whFailed

CallSkipped(c) ==
    /\ c \in whCalls /\ ~c.posted /\ ShouldBeSkipped(c)
    /\ Returned(c, "notIncluded")
    /\ UNCHANGED << whState, whStatus, whOwed, whStream, whCount, whLoop,
                    whTodo, whTold, whMasked, whFaults >>

\* The name of the host does not resolve in time, or resolves to a blocked
\* address: the call has failed and its state is not written.
IpCheckFails(c) ==
    /\ c \in whCalls /\ ~c.posted /\ ~ShouldBeSkipped(c)
    /\ Returned(c, "failed")
    /\ whMasked' = IF whState[c.hook] = "failed" THEN whMasked
                   ELSE whMasked \cup { c.hook }
    /\ UNCHANGED << whState, whStatus, whOwed, whStream, whCount, whLoop,
                    whTodo, whTold, whFaults >>

Post(c) ==
    /\ c \in whCalls /\ ~c.posted /\ ~ShouldBeSkipped(c)
    /\ whCalls' = (whCalls \ {c}) \cup { [c EXCEPT !.posted = TRUE] }
    /\ whTold' = [whTold EXCEPT ![c.hook] = @ \cup { c.status }]
    /\ UNCHANGED << whState, whStatus, whOwed, whStream, whCount, whLoop,
                    whTodo, whFailed, whMasked, whFaults >>

\* A success writes Ok over whatever is there: also over the failure of a
\* call for a newer status.
CallSucceeds(c) ==
    /\ c \in whCalls /\ c.posted
    /\ whState' = SetState(c.hook, "ok")
    /\ whCount' = [whCount EXCEPT ![c.hook] = 0]
    /\ whMasked' = IF /\ whState[c.hook] \in { "failed", "abandoned" }
                      /\ whStatus[c.hook] > c.status
                   THEN whMasked \cup { c.hook } ELSE whMasked
    /\ Returned(c, "success")
    /\ UNCHANGED << whStatus, whOwed, whStream, whLoop, whTodo, whTold,
                    whFaults >>

\* A mutant: the failure is not recorded.
CallFailsForgotten(c) ==
    /\ c \in whCalls /\ ~ShouldBeSkipped(c)
    /\ Returned(c, "failed")
    /\ UNCHANGED << whState, whStatus, whOwed, whStream, whCount, whLoop,
                    whTodo, whTold, whMasked, whFaults >>

\* No connection, a timeout, or an answer other than 2xx.
CallFails(c) ==
    /\ c \in whCalls /\ ~ShouldBeSkipped(c)
    /\ whState' = SetState(c.hook, "failed")
    /\ Returned(c, "failed")
    /\ UNCHANGED << whStatus, whOwed, whStream, whCount, whLoop, whTodo,
                    whTold, whMasked, whFaults >>

\* set_state fails: call_webhook returns the error, which a retry logs
\* without counting it.  The count was removed if the answer was a success.
WriteFails(c) ==
    /\ c \in whCalls /\ c.hook \in StatusHooks /\ ~ShouldBeSkipped(c)
    /\ whFaults < MaxWhFaults
    /\ whFaults' = whFaults + 1
    /\ whCount' \in { whCount } \cup
           (IF c.posted THEN { [whCount EXCEPT ![c.hook] = 0] } ELSE {})
    /\ whCalls' = whCalls \ {c}
    /\ whMasked' = whMasked \cup { c.hook }
    /\ UNCHANGED << whState, whStatus, whOwed, whStream, whLoop, whTodo,
                    whFailed, whTold >>

-----------------------------------------------------------------------------
(* The retry loop: a round at once, then one after every interval.         *)

StartWebHookRetries ==
    /\ whLoop = "off"
    /\ whLoop' = "round"
    /\ whTodo' = GetByStateFailed
    /\ UNCHANGED << whState, whStatus, whOwed, whStream, whCalls, whCount,
                    whFailed, whTold, whMasked, whFaults >>

StartRound ==
    /\ whLoop = "sleeping"
    /\ whLoop' = "round"
    /\ whTodo' = GetByStateFailed
    /\ UNCHANGED << whState, whStatus, whOwed, whStream, whCalls, whCount,
                    whFailed, whTold, whMasked, whFaults >>

\* A worker takes a hook: the retried payload is read now, not when the call
\* failed.
RetryCall(h) ==
    /\ whLoop = "round" /\ h \in whTodo
    /\ whTodo' = whTodo \ {h}
    /\ IF GetRetryData(h) = 0
       THEN /\ whCount' = [whCount EXCEPT ![h] = 0]
            /\ whState' = SetState(h, "abandoned")
            /\ UNCHANGED whCalls
       ELSE /\ whCalls' = whCalls \cup
                   { [hook |-> h, status |-> GetRetryData(h),
                      retry |-> TRUE, posted |-> FALSE] }
            /\ UNCHANGED << whCount, whState >>
    /\ UNCHANGED << whStatus, whOwed, whStream, whLoop, whFailed, whTold,
                    whMasked, whFaults >>

\* Mutants: the count is never stored, and the limit is compared with >.
CountRetryNever(r) ==
    /\ r \in whFailed
    /\ whFailed' = whFailed \ {r}
    /\ IF r.result = "notIncluded"
       THEN whState' = SetState(r.hook, "abandoned")
       ELSE UNCHANGED whState
    /\ UNCHANGED << whCount, whStatus, whOwed, whStream, whCalls, whLoop,
                    whTodo, whTold, whMasked, whFaults >>

CountRetryTooOften(r) ==
    /\ r \in whFailed
    /\ whFailed' = whFailed \ {r}
    /\ IF r.result = "notIncluded" \/ whCount[r.hook] + 1 > MaxRetries
       THEN /\ whCount' = [whCount EXCEPT ![r.hook] = 0]
            /\ whState' = SetState(r.hook, "abandoned")
       ELSE /\ whCount' = [whCount EXCEPT ![r.hook] = @ + 1]
            /\ UNCHANGED whState
    /\ UNCHANGED << whStatus, whOwed, whStream, whCalls, whLoop, whTodo,
                    whTold, whMasked, whFaults >>

\* The rest of retry_call after a call that did not succeed.
CountRetry(r) ==
    /\ r \in whFailed
    /\ whFailed' = whFailed \ {r}
    /\ IF r.result = "notIncluded" \/ whCount[r.hook] + 1 >= MaxRetries
       THEN /\ whCount' = [whCount EXCEPT ![r.hook] = 0]
            /\ whState' = SetState(r.hook, "abandoned")
       ELSE /\ whCount' = [whCount EXCEPT ![r.hook] = @ + 1]
            /\ UNCHANGED whState
    /\ UNCHANGED << whStatus, whOwed, whStream, whCalls, whLoop, whTodo,
                    whTold, whMasked, whFaults >>

\* join_all: every worker is done.
EndRound ==
    /\ whLoop = "round" /\ whTodo = {} /\ whFailed = {}
    /\ \A c \in whCalls : ~c.retry
    /\ whLoop' = "sleeping"
    /\ UNCHANGED << whState, whStatus, whOwed, whStream, whCalls, whCount,
                    whTodo, whFailed, whTold, whMasked, whFaults >>

\* Backend and sidecar are restarted together: rows survive, what was in
\* memory does not.  An announcement the backend was about to make is lost.
WhRestart ==
    /\ whFaults < MaxWhFaults
    /\ whFaults' = whFaults + 1
    /\ whState' = [h \in Hooks |->
                    IF h \in InvoiceHooks THEN "absent" ELSE whState[h]]
    /\ whMasked' = whMasked \cup { c.hook : c \in whCalls }
                            \cup { h \in Hooks : whOwed[h] # {} }
    /\ whOwed' = [h \in Hooks |-> {}]
    /\ whStream' = TRUE
    /\ whCalls' = {} /\ whFailed' = {} /\ whTodo' = {}
    /\ whCount' = [h \in Hooks |-> 0]
    /\ whLoop' = "off"
    /\ UNCHANGED << whStatus, whTold >>

-----------------------------------------------------------------------------

CallEnds(c) ==
    CallSkipped(c) \/ IpCheckFails(c) \/ CallSucceeds(c) \/ CallFails(c)

WhNext ==
    \/ \E h \in Hooks :
        \/ CreateWebHook(h) \/ DeleteWebHook(h) \/ WriteStatus(h)
        \/ \E s \in whOwed[h] : AnnounceLost(h, s) \/ SendWebHook(h, s)
        \/ RetryCall(h)
    \/ \E c \in whCalls : Post(c) \/ CallEnds(c) \/ WriteFails(c)
    \/ \E r \in whFailed : CountRetry(r)
    \/ StreamFails \/ StartWebHookRetries \/ StartRound \/ EndRound
    \/ WhRestart

\* A call ends after request_timeout at the latest, the loop's timer fires and
\* its workers run; the backend starts the loop after every start.
WhFairness ==
    /\ WF_whVars(\E c \in whCalls : CallEnds(c))
    /\ WF_whVars(StartWebHookRetries)
    /\ WF_whVars(StartRound)
    /\ WF_whVars(\E h \in Hooks : RetryCall(h))
    /\ WF_whVars(\E r \in whFailed : CountRetry(r))
    /\ WF_whVars(EndRound)

WhSpec == WhInit /\ [][WhNext]_whVars
FairWhSpec == WhSpec /\ WhFairness

-----------------------------------------------------------------------------

\* Types of the callers' state: rows, retry counts below the limit, calls.
WhTypeOK ==
    /\ whState \in [Hooks -> RowStates]
    /\ whStatus \in [Hooks -> 0..MaxStatus]
    /\ \A h \in Hooks : whOwed[h] \subseteq 1..whStatus[h]
    /\ whStream \in BOOLEAN
    /\ whCalls \subseteq CallType
    /\ whCount \in [Hooks -> 0..(MaxRetries - 1)]
    /\ whLoop \in { "off", "sleeping", "round" }
    /\ whTodo \subseteq Hooks
    /\ whFailed \subseteq [hook : Hooks, result : { "failed", "notIncluded" }]
    /\ \A h \in Hooks : whTold[h] \subseteq 1..whStatus[h]
    /\ whMasked \subseteq Hooks
    /\ whFaults \in 0..MaxWhFaults

\* A status for which the hook is registered, that is still the swap's status
\* and that its endpoint never received, is marked for a retry or given up on
\* once no call carries it.  The callers forget it only when nothing recorded
\* the failure (an IP check that failed, a failed write, a restart, a stream
\* that is down) or when the late success of an older call overwrote it.
UndeliveredIsKept ==
    \A h \in StatusHooks \ whMasked :
        LET s == whStatus[h] IN
        ( /\ whState[h] # "absent" /\ s \in Included[h]
          /\ s \notin whTold[h] \cup whOwed[h]
          /\ \A c \in whCalls : c.hook = h => c.status # s )
        => whState[h] \in { "failed", "abandoned" }

\* A failed hook does not stay failed: the retry loop delivers it or, after
\* max_retries rounds, gives it up, although successes of other calls reset
\* the count and the payload changes between rounds.
FailedHookIsResolved ==
    \A h \in Hooks : whState[h] = "failed" ~> whState[h] # "failed"
=============================================================================
