---------------------------- MODULE ChannelBackup ----------------------------
(***************************************************************************)
(* The backup service of the sidecar (boltz-backup, backup_adapter.rs and  *)
(* the subscription of lightning/lnd): channel backups of LND nodes are    *)
(* uploaded when a node announces them and retried when no provider took   *)
(* them; the database is dumped at the start and on a schedule, and        *)
(* streamed to all providers at once.                                      *)
(*                                                                         *)
(* The backups of a node are numbered in the order in which it makes them. *)
(* bkStore has, for every provider, the backup in its newest file of a     *)
(* node.  A file is named after the minute in which its upload starts; of  *)
(* two uploads that overlap the one that ends last is taken to be named    *)
(* last.                                                                   *)
(***************************************************************************)
EXTENDS Naturals, Sequences, FiniteSets, FiniteSetsExt

CONSTANTS
    BkSources,      \* LND nodes
    BkProviders,    \* configured S3 buckets
    MaxVersion,     \* bound: backups a node makes
    BkCap,          \* capacity of scb_backup_tx
    DumpParts,      \* parts of a database dump
    MaxDumps,       \* bound: dumps that are made
    MaxBkFaults     \* bound: calls that fail and streams that break, of either kind

ASSUME BkAssumption ==
    /\ MaxVersion \in Nat \ {0} /\ BkCap \in Nat \ {0} /\ DumpParts \in Nat \ {0}
    /\ MaxDumps \in Nat \ {0} /\ MaxBkFaults \in Nat

VARIABLES
    bkMain,     \* Backup::new and Backup::start
    bkUp,       \* providers that could be initialised
    bkNode,     \* the newest backup of a node
    bkSub,      \* the node's stream of backups
    bkChan,     \* scb_backup_tx, as the task of the node receives it
    bkTask,     \* the task that uploads the backups of a node
    bkToRetry,  \* to_retry
    bkLoop,     \* retry_loop
    bkStore,    \* channel backups at the providers
    bkDump,     \* the dump that is streamed
    bkDumps,    \* dumps at the providers
    bkCancelled, \* cancellation_token
    bkTold,     \* history: the newest backup the service has heard of
    bkPassed,   \* history: nodes of which it will not upload that one by itself
    bkFaults    \* history: failures so far, of channel backups and of dumps

bkVars == << bkMain, bkUp, bkNode, bkSub, bkChan, bkTask, bkToRetry, bkLoop, bkStore,
             bkDump, bkDumps, bkCancelled, bkTold, bkPassed, bkFaults >>

Versions == 0 .. MaxVersion
NoDump == [at |-> "off", count |-> 0, sent |-> 0, ended |-> "no", active |-> {},
           failed |-> {}, done |-> {}, result |-> "none"]

BkInit ==
    /\ bkMain = "new" /\ bkUp = {}
    /\ bkNode = [s \in BkSources |-> 1]
    /\ bkSub = [s \in BkSources |-> "open"]
    /\ bkChan = [s \in BkSources |-> << >>]
    /\ bkTask = [s \in BkSources |-> [at |-> "none", v |-> 0]]
    /\ bkToRetry = {}
    /\ bkLoop = [at |-> "off", todo |-> {}, v |-> 0]
    /\ bkStore = [p \in BkProviders |-> [s \in BkSources |-> 0]]
    /\ bkDump = NoDump
    /\ bkDumps = [p \in BkProviders |-> "none"] /\ bkCancelled = FALSE
    /\ bkTold = [s \in BkSources |-> 0] /\ bkPassed = {}
    /\ bkFaults = [channel |-> 0, dump |-> 0]

Fault(kind) ==
    bkFaults[kind] < MaxBkFaults /\ bkFaults' = [bkFaults EXCEPT ![kind] = @ + 1]
At(s, where) == bkTask[s].at = where
Goes(s, where, v) == bkTask' = [bkTask EXCEPT ![s] = [at |-> where, v |-> v]]
Told(s, v) == bkTold' = [bkTold EXCEPT ![s] = Max({ @, v })]

-----------------------------------------------------------------------------
(* LND: the node announces a backup, the listener passes it on.            *)

LndKeeps == UNCHANGED << bkMain, bkUp, bkTask, bkToRetry, bkLoop, bkStore, bkDump, bkDumps,
                         bkCancelled, bkTold, bkPassed >>

\* A receiver that lags loses the oldest messages.
BkPush(c, v) == IF Len(c) = BkCap THEN Append(Tail(c), v) ELSE Append(c, v)
Receives(s) == bkTask[s].at \notin { "none", "start", "stopped" }

NodeChanges(s) ==
    /\ bkNode[s] < MaxVersion
    /\ bkNode' = [bkNode EXCEPT ![s] = @ + 1]
    /\ bkChan' = IF bkSub[s] = "open" /\ Receives(s)
                 THEN [bkChan EXCEPT ![s] = BkPush(@, bkNode[s] + 1)] ELSE bkChan
    /\ LndKeeps /\ UNCHANGED << bkSub, bkFaults >>

\* start_listeners returns the error of a stream that breaks.  A stream that the node
\* ends yields nothing from then on and is not opened again.
ListenerEnds(s, how) ==
    /\ bkSub[s] = "open" /\ Fault("channel")
    /\ bkSub' = [bkSub EXCEPT ![s] = how]
    /\ LndKeeps /\ UNCHANGED << bkNode, bkChan >>

\* After RECONNECT_INTERVAL, whether or not the client was stopped.
ListenerReconnects(s) ==
    /\ bkSub[s] = "broken"
    /\ bkSub' = [bkSub EXCEPT ![s] = "open"]
    /\ LndKeeps /\ UNCHANGED << bkNode, bkChan, bkFaults >>

ListenerStops(s) ==
    /\ bkSub[s] \in { "open", "ended" } /\ bkCancelled
    /\ bkSub' = [bkSub EXCEPT ![s] = "stopped"]
    /\ LndKeeps /\ UNCHANGED << bkNode, bkChan, bkFaults >>

-----------------------------------------------------------------------------
(* Channel backups.                                                        *)

\* MultiProvider::put: every provider gets the file, one success is enough.
Put(s, v, failing) ==
    bkStore' = [p \in BkProviders |->
                  IF p \in bkUp \ failing THEN [bkStore[p] EXCEPT ![s] = v] ELSE bkStore[p]]
HandleResults(failing) == failing # bkUp

Failing(failing) == IF failing = {} THEN UNCHANGED bkFaults ELSE Fault("channel")

\* The file of an older backup replaces the newest one.
Passed(s, v, failing) ==
    IF HandleResults(failing)
    THEN IF v < bkTold[s] THEN bkPassed \cup { s } ELSE bkPassed \ { s }
    ELSE bkPassed

SubscribeChannelBackups(s) ==
    /\ At(s, "start") /\ Goes(s, "fetch", 0)
    /\ UNCHANGED << bkMain, bkUp, bkNode, bkSub, bkChan, bkToRetry, bkLoop, bkStore, bkDump,
                    bkDumps, bkCancelled, bkTold, bkPassed, bkFaults >>

\* The first backup is asked for; when that fails it is only logged.
FirstFetch(s) ==
    /\ At(s, "fetch")
    /\ \/ /\ Goes(s, "first", bkNode[s]) /\ Told(s, bkNode[s])
          /\ UNCHANGED << bkPassed, bkFaults >>
       \/ /\ Fault("channel") /\ Goes(s, "idle", 0)
          /\ UNCHANGED << bkTold, bkPassed >>
    /\ UNCHANGED << bkMain, bkUp, bkNode, bkSub, bkChan, bkToRetry, bkLoop, bkStore, bkDump,
                    bkDumps, bkCancelled >>

FirstUpload(s) ==
    /\ At(s, "first") /\ Goes(s, "idle", 0)
    /\ \E failing \in SUBSET bkUp :
         /\ Failing(failing) /\ Put(s, bkTask[s].v, failing)
         /\ bkPassed' = IF HandleResults(failing) THEN Passed(s, bkTask[s].v, failing)
                        ELSE bkPassed \cup { s }
    /\ UNCHANGED << bkMain, bkUp, bkNode, bkSub, bkChan, bkToRetry, bkLoop, bkDump, bkDumps,
                    bkCancelled, bkTold >>

StreamRecv(s) ==
    /\ At(s, "idle") /\ bkChan[s] # << >>
    /\ Goes(s, "upload", Head(bkChan[s])) /\ Told(s, Head(bkChan[s]))
    /\ bkChan' = [bkChan EXCEPT ![s] = Tail(@)]
    /\ UNCHANGED << bkMain, bkUp, bkNode, bkSub, bkToRetry, bkLoop, bkStore, bkDump, bkDumps,
                    bkCancelled, bkPassed, bkFaults >>

\* A mutant: an upload that failed is only logged.
UploadFailsOnce(s) == bkToRetry' = bkToRetry

UploadFails(s) == bkToRetry' = bkToRetry \cup { s }

StreamUpload(s) ==
    /\ At(s, "upload") /\ Goes(s, "idle", 0)
    /\ \E failing \in SUBSET bkUp :
         /\ Failing(failing) /\ Put(s, bkTask[s].v, failing)
         /\ bkPassed' = Passed(s, bkTask[s].v, failing)
         /\ IF HandleResults(failing) THEN UNCHANGED bkToRetry ELSE UploadFails(s)
    /\ UNCHANGED << bkMain, bkUp, bkNode, bkSub, bkChan, bkLoop, bkDump, bkDumps, bkCancelled, bkTold >>

-----------------------------------------------------------------------------
(* The retry loop.                                                         *)

RetryTick ==
    /\ bkLoop.at = "wait" /\ bkLoop.todo = {} /\ bkToRetry # {}
    /\ bkLoop' = [bkLoop EXCEPT !.todo = bkToRetry]
    /\ UNCHANGED << bkMain, bkUp, bkNode, bkSub, bkChan, bkTask, bkToRetry, bkStore, bkDump,
                    bkDumps, bkCancelled, bkTold, bkPassed, bkFaults >>

RetryFetch(s) ==
    /\ bkLoop.at = "wait" /\ s \in bkLoop.todo
    /\ \/ /\ bkLoop' = [bkLoop EXCEPT !.at = s, !.v = bkNode[s]] /\ Told(s, bkNode[s])
          /\ UNCHANGED bkFaults
       \/ /\ Fault("channel") /\ bkLoop' = [bkLoop EXCEPT !.todo = @ \ { s }]
          /\ UNCHANGED bkTold
    /\ UNCHANGED << bkMain, bkUp, bkNode, bkSub, bkChan, bkTask, bkToRetry, bkStore, bkDump,
                    bkDumps, bkCancelled, bkPassed >>

\* The entry is removed although a newer backup may have failed meanwhile.
RetryUpload(s) ==
    /\ bkLoop.at = s
    /\ bkLoop' = [bkLoop EXCEPT !.at = "wait", !.todo = @ \ { s }]
    /\ \E failing \in SUBSET bkUp :
         /\ Failing(failing) /\ Put(s, bkLoop.v, failing)
         /\ bkToRetry' = IF HandleResults(failing) THEN bkToRetry \ { s } ELSE bkToRetry
         /\ bkPassed' = Passed(s, bkLoop.v, failing)
    /\ UNCHANGED << bkMain, bkUp, bkNode, bkSub, bkChan, bkTask, bkDump, bkDumps, bkCancelled, bkTold >>

-----------------------------------------------------------------------------
(* Backup::new, Backup::start and the database dump.                       *)

\* Providers whose bucket is missing or too slow are left out; without any there is
\* no backup service.
New ==
    /\ bkMain = "new"
    /\ \E up \in SUBSET BkProviders :
         /\ bkUp' = up
         /\ bkMain' = IF up = {} THEN "none" ELSE "start"
    /\ UNCHANGED << bkNode, bkSub, bkChan, bkTask, bkToRetry, bkLoop, bkStore, bkDump, bkDumps,
                    bkCancelled, bkTold, bkPassed, bkFaults >>

DumpStarts ==
    bkDump' = [NoDump EXCEPT !.at = "spawn", !.active = bkUp, !.count = bkDump.count + 1]

Start ==
    /\ bkMain = "start" /\ bkMain' = "first dump" /\ DumpStarts
    /\ bkTask' = [s \in BkSources |-> [at |-> "start", v |-> 0]]
    /\ UNCHANGED << bkUp, bkNode, bkSub, bkChan, bkToRetry, bkLoop, bkStore, bkDumps, bkCancelled, bkTold,
                    bkPassed, bkFaults >>

ScheduleFires ==
    /\ bkMain = "scheduled" /\ bkDump.at = "off" /\ bkDump.count < MaxDumps /\ DumpStarts
    /\ UNCHANGED << bkMain, bkUp, bkNode, bkSub, bkChan, bkTask, bkToRetry, bkLoop, bkStore,
                    bkDumps, bkCancelled, bkTold, bkPassed, bkFaults >>

DumpKeeps == UNCHANGED << bkMain, bkUp, bkNode, bkSub, bkChan, bkTask, bkToRetry, bkLoop,
                          bkStore, bkCancelled, bkTold, bkPassed >>

SpawnPgDump ==
    /\ bkDump.at = "spawn"
    /\ \/ bkDump' = [bkDump EXCEPT !.at = "copy"] /\ UNCHANGED bkFaults
       \/ Fault("dump") /\ bkDump' = [bkDump EXCEPT !.at = "join", !.active = {}, !.ended = "error"]
    /\ DumpKeeps /\ UNCHANGED bkDumps

\* The upload to a provider fails and is aborted; its end of the pipe is closed.
ProviderFails(p) ==
    /\ bkDump.at \in { "copy", "join" } /\ Fault("dump")
    /\ p \in bkDump.active \ (bkDump.failed \cup bkDump.done)
    /\ bkDump' = [bkDump EXCEPT !.failed = @ \cup { p }]
    /\ DumpKeeps /\ UNCHANGED bkDumps

\* pg_dump ends early, which its caller does not look at, or cannot be read.
PgDumpEnds(how) ==
    /\ bkDump.at = "copy" /\ bkDump.ended = "no" /\ Fault("dump")
    /\ bkDump' = [bkDump EXCEPT !.ended = how, !.at = IF how = "error" THEN "join" ELSE @]
    /\ DumpKeeps /\ UNCHANGED bkDumps

\* One buffer is written to the providers that still take it.
CopyPart ==
    /\ bkDump.at = "copy" /\ bkDump.ended = "no" /\ bkDump.sent < DumpParts
    /\ LET left == bkDump.active \ bkDump.failed
       IN  bkDump' = [bkDump EXCEPT !.sent = @ + 1, !.active = left,
                                    !.at = IF left = {} THEN "join" ELSE @,
                                    !.ended = IF left = {} THEN "error" ELSE @]
    /\ DumpKeeps /\ UNCHANGED << bkDumps, bkFaults >>

CopyEnds ==
    /\ bkDump.at = "copy" /\ (bkDump.ended = "early" \/ bkDump.sent = DumpParts)
    /\ bkDump' = [bkDump EXCEPT !.at = "join"]
    /\ DumpKeeps /\ UNCHANGED << bkDumps, bkFaults >>

\* multipart_upload completes with what it was sent before the pipe was closed; an
\* empty dump is an empty file.
CompleteMultipart(p) ==
    /\ bkDump.at = "join" /\ p \in bkDump.active \ (bkDump.failed \cup bkDump.done)
    /\ bkDump' = [bkDump EXCEPT !.done = @ \cup { p }]
    /\ bkDumps' = [bkDumps EXCEPT ![p] = IF bkDump.ended = "no" THEN "whole" ELSE "cut"]
    /\ DumpKeeps /\ UNCHANGED bkFaults

DumpSucceeded == bkDump.ended # "error" /\ bkDump.done # {}

\* A mutant: start gets to the spawn only after the schedule.
RetryLoopStartsLast == bkLoop' = bkLoop

\* retry_loop is spawned after the first dump.
RetryLoopStarts == bkLoop' = [bkLoop EXCEPT !.at = "wait"]

\* A first dump that fails ends start: neither the schedule nor the retries run.
DumpEnds ==
    /\ bkDump.at = "join" /\ bkDump.active \subseteq bkDump.failed \cup bkDump.done
    /\ bkDump' = [bkDump EXCEPT !.at = "off", !.result = IF DumpSucceeded THEN "ok" ELSE "failed"]
    /\ bkMain' = IF bkMain = "first dump"
                 THEN IF DumpSucceeded THEN "scheduled" ELSE "failed" ELSE bkMain
    /\ IF bkMain = "first dump" /\ DumpSucceeded THEN RetryLoopStarts ELSE UNCHANGED bkLoop
    /\ UNCHANGED << bkUp, bkNode, bkSub, bkChan, bkTask, bkToRetry, bkStore, bkDumps, bkCancelled, bkTold,
                    bkPassed, bkFaults >>

-----------------------------------------------------------------------------
(* Shutdown: every loop looks at the token where it waits.                 *)

BkCancel ==
    /\ ~bkCancelled /\ bkCancelled' = TRUE
    /\ UNCHANGED << bkMain, bkUp, bkNode, bkSub, bkChan, bkTask, bkToRetry, bkLoop, bkStore,
                    bkDump, bkDumps, bkTold, bkPassed, bkFaults >>

BkStops ==
    /\ bkCancelled
    /\ \/ /\ bkMain = "scheduled" /\ bkDump.at = "off"
          /\ bkMain' = "stopped" /\ UNCHANGED << bkTask, bkLoop >>
       \/ /\ bkLoop.at = "wait" /\ bkLoop.todo = {}
          /\ bkLoop' = [bkLoop EXCEPT !.at = "off"] /\ UNCHANGED << bkMain, bkTask >>
       \/ /\ \E s \in BkSources : At(s, "idle") /\ Goes(s, "stopped", 0)
          /\ UNCHANGED << bkMain, bkLoop >>
    /\ UNCHANGED << bkUp, bkNode, bkSub, bkChan, bkToRetry, bkStore, bkDump, bkDumps,
                    bkCancelled, bkTold, bkPassed, bkFaults >>

BkNext ==
    \/ New \/ Start \/ ScheduleFires \/ RetryTick \/ BkCancel \/ BkStops
    \/ SpawnPgDump \/ CopyPart \/ CopyEnds \/ DumpEnds
    \/ \E how \in { "early", "error" } : PgDumpEnds(how)
    \/ \E p \in BkProviders : ProviderFails(p) \/ CompleteMultipart(p)
    \/ \E s \in BkSources :
         \/ NodeChanges(s) \/ ListenerReconnects(s) \/ ListenerStops(s)
         \/ \E how \in { "broken", "ended" } : ListenerEnds(s, how)
         \/ SubscribeChannelBackups(s) \/ FirstFetch(s) \/ FirstUpload(s)
         \/ StreamRecv(s) \/ StreamUpload(s)
         \/ RetryFetch(s) \/ RetryUpload(s)

BkSpec == BkInit /\ [][BkNext]_bkVars

-----------------------------------------------------------------------------
\* The type of the streams, the uploads and the dump; the channel keeps its capacity.
BkTypeOK ==
    /\ bkUp \subseteq BkProviders /\ bkToRetry \subseteq BkSources
    /\ \A s \in BkSources : /\ bkNode[s] \in Versions /\ bkTold[s] <= bkNode[s]
                            /\ Len(bkChan[s]) <= BkCap
    /\ bkLoop.at # "off" => bkMain \in { "scheduled", "stopped" }
    /\ bkLoop.todo \subseteq BkSources

\* The retry loop runs, or will when the first dump is uploaded.
RetryDue(s) == s \in bkToRetry /\ (bkLoop.at # "off" \/ bkMain = "first dump")

\* A retry that was asked for and does not come: the first dump failed, and start ended
\* before it spawned the loop while the uploads go on; or the process shuts down.
RetryDropped(s) == s \in bkToRetry /\ (bkMain = "failed" \/ bkCancelled)

\* The newest backup of a node that the service has heard of is, once its upload is
\* over, in the newest file of the node at some provider, or a retry is due
\* (Backup::start, retry_loop).  It is given up in three ways only: the first backup
\* after the start is not retried, an older backup that is uploaded after a newer
\* one was fetched replaces it, and nothing is retried after a first dump that failed
\* or a shutdown.
BackupIsRetried ==
    \A s \in BkSources :
      \/ At(s, "first") \/ At(s, "upload") \/ bkLoop.at = s
      \/ \E p \in BkProviders : bkStore[p][s] = bkTold[s]
      \/ RetryDue(s) \/ s \in bkPassed \/ RetryDropped(s)

\* A dump that database_backup reports as uploaded is whole at some provider, whichever providers
\* dropped out while it was streamed; only a pg_dump that ended early is not noticed.
DumpIsWhole ==
    bkDump.result = "ok" => \/ \E p \in bkDump.done : bkDumps[p] = "whole"
                            \/ bkDump.ended = "early"

\* What the backup service reports as stored is stored, and what it could not store is
\* tried again once its start succeeded (Backup, MultiProvider).
BackupIsKept == BackupIsRetried /\ DumpIsWhole
=============================================================================
