---------------------------- MODULE Notifications ---------------------------
(***************************************************************************)
(* The Mattermost client of the sidecar (notifications/): posts of users   *)
(* arrive over a WebSocket, are handled as commands of the sidecar or      *)
(* forwarded to the backend over the gRPC stream of messages; messages of  *)
(* both are posted, in parts when they are too long for one post.          *)
(*                                                                         *)
(* A text is its length and where it has a code block: none ("plain"),     *)
(* around the whole text ("block") or within it ("inside").  A post of the *)
(* client is the range of the text it shows and its own length.            *)
(***************************************************************************)
EXTENDS Integers, Sequences, SequencesExt

CONSTANTS
    NtConfig,           \* [prefix, alertChannel, alertHook, backup]
    NtPosts,            \* the posts of users: [channel, command, args]
    NtMessages,         \* messages of the backend: [len, code, important, alert]
    NtReplies,          \* command -> the text of its reply: [len, code]
    MaxMessageLength,   \* MAX_MESSAGE_LENGTH
    NtCap,              \* the size of the channel of messages
    MaxNtJobs           \* bound on posts and messages

VARIABLES
    ntClient,   \* "starting", "ready" or "missing": no notification client
    ntWs,       \* the WebSocket: "down", "up" or "stopped"
    ntJobs,     \* the messages that are handled or sent, in the order they came
    ntOut,      \* the posts of the client: [job, channel, from, to, size]
    ntBus,      \* the messages the stream has not received yet
    ntStream,   \* the stream of messages: "none", "open" or "ended"
    ntGot       \* the messages the backend got over it

ntVars == << ntClient, ntWs, ntJobs, ntOut, ntBus, ntStream, ntGot >>

CodeBlock == 3      \* CODE_BLOCK.len()
PrefixFrame == 4    \* the brackets, the colon and the space of format_prefix
NoText == [ len |-> 0, code |-> "plain" ]

NtInit ==
    /\ ntClient = "starting" /\ ntWs = "down" /\ ntStream = "none"
    /\ ntJobs = << >> /\ ntOut = << >> /\ ntBus = << >> /\ ntGot = << >>

-----------------------------------------------------------------------------
(* Starting and the WebSocket.                                              *)

\* Client::new: without the channel there is no client; a missing alert channel is
\* only logged.
NewClient(found) ==
    /\ ntClient = "starting"
    /\ ntClient' = IF found THEN "ready" ELSE "missing"
    /\ UNCHANGED << ntWs, ntJobs, ntOut, ntBus, ntStream, ntGot >>

\* listen: a connection is opened, again and again until one ends on cancellation.
ConnectWebsocket ==
    /\ ntClient = "ready" /\ ntWs = "down"
    /\ ntWs' = "up"
    /\ UNCHANGED << ntClient, ntJobs, ntOut, ntBus, ntStream, ntGot >>

\* connect_websocket ends: closed, failed or inactive; or stopped by the token.
WebsocketEnds(state) ==
    /\ ntWs = "up"
    /\ ntWs' = state
    /\ UNCHANGED << ntClient, ntJobs, ntOut, ntBus, ntStream, ntGot >>

-----------------------------------------------------------------------------
(* Posts of the client.                                                     *)

\* get_channel
MattermostChannel(alert) == IF alert /\ NtConfig.alertChannel THEN "alerts" ELSE "main"

\* strip_prefix and strip_suffix of the code block.
Stripped(m) == IF m.code = "block" THEN m.len - 2 * CodeBlock ELSE m.len

Prefix == IF NtConfig.prefix = 0 THEN 0 ELSE NtConfig.prefix + PrefixFrame

\* Mutant: the parts of a code block do not leave room for its frame.
MaxPartLenOfText(m) == MaxMessageLength

\* split_message: the length of the parts.
MaxPartLen(m) == IF m.code = "plain" THEN MaxMessageLength
                 ELSE MaxMessageLength - (CodeBlock * 2 + 10)

\* split_message and split_string: chunks, each in a code block of its own.
SplitMessage(m) ==
    LET n == Stripped(m)
        c == MaxPartLen(m)
        frame == IF m.code = "plain" THEN 0 ELSE 2 * CodeBlock + 6
    IN  [ i \in 1 .. (n + c - 1) \div c |->
            LET from == (i - 1) * c + 1
                to == IF i * c < n THEN i * c ELSE n
            IN  [ from |-> from, to |-> to, size |-> to - from + 1 + frame ] ]

\* send_message: one post with the prefix, or the prefix and the parts.
PartsOf(m) ==
    LET n == Stripped(m)
        frame == IF m.code = "plain" THEN 0 ELSE 2 * CodeBlock + 7
    IN  IF m.len + NtConfig.prefix + 10 < MaxMessageLength
        THEN << [ from |-> 1, to |-> n, size |-> Prefix + n + frame ] >>
        ELSE (IF Prefix = 0 THEN << >>
              ELSE << [ from |-> 1, to |-> 0, size |-> Prefix ] >>) \o SplitMessage(m)

-----------------------------------------------------------------------------
(* A job is a message that is handled: [by, post, stage, text, rest,        *)
(* important, forward].  Its stages are "command", "alert", "send", "sent"  *)
(* and "failed".                                                            *)

Job(by, post, stage, text, important, forward) ==
    [ by |-> by, post |-> post, stage |-> stage, text |-> text, rest |-> PartsOf(text),
      important |-> important, forward |-> forward ]

\* Mutant: the client handles its own posts.
HandledAnyPost(post, author) == post.channel = "main"

\* handle_websocket_message: posts of the channel that are not the client's own.
IsHandled(post, author) == post.channel = "main" /\ author # "client"

\* A post in a channel, by a user or by the client itself, is broadcast to the
\* WebSocket, and a task handles it.
PostIsBroadcast(post, author) ==
    /\ Len(ntJobs) < MaxNtJobs
    /\ ntWs = "up" /\ IsHandled(post, author)
    /\ ntJobs' = Append(ntJobs, Job(author, post, "command", NoText, FALSE, FALSE))
    /\ UNCHANGED << ntClient, ntWs, ntOut, ntBus, ntStream, ntGot >>

Executors == { "offerinfo", "webhookinfo" } \cup
             (IF NtConfig.backup THEN { "backup" } ELSE {})

\* offer_info and web_hook_info ask for the missing argument; the others answer.
ReplyOf(post) ==
    IF post.command \in { "offerinfo", "webhookinfo" } /\ ~post.args
    THEN NtReplies["usage"] ELSE NtReplies[post.command]

\* Commands::handle_message: the command of an executor is handled, the one for help
\* is answered and forwarded, everything else is only forwarded.
HandleMessage(j) ==
    LET post == ntJobs[j].post
        done(stage, text, forward) ==
            ntJobs' = [ ntJobs EXCEPT ![j] =
                Job(@.by, post, stage, text, FALSE, forward) ]
    IN  /\ ntJobs[j].stage = "command"
        /\ CASE post.command \in Executors -> done("send", ReplyOf(post), FALSE)
             [] post.command = "help" -> done("send", NtReplies["help"], TRUE)
             [] OTHER -> done("sent", NoText, TRUE)
        /\ UNCHANGED << ntClient, ntWs, ntOut, ntBus, ntStream, ntGot >>

\* The database or the backup fails: nothing is answered and nothing forwarded.
HandleFails(j) ==
    /\ ntJobs[j].stage = "command" /\ ntJobs[j].post.command \in Executors
    /\ ntJobs' = [ ntJobs EXCEPT ![j].stage = "failed" ]
    /\ UNCHANGED << ntClient, ntWs, ntOut, ntBus, ntStream, ntGot >>

\* BoltzService::send_message
GrpcSendMessage(m) ==
    /\ ntClient = "ready" /\ Len(ntJobs) < MaxNtJobs
    /\ ntJobs' = Append(ntJobs,
         Job("backend", [ channel |-> "main", command |-> "", args |-> FALSE ],
             IF m.alert /\ NtConfig.alertHook THEN "alert" ELSE "send",
             [ len |-> m.len, code |-> m.code ], m.important, FALSE))
    /\ UNCHANGED << ntClient, ntWs, ntOut, ntBus, ntStream, ntGot >>

\* alerts::Client::send_alert: only when it worked the message is sent.
SendAlert(j, ok) ==
    /\ ntJobs[j].stage = "alert"
    /\ ntJobs' = [ ntJobs EXCEPT ![j].stage = IF ok THEN "send" ELSE "failed" ]
    /\ UNCHANGED << ntClient, ntWs, ntOut, ntBus, ntStream, ntGot >>

\* send_raw_message of the next part.  The post is broadcast to the WebSocket too.
SendRawMessage(j) ==
    LET job == ntJobs[j]
        part == Head(job.rest)
        post == [ channel |-> MattermostChannel(job.important), command |-> "help", args |-> FALSE ]
        echo == Job("client", post, "command", NoText, FALSE, FALSE)
        sent == [ ntJobs EXCEPT ![j].rest = Tail(@),
                                ![j].stage = IF Len(job.rest) = 1 THEN "sent" ELSE @ ]
    IN  /\ job.stage = "send"
        /\ ntOut' = Append(ntOut, [ job |-> j, channel |-> post.channel, from |-> part.from,
                                    to |-> part.to, size |-> part.size ])
        /\ ntJobs' = IF ntWs = "up" /\ IsHandled(post, "client") /\ Len(ntJobs) < MaxNtJobs
                     THEN Append(sent, echo) ELSE sent
        /\ UNCHANGED << ntClient, ntWs, ntBus, ntStream, ntGot >>

\* Mattermost refuses the post or cannot be reached: the rest is not sent.
SendFails(j) ==
    /\ ntJobs[j].stage = "send"
    /\ ntJobs' = [ ntJobs EXCEPT ![j].stage = "failed" ]
    /\ UNCHANGED << ntClient, ntWs, ntOut, ntBus, ntStream, ntGot >>

\* The end of the task: what was not handled goes to the listeners, if there are any.
ForwardMessage(j) ==
    /\ ntJobs[j].stage = "sent" /\ ntJobs[j].forward
    /\ ntJobs' = [ ntJobs EXCEPT ![j].forward = FALSE ]
    /\ ntBus' = IF ntStream = "open" THEN Append(ntBus, j) ELSE ntBus
    /\ UNCHANGED << ntClient, ntWs, ntOut, ntStream, ntGot >>

-----------------------------------------------------------------------------
(* The stream of messages to the backend.                                   *)

\* get_messages
GetMessages ==
    /\ ntClient = "ready" /\ ntStream # "open"
    /\ ntStream' = "open" /\ ntBus' = << >>
    /\ UNCHANGED << ntClient, ntWs, ntJobs, ntOut, ntGot >>

\* The task of the stream: a receiver that lags behind ends it.
StreamReceives ==
    /\ ntStream = "open" /\ ntBus # << >>
    /\ IF Len(ntBus) > NtCap
       THEN ntStream' = "ended" /\ ntBus' = << >> /\ UNCHANGED ntGot
       ELSE ntGot' = Append(ntGot, Head(ntBus)) /\ ntBus' = Tail(ntBus) /\ UNCHANGED ntStream
    /\ UNCHANGED << ntClient, ntWs, ntJobs, ntOut >>

StreamCloses ==
    /\ ntStream = "open"
    /\ ntStream' = "ended" /\ ntBus' = << >>
    /\ UNCHANGED << ntClient, ntWs, ntJobs, ntOut, ntGot >>

NtNext ==
    \/ \E found \in BOOLEAN : NewClient(found)
    \/ ConnectWebsocket
    \/ \E state \in { "down", "stopped" } : WebsocketEnds(state)
    \/ \E p \in NtPosts : PostIsBroadcast(p, "user")
    \/ \E m \in NtMessages : GrpcSendMessage(m)
    \/ \E j \in DOMAIN ntJobs :
        \/ HandleMessage(j) \/ HandleFails(j)
        \/ SendRawMessage(j) \/ SendFails(j) \/ ForwardMessage(j)
        \/ \E ok \in BOOLEAN : SendAlert(j, ok)
    \/ GetMessages \/ StreamReceives \/ StreamCloses

NtSpec == NtInit /\ [][NtNext]_ntVars

\* The type of the connection and of the queue of messages, which keeps its capacity.
NtTypeOK ==
    /\ ntClient \in { "starting", "ready", "missing" }
    /\ ntWs \in { "down", "up", "stopped" } /\ ntStream \in { "none", "open", "ended" }
    /\ Len(ntJobs) <= MaxNtJobs
    /\ ToSet(ntBus) \cup ToSet(ntGot) \subseteq DOMAIN ntJobs
    /\ \A i \in DOMAIN ntOut : ntOut[i].job \in DOMAIN ntJobs

-----------------------------------------------------------------------------

\* What was posted of a job, in order.
PostedOf(j) == SelectSeq(ntOut, LAMBDA p : p.job = j)

\* The posts of a message show it from its start without gaps or repetitions, all of
\* it once it is sent, in the channel of its importance; each fits into the limit of
\* a post, where the whole text or none of it is a code block (a block within the
\* text is framed again and may exceed the limit by its frame).
MessageIsShown ==
    \A j \in DOMAIN ntJobs :
        LET posts == PostedOf(j)
            text == ntJobs[j].text
        IN  /\ \A i \in DOMAIN posts :
                /\ posts[i].from = IF i = 1 THEN 1 ELSE posts[i - 1].to + 1
                /\ posts[i].channel = MattermostChannel(ntJobs[j].important)
                /\ text.code # "inside" => posts[i].size <= MaxMessageLength
            /\ ntJobs[j].stage = "sent" /\ posts # << >> => Last(posts).to = Stripped(text)

\* The backend gets a message of a user once at most, after its answer was posted,
\* and never what the client or the backend posted, or what the sidecar handled.
ForwardedIsOfUser ==
    /\ IsInjective(ntGot \o ntBus)
    /\ \A j \in ToSet(ntGot) \cup ToSet(ntBus) :
        /\ ntJobs[j].by = "user" /\ ntJobs[j].stage = "sent"
        /\ ntJobs[j].post.command \notin Executors

\* A message is shown as it was sent, and what is forwarded was written by a user.
NotificationsAreSound == MessageIsShown /\ ForwardedIsOfUser
=============================================================================
