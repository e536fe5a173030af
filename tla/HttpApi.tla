------------------------------ MODULE HttpApi ------------------------------
(***************************************************************************)
(* The HTTP API of the sidecar (boltzr/src/api): a request goes through    *)
(* logging_middleware and error_middleware (errors.rs) to the handler of   *)
(* its route (mod.rs), and the response back through both.  The handlers   *)
(* of the asset rescue (asset_rescue.rs) are modelled here; what the other *)
(* handlers answer is a choice, their work is the subject of their own     *)
(* modules.                                                                *)
(*                                                                         *)
(* A path is the sequence of its segments.  A body is its size and whether *)
(* it is UTF-8; a response also says what its text is and whether it is    *)
(* JSON.                                                                   *)
(***************************************************************************)
EXTENDS Integers, Sequences, FiniteSets

CONSTANTS
    HaPaths,        \* paths of requests
    HaMethods,      \* methods of requests
    HaBodies,       \* bodies of requests and of responses
    HaLimit,        \* API_ERROR_BODY_SIZE
    HaRequests      \* bound: requests, one after another

ASSUME HaAssumption ==
    /\ HaLimit \in Nat /\ HaRequests \in Nat
    /\ \A b \in HaBodies : b.size \in Nat /\ b.utf8 \in BOOLEAN
    /\ [ size |-> 0, utf8 |-> TRUE ] \in HaBodies

VARIABLES
    haAt,       \* where the request is
    haReq,      \* the request of the client
    haSeen,     \* the body the handler gets
    haInner,    \* the response of the handler
    haOuter,    \* the response the client gets
    haDone      \* requests made

haVars == << haAt, haReq, haSeen, haInner, haOuter, haDone >>

EmptyBody == [ size |-> 0, utf8 |-> TRUE ]
Statuses == { 200, 201, 400, 404, 405, 422, 500 }
IsError(status) == status >= 400
Response(status, json, body) == [ status |-> status, json |-> json, body |-> body ]
Unanswered == Response(0, FALSE, EmptyBody)

-----------------------------------------------------------------------------
(* Routes.                                                                 *)

Var == "{}"
Row(path, method, handler) == [ path |-> path, method |-> method, handler |-> handler ]

\* add_routes
Routes ==
    { Row(<< "streamswapstatus" >>, "GET", "sse"),
      Row(<< "v2", "swap", Var, "stats", Var, Var >>, "GET", "stats"),
      Row(<< "v2", "swap", "rescue" >>, "POST", "swap_rescue"),
      Row(<< "v2", "swap", "restore" >>, "POST", "swap_restore"),
      Row(<< "v2", "swap", "restore", "index" >>, "POST", "swap_restore_index"),
      Row(<< "v2", "asset", Var, "rescue", "setup" >>, "POST", "setup"),
      Row(<< "v2", "asset", Var, "rescue", "broadcast" >>, "POST", "broadcast"),
      Row(<< "v2", "lightning", Var, "node", Var >>, "GET", "node_info"),
      Row(<< "v2", "lightning", Var, "channel", Var >>, "GET", "channel"),
      Row(<< "v2", "lightning", Var, "channels", Var >>, "GET", "channels"),
      Row(<< "v2", "lightning", Var, "search" >>, "GET", "search"),
      Row(<< "v2", "lightning", Var, "bolt12" >>, "POST", "create"),
      Row(<< "v2", "lightning", Var, "bolt12" >>, "PATCH", "update"),
      Row(<< "v2", "lightning", Var, "bolt12" >>, "DELETE", "delete"),
      Row(<< "v2", "lightning", Var, "bolt12", "delete" >>, "POST", "delete"),
      Row(<< "v2", "lightning", Var, "bolt12", Var >>, "GET", "params"),
      Row(<< "v2", "lightning", Var, "bolt12", "fetch" >>, "POST", "fetch"),
      Row(<< "v2", "quote", Var, "in" >>, "GET", "quote_input"),
      Row(<< "v2", "quote", Var, "out" >>, "GET", "quote_output"),
      Row(<< "v2", "quote", Var, "encode" >>, "POST", "encode") }

Matches(pattern, path) ==
    /\ Len(pattern) = Len(path)
    /\ \A i \in DOMAIN path : pattern[i] \in { Var, path[i] }

\* A literal segment goes before a variable one.
MoreSpecific(p, q) ==
    \E i \in DOMAIN p : /\ p[i] # Var /\ q[i] = Var
                        /\ \A j \in 1 .. i - 1 : p[j] = q[j]

\* Paths are matched before methods: the rows of the best pattern.
RowsOf(path) ==
    LET matching == { r \in Routes : Matches(r.path, path) }
    IN  { r \in matching : \A o \in matching : ~MoreSpecific(o.path, r.path) }

HandlersOf(path, method) == { r.handler : r \in { x \in RowsOf(path) : x.method = method } }

-----------------------------------------------------------------------------
(* Middlewares.                                                            *)

\* read_body: the bytes, or an error for a body that is too large or no UTF-8.
ReadBodyFails(body) == body.size > HaLimit \/ (body.size > 0 /\ ~body.utf8)

\* A mutant: logging_middleware without the bytes it read.
BodyAfterReadingLost(body) == EmptyBody

\* logging_middleware, on the way in and on the way out: bytes that could be
\* read are passed on, else an empty body is.
BodyAfterReading(body) == IF ReadBodyFails(body) THEN EmptyBody ELSE body

\* The text of an error in an ApiError.
ApiError(status, text) == Response(status, TRUE, text)
TooLarge == [ size |-> 1, utf8 |-> TRUE ]

ErrorMiddleware(r) ==
    IF ~IsError(r.status) \/ r.json THEN r
    ELSE IF r.body.size > HaLimit THEN ApiError(500, TooLarge)
    ELSE IF r.body.size = 0 \/ ~r.body.utf8 THEN r
    ELSE ApiError(r.status, r.body)

LoggingMiddleware(r) ==
    IF IsError(r.status) THEN [ r EXCEPT !.body = BodyAfterReading(r.body) ] ELSE r

-----------------------------------------------------------------------------
(* Handlers.                                                               *)

Text == [ size |-> 1, utf8 |-> TRUE ]

\* AxumError: 500, unless the handler set another status.
AxumError(status) == ApiError(status, Text)
DefaultStatus == 500

CheckCurrencyFails(path) == path[3] # "L-BTC"

\* The extractor of the JSON refuses a body with plain text before the handler
\* runs.
JsonRejected == { Response(s, FALSE, Text) : s \in { 400, 422 } }

RescueSetup(path, body) ==
    IF body.size = 0 THEN JsonRejected
    ELSE JsonRejected \cup
         (IF CheckCurrencyFails(path) THEN { AxumError(400) }
          ELSE { Response(201, TRUE, Text), AxumError(DefaultStatus) })

RescueBroadcast(path, body) ==
    IF body.size = 0 THEN JsonRejected
    ELSE JsonRejected \cup
         (IF CheckCurrencyFails(path) THEN { AxumError(400) }
          ELSE { Response(200, TRUE, Text), AxumError(DefaultStatus) })

\* 404 and 405 of the router have no body.
Answerable(path, method, body) ==
    LET handlers == HandlersOf(path, method)
    IN  IF RowsOf(path) = {} THEN { Response(404, FALSE, EmptyBody) }
        ELSE IF handlers = {} THEN { Response(405, FALSE, EmptyBody) }
        ELSE IF handlers = { "setup" } THEN RescueSetup(path, body)
        ELSE IF handlers = { "broadcast" } THEN RescueBroadcast(path, body)
        ELSE { Response(s, j, b) : s \in { 200, 404, 500 }, j \in BOOLEAN, b \in HaBodies }

-----------------------------------------------------------------------------
(* A request.                                                              *)

HaInit ==
    /\ haAt = "idle" /\ haDone = 0
    /\ haReq = [ path |-> << >>, method |-> "GET", body |-> EmptyBody ]
    /\ haSeen = EmptyBody /\ haInner = Unanswered /\ haOuter = Unanswered

Receive(path, method, body) ==
    /\ haAt \in { "idle", "answered" } /\ haDone < HaRequests
    /\ haAt' = "handler" /\ haDone' = haDone + 1
    /\ haReq' = [ path |-> path, method |-> method, body |-> body ]
    /\ haSeen' = BodyAfterReading(body)
    /\ haInner' = Unanswered /\ haOuter' = Unanswered

Handle(r) ==
    /\ haAt = "handler"
    /\ r \in Answerable(haReq.path, haReq.method, haSeen)
    /\ haAt' = "answered"
    /\ haInner' = r
    /\ haOuter' = LoggingMiddleware(ErrorMiddleware(r))
    /\ UNCHANGED << haReq, haSeen, haDone >>

HaNext ==
    \/ \E path \in HaPaths, method \in HaMethods, body \in HaBodies : Receive(path, method, body)
    \/ \E r \in Answerable(haReq.path, haReq.method, haSeen) : Handle(r)

HaSpec == HaInit /\ [][HaNext]_haVars

-----------------------------------------------------------------------------
(* Properties.                                                             *)

\* The values the variables take.
HaTypeOK ==
    /\ haAt \in { "idle", "handler", "answered" } /\ haDone \in 0 .. HaRequests
    /\ haSeen \in HaBodies /\ haOuter.status \in Statuses \cup {0}

\* A handler gets the whole body of the client or none of it.
BodyIsWholeOrEmpty ==
    haAt # "idle" => /\ haSeen \in { haReq.body, EmptyBody }
                     /\ ~ReadBodyFails(haReq.body) => haSeen = haReq.body

\* What is no error is not touched.  An error keeps its status, its text becomes
\* JSON and is not lost; only a text beyond the limit turns it into an error of
\* the server, and only a body that cannot be logged is left out.
ErrorsAreKept ==
    haAt = "answered" =>
      IF ~IsError(haInner.status) THEN haOuter = haInner
      ELSE /\ IsError(haOuter.status)
           /\ haOuter.status # haInner.status =>
                haOuter.status = 500 /\ ~haInner.json /\ haInner.body.size > HaLimit
           /\ ~ReadBodyFails(haInner.body) =>
                /\ haOuter.status = haInner.status /\ haOuter.body = haInner.body
                /\ haOuter.json \/ haInner.body.size = 0

\* The HTTP API: bodies reach the handlers and errors reach the clients.
RequestsAreServed == BodyIsWholeOrEmpty /\ ErrorsAreKept

=============================================================================
