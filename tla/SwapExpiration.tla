--------------------------- MODULE SwapExpiration ---------------------------
(***************************************************************************)
(* What the sidecar decides about swaps by itself, and how the backend     *)
(* learns of it.  Two checkers fail submarine swaps in the database, one   *)
(* when the invoice expired and one when the referral of the swap has a    *)
(* shorter expiry (boltzr/src/swap/expiration); the MRH watcher notices    *)
(* payments to the magic routing hint of a reverse swap                    *)
(* (chain/mrh_watcher.rs).  All three write to one broadcast channel that  *)
(* send_swap_update of the gRPC service streams to the backend.  The       *)
(* backend meanwhile writes the same rows: it records lockups, sets        *)
(* invoices and pays them, from a row it fetched before.                   *)
(***************************************************************************)
EXTENDS SwapEvents, Naturals, Sequences, Functions, TLAPS

CONSTANTS
    ExSwaps,        \* submarine swaps
    ExReferral,     \* those with a referral that has a custom expiration
    MrhTxs,         \* transactions to a magic routing hint
    ExCap,          \* capacity of the broadcast channel
    MaxExFaults     \* bound on failing streams and queries, and on restarts

ASSUME ExAssumption ==
    /\ ExReferral \subseteq ExSwaps /\ "none" \notin ExSwaps
    /\ ExCap \in Nat \ { 0 } /\ MaxExFaults \in Nat

VARIABLES
    exStatus, exReason, exInvoice, exLockup,    \* the rows
    exOverdue,      \* swaps older than the custom expiration
    exExpired,      \* swaps whose invoice expired
    exCheck,        \* checker -> [todo: rest of its snapshot, sending: swap it failed]
    exMrh,          \* transaction -> where the watcher is with it
    exStream,       \* the backend reads the stream
    exBus, exLagged,    \* the channel, and that its reader was overrun
    exPay,          \* swap -> where the backend is with paying its invoice
    exAnnounced,    \* updates the backend emitted
    exMissed,       \* updates that were lost
    exFaults

exVars == << exStatus, exReason, exInvoice, exLockup, exOverdue, exExpired, exCheck,
             exMrh, exStream, exBus, exLagged, exPay, exAnnounced, exMissed, exFaults >>
exRows == << exStatus, exReason, exInvoice, exLockup >>
exClock == << exOverdue, exExpired >>
exChannel == << exStream, exBus, exLagged, exMissed >>
exNode == << exPay, exAnnounced >>

Checkers == { "invoice", "custom" }
NoSwap == "none"
IdleChecker == [todo |-> {}, sending |-> NoSwap]

\* The row of a swap without an invoice, the channel without messages.
ExInit ==
    /\ exStatus = [s \in ExSwaps |-> "SwapCreated"]
    /\ exReason = [s \in ExSwaps |-> "none"] /\ exInvoice = {} /\ exLockup = {}
    /\ exOverdue = {} /\ exExpired = {}
    /\ exCheck = [k \in Checkers |-> IdleChecker]
    /\ exMrh = [t \in MrhTxs |-> "unseen"]
    /\ exStream = TRUE /\ exBus = << >> /\ exLagged = FALSE
    /\ exPay = [s \in ExSwaps |-> "no"]
    /\ exAnnounced = {} /\ exMissed = {} /\ exFaults = 0

ExFault == exFaults < MaxExFaults /\ exFaults' = exFaults + 1

\* broadcast::Sender::send: it fails without a receiver, and overwrites the
\* oldest message when the channel is full.
SendUpdate(u) ==
    /\ UNCHANGED exStream
    /\ IF ~exStream
       THEN exMissed' = exMissed \cup { u } /\ UNCHANGED << exBus, exLagged >>
       ELSE IF Len(exBus) < ExCap
       THEN exBus' = Append(exBus, u) /\ UNCHANGED << exLagged, exMissed >>
       ELSE /\ exBus' = Append(Tail(exBus), u) /\ exLagged' = TRUE
            /\ exMissed' = exMissed \cup { Head(exBus) }

-----------------------------------------------------------------------------
(* The checkers.                                                           *)

\* expirable_invoice_swaps_condition
InvoiceExpirable(s) ==
    /\ s \in exInvoice
    /\ exStatus[s] \notin { "SwapExpired", "InvoicePending", "InvoicePaid",
                            "InvoiceFailedToPay", "TransactionClaimed",
                            "TransactionLockupFailed", "TransactionClaimPending" }

\* custom_expirable_swaps_condition
CustomExpirable(s) == s \in ExReferral /\ exStatus[s] \in { "SwapCreated", "InvoiceSet" }

Expirable(k, s) == IF k = "invoice" THEN InvoiceExpirable(s) ELSE CustomExpirable(s)
IsOver(k, s) == s \in IF k = "invoice" THEN exExpired ELSE exOverdue

\* A mutant: both checkers load what the custom one may fail.
CheckLoadsUnlocked(k) ==
    /\ exCheck[k] = IdleChecker
    /\ exCheck' = [exCheck EXCEPT ![k].todo = { s \in ExSwaps : CustomExpirable(s) }]
    /\ UNCHANGED << exRows, exClock, exMrh, exChannel, exNode, exFaults >>

\* check of a checker: the rows are loaded.
CheckLoads(k) ==
    /\ exCheck[k] = IdleChecker
    /\ exCheck' = [exCheck EXCEPT ![k].todo = { s \in ExSwaps : Expirable(k, s) }]
    /\ UNCHANGED << exRows, exClock, exMrh, exChannel, exNode, exFaults >>

\* A mutant: the row is updated whatever became of it.
CheckFailsAnyway(k, s) ==
    /\ s \in exCheck[k].todo /\ exCheck[k].sending = NoSwap
    /\ exCheck' = [exCheck EXCEPT ![k].todo = @ \ { s },
                                  ![k].sending = IF IsOver(k, s) THEN s ELSE @]
    /\ IF IsOver(k, s)
       THEN /\ exStatus' = [exStatus EXCEPT ![s] = "InvoiceFailedToPay"]
            /\ exReason' = [exReason EXCEPT ![s] = "expired"]
       ELSE UNCHANGED << exStatus, exReason >>
    /\ UNCHANGED << exInvoice, exLockup, exClock, exMrh, exChannel, exNode, exFaults >>

\* One of the rows: if it is over, update_status_if_matches fails the swap when
\* the condition still holds of the current row.
CheckFails(k, s) ==
    /\ s \in exCheck[k].todo /\ exCheck[k].sending = NoSwap
    /\ LET fails == IsOver(k, s) /\ Expirable(k, s)
       IN  /\ exCheck' = [exCheck EXCEPT ![k].todo = @ \ { s },
                                         ![k].sending = IF fails THEN s ELSE @]
           /\ IF fails
              THEN /\ exStatus' = [exStatus EXCEPT ![s] = "InvoiceFailedToPay"]
                   /\ exReason' = [exReason EXCEPT ![s] = "expired"]
              ELSE UNCHANGED << exStatus, exReason >>
    /\ UNCHANGED << exInvoice, exLockup, exClock, exMrh, exChannel, exNode, exFaults >>

\* The update is sent.  An error ends this round of the checker.
CheckSends(k) ==
    /\ exCheck[k].sending # NoSwap
    /\ SendUpdate(<< "failed", exCheck[k].sending >>)
    /\ exCheck' = [exCheck EXCEPT ![k] =
                     IF exStream THEN [@ EXCEPT !.sending = NoSwap] ELSE IdleChecker]
    /\ UNCHANGED << exRows, exClock, exMrh, exNode, exFaults >>

\* A query fails, and with it the round.
CheckErrs(k) ==
    /\ exCheck[k].todo # {} /\ exCheck[k].sending = NoSwap /\ ExFault
    /\ exCheck' = [exCheck EXCEPT ![k] = IdleChecker]
    /\ UNCHANGED << exRows, exClock, exMrh, exChannel, exNode >>

-----------------------------------------------------------------------------
(* The MRH watcher.                                                        *)

\* An unconfirmed transaction: its routing hints are looked up and the 0-conf
\* check is waited for by a task of its own.  Without hints, after an error of
\* the lookup and when the stream of transactions lagged nothing comes of it.
MrhSees(t) ==
    /\ exMrh[t] = "unseen"
    /\ exMrh' = [exMrh EXCEPT ![t] = "checking"]
    /\ UNCHANGED << exRows, exClock, exCheck, exChannel, exNode, exFaults >>

\* The task answers: a safe transaction is sent, for another nothing is.
MrhAnswers(t) ==
    /\ exMrh[t] = "checking"
    /\ \/ /\ exMrh' = [exMrh EXCEPT ![t] = "safe"]
          /\ SendUpdate(<< "direct", t >>)
       \/ /\ exMrh' = [exMrh EXCEPT ![t] = "unsafe"]
          /\ UNCHANGED exChannel
    /\ UNCHANGED << exRows, exClock, exCheck, exNode, exFaults >>

-----------------------------------------------------------------------------
(* The stream, and the backend that handles what it delivers.              *)

\* send_swap_update forwards until it cannot receive: being overrun ends it.
\* handleSentSwapUpdate emits the failure for the row as it is by then.
HandleSentSwapUpdate ==
    /\ exStream /\ exBus # << >> /\ ~exLagged
    /\ exBus' = Tail(exBus) /\ exAnnounced' = exAnnounced \cup { Head(exBus) }
    /\ UNCHANGED << exRows, exClock, exCheck, exMrh, exStream, exLagged, exMissed,
                    exPay, exFaults >>

\* Neither an error nor the end of the stream makes the backend subscribe again.
ExStreamEnds ==
    /\ exStream /\ exStream' = FALSE
    /\ \/ exLagged /\ UNCHANGED exFaults
       \/ ExFault
    /\ exMissed' = exMissed \cup Range(exBus)
    /\ exBus' = << >> /\ exLagged' = FALSE
    /\ UNCHANGED << exRows, exClock, exCheck, exMrh, exNode >>

\* The backend starts again, with it the sidecar, which is its child: what was
\* not announced is lost, and the stream is subscribed to.
ExRestart ==
    /\ ExFault
    /\ exMissed' = exMissed \cup Range(exBus)
         \cup { << "failed", s >> : s \in { exCheck[k].sending : k \in Checkers } \ { NoSwap } }
    /\ exBus' = << >> /\ exLagged' = FALSE /\ exStream' = TRUE
    /\ exCheck' = [k \in Checkers |-> IdleChecker]
    /\ exMrh' = [t \in MrhTxs |-> IF exMrh[t] = "checking" THEN "unsafe" ELSE exMrh[t]]
    /\ exPay' = [s \in ExSwaps |-> IF exPay[s] = "read" THEN "no" ELSE exPay[s]]
    /\ UNCHANGED << exRows, exClock, exAnnounced >>

\* setSwapInvoice, which does not look at the status.
NodeSetsInvoice(s) ==
    /\ s \notin exInvoice /\ exInvoice' = exInvoice \cup { s }
    /\ exStatus' = [exStatus EXCEPT ![s] = "InvoiceSet"]
    /\ UNCHANGED << exReason, exLockup, exClock, exCheck, exMrh, exChannel, exNode,
                    exFaults >>

\* A lockup is recorded; the row is checked in the transaction that writes it.
NodeFindsLockup(s) ==
    /\ exStatus[s] \in { "SwapCreated", "InvoiceSet" }
    /\ exStatus' = [exStatus EXCEPT ![s] = "TransactionConfirmed"]
    /\ exLockup' = exLockup \cup { s }
    /\ UNCHANGED << exReason, exInvoice, exClock, exCheck, exMrh, exChannel, exNode,
                    exFaults >>

\* The handler of a lockup, or setSwapInvoice with one, fetches the row: that the
\* swap failed meanwhile does not stop it.
NodeFetches(s) ==
    /\ exPay[s] = "no" /\ s \in exInvoice \cap exLockup
    /\ exPay' = [exPay EXCEPT ![s] = "read"]
    /\ UNCHANGED << exRows, exClock, exCheck, exMrh, exChannel, exAnnounced, exFaults >>

\* payInvoice writes InvoicePending, whatever the row says by now, then pays.
NodePays(s) ==
    /\ exPay[s] = "read" /\ exPay' = [exPay EXCEPT ![s] = "paying"]
    /\ exStatus' = [exStatus EXCEPT ![s] = "InvoicePending"]
    /\ UNCHANGED << exReason, exInvoice, exLockup, exClock, exCheck, exMrh, exChannel,
                    exAnnounced, exFaults >>

\* The payment ends one way or the other.  setSwapStatus keeps a reason that was
\* in the row when it was fetched.
NodeEndsPayment(s) ==
    /\ exPay[s] = "paying"
    /\ \/ /\ exPay' = [exPay EXCEPT ![s] = "paid"]
          /\ exStatus' = [exStatus EXCEPT ![s] = "InvoicePaid"] /\ UNCHANGED exReason
       \/ /\ exPay' = [exPay EXCEPT ![s] = "failed"]
          /\ exStatus' = [exStatus EXCEPT ![s] = "InvoiceFailedToPay"]
          /\ \E kept \in { exReason[s], "payment" } \ { "none" } :
               exReason' = [exReason EXCEPT ![s] = kept]
    /\ UNCHANGED << exInvoice, exLockup, exClock, exCheck, exMrh, exChannel, exAnnounced,
                    exFaults >>

TimePasses(s) ==
    /\ \/ s \notin exOverdue /\ exOverdue' = exOverdue \cup { s } /\ UNCHANGED exExpired
       \/ /\ s \in exInvoice \ exExpired /\ exExpired' = exExpired \cup { s }
          /\ UNCHANGED exOverdue
    /\ UNCHANGED << exRows, exCheck, exMrh, exChannel, exNode, exFaults >>

ExNext ==
    \/ \E k \in Checkers :
         \/ CheckLoads(k) \/ CheckSends(k) \/ CheckErrs(k)
         \/ \E s \in ExSwaps : CheckFails(k, s)
    \/ \E t \in MrhTxs : MrhSees(t) \/ MrhAnswers(t)
    \/ HandleSentSwapUpdate \/ ExStreamEnds \/ ExRestart
    \/ \E s \in ExSwaps :
         \/ NodeSetsInvoice(s) \/ NodeFindsLockup(s) \/ NodeFetches(s)
         \/ NodePays(s) \/ NodeEndsPayment(s) \/ TimePasses(s)

\* The scheduler runs a checker every minute, and a round goes through all its
\* rows.  The backend may stop anywhere.
ExFairness ==
    \A k \in Checkers :
      /\ WF_exVars(CheckLoads(k)) /\ WF_exVars(CheckSends(k))
      /\ \A s \in ExSwaps : WF_exVars(CheckFails(k, s))

ExSpec == ExInit /\ [][ExNext]_exVars
FairExSpec == ExSpec /\ ExFairness

-----------------------------------------------------------------------------
\* The rows, the snapshots of the checkers and the channel are well formed; a
\* checker has failed the swap it is about to announce.
ExTypeOK ==
    /\ exStatus \in [ExSwaps -> SwapUpdateEvent]
    /\ exReason \in [ExSwaps -> { "none", "expired", "payment" }]
    /\ exInvoice \cup exLockup \subseteq ExSwaps /\ exExpired \subseteq exInvoice
    /\ exOverdue \subseteq ExSwaps
    /\ \A k \in Checkers : exCheck[k].todo \subseteq ExSwaps \ { exCheck[k].sending }
    /\ exMrh \in [MrhTxs -> { "unseen", "checking", "safe", "unsafe" }]
    /\ exStream \in BOOLEAN /\ exLagged \in BOOLEAN /\ Len(exBus) <= ExCap
    /\ exPay \in [ExSwaps -> { "no", "read", "paying", "paid", "failed" }]
    /\ exFaults \in 0 .. MaxExFaults

\* A swap whose invoice is being paid, or was, is not failed by a checker that
\* loaded it earlier.
PaidIsNotExpired ==
    \A s \in ExSwaps :
      exPay[s] \in { "paying", "paid" } => exStatus[s] # "InvoiceFailedToPay"

\* What the sidecar decided reaches the clients: a swap it failed and a direct
\* payment it accepted were announced by the backend, are on the way, or were
\* lost in one of the three ways the code accepts: no stream to send to, a
\* stream that ended with messages in it, a restart.
DecisionIsAnnounced ==
    LET OnTheWay(u) == u \in exAnnounced \cup exMissed \cup Range(exBus)
    IN  /\ \A s \in ExSwaps : exReason[s] = "expired" =>
             \/ OnTheWay(<< "failed", s >>)
             \/ \E k \in Checkers : exCheck[k].sending = s
        /\ \A t \in MrhTxs : exMrh[t] = "safe" => OnTheWay(<< "direct", t >>)

\* An expired invoice does not stay open: the swap fails, or the backend takes
\* it out of the checker's hands, also while the stream to the backend is down.
ExpiredIsFailed ==
    \A s \in ExSwaps :
      (s \in exExpired /\ InvoiceExpirable(s)) ~> ~InvoiceExpirable(s)

\* What a checker decides on a list it loaded before stands: it does not contradict
\* a payment, and the backend hears of it.
DecisionStands == PaidIsNotExpired /\ DecisionIsAnnounced

-----------------------------------------------------------------------------
(* Proof: decisions of the sidecar stand.                                  *)

\* Updates that were announced or lost, or that are in the channel.
Told(u) == u \in exAnnounced \cup exMissed \cup Range(exBus)

Updates == { "failed", "direct" } \X (ExSwaps \cup MrhTxs)

ExTyped ==
    /\ exStatus \in [ExSwaps -> SwapUpdateEvent] /\ DOMAIN exReason = ExSwaps
    /\ exCheck \in [Checkers -> [todo : SUBSET ExSwaps, sending : ExSwaps \cup { NoSwap }]]
    /\ DOMAIN exMrh = MrhTxs /\ DOMAIN exPay = ExSwaps
    /\ exBus \in Seq(Updates)

\* While the backend pays, the row says so: it is in none of the states a checker
\* fails, and no invoice is set any more.
PayingIsRecorded ==
    \A s \in ExSwaps :
      /\ exPay[s] # "no" => s \in exInvoice
      /\ exPay[s] = "paying" => exStatus[s] = "InvoicePending"
      /\ exPay[s] = "paid" => exStatus[s] = "InvoicePaid"

\* What was decided is announced, on the way, lost, or about to be sent.
DecisionIsTold ==
    /\ \A s \in ExSwaps : exReason[s] = "expired" =>
         Told(<< "failed", s >>) \/ \E k \in Checkers : exCheck[k].sending = s
    /\ \A t \in MrhTxs : exMrh[t] = "safe" => Told(<< "direct", t >>)

ExInv == ExTyped /\ PayingIsRecorded /\ DecisionIsTold

\* Zenon is tried on every step that names no prover; most steps with arithmetic name SMT.
USE ZenonT(120)

\* The messages left when the oldest one is taken from the channel.
LEMMA RangeOfTail ==
    ASSUME NEW S, NEW b \in Seq(S), b # << >>
    PROVE  Tail(b) \in Seq(S) /\ Range(b) = { Head(b) } \cup Range(Tail(b))
  <1>1. /\ Len(b) \in Nat \ { 0 } /\ Head(b) = b[1] /\ Len(Tail(b)) = Len(b) - 1
        /\ Tail(b) \in Seq(S) /\ \A i \in 1 .. (Len(b) - 1) : Tail(b)[i] = b[i + 1]
    BY SMTT(60)
  <1>2. DOMAIN b = 1 .. Len(b) /\ DOMAIN Tail(b) = 1 .. (Len(b) - 1)
    BY <1>1, SMTT(60)
  <1>3. \A i \in 2 .. Len(b) : i - 1 \in 1 .. (Len(b) - 1) /\ Tail(b)[i - 1] = b[i]
    BY <1>1, SMTT(60)
  <1>4. \A i \in DOMAIN b : b[i] = Head(b) \/ \E j \in DOMAIN Tail(b) : Tail(b)[j] = b[i]
    <2> TAKE i \in DOMAIN b
    <2>1. i = 1 \/ i \in 2 .. Len(b)
      BY <1>1, <1>2, SMTT(60)
    <2>2. CASE i = 1
      BY <1>1, <2>2
    <2>3. CASE i \in 2 .. Len(b)
      <3>1. i - 1 \in DOMAIN Tail(b) /\ Tail(b)[i - 1] = b[i]
        BY <1>2, <1>3, <2>3
      <3> QED BY <3>1
    <2> QED BY <2>1, <2>2, <2>3
  <1>5. 1 \in DOMAIN b /\ \A j \in DOMAIN Tail(b) : \E i \in DOMAIN b : Tail(b)[j] = b[i]
    BY <1>1, <1>2, SMTT(60)
  <1>6. Tail(b) \in Seq(S) /\ Head(b) = b[1]
    BY <1>1
  <1>7. \A x \in Range(b) : x = Head(b) \/ x \in Range(Tail(b))
    BY <1>4 DEF Range
  <1>8. Head(b) \in Range(b) /\ \A x \in Range(Tail(b)) : x \in Range(b)
    BY <1>5, <1>6, SMTT(60) DEF Range
  <1> QED BY <1>6, <1>7, <1>8

\* A message that is sent is told, and nothing that was told is forgotten.
LEMMA UpdateSent ==
    ASSUME ExTyped, NEW u \in Updates,
           SendUpdate(u), UNCHANGED exAnnounced
    PROVE  /\ exBus' \in Seq(Updates)
           /\ Told(u)' /\ \A v : Told(v) => Told(v)'
  <1>1. exBus \in Seq(Updates) /\ u \in Updates
    BY DEF ExTyped, SendUpdate
  <1>2. \A b \in Seq(Updates) : /\ Append(b, u) \in Seq(Updates)
                          /\ Range(Append(b, u)) = Range(b) \cup { u }
    <2> TAKE b \in Seq(Updates)
    <2>1. /\ Append(b, u) \in Seq(Updates) /\ Len(Append(b, u)) = Len(b) + 1 /\ Len(b) \in Nat
          /\ Append(b, u)[Len(b) + 1] = u /\ \A i \in 1 .. Len(b) : Append(b, u)[i] = b[i]
      BY <1>1, SMTT(60)
    <2>2. DOMAIN b = 1 .. Len(b) /\ DOMAIN Append(b, u) = 1 .. (Len(b) + 1)
      BY <1>1, <2>1, SMTT(60)
    <2> QED BY <2>1, <2>2, SMTT(60) DEF Range
  <1>4. CASE ~exStream
    BY <1>1, <1>4 DEF SendUpdate, Told
  <1>5. CASE exStream /\ Len(exBus) < ExCap
    BY <1>1, <1>2, <1>5 DEF SendUpdate, Told
  <1>6. CASE exStream /\ ~(Len(exBus) < ExCap)
    <2>1. exBus # << >>
      BY <1>6, ExAssumption, SMTT(60)
    <2>2. /\ exBus' = Append(Tail(exBus), u)
          /\ exMissed' = exMissed \cup { Head(exBus) }
      BY <1>6 DEF SendUpdate
    <2>3. Range(exBus') = Range(Tail(exBus)) \cup { u } /\ exBus' \in Seq(Updates)
          /\ Range(exBus) = { Head(exBus) } \cup Range(Tail(exBus))
      BY <1>1, <1>2, RangeOfTail, <2>1, <2>2
    <2> QED BY <1>1, <2>2, <2>3 DEF Told
  <1> QED BY <1>4, <1>5, <1>6 DEF ExTyped

\* A swap is failed only by a checker of which the condition holds, so not while
\* it is paid.
LEMMA ExRowsStep ==
    ASSUME ExTyped, PayingIsRecorded, [ExNext]_exVars
    PROVE  PayingIsRecorded'
  <1>1. ASSUME NEW k \in Checkers, NEW s \in ExSwaps, CheckFails(k, s) PROVE PayingIsRecorded'
    <2>1. UNCHANGED << exInvoice, exPay >>
      BY <1>1 DEF CheckFails, exNode
    <2>2. UNCHANGED exStatus \/ (Expirable(k, s)
                                 /\ exStatus' = [exStatus EXCEPT ![s] = "InvoiceFailedToPay"])
      BY <1>1 DEF CheckFails
    <2>3. Expirable(k, s) => exStatus[s] \notin { "InvoicePending", "InvoicePaid" }
      BY DEF Expirable, InvoiceExpirable, CustomExpirable
    <2> QED BY <2>1, <2>2, <2>3 DEF PayingIsRecorded, ExTyped
  <1>2. ASSUME NEW s \in ExSwaps, NodeSetsInvoice(s) PROVE PayingIsRecorded'
    BY <1>2 DEF NodeSetsInvoice, exNode, PayingIsRecorded, ExTyped
  <1>3. ASSUME NEW s \in ExSwaps, NodeFindsLockup(s) PROVE PayingIsRecorded'
    BY <1>3 DEF NodeFindsLockup, exNode, PayingIsRecorded, ExTyped
  <1>4. ASSUME NEW s \in ExSwaps, NodeFetches(s) PROVE PayingIsRecorded'
    BY <1>4 DEF NodeFetches, exRows, PayingIsRecorded, ExTyped
  <1>5. ASSUME NEW s \in ExSwaps, NodePays(s) PROVE PayingIsRecorded'
    BY <1>5 DEF NodePays, PayingIsRecorded, ExTyped
  <1>6. ASSUME NEW s \in ExSwaps, NodeEndsPayment(s) PROVE PayingIsRecorded'
    BY <1>6 DEF NodeEndsPayment, PayingIsRecorded, ExTyped
  <1>7. CASE ExRestart
    BY <1>7 DEF ExRestart, exRows, PayingIsRecorded, ExTyped
  <1>8. CASE UNCHANGED << exStatus, exInvoice, exPay >>
    BY <1>8 DEF PayingIsRecorded
  <1>9. ASSUME NEW k \in Checkers, CheckLoads(k) \/ CheckSends(k) \/ CheckErrs(k)
        PROVE  UNCHANGED << exStatus, exInvoice, exPay >>
    BY <1>9 DEF CheckLoads, CheckSends, CheckErrs, exRows, exNode
  <1>10. ASSUME NEW t \in MrhTxs, MrhSees(t) \/ MrhAnswers(t)
         PROVE  UNCHANGED << exStatus, exInvoice, exPay >>
    BY <1>10 DEF MrhSees, MrhAnswers, exRows, exNode
  <1>11. ASSUME HandleSentSwapUpdate \/ ExStreamEnds \/ UNCHANGED exVars
                \/ \E s \in ExSwaps : TimePasses(s)
         PROVE  UNCHANGED << exStatus, exInvoice, exPay >>
    BY <1>11 DEF HandleSentSwapUpdate, ExStreamEnds, TimePasses, exVars, exRows, exNode
  <1> QED BY <1>1, <1>2, <1>3, <1>4, <1>5, <1>6, <1>7, <1>8, <1>9, <1>10, <1>11
             DEF ExNext

\* The shapes of the rows, the checkers and the channel.
LEMMA ExTypesStep ==
    ASSUME ExTyped, [ExNext]_exVars
    PROVE  ExTyped'
  <1>1. ASSUME NEW k \in Checkers, CheckLoads(k) \/ CheckErrs(k) PROVE ExTyped'
    BY <1>1, SMTT(60) DEF CheckLoads, CheckErrs, IdleChecker, exRows, exChannel, exNode, ExTyped
  <1>2. ASSUME NEW k \in Checkers, CheckSends(k) PROVE ExTyped'
    <2>1. exCheck[k].sending \in ExSwaps
      BY <1>2 DEF CheckSends, ExTyped
    <2>2. exBus' \in Seq(Updates)
      BY <1>2, <2>1, UpdateSent DEF CheckSends, exNode, Updates
    <2>3. exCheck' \in [Checkers -> [todo : SUBSET ExSwaps, sending : ExSwaps \cup { NoSwap }]]
      BY <1>2 DEF CheckSends, IdleChecker, ExTyped
    <2> QED BY <1>2, <2>2, <2>3 DEF CheckSends, exRows, exNode, ExTyped
  <1>3. ASSUME NEW k \in Checkers, NEW s \in ExSwaps, CheckFails(k, s) PROVE ExTyped'
    <2>1. exCheck' \in [Checkers -> [todo : SUBSET ExSwaps, sending : ExSwaps \cup { NoSwap }]]
      BY <1>3 DEF CheckFails, ExTyped
    <2>2. exStatus' \in [ExSwaps -> SwapUpdateEvent] /\ DOMAIN exReason' = ExSwaps
      BY <1>3 DEF CheckFails, ExTyped, SwapUpdateEvent
    <2> QED BY <1>3, <2>1, <2>2 DEF CheckFails, exChannel, exNode, ExTyped
  <1>4. ASSUME NEW t \in MrhTxs, MrhSees(t) PROVE ExTyped'
    BY <1>4 DEF MrhSees, exRows, exChannel, exNode, ExTyped
  <1>5. ASSUME NEW t \in MrhTxs, MrhAnswers(t) PROVE ExTyped'
    <2>1. exBus' \in Seq(Updates)
      BY <1>5, UpdateSent DEF MrhAnswers, exChannel, exNode, ExTyped, Updates
    <2> QED BY <1>5, <2>1 DEF MrhAnswers, exRows, exNode, ExTyped
  <1>6. CASE HandleSentSwapUpdate
    BY <1>6, SMTT(60) DEF HandleSentSwapUpdate, exRows, ExTyped
  <1>7. CASE ExStreamEnds
    <2>1. exBus' \in Seq(Updates)
      BY <1>7, SMTT(60) DEF ExStreamEnds
    <2> QED BY <1>7, <2>1 DEF ExStreamEnds, exRows, exNode, ExTyped
  <1>8. CASE ExRestart
    BY <1>8, SMTT(60) DEF ExRestart, IdleChecker, exRows, ExTyped
  <1>9. ASSUME NEW s \in ExSwaps,
               NodeSetsInvoice(s) \/ NodeFindsLockup(s) \/ NodePays(s) \/ NodeEndsPayment(s)
        PROVE  ExTyped'
    <2>1. exStatus' \in [ExSwaps -> SwapUpdateEvent]
      BY <1>9 DEF NodeSetsInvoice, NodeFindsLockup, NodePays, NodeEndsPayment, ExTyped,
                  SwapUpdateEvent
    <2> QED BY <1>9, <2>1 DEF NodeSetsInvoice, NodeFindsLockup, NodePays,
                              NodeEndsPayment, exChannel,
                              exNode, ExTyped
  <1>10. ASSUME NEW s \in ExSwaps, NodeFetches(s) \/ TimePasses(s) PROVE ExTyped'
    BY <1>10 DEF NodeFetches, TimePasses, exRows, exChannel, exNode, ExTyped
  <1>11. CASE UNCHANGED exVars
    BY <1>11 DEF exVars, ExTyped
  <1> QED BY <1>1, <1>2, <1>3, <1>4, <1>5, <1>6, <1>7, <1>8, <1>9, <1>10, <1>11
             DEF ExNext

\* Nothing that was told is forgotten, and what is decided is told.
LEMMA ExToldStep ==
    ASSUME ExTyped, ExTyped', DecisionIsTold, [ExNext]_exVars
    PROVE  DecisionIsTold'
  <1>1. ASSUME NEW k \in Checkers, CheckLoads(k) \/ CheckErrs(k) PROVE DecisionIsTold'
    <2>1. UNCHANGED << exReason, exMrh, exAnnounced, exMissed, exBus >>
      BY <1>1 DEF CheckLoads, CheckErrs, exRows, exChannel, exNode
    <2>2. \A j \in Checkers : exCheck'[j].sending = exCheck[j].sending
      BY <1>1, SMTT(60) DEF CheckLoads, CheckErrs, IdleChecker, ExTyped
    <2> QED BY <2>1, <2>2 DEF DecisionIsTold, Told
  <1>2. ASSUME NEW k \in Checkers, CheckSends(k) PROVE DecisionIsTold'
    <2>1. PICK s \in ExSwaps : s = exCheck[k].sending
      BY <1>2 DEF CheckSends, ExTyped
    <2>2. Told(<< "failed", s >>)' /\ \A u : Told(u) => Told(u)'
      BY <1>2, <2>1, UpdateSent DEF CheckSends, exNode, Updates
    <2>3. UNCHANGED << exReason, exMrh >>
      BY <1>2 DEF CheckSends, exRows
    <2>4. \A j \in Checkers : j # k => exCheck'[j] = exCheck[j]
      BY <1>2 DEF CheckSends, ExTyped
    <2> QED BY <2>1, <2>2, <2>3, <2>4 DEF DecisionIsTold
  <1>3. ASSUME NEW k \in Checkers, NEW s \in ExSwaps, CheckFails(k, s) PROVE DecisionIsTold'
    <2>1. UNCHANGED << exMrh, exAnnounced, exMissed, exBus >>
      BY <1>3 DEF CheckFails, exChannel, exNode
    <2>2. \A u : Told(u)' <=> Told(u)
      BY <2>1 DEF Told
    <2>3. CASE UNCHANGED exReason
      <3>1. exCheck[k].sending = NoSwap
        BY <1>3 DEF CheckFails
      <3>2. \A j \in Checkers : exCheck[j].sending \in ExSwaps => exCheck'[j].sending = exCheck[j].sending
        BY <1>3, <3>1, ExAssumption, SMTT(60) DEF CheckFails, ExTyped, NoSwap
      <3> QED BY <2>1, <2>2, <2>3, <3>2 DEF DecisionIsTold
    <2>4. CASE exReason' = [exReason EXCEPT ![s] = "expired"] /\ exCheck'[k].sending = s
      <3>1. exCheck[k].sending = NoSwap /\ NoSwap \notin ExSwaps
        BY <1>3, ExAssumption DEF CheckFails, NoSwap
      <3>2. \A j \in Checkers : j # k => exCheck'[j] = exCheck[j]
        BY <1>3 DEF CheckFails, ExTyped
      <3> QED BY <2>1, <2>2, <2>4, <3>1, <3>2, SMTT(60) DEF DecisionIsTold, ExTyped
    <2> QED BY <1>3, <2>3, <2>4, SMTT(60) DEF CheckFails, ExTyped
  <1>4. ASSUME NEW t \in MrhTxs, MrhSees(t) PROVE DecisionIsTold'
    <2>1. UNCHANGED << exReason, exCheck, exAnnounced, exMissed, exBus >>
      BY <1>4 DEF MrhSees, exRows, exChannel, exNode
    <2> QED BY <1>4, <2>1 DEF MrhSees, ExTyped, DecisionIsTold, Told
  <1>5. ASSUME NEW t \in MrhTxs, MrhAnswers(t) PROVE DecisionIsTold'
    <2>1. UNCHANGED << exReason, exCheck, exAnnounced >>
      BY <1>5 DEF MrhAnswers, exRows, exNode
    <2>2. \A u : Told(u) => Told(u)'
      BY <1>5, <2>1, UpdateSent DEF MrhAnswers, exChannel, Told, Updates
    <2>3. exMrh'[t] = "safe" => Told(<< "direct", t >>)'
      BY <1>5, <2>1, UpdateSent DEF MrhAnswers, ExTyped, Updates
    <2>4. \A v \in MrhTxs \ { t } : exMrh'[v] = exMrh[v]
      BY <1>5 DEF MrhAnswers, ExTyped
    <2> QED BY <2>1, <2>2, <2>3, <2>4 DEF DecisionIsTold
  <1>6. CASE HandleSentSwapUpdate
    <2>1. UNCHANGED << exReason, exCheck, exMrh >>
      BY <1>6 DEF HandleSentSwapUpdate, exRows
    <2>2. \A u : Told(u) => Told(u)'
      BY <1>6, RangeOfTail DEF HandleSentSwapUpdate, ExTyped, Told
    <2> QED BY <2>1, <2>2 DEF DecisionIsTold
  <1>7. CASE ExStreamEnds
    <2>1. UNCHANGED << exReason, exCheck, exMrh, exAnnounced >>
      BY <1>7 DEF ExStreamEnds, exRows, exNode
    <2>2. \A u : Told(u) => Told(u)'
      BY <1>7, <2>1 DEF ExStreamEnds, Told
    <2> QED BY <2>1, <2>2 DEF DecisionIsTold
  <1>8. CASE ExRestart
    <2>1. UNCHANGED << exReason, exAnnounced >> /\ \A t \in MrhTxs : exMrh'[t] = "safe" => exMrh[t] = "safe"
      BY <1>8 DEF ExRestart, exRows
    <2>2. \A u : Told(u) => Told(u)'
      BY <1>8 DEF ExRestart, exRows, Told
    <2>3. ASSUME NEW k \in Checkers, NEW s \in ExSwaps, exCheck[k].sending = s
          PROVE  Told(<< "failed", s >>)'
      BY <1>8, <2>3, ExAssumption DEF ExRestart, Told, NoSwap
    <2> QED BY <2>1, <2>2, <2>3 DEF DecisionIsTold
  <1>9. ASSUME NEW s \in ExSwaps,
               NodeSetsInvoice(s) \/ NodeFindsLockup(s) \/ NodeFetches(s) \/ NodePays(s)
               \/ NodeEndsPayment(s) \/ TimePasses(s)
        PROVE  DecisionIsTold'
    <2>1. UNCHANGED << exCheck, exMrh, exAnnounced, exMissed, exBus >>
      BY <1>9 DEF NodeSetsInvoice, NodeFindsLockup, NodeFetches, NodePays,
                  NodeEndsPayment,
                  TimePasses, exChannel, exNode
    <2>2. \A r \in ExSwaps : exReason'[r] = "expired" => exReason[r] = "expired"
      BY <1>9 DEF NodeSetsInvoice, NodeFindsLockup, NodeFetches, NodePays,
                  NodeEndsPayment,
                  TimePasses, exRows, ExTyped
    <2> QED BY <2>1, <2>2 DEF DecisionIsTold, Told
  <1>10. CASE UNCHANGED exVars
    BY <1>10 DEF exVars, DecisionIsTold, Told
  <1> QED BY <1>1, <1>2, <1>3, <1>4, <1>5, <1>6, <1>7, <1>8, <1>9, <1>10 DEF ExNext

\* However the checkers, the watcher, the stream and the backend interleave: a swap
\* whose invoice is being paid or was is not failed by a checker, and what the
\* sidecar decided is announced, on its way, or lost in one of the three ways
\* DecisionIsAnnounced names.
THEOREM DecisionsStand == ExSpec => []DecisionStands
  <1>1. ExInit => ExInv
    <2> SUFFICES ASSUME ExInit PROVE ExInv
      OBVIOUS
    <2>1. ExTyped
      BY SMTT(60) DEF ExInit, ExTyped, IdleChecker, SwapUpdateEvent
    <2> QED BY <2>1 DEF ExInit, ExInv, PayingIsRecorded, DecisionIsTold
  <1>2. ExInv /\ [ExNext]_exVars => ExInv'
    BY ExTypesStep, ExRowsStep, ExToldStep DEF ExInv
  <1>3. ExInv => DecisionStands
    <2> SUFFICES ASSUME ExInv PROVE DecisionStands
      OBVIOUS
    <2>1. PaidIsNotExpired
      BY DEF ExInv, PayingIsRecorded, PaidIsNotExpired
    <2>2. DecisionIsAnnounced
      BY DEF ExInv, DecisionIsTold, DecisionIsAnnounced, Told
    <2> QED BY <2>1, <2>2 DEF DecisionStands
  <1> QED BY <1>1, <1>2, <1>3, PTL DEF ExSpec

=============================================================================
