------------------------------ MODULE OfferApi ------------------------------
(***************************************************************************)
(* The HTTP API of BOLT12 offers and the decoding of invoices              *)
(* (boltzr/src/api/bolt12.rs, lightning/cln/hold.rs, lightning/cln/mod.rs, *)
(* lightning/invoice.rs, db/helpers/offer.rs, grpc decode_invoice_or_offer). *)
(* Handlers run concurrently; each query of the offers table is a step of  *)
(* its own, since nothing holds a transaction open between two of them.    *)
(*                                                                         *)
(* A text is << what it encodes, its letter case >>.  A signature is the   *)
(* key that made it with the message it signs.                             *)
(***************************************************************************)
EXTENDS Integers, FiniteSets

CONSTANTS
    OaTexts,        \* OaTexts[x]: what the text x encodes (Decoded)
    OaNetwork,      \* the network of the currency
    OaBolt12,       \* the currencies that have CLN
    OaRequests,     \* requests of the API
    OaTasks,        \* requests handled at the same time
    OaUrls,         \* OaUrls[u]: whether validate_url accepts the URL u
    OaHints,        \* OaHints[h]: routing hint of the swap with payment hash h
    OaTimeouts,     \* OaTimeouts[<<receiving, currency>>]: the lightning delta
    MaxMsat         \* largest amount of millisatoshis that u64 holds

NoUrl == "no url"
NoRow == [ offer |-> "none", case |-> "lower", url |-> NoUrl ]
NoHint == [ symbol |-> "none", script |-> "none", params |-> "none" ]
NoAmount == 0

\* What decoding a text gives; amount is in millisatoshis, NoAmount when absent.
Kinds == { "bolt11", "offer", "bolt12", "invalid" }
Signers == { OaTexts[x].signer : x \in DOMAIN OaTexts } \ { "none" }

ASSUME OaAssumption ==
    /\ \A x \in DOMAIN OaTexts : OaTexts[x].kind \in Kinds
    /\ MaxMsat \in Nat
    /\ \A r \in OaRequests : r.amount \in Nat

VARIABLES
    oaRows,     \* the table offers, keyed by signer
    oaAt,       \* what a task is doing
    oaReq,      \* the request of a task
    oaRow,      \* the row a fetch has read
    oaAnswer    \* the answer of a task

oaVars == << oaRows, oaAt, oaReq, oaRow, oaAnswer >>

NoAnswer == [ status |-> 0, invoice |-> "none", msat |-> 0, bip21 |-> NoHint,
              prefix |-> "none", decoded |-> "none", expired |-> FALSE ]
Status(n) == [ NoAnswer EXCEPT !.status = n ]

OaInit ==
    /\ oaRows = [ s \in Signers |-> NoRow ]
    /\ oaAt = [ t \in OaTasks |-> "idle" ]
    /\ oaReq = [ t \in OaTasks |-> CHOOSE r \in OaRequests : TRUE ]
    /\ oaRow = [ t \in OaTasks |-> NoRow ]
    /\ oaAnswer = [ t \in OaTasks |-> NoAnswer ]

-----------------------------------------------------------------------------
(* lightning/invoice.rs                                                    *)

\* parse: the three decoders in order; a text is of at most one kind.
ParseInvoice(x) == OaTexts[x[1]]

IsForNetwork(d, network) == network \in d.chains

\* decode, with kind "invalid" for both errors.
DecodeInvoice(x) ==
    LET d == ParseInvoice(x)
    IN  IF d.kind # "invalid" /\ IsForNetwork(d, OaNetwork) THEN d
        ELSE [ d EXCEPT !.kind = "invalid" ]

-----------------------------------------------------------------------------
(* Helpers of the handlers.                                                *)

ToLowercase(x) == [ offer |-> x[1], case |-> "lower" ]

\* The signer of an offer that may be registered, "none" on an error.
PrepareOffer(r) ==
    LET d == DecodeInvoice(r.text)
    IN  IF (r.url # NoUrl /\ ~OaUrls[r.url]) \/ d.kind # "offer" THEN "none"
        ELSE d.signer

\* A garbled signature is an error of another kind than a wrong one.
SignatureParses(r) == r.sig.key # "not hex"

SchnorrSignatureValid(r, message) ==
    r.sig = [ key |-> DecodeInvoice(r.text).signer, msg |-> message ]

UpdateMessage(r) == IF r.url = NoUrl THEN "UPDATE" ELSE r.url

\* offer_error_response
OfferErrorResponse(e) ==
    CASE e = "NoOfferRegistered" -> Status(404)
      [] e = "InvalidSignature" -> Status(401)
      [] OTHER -> Status(500)

HasCln(r) == r.currency \in OaBolt12
NoClnError == Status(404)

\* offer_amount_msat: -1 when the text holds none in Bitcoin.
OfferAmountMsat(x) ==
    LET d == DecodeInvoice(x)
    IN  IF d.kind = "offer" /\ d.unit = "bitcoin" THEN d.amount ELSE -1

OaAnswered(t, a) ==
    /\ oaAnswer' = [ oaAnswer EXCEPT ![t] = a ]
    /\ oaAt' = [ oaAt EXCEPT ![t] = "done" ]

OaMoves(t, at) ==
    /\ oaAt' = [ oaAt EXCEPT ![t] = at ]
    /\ UNCHANGED oaAnswer

-----------------------------------------------------------------------------
(* The handlers, up to their first query.                                  *)

Begins(t, r, op) ==
    /\ oaAt[t] = "idle" /\ r.op = op
    /\ oaReq' = [ oaReq EXCEPT ![t] = r ]
    /\ UNCHANGED << oaRows, oaRow >>

Create(t, r) ==
    /\ Begins(t, r, "create")
    /\ IF ~HasCln(r) THEN OaAnswered(t, NoClnError)
       ELSE IF PrepareOffer(r) = "none" THEN OaAnswered(t, Status(500))
       ELSE OaMoves(t, "create check")

Update(t, r) ==
    /\ Begins(t, r, "update")
    /\ IF ~SignatureParses(r) THEN OaAnswered(t, Status(422))
       ELSE IF ~HasCln(r) THEN OaAnswered(t, NoClnError)
       ELSE IF PrepareOffer(r) = "none" THEN OaAnswered(t, OfferErrorResponse("other"))
       ELSE OaMoves(t, "update check")

\* delete_offer prepares the offer without a URL.
Delete(t, r) ==
    /\ Begins(t, r, "delete")
    /\ IF ~SignatureParses(r) THEN OaAnswered(t, Status(422))
       ELSE IF ~HasCln(r) THEN OaAnswered(t, NoClnError)
       ELSE IF PrepareOffer([ r EXCEPT !.url = NoUrl ]) = "none"
            THEN OaAnswered(t, OfferErrorResponse("other"))
       ELSE OaMoves(t, "delete check")

\* The amount is one of satoshis; zero is refused when the body is parsed.
AssertNotZero(r) == r.amount # 0 \/ r.sats = FALSE
CheckedMul(n) == IF n * 1000 > MaxMsat THEN -1 ELSE n * 1000
FetchMsat(r) == IF r.sats THEN CheckedMul(r.amount) ELSE OfferAmountMsat(r.text)

Fetch(t, r) ==
    /\ Begins(t, r, "fetch")
    /\ IF ~AssertNotZero(r) \/ (r.sats /\ CheckedMul(r.amount) = -1)
       THEN OaAnswered(t, Status(422))
       ELSE IF ~HasCln(r) THEN OaAnswered(t, NoClnError)
       ELSE IF FetchMsat(r) = -1 THEN OaAnswered(t, Status(422))
       ELSE OaMoves(t, "fetch lookup")

Params(t, r) ==
    /\ Begins(t, r, "params")
    /\ LET p == << r.receiving, r.currency >>
       IN  OaAnswered(t, IF p \in DOMAIN OaTimeouts
                         THEN [ Status(200) EXCEPT !.msat = OaTimeouts[p] ]
                         ELSE Status(404))

\* grpc decode_invoice_or_offer, with the codes of gRPC.
DecodeInvoiceOrOffer(t, r) ==
    /\ Begins(t, r, "decode")
    /\ LET d == DecodeInvoice(r.text)
       IN  OaAnswered(t,
             IF d.kind = "invalid" \/ (d.kind = "offer" /\ d.unit = "other")
             THEN Status(3)
             ELSE [ NoAnswer EXCEPT !.decoded = d.kind, !.msat = d.amount,
                                    !.expired = d.expired ])

-----------------------------------------------------------------------------
(* The queries of create, update and delete.                               *)

SignerOf(t) == DecodeInvoice(oaReq[t].text).signer
GetBySigner(s) == oaRows[s]

CreateCheck(t) ==
    /\ oaAt[t] = "create check"
    /\ IF GetBySigner(SignerOf(t)) # NoRow THEN OaAnswered(t, Status(500))
       ELSE OaMoves(t, "insert")
    /\ UNCHANGED << oaRows, oaReq, oaRow >>

UpdateCheck(t) ==
    /\ oaAt[t] = "update check"
    /\ IF GetBySigner(SignerOf(t)) = NoRow
       THEN OaAnswered(t, OfferErrorResponse("NoOfferRegistered"))
       ELSE IF ~SchnorrSignatureValid(oaReq[t], UpdateMessage(oaReq[t]))
       THEN OaAnswered(t, OfferErrorResponse("InvalidSignature"))
       ELSE OaMoves(t, "update")
    /\ UNCHANGED << oaRows, oaReq, oaRow >>

DeleteCheck(t) ==
    /\ oaAt[t] = "delete check"
    /\ IF GetBySigner(SignerOf(t)) = NoRow
       THEN OaAnswered(t, OfferErrorResponse("NoOfferRegistered"))
       ELSE IF ~SchnorrSignatureValid(oaReq[t], "DELETE")
       THEN OaAnswered(t, OfferErrorResponse("InvalidSignature"))
       ELSE OaMoves(t, "delete")
    /\ UNCHANGED << oaRows, oaReq, oaRow >>

RowOf(r) ==
    [ offer |-> ToLowercase(r.text).offer, case |-> ToLowercase(r.text).case,
      url |-> r.url ]

\* A mutant: an insert replaces the row of the signer.
InsertOverwrites(t) ==
    /\ oaAt[t] = "insert"
    /\ oaRows' = [ oaRows EXCEPT ![SignerOf(t)] = RowOf(oaReq[t]) ]
    /\ OaAnswered(t, Status(201))
    /\ UNCHANGED << oaReq, oaRow >>

\* The signer is the primary key: a second insert fails.
OfferInsert(t) ==
    /\ oaAt[t] = "insert"
    /\ IF oaRows[SignerOf(t)] # NoRow
       THEN UNCHANGED oaRows /\ OaAnswered(t, Status(500))
       ELSE /\ oaRows' = [ oaRows EXCEPT ![SignerOf(t)] = RowOf(oaReq[t]) ]
            /\ OaAnswered(t, Status(201))
    /\ UNCHANGED << oaReq, oaRow >>

\* The number of rows a query changed is not looked at.
OfferUpdate(t) ==
    /\ oaAt[t] = "update"
    /\ oaRows' = [ oaRows EXCEPT ![SignerOf(t)] =
                     IF @ = NoRow THEN @ ELSE [ @ EXCEPT !.url = oaReq[t].url ] ]
    /\ OaAnswered(t, Status(200))
    /\ UNCHANGED << oaReq, oaRow >>

OfferDelete(t) ==
    /\ oaAt[t] = "delete"
    /\ oaRows' = [ oaRows EXCEPT ![SignerOf(t)] = NoRow ]
    /\ OaAnswered(t, Status(200))
    /\ UNCHANGED << oaReq, oaRow >>

-----------------------------------------------------------------------------
(* Cln::fetch_invoice                                                      *)

\* get_offer: looked up by the lower-case text, not by the signer.
GetOffer(x) ==
    LET found == { s \in Signers :
                     oaRows[s].offer = ToLowercase(x).offer
                     /\ oaRows[s].case = ToLowercase(x).case }
    IN  IF found = {} THEN NoRow ELSE oaRows[CHOOSE s \in found : TRUE]

FetchLookup(t) ==
    /\ oaAt[t] = "fetch lookup"
    /\ oaRow' = [ oaRow EXCEPT ![t] = GetOffer(oaReq[t].text) ]
    /\ OaMoves(t, IF GetOffer(oaReq[t].text) = NoRow THEN "cln" ELSE "hold")
    /\ UNCHANGED << oaRows, oaReq >>

\* get_routing_hint, and the prefix of bip21::encode.
GetRoutingHint(h) == IF h \in DOMAIN OaHints THEN OaHints[h] ELSE NoHint

Bip21Prefix(hint) ==
    CASE hint = NoHint -> "none"
      [] hint.symbol = "L-BTC" /\ OaNetwork = "testnet" -> "liquidtestnet"
      [] hint.symbol = "L-BTC" /\ OaNetwork # "testnet" -> "liquidnetwork"
      [] OTHER -> "bitcoin"

\* Type::from_str and encode_address fail for a symbol that has no addresses.
HintEncodes(hint) == hint = NoHint \/ hint.symbol \in { "BTC", "L-BTC" }

FetchAnswer(t, x) ==
    LET hint == GetRoutingHint(DecodeInvoice(x).hash)
    IN  IF ~HintEncodes(hint) THEN Status(500)
        ELSE [ Status(201) EXCEPT !.invoice = x[1], !.msat = FetchMsat(oaReq[t]),
                                  !.bip21 = hint, !.prefix = Bip21Prefix(hint) ]

\* The hold plugin asks the client of the offer and refuses the invoice of
\* another signer.
HoldFetchInvoice(t, x) ==
    /\ oaAt[t] = "hold"
    /\ OaAnswered(t,
         IF DecodeInvoice(<< oaRow[t].offer, oaRow[t].case >>).kind = "offer"
            /\ DecodeInvoice(x).kind = "bolt12"
            /\ DecodeInvoice(x).signer
                 = DecodeInvoice(<< oaRow[t].offer, oaRow[t].case >>).signer
         THEN FetchAnswer(t, x) ELSE Status(500))
    /\ UNCHANGED << oaRows, oaReq, oaRow >>

\* CLN asks over the network and answers with an invoice of the offer's signer,
\* which is decoded once more.
ClnFetchInvoice(t, x) ==
    /\ oaAt[t] = "cln"
    /\ ParseInvoice(x).signer = ParseInvoice(oaReq[t].text).signer
    /\ OaAnswered(t, IF DecodeInvoice(x).kind = "bolt12" THEN FetchAnswer(t, x)
                     ELSE Status(500))
    /\ UNCHANGED << oaRows, oaReq, oaRow >>

FetchFails(t) ==
    /\ oaAt[t] \in { "hold", "cln" }
    /\ OaAnswered(t, Status(500))
    /\ UNCHANGED << oaRows, oaReq, oaRow >>

-----------------------------------------------------------------------------
OaBegin(t, r) ==
    \/ Create(t, r) \/ Update(t, r) \/ Delete(t, r)
    \/ Fetch(t, r) \/ Params(t, r) \/ DecodeInvoiceOrOffer(t, r)

OaInvoices == { x \in DOMAIN OaTexts : OaTexts[x].kind # "offer" } \X { "lower" }

OaNext ==
    \E t \in OaTasks :
        \/ \E r \in OaRequests : OaBegin(t, r)
        \/ CreateCheck(t) \/ UpdateCheck(t) \/ DeleteCheck(t)
        \/ OfferInsert(t) \/ OfferUpdate(t) \/ OfferDelete(t)
        \/ FetchLookup(t) \/ FetchFails(t)
        \/ \E x \in OaInvoices : HoldFetchInvoice(t, x) \/ ClnFetchInvoice(t, x)

OaSpec == OaInit /\ [][OaNext]_oaVars

-----------------------------------------------------------------------------
\* The type of the table and of the tasks.
OaTypeOK ==
    /\ DOMAIN oaRows = Signers
    /\ \A s \in Signers : oaRows[s].offer \in DOMAIN OaTexts \cup { "none" }
    /\ \A t \in OaTasks :
         /\ oaReq[t] \in OaRequests
         /\ oaAt[t] \in { "idle", "create check", "update check", "delete check",
                          "insert", "update", "delete", "fetch lookup", "hold",
                          "cln", "done" }
         /\ oaAnswer[t].status \in { 0, 3, 200, 201, 401, 404, 422, 500 }

AnsweredWith(s, op, status) ==
    { t \in OaTasks : oaAt[t] = "done" /\ oaReq[t].op = op
                      /\ oaAnswer[t].status = status /\ SignerOf(t) = s }

\* add_offer looks for the signer and inserts in two queries.  An offer whose
\* registration was answered with success stays until a delete of its signer is
\* answered with success: no other create replaces it.
RegisteredIsKept ==
    \A s \in Signers :
        LET created == Cardinality(AnsweredWith(s, "create", 201))
            deleted == Cardinality(AnsweredWith(s, "delete", 200))
        IN  /\ created <= deleted + 1
            /\ oaRows[s] = NoRow => created <= deleted
            /\ oaRows[s] # NoRow => created > 0

\* A row is of its signer's offer, in lower case so that get_offer finds it, and
\* its URL was accepted by validate_url and given by the create or by an update
\* that the signer signed, never by a delete.
RowIsAuthorized ==
    \A s \in Signers : oaRows[s] # NoRow =>
        LET row == oaRows[s]
        IN  /\ OaTexts[row.offer].signer = s /\ row.case = "lower"
            /\ row.url # NoUrl => OaUrls[row.url]
            /\ \/ \E t \in AnsweredWith(s, "create", 201) :
                     oaReq[t].url = row.url /\ oaReq[t].text[1] = row.offer
               \/ \E t \in AnsweredWith(s, "update", 200) :
                     /\ oaReq[t].url = row.url
                     /\ oaReq[t].sig.key = s /\ oaReq[t].sig.msg # "DELETE"

\* An invoice answered to a fetch decodes as a BOLT12 invoice of the signer of the
\* offer that was asked for, and the routing hint next to it is of the swap with
\* the invoice's payment hash.
FetchedIsOfOffer ==
    \A t \in OaTasks :
        (oaReq[t].op = "fetch" /\ oaAnswer[t].status = 201) =>
            LET d == OaTexts[oaAnswer[t].invoice]
                hint == oaAnswer[t].bip21
            IN  /\ d.kind = "bolt12" /\ OaNetwork \in d.chains
                /\ d.signer = OaTexts[oaReq[t].text[1]].signer
                /\ hint # NoHint => hint = OaHints[d.hash]
                /\ (hint # NoHint /\ hint.symbol = "BTC")
                     <=> oaAnswer[t].prefix = "bitcoin"
                /\ oaAnswer[t].msat <= MaxMsat /\ oaAnswer[t].msat > 0

\* A registered offer is kept, only its signer changes it, and an invoice is of its offer.
OffersAreSound == RegisteredIsKept /\ RowIsAuthorized /\ FetchedIsOfOffer
=============================================================================
