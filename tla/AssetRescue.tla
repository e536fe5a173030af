---------------------------- MODULE AssetRescue ----------------------------
(***************************************************************************)
(* Rescuing another asset that was sent to the address of a Liquid swap    *)
(* (boltzr/src/swap/asset_rescue.rs).  create builds a transaction that    *)
(* spends the asset, and an output of the wallet for the fee, and hands    *)
(* out a MuSig2 nonce; broadcast adds the signature of the client to the   *)
(* one made with that nonce.  Between the two calls the secret nonce and   *)
(* the reservation of the wallet's output are in a cache (boltz-cache),    *)
(* each for 15 seconds.  Calls of many clients interleave at every await.  *)
(***************************************************************************)
EXTENDS Naturals, FiniteSets, TLAPS

CONSTANTS
    Creates,        \* calls of create; each generates one nonce
    CreateSwap,     \* the swap of a call
    Broadcasts,     \* calls of broadcast
    BroadcastOf,    \* the call of create whose answer a broadcast uses
    Utxos           \* outputs of the wallet

ASSUME ArAssumption ==
    /\ DOMAIN CreateSwap = Creates /\ BroadcastOf \in [Broadcasts -> Creates]
    /\ Creates \cap { "none", "nobody" } = {} /\ "none" \notin Utxos

VARIABLES
    arCreate,       \* create -> [at, utxo]
    arBroadcast,    \* broadcast -> [at, nonce, utxo]
    arPending,      \* swap -> its PendingRescue in the cache
    arReserved,     \* utxo -> its reservation in the cache
    arMutex,        \* who holds utxo_mutex
    arUnspent,      \* outputs list_unspent returns
    arUsed,         \* create -> signatures made with its nonce
    arLapsed,       \* outputs whose reservation expired while it was needed
    arListed,       \* what list_unspent returned to the call with the mutex
    arStale         \* outputs that were taken from a listing after they were spent

listingVars == << arListed, arStale >>
arVars == << arCreate, arBroadcast, arPending, arReserved, arMutex, arUnspent,
             arUsed, arLapsed, listingVars >>

RescueSwaps == { CreateSwap[c] : c \in Creates }
NoRescue == [nonce |-> "none", utxo |-> "none", expired |-> FALSE]
Nobody == "nobody"

ArInit ==
    /\ arCreate = [c \in Creates |-> [at |-> "new", utxo |-> "none"]]
    /\ arBroadcast = [b \in Broadcasts |-> [at |-> "new", nonce |-> "none", utxo |-> "none"]]
    /\ arPending = [s \in RescueSwaps |-> NoRescue]
    /\ arReserved = [u \in Utxos |-> "no"] /\ arMutex = Nobody
    /\ arUnspent = Utxos
    /\ arUsed = [c \in Creates |-> 0] /\ arLapsed = {}
    /\ arListed = {} /\ arStale = {}

CreateAt(c, at) == arCreate[c].at = at
CreateGoes(c, at) == arCreate' = [arCreate EXCEPT ![c].at = at]

-----------------------------------------------------------------------------
(* create.                                                                 *)

\* Cache.get of the pending rescue.  An expired one is no longer there for the
\* call; MemCache removes it in a step of its own.
CreateChecksPending(c) ==
    LET pending == arPending[CreateSwap[c]]
    IN  /\ CreateAt(c, "new")
        /\ CreateGoes(c, IF pending = NoRescue THEN "checked"
                         ELSE IF pending.expired THEN "removing" ELSE "failed")
        /\ UNCHANGED << arBroadcast, arPending, arReserved, arMutex, arUnspent, arUsed,
                        arLapsed, listingVars >>

\* What is removed is whatever is there by now.
CreateRemovesExpired(c) ==
    /\ CreateAt(c, "removing") /\ CreateGoes(c, "checked")
    /\ arPending' = [arPending EXCEPT ![CreateSwap[c]] = NoRescue]
    /\ UNCHANGED << arBroadcast, arReserved, arMutex, arUnspent, arUsed, arLapsed, listingVars >>

\* The swap is not eligible, no output is free, or a query or a request to the
\* node fails.  Once an output is reserved it stays so until the reservation expires.
CreateFails(c) ==
    /\ arCreate[c].at \in { "checked", "listed", "found", "reserved" }
    /\ CreateGoes(c, "failed")
    /\ arMutex' = IF arMutex = c THEN Nobody ELSE arMutex
    /\ arListed' = IF arMutex = c THEN {} ELSE arListed
    /\ UNCHANGED << arBroadcast, arPending, arReserved, arUnspent, arUsed, arLapsed,
                    arStale >>

\* find_funding_utxo takes the mutex and asks the wallet for its outputs.
ListUnspent(c) ==
    /\ CreateAt(c, "checked") /\ arMutex = Nobody
    /\ CreateGoes(c, "listed") /\ arMutex' = c /\ arListed' = arUnspent
    /\ UNCHANGED << arBroadcast, arPending, arReserved, arUnspent, arUsed, arLapsed,
                    arStale >>

\* It takes the first output of the listing whose reservation it does not find.
\* broadcast takes no mutex: it may have spent the output and deleted the
\* reservation since the listing was made.
FindFundingUtxo(c, u) ==
    /\ CreateAt(c, "listed")
    /\ u \in arListed /\ arReserved[u] # "held"
    /\ arCreate' = [arCreate EXCEPT ![c] = [at |-> "found", utxo |-> u]]
    /\ arListed' = {}
    /\ arStale' = IF u \in arUnspent THEN arStale ELSE arStale \cup { u }
    /\ UNCHANGED << arBroadcast, arPending, arReserved, arMutex, arUnspent, arUsed,
                    arLapsed >>

\* The reservation is set, and the mutex is released.
ReserveUtxo(c) ==
    /\ CreateAt(c, "found") /\ CreateGoes(c, "reserved")
    /\ arReserved' = [arReserved EXCEPT ![arCreate[c].utxo] = "held"]
    /\ arMutex' = IF arMutex = c THEN Nobody ELSE arMutex
    /\ UNCHANGED << arBroadcast, arPending, arUnspent, arUsed, arLapsed, listingVars >>

\* The transaction is constructed and a nonce generated; both are stored, over
\* what another call for the swap stored since the check.
StorePending(c) ==
    /\ CreateAt(c, "reserved") /\ CreateGoes(c, "done")
    /\ arPending' = [arPending EXCEPT ![CreateSwap[c]] =
                       [nonce |-> c, utxo |-> arCreate[c].utxo, expired |-> FALSE]]
    /\ UNCHANGED << arBroadcast, arReserved, arMutex, arUnspent, arUsed, arLapsed, listingVars >>

-----------------------------------------------------------------------------
(* broadcast.                                                              *)

BroadcastAt(b, at) == arBroadcast[b].at = at

\* A mutant: the pending rescue is read and deleted when the call is done.
TakePendingAsGet(b) ==
    LET pending == arPending[CreateSwap[BroadcastOf[b]]]
    IN  /\ BroadcastAt(b, "new") /\ CreateAt(BroadcastOf[b], "done")
        /\ arBroadcast' = [arBroadcast EXCEPT ![b] =
             IF pending = NoRescue \/ pending.expired THEN [@ EXCEPT !.at = "failed"]
             ELSE [at |-> "taken", nonce |-> pending.nonce, utxo |-> pending.utxo]]
        /\ UNCHANGED << arCreate, arPending, arReserved, arMutex, arUnspent, arUsed,
                        arLapsed, listingVars >>

\* Cache.take removes what it returns.
TakePending(b) ==
    LET s == CreateSwap[BroadcastOf[b]]
    IN  /\ BroadcastAt(b, "new") /\ CreateAt(BroadcastOf[b], "done")
        /\ arPending' = [arPending EXCEPT ![s] = NoRescue]
        /\ arBroadcast' = [arBroadcast EXCEPT ![b] =
             IF arPending[s] = NoRescue \/ arPending[s].expired
             THEN [@ EXCEPT !.at = "failed"]
             ELSE [at |-> "taken", nonce |-> arPending[s].nonce,
                   utxo |-> arPending[s].utxo]]
        /\ UNCHANGED << arCreate, arReserved, arMutex, arUnspent, arUsed, arLapsed, listingVars >>

\* partial_add: a signature the client made in the session of another nonce does
\* not verify, and nothing is signed.
partial_verify(b) == BroadcastOf[b] = arBroadcast[b].nonce

\* partial_sign uses the nonce.  The signatures are aggregated, the wallet signs
\* its input, and the transaction is sent: it is valid while both outputs are
\* unspent.  Any of it may fail, and the end is the same.
SignAndSend(b) ==
    LET nonce == arBroadcast[b].nonce
    IN  /\ BroadcastAt(b, "taken")
        /\ arBroadcast' = [arBroadcast EXCEPT ![b].at = "signed"]
        /\ IF partial_verify(b)
           THEN /\ arUsed' = [arUsed EXCEPT ![nonce] = @ + 1]
                /\ arUnspent' \in { arUnspent, arUnspent \ { arBroadcast[b].utxo } }
           ELSE UNCHANGED << arUsed, arUnspent >>
        /\ UNCHANGED << arCreate, arPending, arReserved, arMutex, arLapsed, listingVars >>

\* The reservation is deleted, also one that another call holds by now.
ReleaseUtxo(b) ==
    /\ BroadcastAt(b, "signed")
    /\ arBroadcast' = [arBroadcast EXCEPT ![b].at = "done"]
    /\ arReserved' = [arReserved EXCEPT ![arBroadcast[b].utxo] = "no"]
    /\ UNCHANGED << arCreate, arPending, arMutex, arUnspent, arUsed, arLapsed, listingVars >>

\* Loading the swap fails after the pending rescue was taken: the reservation
\* is left to expire.
BroadcastFails(b) ==
    /\ BroadcastAt(b, "taken")
    /\ arBroadcast' = [arBroadcast EXCEPT ![b].at = "failed"]
    /\ UNCHANGED << arCreate, arPending, arReserved, arMutex, arUnspent, arUsed,
                    arLapsed, listingVars >>

-----------------------------------------------------------------------------
(* Time.                                                                   *)

\* Somebody counts on the output: a call that is under way, or a pending rescue.
Needed(u) ==
    \/ \E c \in Creates : CreateAt(c, "reserved") /\ arCreate[c].utxo = u
    \/ \E b \in Broadcasts : arBroadcast[b].at \in { "taken", "signed" }
                             /\ arBroadcast[b].utxo = u
    \/ \E s \in RescueSwaps : arPending[s].utxo = u /\ ~arPending[s].expired

\* The reservation was set first and so expires first.
ReservationExpires(u) ==
    /\ arReserved[u] = "held" /\ arReserved' = [arReserved EXCEPT ![u] = "no"]
    /\ arLapsed' = IF Needed(u) THEN arLapsed \cup { u } ELSE arLapsed
    /\ UNCHANGED << arCreate, arBroadcast, arPending, arMutex, arUnspent, arUsed,
                    listingVars >>

PendingRescueExpires(s) ==
    /\ arPending[s] # NoRescue /\ ~arPending[s].expired
    /\ arPending' = [arPending EXCEPT ![s].expired = TRUE]
    /\ UNCHANGED << arCreate, arBroadcast, arReserved, arMutex, arUnspent, arUsed,
                    arLapsed, listingVars >>

ArNext ==
    \/ \E c \in Creates :
         \/ CreateChecksPending(c) \/ CreateRemovesExpired(c) \/ CreateFails(c)
         \/ ListUnspent(c) \/ ReserveUtxo(c) \/ StorePending(c)
         \/ \E u \in Utxos : FindFundingUtxo(c, u)
    \/ \E b \in Broadcasts :
         TakePending(b) \/ SignAndSend(b) \/ ReleaseUtxo(b) \/ BroadcastFails(b)
    \/ \E u \in Utxos : ReservationExpires(u)
    \/ \E s \in RescueSwaps : PendingRescueExpires(s)

ArSpec == ArInit /\ [][ArNext]_arVars

-----------------------------------------------------------------------------
\* The mutex is held by the call between listing and reserving an output, and
\* pending rescues are those of finished calls.
ArTypeOK ==
    /\ \A c \in Creates : arCreate[c].at \in { "listed", "found" } <=> arMutex = c
    /\ arListed # {} => \E c \in Creates : CreateAt(c, "listed")
    /\ \A s \in RescueSwaps : arPending[s] # NoRescue =>
         /\ CreateAt(arPending[s].nonce, "done")
         /\ CreateSwap[arPending[s].nonce] = s /\ arPending[s].utxo \in Utxos
    /\ arReserved \in [Utxos -> { "no", "held" }] /\ arUnspent \subseteq Utxos
    /\ arUsed \in [Creates -> Nat]
    /\ arLapsed \subseteq Utxos /\ arListed \subseteq Utxos /\ arStale \subseteq Utxos

\* "The nonce MUST be used to produce at most one partial signature"
\* (boltz-core/src/musig.rs): calls of broadcast for one swap, with whatever
\* nonces of the client, never sign twice with a nonce that create handed out.
NonceSignsOnce == \A c \in Creates : arUsed[c] <= 1

\* The output of the wallet in a pending rescue is reserved, and no other rescue
\* and no call of broadcast counts on it, unless the reservation expired before
\* the rescue did.  The output is unspent as well, unless it was spent between the
\* listing and the look at its reservation: then the broadcast of the rescue fails.
RescueOwnsUtxo ==
    \A s \in RescueSwaps :
      LET u == arPending[s].utxo
      IN  (arPending[s] # NoRescue /\ ~arPending[s].expired) =>
            \/ u \in arLapsed
            \/ /\ arReserved[u] = "held"
               /\ \A t \in RescueSwaps \ { s } : arPending[t].utxo = u => arPending[t].expired
               /\ \A b \in Broadcasts :
                    arBroadcast[b].at \in { "taken", "signed" } => arBroadcast[b].utxo # u
               /\ u \in arUnspent \/ u \in arStale

\* What a rescue reserved belongs to it alone: its nonce and its output of the wallet.
RescueIsExclusive == NonceSignsOnce /\ RescueOwnsUtxo

-----------------------------------------------------------------------------
(* Proof: a rescue has its nonce and its output alone.                     *)

CreateCalls ==
    [at : { "new", "removing", "checked", "listed", "found", "reserved", "done", "failed" },
     utxo : Utxos \cup { "none" }]
BroadcastCalls ==
    [at : { "new", "taken", "signed", "done", "failed" }, nonce : Creates \cup { "none" },
     utxo : Utxos \cup { "none" }]
PendingRescues ==
    [nonce : Creates \cup { "none" }, utxo : Utxos \cup { "none" }, expired : BOOLEAN]

ArTyped ==
    /\ arCreate \in [Creates -> CreateCalls] /\ arBroadcast \in [Broadcasts -> BroadcastCalls]
    /\ arPending \in [RescueSwaps -> PendingRescues]
    /\ arReserved \in [Utxos -> { "no", "held" }] /\ arUsed \in [Creates -> Nat]
    /\ arUnspent \subseteq Utxos /\ arListed \subseteq Utxos

\* What is pending has the nonce and the output of a call of create.
PendingIsComplete ==
    /\ \A c \in Creates : CreateAt(c, "reserved") => arCreate[c].utxo \in Utxos
    /\ \A s \in RescueSwaps : arPending[s] # NoRescue => arPending[s].utxo \in Utxos

-----------------------------------------------------------------------------
(* Nonces.                                                                 *)

Takes(b, c) == BroadcastAt(b, "taken") /\ arBroadcast[b].nonce = c
UnusedNonce(c) == CreateAt(c, "done") /\ arUsed[c] = 0

\* A nonce that was not used is generated once and is in one place: with the
\* pending rescue of its swap, or with the call of broadcast that took it.
NoncesAreFresh ==
    /\ \A c \in Creates : arUsed[c] <= 1 /\ (CreateAt(c, "done") \/ arUsed[c] = 0)
    /\ \A s \in RescueSwaps, c \in Creates : arPending[s].nonce = c =>
         UnusedNonce(c) /\ CreateSwap[c] = s /\ \A b \in Broadcasts : ~Takes(b, c)
    /\ \A b \in Broadcasts, c \in Creates : Takes(b, c) =>
         UnusedNonce(c) /\ \A d \in Broadcasts : Takes(d, c) => d = b

-----------------------------------------------------------------------------
(* Outputs of the wallet.                                                  *)

\* Who counts on an output: a call of create that reserved it, a call of broadcast,
\* a pending rescue.
CreateHas(c, u) == CreateAt(c, "reserved") /\ arCreate[c].utxo = u
BroadcastHas(b, u) == arBroadcast[b].at \in { "taken", "signed" } /\ arBroadcast[b].utxo = u
PendingHas(s, u) == arPending[s].utxo = u /\ ~arPending[s].expired

\* The output was not spent behind the back of the call that took it.
Unspent(u) == u \in arUnspent \/ u \in arStale

\* One call at a time lists and finds, and what it found nobody reserved.
FoundIsFree ==
    /\ \A c \in Creates : CreateAt(c, "listed") \/ CreateAt(c, "found") => arMutex = c
    /\ \A c \in Creates : CreateAt(c, "found") =>
         /\ arCreate[c].utxo \in Utxos
         /\ arCreate[c].utxo \in arLapsed
            \/ (Unspent(arCreate[c].utxo) /\ arReserved[arCreate[c].utxo] = "no")

\* An output of which no reservation lapsed is reserved while somebody counts on
\* it, only one does, and it is unspent until that one sent its transaction.
OneOwner ==
    \A u \in Utxos \ arLapsed :
      /\ \A c \in Creates : CreateHas(c, u) =>
           /\ arReserved[u] = "held" /\ Unspent(u)
           /\ \A d \in Creates : CreateHas(d, u) => d = c
           /\ \A b \in Broadcasts : ~BroadcastHas(b, u)
           /\ \A s \in RescueSwaps : ~PendingHas(s, u)
      /\ \A b \in Broadcasts : BroadcastHas(b, u) =>
           /\ arReserved[u] = "held" /\ (BroadcastAt(b, "taken") => Unspent(u))
           /\ \A d \in Broadcasts : BroadcastHas(d, u) => d = b
           /\ \A s \in RescueSwaps : ~PendingHas(s, u)
      /\ \A s \in RescueSwaps : PendingHas(s, u) =>
           /\ arReserved[u] = "held" /\ Unspent(u)
           /\ \A t \in RescueSwaps : PendingHas(t, u) => t = s

ArInv == ArTyped /\ PendingIsComplete /\ NoncesAreFresh /\ FoundIsFree /\ OneOwner

\* Zenon is tried on every step that names no prover; most steps with arithmetic name SMT.
USE ZenonT(120)

\* The swap of a call is one of those with a cache entry.
LEMMA CreateSwapIsRescueSwap == \A c \in Creates : CreateSwap[c] \in RescueSwaps
  BY DEF RescueSwaps


\* A call of create goes on: its output and the other calls stay.
LEMMA CreateMoves ==
    ASSUME ArTyped, NEW c \in Creates,
           NEW at \in { "checked", "listed", "removing", "reserved", "done", "failed" }, CreateGoes(c, at)
    PROVE  /\ arCreate' \in [Creates -> CreateCalls]
           /\ arCreate'[c].at = at /\ arCreate'[c].utxo = arCreate[c].utxo
           /\ \A d \in Creates \ { c } : arCreate'[d] = arCreate[d]
  <1>1. arCreate[c] \in CreateCalls /\ arCreate' = [arCreate EXCEPT ![c] = [@ EXCEPT !.at = at]]
    BY DEF ArTyped, CreateGoes
  <1>2. [arCreate[c] EXCEPT !.at = at] \in CreateCalls
        /\ [arCreate[c] EXCEPT !.at = at].at = at
        /\ [arCreate[c] EXCEPT !.at = at].utxo = arCreate[c].utxo
    BY <1>1 DEF CreateCalls
  <1> QED BY <1>1, <1>2 DEF ArTyped

\* The same for a call of broadcast.
LEMMA BroadcastMoves ==
    ASSUME ArTyped, NEW b \in Broadcasts, NEW at \in { "signed", "done", "failed" },
           arBroadcast' = [arBroadcast EXCEPT ![b].at = at]
    PROVE  /\ arBroadcast' \in [Broadcasts -> BroadcastCalls]
           /\ arBroadcast'[b].at = at /\ arBroadcast'[b].utxo = arBroadcast[b].utxo
           /\ \A d \in Broadcasts \ { b } : arBroadcast'[d] = arBroadcast[d]
  <1>1. arBroadcast[b] \in BroadcastCalls
        /\ arBroadcast' = [arBroadcast EXCEPT ![b] = [@ EXCEPT !.at = at]]
    BY DEF ArTyped
  <1>2. [arBroadcast[b] EXCEPT !.at = at] \in BroadcastCalls
        /\ [arBroadcast[b] EXCEPT !.at = at].at = at
        /\ [arBroadcast[b] EXCEPT !.at = at].utxo = arBroadcast[b].utxo
    BY <1>1 DEF BroadcastCalls
  <1> QED BY <1>1, <1>2 DEF ArTyped

\* What is not there is no rescue.
LEMMA NoRescueHasNothing ==
    /\ NoRescue \in PendingRescues /\ NoRescue.nonce \notin Creates /\ NoRescue.utxo \notin Utxos
  BY ArAssumption DEF NoRescue, PendingRescues

\* create fails, or goes on without touching a reservation or the cache.
LEMMA CreateChecksOrFails ==
    ASSUME ArInv, NEW c \in Creates, CreateChecksPending(c) \/ CreateFails(c)
    PROVE  ArInv'
  <1>1. /\ UNCHANGED << arBroadcast, arPending, arReserved, arUnspent, arUsed, arLapsed, arStale >>
        /\ arMutex' = arMutex
           \/ (arMutex = c /\ arCreate[c].at \in { "checked", "listed", "found", "reserved" })
        /\ arListed' \in { arListed, {} } /\ arCreate[c].at # "done"
    BY DEF CreateChecksPending, CreateFails, CreateAt, listingVars
  <1>2. PICK at \in { "checked", "removing", "failed" } : CreateGoes(c, at)
    BY DEF CreateChecksPending, CreateFails
  <1>3. /\ arCreate' \in [Creates -> CreateCalls] /\ arCreate'[c].at = at
        /\ \A d \in Creates \ { c } : arCreate'[d] = arCreate[d]
    BY <1>2, CreateMoves DEF ArInv
  <1>4. ArTyped' /\ PendingIsComplete'
    BY <1>1, <1>2, <1>3 DEF ArInv, ArTyped, PendingIsComplete, CreateAt
  <1>5. NoncesAreFresh'
    BY <1>1, <1>2, <1>3, SMTT(60) DEF ArInv, NoncesAreFresh, UnusedNonce, Takes, CreateAt, BroadcastAt
  <1>6. FoundIsFree'
    BY <1>1, <1>2, <1>3 DEF ArInv, FoundIsFree, Unspent, CreateAt
  <1>7. OneOwner'
    BY <1>1, <1>2, <1>3, SMTT(60) DEF ArInv, OneOwner, Unspent, CreateHas, BroadcastHas, PendingHas,
                            CreateAt, BroadcastAt
  <1> QED BY <1>4, <1>5, <1>6, <1>7 DEF ArInv

\* What create removes from the cache is nobody's any more.
LEMMA CreateRemoves ==
    ASSUME ArInv, NEW c \in Creates, CreateRemovesExpired(c)
    PROVE  ArInv'
  <1> DEFINE s == CreateSwap[c]
  <1>1. /\ UNCHANGED << arBroadcast, arReserved, arMutex, arUnspent, arUsed, arLapsed,
                        arListed, arStale >>
        /\ arCreate[c].at = "removing" /\ CreateGoes(c, "checked")
        /\ s \in RescueSwaps /\ arPending' = [arPending EXCEPT ![s] = NoRescue]
    BY CreateSwapIsRescueSwap DEF CreateRemovesExpired, CreateAt, listingVars
  <1> HIDE DEF s
  <1>2. /\ arCreate' \in [Creates -> CreateCalls] /\ arCreate'[c].at = "checked"
        /\ \A d \in Creates \ { c } : arCreate'[d] = arCreate[d]
    BY <1>1, CreateMoves DEF ArInv
  <1>3. /\ arPending' \in [RescueSwaps -> PendingRescues] /\ arPending'[s] = NoRescue
        /\ \A t \in RescueSwaps \ { s } : arPending'[t] = arPending[t]
    BY <1>1, NoRescueHasNothing DEF ArInv, ArTyped
  <1>4. ArTyped' /\ PendingIsComplete'
    BY <1>1, <1>2, <1>3 DEF ArInv, ArTyped, PendingIsComplete, CreateAt
  <1>5. NoncesAreFresh'
    BY <1>1, <1>2, <1>3, NoRescueHasNothing, SMTT(60)
       DEF ArInv, NoncesAreFresh, UnusedNonce, Takes, CreateAt, BroadcastAt
  <1>6. FoundIsFree'
    BY <1>1, <1>2 DEF ArInv, FoundIsFree, Unspent, CreateAt
  <1>7. OneOwner'
    BY <1>1, <1>2, <1>3, NoRescueHasNothing, SMTT(60)
       DEF ArInv, OneOwner, Unspent, CreateHas, BroadcastHas, PendingHas, CreateAt, BroadcastAt
  <1> QED BY <1>4, <1>5, <1>6, <1>7 DEF ArInv

\* The call that takes the mutex is the only one that lists.
LEMMA ListsUnspent ==
    ASSUME ArInv, NEW c \in Creates, ListUnspent(c)
    PROVE  ArInv'
  <1>1. /\ UNCHANGED << arBroadcast, arPending, arReserved, arUnspent, arUsed, arLapsed, arStale >>
        /\ arCreate[c].at = "checked" /\ CreateGoes(c, "listed")
        /\ arMutex = Nobody /\ arMutex' = c /\ arListed' = arUnspent
    BY DEF ListUnspent, CreateAt
  <1>2. /\ arCreate' \in [Creates -> CreateCalls] /\ arCreate'[c].at = "listed"
        /\ \A d \in Creates \ { c } : arCreate'[d] = arCreate[d]
    BY <1>1, CreateMoves DEF ArInv
  <1>3. ArTyped' /\ PendingIsComplete'
    BY <1>1, <1>2 DEF ArInv, ArTyped, PendingIsComplete, CreateAt
  <1>4. NoncesAreFresh'
    BY <1>1, <1>2, SMTT(60) DEF ArInv, NoncesAreFresh, UnusedNonce, Takes, CreateAt, BroadcastAt
  <1>5. \A d \in Creates : ~CreateAt(d, "listed") /\ ~CreateAt(d, "found")
    BY <1>1, ArAssumption DEF ArInv, FoundIsFree, Nobody
  <1>6. FoundIsFree'
    BY <1>1, <1>2, <1>5 DEF FoundIsFree, CreateAt
  <1>7. OneOwner'
    BY <1>1, <1>2, SMTT(60) DEF ArInv, OneOwner, Unspent, CreateHas, BroadcastHas, PendingHas,
                      CreateAt, BroadcastAt
  <1> QED BY <1>3, <1>4, <1>6, <1>7 DEF ArInv

\* An output that was found is not reserved, so nobody counts on it.
LEMMA FindsFunding ==
    ASSUME ArInv, NEW c \in Creates, NEW u \in Utxos, FindFundingUtxo(c, u)
    PROVE  ArInv'
  <1>1. /\ UNCHANGED << arBroadcast, arPending, arReserved, arMutex, arUnspent, arUsed, arLapsed >>
        /\ arCreate[c].at = "listed" /\ arReserved[u] # "held" /\ arListed' = {}
        /\ arCreate' = [arCreate EXCEPT ![c] = [at |-> "found", utxo |-> u]]
        /\ arStale \subseteq arStale' /\ (u \in arUnspent \/ u \in arStale')
    BY DEF FindFundingUtxo, CreateAt
  <1>2. /\ arCreate' \in [Creates -> CreateCalls]
        /\ arCreate'[c].at = "found" /\ arCreate'[c].utxo = u
        /\ \A d \in Creates \ { c } : arCreate'[d] = arCreate[d]
    BY <1>1 DEF ArInv, ArTyped, CreateCalls
  <1>3. ArTyped' /\ PendingIsComplete'
    BY <1>1, <1>2 DEF ArInv, ArTyped, PendingIsComplete, CreateAt
  <1>4. NoncesAreFresh'
    BY <1>1, <1>2, SMTT(60) DEF ArInv, NoncesAreFresh, UnusedNonce, Takes, CreateAt, BroadcastAt
  <1>5. FoundIsFree'
    <2>1. arMutex = c /\ \A d \in Creates \ { c } : ~CreateAt(d, "found") /\ ~CreateAt(d, "listed")
      BY <1>1 DEF ArInv, FoundIsFree, Unspent, CreateAt
    <2>2. arReserved[u] = "no"
      BY <1>1 DEF ArInv, ArTyped
    <2> QED BY <1>1, <1>2, <2>1, <2>2 DEF FoundIsFree, Unspent, CreateAt
  <1>6. \A v : Unspent(v) => Unspent(v)'
    BY <1>1 DEF Unspent
  <1>7. OneOwner'
    BY <1>1, <1>2, <1>6, SMTT(60) DEF ArInv, OneOwner, CreateHas, BroadcastHas, PendingHas,
                      CreateAt, BroadcastAt
  <1> QED BY <1>3, <1>4, <1>5, <1>7 DEF ArInv

\* The call that found the output becomes the one that counts on it.
LEMMA Reserves ==
    ASSUME ArInv, NEW c \in Creates, ReserveUtxo(c)
    PROVE  ArInv'
  <1> DEFINE u == arCreate[c].utxo
  <1>1. /\ UNCHANGED << arBroadcast, arPending, arUnspent, arUsed, arLapsed,
                        arListed, arStale >>
        /\ arCreate[c].at = "found" /\ CreateGoes(c, "reserved")
        /\ arReserved' = [arReserved EXCEPT ![u] = "held"]
    BY DEF ReserveUtxo, CreateAt, listingVars
  <1>2. u \in Utxos /\ (u \in arLapsed \/ (Unspent(u) /\ arReserved[u] = "no"))
        /\ \A d \in Creates : d # c => arCreate[d].at \notin { "listed", "found" }
    BY <1>1 DEF ArInv, FoundIsFree, Unspent, CreateAt
  <1>3. /\ arCreate' \in [Creates -> CreateCalls]
        /\ arCreate'[c].at = "reserved" /\ arCreate'[c].utxo = u
        /\ \A d \in Creates \ { c } : arCreate'[d] = arCreate[d]
    BY <1>1, CreateMoves DEF ArInv
  <1>4. PICK v \in Utxos : v = u
    BY <1>2
  <1>5. arReserved' \in [Utxos -> { "no", "held" }] /\ arReserved'[v] = "held"
        /\ \A w \in Utxos \ { v } : arReserved'[w] = arReserved[w]
    BY <1>1, <1>4 DEF ArInv, ArTyped
  <1>6. /\ v \in arLapsed \/ (Unspent(v) /\ arReserved[v] = "no")
        /\ arCreate'[c].utxo = v
    BY <1>2, <1>3, <1>4
  <1> HIDE DEF u
  <1>7. ArTyped' /\ PendingIsComplete'
    BY <1>1, <1>3, <1>5, <1>6 DEF ArInv, ArTyped, PendingIsComplete, CreateAt
  <1>8. NoncesAreFresh'
    BY <1>1, <1>3, SMTT(60) DEF ArInv, NoncesAreFresh, UnusedNonce, Takes, CreateAt, BroadcastAt
  <1>9. FoundIsFree'
    BY <1>2, <1>3 DEF FoundIsFree, CreateAt
  <1>10. v \notin arLapsed =>
           /\ \A d \in Creates : ~CreateHas(d, v)
           /\ \A b \in Broadcasts : ~BroadcastHas(b, v)
           /\ \A s \in RescueSwaps : ~PendingHas(s, v)
    BY <1>6 DEF ArInv, OneOwner
  <1>11. OneOwner'
    BY <1>1, <1>3, <1>5, <1>6, <1>10, SMTT(60)
       DEF ArInv, OneOwner, Unspent, CreateHas, BroadcastHas, PendingHas, CreateAt, BroadcastAt
  <1> QED BY <1>7, <1>8, <1>9, <1>11 DEF ArInv

\* The nonce is generated, and the output goes over to the pending rescue.
LEMMA Stores ==
    ASSUME ArInv, NEW c \in Creates, StorePending(c)
    PROVE  ArInv'
  <1>1. PICK s \in RescueSwaps : s = CreateSwap[c]
    BY CreateSwapIsRescueSwap
  <1>2. PICK u \in Utxos : u = arCreate[c].utxo
    BY DEF ArInv, PendingIsComplete, StorePending
  <1> DEFINE rescue == [nonce |-> c, utxo |-> u, expired |-> FALSE]
  <1>3. /\ UNCHANGED << arBroadcast, arReserved, arMutex, arUnspent, arUsed, arLapsed,
                        arListed, arStale >>
        /\ arCreate[c].at = "reserved" /\ CreateGoes(c, "done")
        /\ arPending' = [arPending EXCEPT ![s] = rescue]
    BY <1>1, <1>2 DEF StorePending, CreateAt, listingVars
  <1>4. /\ arCreate' \in [Creates -> CreateCalls] /\ arCreate'[c].at = "done"
        /\ \A d \in Creates \ { c } : arCreate'[d] = arCreate[d]
    BY <1>3, CreateMoves DEF ArInv
  <1>5. rescue \in PendingRescues /\ rescue.nonce = c /\ rescue.utxo = u /\ ~rescue.expired
    BY DEF PendingRescues
  <1> HIDE DEF rescue
  <1>6. /\ arPending' \in [RescueSwaps -> PendingRescues] /\ arPending'[s] = rescue
        /\ \A t \in RescueSwaps \ { s } : arPending'[t] = arPending[t]
    BY <1>3, <1>5 DEF ArInv, ArTyped
  <1>7. ArTyped' /\ PendingIsComplete'
    BY <1>3, <1>4, <1>5, <1>6 DEF ArInv, ArTyped, PendingIsComplete, CreateAt
  <1>8. /\ arUsed[c] = 0 /\ \A b \in Broadcasts : ~Takes(b, c)
        /\ \A t \in RescueSwaps : arPending[t].nonce # c
    BY <1>3 DEF ArInv, NoncesAreFresh, UnusedNonce, CreateAt
  <1>9. NoncesAreFresh'
    BY <1>1, <1>3, <1>4, <1>5, <1>6, <1>8, SMTT(60)
       DEF ArInv, NoncesAreFresh, UnusedNonce, Takes, CreateAt, BroadcastAt
  <1>10. FoundIsFree'
    BY <1>3, <1>4 DEF ArInv, FoundIsFree, Unspent, CreateAt
  <1>11. CreateHas(c, u)
    BY <1>2, <1>3 DEF CreateHas, CreateAt
  <1>12. OneOwner'
    BY <1>3, <1>4, <1>5, <1>6, <1>11, SMTT(60)
       DEF ArInv, OneOwner, Unspent, CreateHas, BroadcastHas, PendingHas, CreateAt, BroadcastAt
  <1> QED BY <1>7, <1>9, <1>10, <1>12 DEF ArInv

\* Nonce and output go over from the pending rescue to the call that takes it.
LEMMA TakesPending ==
    ASSUME ArInv, NEW b \in Broadcasts, TakePending(b)
    PROVE  ArInv'
  <1>1. PICK s \in RescueSwaps : s = CreateSwap[BroadcastOf[b]]
    BY CreateSwapIsRescueSwap, ArAssumption
  <1> DEFINE p == arPending[s]
             call == IF p = NoRescue \/ p.expired THEN [arBroadcast[b] EXCEPT !.at = "failed"]
                     ELSE [at |-> "taken", nonce |-> p.nonce, utxo |-> p.utxo]
  <1>2. /\ UNCHANGED << arCreate, arReserved, arMutex, arUnspent, arUsed, arLapsed,
                        arListed, arStale >>
        /\ arBroadcast[b].at = "new" /\ arPending' = [arPending EXCEPT ![s] = NoRescue]
        /\ arBroadcast' = [arBroadcast EXCEPT ![b] = call]
    BY <1>1 DEF TakePending, BroadcastAt, listingVars
  <1>3. /\ arPending' \in [RescueSwaps -> PendingRescues] /\ arPending'[s] = NoRescue
        /\ \A t \in RescueSwaps \ { s } : arPending'[t] = arPending[t]
        /\ p \in PendingRescues
    BY <1>2, NoRescueHasNothing DEF ArInv, ArTyped
  <1>4. /\ call \in BroadcastCalls
        /\ \/ call.at = "failed"
           \/ call.at = "taken" /\ call.nonce = p.nonce /\ call.utxo = p.utxo /\ ~p.expired
    BY <1>3, SMTT(60) DEF ArInv, ArTyped, BroadcastCalls, PendingRescues
  <1> HIDE DEF call
  <1>5. /\ arBroadcast' \in [Broadcasts -> BroadcastCalls] /\ arBroadcast'[b] = call
        /\ \A d \in Broadcasts \ { b } : arBroadcast'[d] = arBroadcast[d]
    BY <1>2, <1>4 DEF ArInv, ArTyped
  <1>6. ArTyped' /\ PendingIsComplete'
    BY <1>2, <1>3, <1>5 DEF ArInv, ArTyped, PendingIsComplete, CreateAt
  <1>7. NoncesAreFresh'
    BY <1>2, <1>3, <1>4, <1>5, NoRescueHasNothing, SMTT(60)
       DEF ArInv, NoncesAreFresh, UnusedNonce, Takes, CreateAt, BroadcastAt
  <1>8. FoundIsFree'
    BY <1>2 DEF ArInv, FoundIsFree, Unspent, CreateAt
  <1>9. OneOwner'
    BY <1>2, <1>3, <1>4, <1>5, NoRescueHasNothing, SMTT(60)
       DEF ArInv, OneOwner, Unspent, CreateHas, BroadcastHas, PendingHas, CreateAt, BroadcastAt
  <1> QED BY <1>6, <1>7, <1>8, <1>9 DEF ArInv

\* The signature uses up the nonce, and the output may be spent.
LEMMA Signs ==
    ASSUME ArInv, NEW b \in Broadcasts, SignAndSend(b)
    PROVE  ArInv'
  <1>1. /\ UNCHANGED << arCreate, arPending, arReserved, arMutex, arLapsed,
                        arListed, arStale >>
        /\ arBroadcast[b].at = "taken" /\ arBroadcast' = [arBroadcast EXCEPT ![b].at = "signed"]
        /\ arUnspent' = arUnspent \/ arUnspent' = arUnspent \ { arBroadcast[b].utxo }
    BY DEF SignAndSend, BroadcastAt, listingVars
  <1>2. /\ arBroadcast' \in [Broadcasts -> BroadcastCalls]
        /\ arBroadcast'[b].at = "signed" /\ arBroadcast'[b].utxo = arBroadcast[b].utxo
        /\ \A d \in Broadcasts \ { b } : arBroadcast'[d] = arBroadcast[d]
    BY <1>1, BroadcastMoves DEF ArInv
  <1>3. \/ UNCHANGED arUsed
        \/ \E c \in Creates : c = arBroadcast[b].nonce /\ arUsed' = [arUsed EXCEPT ![c] = @ + 1]
    BY ArAssumption DEF SignAndSend, partial_verify
  <1>4. /\ arUsed' \in [Creates -> Nat]
        /\ \A c \in Creates : arUsed'[c] = arUsed[c] \/ (Takes(b, c) /\ arUsed'[c] = arUsed[c] + 1)
    BY <1>1, <1>3, SMTT(60) DEF ArInv, ArTyped, Takes, BroadcastAt
  <1>5. ArTyped' /\ PendingIsComplete'
    BY <1>1, <1>2, <1>4 DEF ArInv, ArTyped, PendingIsComplete, CreateAt
  <1>6. /\ \A c \in Creates : ~Takes(b, c)'
        /\ \A d \in Broadcasts \ { b }, c \in Creates : Takes(d, c)' <=> Takes(d, c)
    BY <1>2 DEF Takes, BroadcastAt
  <1>7. \A c \in Creates : ~Takes(b, c) => arUsed'[c] = arUsed[c]
    BY <1>4
  <1>8. \A c \in Creates : Takes(b, c) => arUsed'[c] <= 1 /\ CreateAt(c, "done")
    BY <1>4, SMTT(60) DEF ArInv, NoncesAreFresh, UnusedNonce
  <1>9. NoncesAreFresh'
    <2>1. \A c \in Creates : arUsed'[c] <= 1 /\ (CreateAt(c, "done")' \/ arUsed'[c] = 0)
      BY <1>1, <1>7, <1>8 DEF ArInv, NoncesAreFresh, CreateAt
    <2>2. \A c \in Creates : ~Takes(b, c) /\ UnusedNonce(c) => UnusedNonce(c)'
      BY <1>1, <1>7 DEF UnusedNonce, CreateAt
    <2>3. \A s \in RescueSwaps, c \in Creates : arPending'[s].nonce = c =>
            UnusedNonce(c)' /\ CreateSwap[c] = s /\ \A d \in Broadcasts : ~Takes(d, c)'
      BY <1>1, <1>6, <2>2 DEF ArInv, NoncesAreFresh
    <2>4. \A d \in Broadcasts, c \in Creates : Takes(d, c)' =>
            UnusedNonce(c)' /\ \A e \in Broadcasts : Takes(e, c)' => e = d
      BY <1>6, <2>2, SMTT(60) DEF ArInv, NoncesAreFresh
    <2> QED BY <2>1, <2>3, <2>4 DEF NoncesAreFresh
  <1>10. FoundIsFree'
    <2>1. \A c \in Creates : CreateAt(c, "found") /\ arCreate[c].utxo = arBroadcast[b].utxo
                             => arCreate[c].utxo \in arLapsed
      BY <1>1 DEF ArInv, FoundIsFree, OneOwner, BroadcastHas
    <2> QED BY <1>1, <2>1 DEF ArInv, FoundIsFree, Unspent, CreateAt
  <1>11. OneOwner'
    <2>1. \A u : BroadcastHas(b, u)' <=> BroadcastHas(b, u)
      BY <1>1, <1>2 DEF BroadcastHas
    <2>2. \A d \in Broadcasts \ { b }, u \in Utxos : BroadcastHas(d, u)' <=> BroadcastHas(d, u)
      BY <1>2 DEF BroadcastHas
    <2>3. \A u \in Utxos : BroadcastHas(b, u) \/ (Unspent(u)' <=> Unspent(u))
      BY <1>1 DEF BroadcastHas, Unspent
    <2>4. \A d \in Broadcasts : BroadcastAt(d, "taken")' => d # b /\ BroadcastAt(d, "taken")
      BY <1>2 DEF BroadcastAt
    <2>5. /\ \A c \in Creates, u \in Utxos : CreateHas(c, u)' <=> CreateHas(c, u)
          /\ \A s \in RescueSwaps, u \in Utxos : PendingHas(s, u)' <=> PendingHas(s, u)
      BY <1>1 DEF CreateHas, PendingHas, CreateAt
    <2> QED BY <1>1, <2>1, <2>2, <2>3, <2>4, <2>5, SMTT(60) DEF ArInv, OneOwner
  <1> QED BY <1>5, <1>9, <1>10, <1>11 DEF ArInv

\* A call of broadcast ends.  If it deletes a reservation nobody else counts on it.
LEMMA BroadcastEnds ==
    ASSUME ArInv, NEW b \in Broadcasts, ReleaseUtxo(b) \/ BroadcastFails(b)
    PROVE  ArInv'
  <1>1. /\ UNCHANGED << arCreate, arPending, arMutex, arUnspent, arUsed, arLapsed,
                        arListed, arStale >>
        /\ arBroadcast[b].at \in { "taken", "signed" }
        /\ \/ UNCHANGED arReserved
           \/ arReserved' = [arReserved EXCEPT ![arBroadcast[b].utxo] = "no"]
    BY DEF ReleaseUtxo, BroadcastFails, BroadcastAt, listingVars
  <1>2. PICK at \in { "done", "failed" } : arBroadcast' = [arBroadcast EXCEPT ![b].at = at]
    BY DEF ReleaseUtxo, BroadcastFails
  <1>3. /\ arBroadcast' \in [Broadcasts -> BroadcastCalls] /\ arBroadcast'[b].at = at
        /\ \A d \in Broadcasts \ { b } : arBroadcast'[d] = arBroadcast[d]
    BY <1>2, BroadcastMoves DEF ArInv
  <1>4. /\ arReserved' \in [Utxos -> { "no", "held" }]
        /\ \A u \in Utxos : \/ arReserved'[u] = arReserved[u]
                            \/ arReserved'[u] = "no" /\ BroadcastHas(b, u)
    BY <1>1 DEF ArInv, ArTyped, BroadcastHas
  <1>5. ArTyped' /\ PendingIsComplete'
    BY <1>1, <1>3, <1>4 DEF ArInv, ArTyped, PendingIsComplete, CreateAt
  <1>6. NoncesAreFresh'
    BY <1>1, <1>2, <1>3, SMTT(60) DEF ArInv, NoncesAreFresh, UnusedNonce, Takes, CreateAt, BroadcastAt
  <1>7. FoundIsFree'
    BY <1>1, <1>4 DEF ArInv, FoundIsFree, Unspent, CreateAt
  <1>8. OneOwner'
    <2>1. /\ \A u \in Utxos : ~BroadcastHas(b, u)'
          /\ \A d \in Broadcasts \ { b }, u \in Utxos : BroadcastHas(d, u)' <=> BroadcastHas(d, u)
          /\ \A d \in Broadcasts : BroadcastAt(d, "taken")' => d # b /\ BroadcastAt(d, "taken")
      BY <1>2, <1>3 DEF BroadcastHas, BroadcastAt
    <2>2. /\ \A c \in Creates, u \in Utxos : CreateHas(c, u)' <=> CreateHas(c, u)
          /\ \A s \in RescueSwaps, u \in Utxos : PendingHas(s, u)' <=> PendingHas(s, u)
      BY <1>1 DEF CreateHas, PendingHas, CreateAt
    <2> QED BY <1>1, <1>4, <2>1, <2>2, SMTT(60) DEF ArInv, OneOwner, Unspent
  <1> QED BY <1>5, <1>6, <1>7, <1>8 DEF ArInv

\* A reservation that expires while somebody counts on the output has lapsed.
LEMMA ReservationLapses ==
    ASSUME ArInv, NEW u \in Utxos, ReservationExpires(u)
    PROVE  ArInv'
  <1>1. /\ UNCHANGED << arCreate, arBroadcast, arPending, arMutex, arUnspent, arUsed,
                        arListed, arStale >>
        /\ arReserved' = [arReserved EXCEPT ![u] = "no"]
        /\ arLapsed \subseteq arLapsed' /\ (u \in arLapsed' \/ ~Needed(u))
    BY DEF ReservationExpires, listingVars
  <1>2. /\ arReserved' \in [Utxos -> { "no", "held" }] /\ arReserved'[u] = "no"
        /\ \A v \in Utxos \ { u } : arReserved'[v] = arReserved[v]
    BY <1>1 DEF ArInv, ArTyped
  <1>3. ArTyped' /\ PendingIsComplete'
    BY <1>1, <1>2 DEF ArInv, ArTyped, PendingIsComplete, CreateAt
  <1>4. NoncesAreFresh'
    BY <1>1, SMTT(60) DEF ArInv, NoncesAreFresh, UnusedNonce, Takes, CreateAt, BroadcastAt
  <1>5. FoundIsFree'
    BY <1>1, <1>2 DEF ArInv, FoundIsFree, Unspent, CreateAt
  <1>6. u \in arLapsed' \/ /\ \A c \in Creates : ~CreateHas(c, u)
                           /\ \A b \in Broadcasts : ~BroadcastHas(b, u)
                           /\ \A s \in RescueSwaps : ~PendingHas(s, u)
    BY <1>1 DEF Needed, CreateHas, BroadcastHas, PendingHas
  <1>7. OneOwner'
    <2>1. /\ \A c \in Creates, v \in Utxos : CreateHas(c, v)' <=> CreateHas(c, v)
          /\ \A b \in Broadcasts, v \in Utxos : BroadcastHas(b, v)' <=> BroadcastHas(b, v)
          /\ \A s \in RescueSwaps, v \in Utxos : PendingHas(s, v)' <=> PendingHas(s, v)
          /\ \A b \in Broadcasts : BroadcastAt(b, "taken")' <=> BroadcastAt(b, "taken")
      BY <1>1 DEF CreateHas, BroadcastHas, PendingHas, CreateAt, BroadcastAt
    <2> QED BY <1>1, <1>2, <1>6, <2>1, SMTT(60) DEF ArInv, OneOwner, Unspent
  <1> QED BY <1>3, <1>4, <1>5, <1>7 DEF ArInv

\* Nobody counts on an expired rescue, and its nonce stays with it.
LEMMA RescueExpires ==
    ASSUME ArInv, NEW s \in RescueSwaps, PendingRescueExpires(s)
    PROVE  ArInv'
  <1>1. /\ UNCHANGED << arCreate, arBroadcast, arReserved, arMutex, arUnspent, arUsed, arLapsed,
                        arListed, arStale >>
        /\ arPending[s] # NoRescue
        /\ arPending' = [arPending EXCEPT ![s] = [@ EXCEPT !.expired = TRUE]]
    BY DEF PendingRescueExpires, listingVars
  <1>2. arPending[s] \in PendingRescues
    BY DEF ArInv, ArTyped
  <1>3. /\ [arPending[s] EXCEPT !.expired = TRUE] \in PendingRescues
        /\ [arPending[s] EXCEPT !.expired = TRUE].nonce = arPending[s].nonce
        /\ [arPending[s] EXCEPT !.expired = TRUE].utxo = arPending[s].utxo
        /\ [arPending[s] EXCEPT !.expired = TRUE].expired
    BY <1>2 DEF PendingRescues
  <1>4. /\ arPending' \in [RescueSwaps -> PendingRescues] /\ arPending'[s].expired
        /\ arPending'[s].nonce = arPending[s].nonce /\ arPending'[s].utxo = arPending[s].utxo
        /\ \A t \in RescueSwaps \ { s } : arPending'[t] = arPending[t]
    BY <1>1, <1>3 DEF ArInv, ArTyped
  <1>5. ArTyped' /\ PendingIsComplete'
    BY <1>1, <1>4 DEF ArInv, ArTyped, PendingIsComplete, CreateAt
  <1>6. NoncesAreFresh'
    BY <1>1, <1>4, SMTT(60) DEF ArInv, NoncesAreFresh, UnusedNonce, Takes, CreateAt, BroadcastAt
  <1>7. FoundIsFree'
    BY <1>1 DEF ArInv, FoundIsFree, Unspent, CreateAt
  <1>8. OneOwner'
    BY <1>1, <1>4, SMTT(60) DEF ArInv, OneOwner, Unspent, CreateHas, BroadcastHas, PendingHas, CreateAt,
                      BroadcastAt
  <1> QED BY <1>5, <1>6, <1>7, <1>8 DEF ArInv

\* For any calls, swaps and outputs of the wallet, and any interleaving of the calls
\* with the two timers of the cache: no nonce that create handed out signs twice, and
\* a pending rescue has the reservation of its output of the wallet to itself unless
\* that expired before the rescue.  The output is unspent unless it was spent after
\* the wallet listed it for the rescue.
THEOREM RescuesAreExclusive == ArSpec => []RescueIsExclusive
  <1>1. ArInit => ArInv
    <2> SUFFICES ASSUME ArInit PROVE ArInv
      OBVIOUS
    <2>1. ArTyped /\ PendingIsComplete
      BY NoRescueHasNothing
         DEF ArInit, ArTyped, CreateCalls, BroadcastCalls, PendingIsComplete, CreateAt
    <2>2. NoncesAreFresh
      BY NoRescueHasNothing, SMTT(60) DEF ArInit, NoncesAreFresh, Takes, CreateAt, BroadcastAt
    <2>3. FoundIsFree /\ OneOwner
      BY NoRescueHasNothing DEF ArInit, FoundIsFree, OneOwner, Unspent, CreateHas, BroadcastHas,
                                PendingHas, CreateAt, BroadcastAt
    <2> QED BY <2>1, <2>2, <2>3 DEF ArInv
  <1>2. ArInv /\ [ArNext]_arVars => ArInv'
    <2> SUFFICES ASSUME ArInv, [ArNext]_arVars PROVE ArInv'
      OBVIOUS
    <2>1. CASE UNCHANGED arVars
      <3>1. ArTyped' /\ PendingIsComplete' /\ NoncesAreFresh'
        BY <2>1, SMTT(60) DEF arVars, listingVars, ArInv, ArTyped, PendingIsComplete, NoncesAreFresh, UnusedNonce,
                    Takes,
                    CreateAt, BroadcastAt
      <3>2. FoundIsFree' /\ OneOwner'
        BY <2>1, SMTT(60) DEF arVars, listingVars, ArInv, FoundIsFree, OneOwner, Unspent, CreateHas, BroadcastHas,
                    PendingHas,
                    CreateAt, BroadcastAt
      <3> QED BY <3>1, <3>2 DEF ArInv
    <2> QED BY <2>1, CreateChecksOrFails, CreateRemoves, ListsUnspent, FindsFunding, Reserves, Stores,
               TakesPending, Signs, BroadcastEnds, ReservationLapses, RescueExpires DEF ArNext
  <1>3. ArInv => RescueIsExclusive
    <2> SUFFICES ASSUME ArInv PROVE RescueIsExclusive
      OBVIOUS
    <2>1. NonceSignsOnce
      BY DEF ArInv, NoncesAreFresh, NonceSignsOnce
    <2>2. ASSUME NEW s \in RescueSwaps, arPending[s] # NoRescue, ~arPending[s].expired,
                 arPending[s].utxo \notin arLapsed
          PROVE  /\ arReserved[arPending[s].utxo] = "held"
                 /\ \A t \in RescueSwaps \ { s } : arPending[t].utxo = arPending[s].utxo
                                                   => arPending[t].expired
                 /\ \A b \in Broadcasts : arBroadcast[b].at \in { "taken", "signed" }
                                           => arBroadcast[b].utxo # arPending[s].utxo
                 /\ arPending[s].utxo \in arUnspent \/ arPending[s].utxo \in arStale
      <3>1. arPending[s].utxo \in Utxos \ arLapsed /\ PendingHas(s, arPending[s].utxo)
        BY <2>2 DEF ArInv, PendingIsComplete, PendingHas
      <3> QED BY <3>1 DEF ArInv, OneOwner, PendingHas, BroadcastHas, Unspent
    <2>3. RescueOwnsUtxo
      BY <2>2 DEF RescueOwnsUtxo
    <2> QED BY <2>1, <2>3 DEF RescueIsExclusive
  <1> QED BY <1>1, <1>2, <1>3, PTL DEF ArSpec

=============================================================================
