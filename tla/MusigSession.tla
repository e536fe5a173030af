---------------------------- MODULE MusigSession ----------------------------
(***************************************************************************)
(* Cooperative signing (boltz-core, musig.rs).  A MusigBuilder is a value   *)
(* that every method consumes: it goes through the states of the protocol   *)
(* in the order that its type parameters allow, and a method that returns   *)
(* an error drops it, with its nonce and its signatures.                    *)
(*                                                                         *)
(* Parties hold several builders at a time and exchange public nonces and   *)
(* partial signatures in any order, those of other sessions included.  What *)
(* secp256k1 computes is symbolic: a partial signature is the session, the  *)
(* key and the nonce it was made with, an aggregated nonce is the bag of    *)
(* the public nonces.                                                       *)
(***************************************************************************)
EXTENDS Naturals, Sequences, FiniteSets, SequencesExt

CONSTANTS
    MuKeys,     \* keys of the parties
    MuKeyOf,    \* builder |-> the key it signs with
    MuLists,    \* lists of public keys a builder is set up with
    MuTweaks,   \* taproot tweaks
    MuMsgs,     \* messages
    MaxNonces   \* bound: nonces that are generated

ASSUME MuAssumption ==
    /\ MaxNonces \in Nat \ {0}
    /\ \A b \in DOMAIN MuKeyOf : MuKeyOf[b] \in MuKeys
    /\ \A l \in MuLists : l \in Seq(MuKeys) /\ l # << >>

VARIABLES
    muB,        \* the builders
    muNonces,   \* generated nonces, in order: the key they were generated for
    muStored,   \* secret nonces that were taken out of a builder to be kept
    muSigs,     \* partial signatures that were made
    muFinal     \* aggregated signatures

muVars == << muB, muNonces, muStored, muSigs, muFinal >>

Builders == DOMAIN MuKeyOf
NoNonce == 0
NoSig == [key |-> "none"]
Consumed(state) == [state |-> state, keys |-> << >>, tweaks |-> << >>, msg |-> "none",
                    nonce |-> NoNonce, nonces |-> << >>, sigs |-> << >>]

MuInit ==
    /\ muB = [b \in Builders |-> Consumed("none")]
    /\ muNonces = << >> /\ muStored = {} /\ muSigs = {} /\ muFinal = {}

In(b, state) == muB[b].state = state
Becomes(b, builder) == muB' = [muB EXCEPT ![b] = builder]
\* An error: the builder was moved into the method that failed.
Drops(b) == Becomes(b, Consumed("dropped"))

\* key_index: the first position of a key.
KeyIndex(keys, key) == SelectInSeq(keys, LAMBDA k : k = key)
OurIndex(b) == KeyIndex(muB[b].keys, MuKeyOf[b])

\* Session::new: what a partial signature commits to.
AggregatedNonce(nonces) ==
    [n \in ToSet(nonces) |-> Cardinality({ i \in DOMAIN nonces : nonces[i] = n })]
Session(builder) == [keys |-> builder.keys, tweaks |-> builder.tweaks, msg |-> builder.msg,
                     agg |-> AggregatedNonce(builder.nonces)]

-----------------------------------------------------------------------------
SetupNew(b, keys) ==
    /\ In(b, "none")
    /\ IF MuKeyOf[b] \in ToSet(keys)
       THEN Becomes(b, [Consumed("NoMessage") EXCEPT !.keys = keys,
                                                     !.sigs = [i \in DOMAIN keys |-> NoSig]])
       ELSE Drops(b)
    /\ UNCHANGED << muNonces, muStored, muSigs, muFinal >>

XonlyTweakAdd(b, tweak) ==
    /\ In(b, "NoMessage") /\ muB[b].tweaks = << >>
    /\ Becomes(b, [muB[b] EXCEPT !.tweaks = Append(@, tweak)])
    /\ UNCHANGED << muNonces, muStored, muSigs, muFinal >>

Message(b, msg) ==
    /\ In(b, "NoMessage")
    /\ Becomes(b, [muB[b] EXCEPT !.state = "MissingNonce", !.msg = msg])
    /\ UNCHANGED << muNonces, muStored, muSigs, muFinal >>

GenerateNonce(b) ==
    /\ In(b, "MissingNonce") /\ Len(muNonces) < MaxNonces
    /\ muNonces' = Append(muNonces, MuKeyOf[b])
    /\ Becomes(b, [muB[b] EXCEPT !.state = "NonceGenerated", !.nonce = Len(muNonces) + 1])
    /\ UNCHANGED << muStored, muSigs, muFinal >>

\* The secret nonce leaves the builder, which is consumed.
DangerousSecnonce(b) ==
    /\ In(b, "NonceGenerated")
    /\ muStored' = muStored \cup { muB[b].nonce } /\ Drops(b)
    /\ UNCHANGED << muNonces, muSigs, muFinal >>

\* A kept pair is restored at most once, with the key it was generated for: that is
\* the contract of its callers.
DangerousSetNonce(b, nonce) ==
    /\ In(b, "MissingNonce") /\ nonce \in muStored /\ muNonces[nonce] = MuKeyOf[b]
    /\ muStored' = muStored \ { nonce }
    /\ Becomes(b, [muB[b] EXCEPT !.state = "NonceGenerated", !.nonce = nonce])
    /\ UNCHANGED << muNonces, muSigs, muFinal >>

\* A mutant: the nonce at our index is taken to be ours.
OrderedAccepts(b, nonces) == Len(nonces) = Len(muB[b].keys)

\* aggregate_nonces_ordered refuses a wrong number and a nonce that is not ours at
\* our index.
AggregateNoncesOrdered(b, nonces) ==
    /\ Len(nonces) = Len(muB[b].keys)
    /\ nonces[OurIndex(b)] = muB[b].nonce

Aggregates(b, nonces) ==
    /\ IF AggregateNoncesOrdered(b, nonces)
       THEN Becomes(b, [muB[b] EXCEPT !.state = "NoncesAggregated", !.nonces = nonces])
       ELSE Drops(b)
    /\ UNCHANGED << muNonces, muStored, muSigs, muFinal >>

AggregateInOrder(b, nonces) == In(b, "NonceGenerated") /\ Aggregates(b, nonces)

\* Pairs of a key and a nonce in any order; ours is added when it is missing, and of
\* two nonces for a key the first one counts.
AggregateNonces(b, given) ==
    /\ In(b, "NonceGenerated")
    /\ LET ours == << MuKeyOf[b], muB[b].nonce >>
           all == IF \E i \in DOMAIN given : given[i][1] = MuKeyOf[b] THEN given
                  ELSE Append(given, ours)
           keys == [i \in DOMAIN all |-> all[i][1]]
       IN  IF Len(all) = Len(muB[b].keys) /\ ToSet(muB[b].keys) \subseteq ToSet(keys)
           THEN Aggregates(b, [i \in DOMAIN muB[b].keys |->
                                 all[KeyIndex(keys, muB[b].keys[i])][2]])
           ELSE Drops(b) /\ UNCHANGED << muNonces, muStored, muSigs, muFinal >>

InitializeSession(b) ==
    /\ In(b, "NoncesAggregated")
    /\ Becomes(b, [muB[b] EXCEPT !.state = "SessionInitialized"])
    /\ UNCHANGED << muNonces, muStored, muSigs, muFinal >>

\* The secret nonce is taken out of the builder, which becomes Signed.
PartialSign(b) ==
    /\ In(b, "SessionInitialized")
    /\ LET sig == [key |-> MuKeyOf[b], nonce |-> muB[b].nonce, session |-> Session(muB[b])]
       IN  /\ muSigs' = muSigs \cup { sig }
           /\ Becomes(b, [muB[b] EXCEPT !.state = "Signed", !.nonce = NoNonce,
                                        !.sigs[OurIndex(b)] = sig])
    /\ UNCHANGED << muNonces, muStored, muFinal >>

PartialVerify(b, key, sig) ==
    /\ key \in ToSet(muB[b].keys)
    /\ sig = [key |-> key, nonce |-> muB[b].nonces[KeyIndex(muB[b].keys, key)],
              session |-> Session(muB[b])]

PartialAdd(b, key, sig) ==
    /\ In(b, "SessionInitialized") \/ In(b, "Signed")
    /\ IF PartialVerify(b, key, sig)
       THEN Becomes(b, [muB[b] EXCEPT !.sigs[KeyIndex(muB[b].keys, key)] = sig])
       ELSE Drops(b)
    /\ UNCHANGED << muNonces, muStored, muSigs, muFinal >>

PartialAggregate(b) ==
    /\ In(b, "Signed")
    /\ muFinal' = IF NoSig \in ToSet(muB[b].sigs) THEN muFinal
                  ELSE muFinal \cup { [session |-> Session(muB[b]), sigs |-> muB[b].sigs] }
    /\ Drops(b) /\ UNCHANGED << muNonces, muStored, muSigs >>

MuPairs == MuKeys \X DOMAIN muNonces

MuNext ==
    \E b \in Builders :
      \/ \E keys \in MuLists : SetupNew(b, keys)
      \/ \E tweak \in MuTweaks : XonlyTweakAdd(b, tweak)
      \/ \E msg \in MuMsgs : Message(b, msg)
      \/ GenerateNonce(b) \/ DangerousSecnonce(b)
      \/ \E nonce \in muStored : DangerousSetNonce(b, nonce)
      \/ \E given \in SeqOf(MuPairs, 2) : AggregateNonces(b, given)
      \/ \E nonces \in SeqOf(DOMAIN muNonces, 2) : AggregateInOrder(b, nonces)
      \/ InitializeSession(b) \/ PartialSign(b)
      \/ \E key \in MuKeys, sig \in muSigs : PartialAdd(b, key, sig)
      \/ PartialAggregate(b)

MuSpec == MuInit /\ [][MuNext]_muVars

-----------------------------------------------------------------------------
\* The type of the sessions and of the nonces that were drawn.
MuTypeOK ==
    /\ \A b \in Builders :
         /\ muB[b].nonce \in { NoNonce } \cup DOMAIN muNonces
         /\ Len(muB[b].sigs) = Len(muB[b].keys)
         /\ muB[b].state \in { "NonceGenerated", "NoncesAggregated", "SessionInitialized" }
              <=> muB[b].nonce # NoNonce
    /\ muStored \subseteq DOMAIN muNonces

\* A secret nonce signs once: a nonce that a builder or the storage still holds has
\* signed nothing and is held nowhere else, and no two partial signatures share one
\* (partial_sign, dangerous_secnonce).
NonceSignsOnce ==
    LET held == { b \in Builders : muB[b].nonce # NoNonce } IN
    /\ \A s, t \in muSigs : s.nonce = t.nonce => s = t
    /\ \A b \in held :
         /\ muB[b].nonce \notin muStored \cup { s.nonce : s \in muSigs }
         /\ \A c \in held : muB[c].nonce = muB[b].nonce => c = b
    /\ muStored \cap { s.nonce : s \in muSigs } = {}

\* An aggregated signature verifies: the partial signatures are of the keys that were
\* aggregated, one each, all for this session, and made with the nonces that add up
\* to its nonce (aggregate_nonces, partial_add, partial_aggregate).
AggregateVerifies ==
    \A f \in muFinal :
      /\ \A i \in DOMAIN f.sigs : /\ f.sigs[i].key = f.session.keys[i]
                                  /\ f.sigs[i].session = f.session
      /\ AggregatedNonce([i \in DOMAIN f.sigs |-> f.sigs[i].nonce]) = f.session.agg

\* partial_sign finds the slot of our own signature empty, which it asserts in debug
\* builds: nobody can have added a signature of ours that verifies.
SlotIsFree ==
    \A b \in Builders : In(b, "SessionInitialized") => muB[b].sigs[OurIndex(b)] = NoSig

\* What cooperative signing produces can be used and gives no nonce away twice
\* (MusigBuilder).
SignaturesAreSound == NonceSignsOnce /\ AggregateVerifies /\ SlotIsFree
=============================================================================
