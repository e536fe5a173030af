----------------------------- MODULE TxBuilder -----------------------------
(***************************************************************************)
(* Building the transactions that claim and refund swaps                   *)
(* (boltz-core/src/bitcoin/tx.rs, elements/tx.rs, elements/asset_rescue.rs *)
(* and target_fee.rs).  For a fee rate the transaction is built twice:     *)
(* once to learn its size, without blinding its outputs, and once with the *)
(* fee.  Amounts are in satoshis, fee rates in satoshis per virtual byte.  *)
(*                                                                         *)
(* Blinding is modelled by what has to balance: an output of value v has   *)
(* blinding factors abf and vbf, which are zero when it is explicit, and   *)
(* the sum of v * abf + vbf over the inputs is that over the outputs, in a *)
(* field of BfOrder elements.                                              *)
(***************************************************************************)
EXTENDS Integers, Sequences, FiniteSets, SequencesExt, SwapScripts

CONSTANTS
    TbRequests,     \* [chain, inputs, dest, outs, change, fee, rate] to build
    BfOrder,        \* elements of the field of blinding factors
    NewFactors      \* blinding factors a random generator may return

ASSUME TbAssumption == NewFactors \subseteq 0 .. BfOrder - 1

VARIABLES
    tbReq,      \* the request
    tbAt,       \* "new", "sorted", "estimated", "built", "failed"
    tbFee,      \* the fee that was chosen
    tbTx        \* [lock, ins, outs, size]

tbVars == << tbReq, tbAt, tbFee, tbTx >>

\* An input: [outpoint, value, asset, blinded, blindingKey, abf, vbf, script, size,
\* type, spend, timeout].  An output: [script, asset, value, blinded, abf, vbf].
NoTx == [lock |-> 0, ins |-> << >>, outs |-> << >>, size |-> 0]
Lbtc == 0
FeeScript == "fee"
DUMMY_BLINDED_OUTPUT == 1

TbInit == tbReq \in TbRequests /\ tbAt = "new" /\ tbFee = 0 /\ tbTx = NoTx

SumOver(Val(_), seq) == FoldLeft(LAMBDA acc, x : acc + Val(x), 0, seq)
ValueOf(x) == x.value
InputSum == SumOver(ValueOf, tbReq.inputs)
OutputSum == SumOver(ValueOf, tbReq.outs)

-----------------------------------------------------------------------------
(* Inputs.                                                                 *)

\* BIP69: the inputs are sorted by their outpoints.
OutpointBefore(a, b) == a.outpoint < b.outpoint
Sorted(inputs) == SortSeq(inputs, OutpointBefore)

\* unblind_outputs, and all inputs being of one asset.
UnblindFails ==
    /\ tbReq.chain # "bitcoin"
    /\ \/ tbReq.inputs = << >>
       \/ \E i \in DOMAIN tbReq.inputs : tbReq.inputs[i].blinded
                                         /\ ~tbReq.inputs[i].blindingKey
AssetsFail ==
    LET assets == { tbReq.inputs[i].asset : i \in DOMAIN tbReq.inputs }
    IN  CASE tbReq.chain = "bitcoin" -> FALSE
          [] tbReq.chain = "elements" -> Cardinality(assets) > 1
          [] tbReq.chain = "rescue" -> \/ tbReq.inputs[1].asset = Lbtc
                                       \/ tbReq.inputs[2].asset # Lbtc

\* The inputs of a rescue stay in their order: the asset, then the fee.
Prepare ==
    /\ tbAt = "new"
    /\ tbAt' = IF UnblindFails \/ AssetsFail THEN "failed" ELSE "sorted"
    /\ tbReq' = IF tbReq.chain = "rescue" THEN tbReq
                ELSE [tbReq EXCEPT !.inputs = Sorted(@)]
    /\ UNCHANGED << tbFee, tbTx >>

\* The latest of the timeouts of the refunds, which all have to be over.
LockTime(inputs) ==
    FoldLeft(LAMBDA acc, i : IF i.spend = "refund" /\ i.timeout > acc THEN i.timeout ELSE acc,
             0, inputs)

\* What the script of an input is run with: the signature, the preimage or, outside of
\* Taproot, an empty item in its place.  It is in the witness, for Legacy in the
\* scriptSig.
Witness(i) ==
    << << "sig", IF i.spend = "claim" THEN ClaimKey ELSE RefundKey >> >>
    \o (IF i.spend = "claim" THEN << << "bytes", i.size >> >>
        ELSE IF i.type = "taproot" THEN << >> ELSE << << "bytes", 0 >> >>)

\* The leaf or the script that the input reveals.
Revealed(i) ==
    IF i.type # "taproot" THEN i.script
    ELSE IF i.spend = "refund" THEN "refund_leaf"
    ELSE IF i.script = "swap_script" THEN "swap_claim_leaf" ELSE "reverse_claim_leaf"

\* A cooperative spend has a stub in place of the signature that is added later.
SignedInput(i) ==
    [outpoint |-> i.outpoint, reveals |-> Revealed(i), key |-> i.type = "cooperative",
     pushed |-> IF i.type = "cooperative" THEN << << "sig", 0 >> >> ELSE Witness(i)]

-----------------------------------------------------------------------------
(* Outputs.                                                                *)

Blinds == tbReq.chain # "bitcoin"
Intent(script, asset, value, blinded) ==
    [script |-> script, asset |-> asset, value |-> value, blinded |-> blinded,
     abf |-> 0, vbf |-> 0]

\* Elements: some output has to be blinded when an input is.
NeedsDummy ==
    /\ tbReq.chain = "elements"
    /\ \E i \in DOMAIN tbReq.inputs : tbReq.inputs[i].blinded
    /\ ~tbReq.change.blinded
    /\ \A o \in DOMAIN tbReq.outs : ~tbReq.outs[o].blinded
Dummy == IF NeedsDummy THEN DUMMY_BLINDED_OUTPUT ELSE 0

\* A rescue needs change for its second input.
RescueFails(fee) == tbReq.inputs[2].value - fee <= 0 \/ ~tbReq.change.blinded

\* The dummy is taken off the sum of the inputs, and asked for once more when there
\* are several outputs.
OutputsFail(fee) ==
    IF tbReq.chain = "rescue" THEN RescueFails(fee)
    ELSE IF tbReq.dest = "single" THEN fee > InputSum - Dummy
         ELSE OutputSum + fee + Dummy > InputSum - Dummy

AssetOf(i) == tbReq.inputs[i].asset

\* A mutant: the dummy output is not paid for.
RemainderWithDummy(fee) == InputSum - fee - OutputSum

\* What is left for the address of a sweep, or for the change.
Remainder(fee) == InputSum - Dummy - fee - OutputSum

RescueIntents(fee) ==
    << Intent(tbReq.outs[1].script, AssetOf(1), tbReq.inputs[1].value, tbReq.outs[1].blinded),
       Intent(tbReq.change.script, Lbtc, tbReq.inputs[2].value - fee, TRUE) >>

ValueBefore(a, b) == a.value < b.value
\* BIP69: the outputs are sorted by their values.  The one with the fee is last.
Intents(fee) ==
    IF tbReq.chain = "rescue" THEN RescueIntents(fee)
    ELSE SortSeq(
           (IF NeedsDummy THEN << Intent("return", AssetOf(1), DUMMY_BLINDED_OUTPUT, TRUE) >>
                          ELSE << >>)
           \o [o \in DOMAIN tbReq.outs |->
                 Intent(tbReq.outs[o].script, AssetOf(1), tbReq.outs[o].value,
                        tbReq.outs[o].blinded)]
           \o << Intent(tbReq.change.script, AssetOf(1), Remainder(fee),
                        tbReq.change.blinded) >>,
           ValueBefore)

FeeOutput(fee) ==
    IF Blinds THEN << Intent(FeeScript, IF tbReq.chain = "rescue" THEN Lbtc ELSE AssetOf(1),
                             fee, FALSE) >>
    ELSE << >>

Term(x) == x.value * x.abf + x.vbf
LastBlinded(outs) ==
    LET blinded == { o \in DOMAIN outs : outs[o].blinded }
    IN  IF blinded = {} THEN 0 ELSE CHOOSE o \in blinded : \A p \in blinded : p <= o

\* ValueBlindingFactor::last: what balances the other outputs.
LastFactor(outs, last) ==
    LET others == SelectSeq([o \in DOMAIN outs |-> [outs[o] EXCEPT !.script = o]],
                            LAMBDA x : x.script # last)
    IN  (SumOver(Term, tbReq.inputs) - SumOver(Term, others)
           - outs[last].value * outs[last].abf) % BfOrder

\* create_output for each intent, with one asset factor and a new value factor each;
\* the last one that is blinded is created again.
BlindOutputs(fee, abf, vbf) ==
    LET first == [o \in DOMAIN Intents(fee) |->
                    IF Blinds /\ Intents(fee)[o].blinded
                    THEN [Intents(fee)[o] EXCEPT !.abf = abf, !.vbf = (vbf + o) % BfOrder]
                    ELSE Intents(fee)[o]] \o FeeOutput(fee)
        last == LastBlinded(first)
    IN  IF ~Blinds \/ last = 0 THEN first
        ELSE [first EXCEPT ![last].vbf = LastFactor(first, last)]

-----------------------------------------------------------------------------
(* Size and fee.                                                           *)

\* The size of a transaction, for signatures that are long or short.
BaseSize(outs) == 10 + 2 * Len(tbReq.inputs) + Len(outs)
Deviations == 0 .. Len(tbReq.inputs)

CeilOf(num, den) == (num + den - 1) \div den

\* "Add an extra vbyte per input to account for potential variance."
RelativeFee(size) == CeilOf((size + Len(tbReq.inputs)) * tbReq.rate, 10)

\* target_fee: a rate below zero is refused, and the first transaction pays one
\* satoshi.  Its outputs are not blinded, and so there are as many of them.
EstimateTxFee ==
    /\ tbAt = "sorted" /\ tbReq.fee = "relative"
    /\ IF tbReq.rate < 0 \/ OutputsFail(1)
       THEN tbAt' = "failed" /\ tbFee' = 0
       ELSE \E deviation \in Deviations :
              /\ tbAt' = "estimated"
              /\ tbFee' = RelativeFee(BaseSize(Intents(1) \o FeeOutput(1)) + deviation)
    /\ UNCHANGED << tbReq, tbTx >>

\* construct_raw.
BuildTx ==
    /\ \/ tbAt = "sorted" /\ tbReq.fee = "absolute" /\ tbFee' = tbReq.rate
       \/ tbAt = "estimated" /\ tbFee' = tbFee
    /\ IF OutputsFail(tbFee') THEN tbAt' = "failed" /\ tbTx' = NoTx
       ELSE \E deviation \in Deviations, abf \in NewFactors, vbf \in NewFactors :
              LET outs == BlindOutputs(tbFee', abf, vbf)
              IN  /\ tbAt' = "built"
                  /\ tbTx' = [lock |-> LockTime(tbReq.inputs),
                              ins |-> [i \in DOMAIN tbReq.inputs |->
                                         SignedInput(tbReq.inputs[i])],
                              outs |-> outs, size |-> BaseSize(outs) + deviation]
    /\ UNCHANGED tbReq

TbNext == Prepare \/ EstimateTxFee \/ BuildTx

TbSpec == TbInit /\ [][TbNext]_tbVars

-----------------------------------------------------------------------------
\* detect_preimage: the first item of 32 bytes that has the hash.
detect_preimage(in, size) ==
    LET found == SelectSeq(in.pushed, LAMBDA item : item = << "bytes", size >>
                                                    /\ item[2] = PREIMAGE_SIZE)
    IN  IF found = << >> THEN << >> ELSE found[1]

Built == tbAt = "built"

\* A transaction has an input for each of the request, in the order of their
\* outpoints, and no negative output.
TbTypeOK ==
    /\ tbAt \in { "new", "sorted", "estimated", "built", "failed" } /\ tbFee \in Nat
    /\ Built => /\ Len(tbTx.ins) = Len(tbReq.inputs)
                /\ \A o \in DOMAIN tbTx.outs : tbTx.outs[o].value \in Nat
                /\ tbReq.chain # "rescue" =>
                     \A i \in 1 .. Len(tbTx.ins) - 1 :
                       tbTx.ins[i].outpoint <= tbTx.ins[i + 1].outpoint

\* Every input that is not spent cooperatively is one a node accepts: the script that
\* is revealed evaluates to true with what is pushed and the lock time of the
\* transaction, with claims and refunds of different timeouts side by side.
SpendIsValid ==
    Built =>
      \A i \in DOMAIN tbTx.ins :
        ~tbTx.ins[i].key =>
          Evaluates(ScriptOf(tbTx.ins[i].reveals, tbReq.inputs[i].size,
                             tbReq.inputs[i].timeout),
                    tbTx.ins[i].pushed, tbTx.lock, PinnedOutput)

\* A claim shows the preimage it was made with, a refund none.
PreimageIsDetected ==
    Built =>
      \A i \in DOMAIN tbTx.ins :
        (detect_preimage(tbTx.ins[i], tbReq.inputs[i].size) # << >>) <=>
          /\ tbReq.inputs[i].spend = "claim" /\ ~tbTx.ins[i].key
          /\ tbReq.inputs[i].size = PREIMAGE_SIZE

OfAsset(seq, a) == SelectSeq(seq, LAMBDA x : x.asset = a)

\* No satoshi is lost or made up: of every asset, what goes in comes out, and the
\* difference is the fee that is reported; the blinding factors balance as well, and
\* blinded inputs have a blinded output.
ValueIsConserved ==
    Built =>
      /\ \A a \in { tbReq.inputs[i].asset : i \in DOMAIN tbReq.inputs } :
           SumOver(ValueOf, OfAsset(tbReq.inputs, a)) =
             SumOver(ValueOf, OfAsset(tbTx.outs, a))
               + (IF tbReq.chain = "bitcoin" THEN tbFee ELSE 0)
      /\ Blinds =>
           /\ \E o \in DOMAIN tbTx.outs : tbTx.outs[o].script = FeeScript
                                          /\ tbTx.outs[o].value = tbFee
           /\ SumOver(Term, tbReq.inputs) % BfOrder = SumOver(Term, tbTx.outs) % BfOrder
           /\ (\E i \in DOMAIN tbReq.inputs : tbReq.inputs[i].blinded)
                => \E o \in DOMAIN tbTx.outs : tbTx.outs[o].blinded

\* The fee is at least the rate that was asked for, although the signatures of the
\* transaction that is sent may be longer than those of the one that was measured.
FeeCoversRate ==
    (Built /\ tbReq.fee = "relative") => 10 * tbFee >= tbReq.rate * tbTx.size

\* A transaction that construct_tx returns can be relayed: scripts accept its inputs,
\* its amounts balance, it pays the rate, and its claims give their preimages away.
SpendIsSound == SpendIsValid /\ PreimageIsDetected /\ ValueIsConserved /\ FeeCoversRate
=============================================================================
