---------------------------- MODULE SwapScripts ----------------------------
(***************************************************************************)
(* The scripts of the outputs of a swap (boltz-core/src/bitcoin/scripts    *)
(* and elements/scripts), as sequences of instructions, and the evaluation *)
(* of one by a node.  Anyone may try to spend an output with any witness:  *)
(* the state is such an attempt, which grows by one item at a time.        *)
(*                                                                         *)
(* A stack item is a pair of its kind and a number: a number, a public     *)
(* key, a signature of a key, a string of bytes of some length, the hash   *)
(* of the string of that length, an asset, a scriptPubKey, a value.        *)
(***************************************************************************)
EXTENDS Integers, Sequences, SequencesExt

CONSTANTS
    ScriptNames,    \* scripts an output may have
    PreimageSizes,  \* lengths of the preimages that are used
    LockTimes,      \* lock times of a transaction
    Timeout,        \* timeout block height of the swap
    WitnessItems,   \* items a witness is made of
    MaxItems,       \* items of a witness
    CovenantOutputs \* outputs of a transaction at the index of the covenant

VARIABLES
    attempt     \* [script, size, lock, output, witness]

ClaimKey == 1
RefundKey == 2
PREIMAGE_SIZE == 32
\* What the covenant asks for.
PinnedOutput == [script |-> << "spk", 1 >>, asset |-> << "asset", 1 >>,
                 value |-> << "value", 1 >>]

Op(name) == << name >>
PushItem(item) == << "PUSH", item >>
Num(n) == PushItem(<< "num", n >>)
Key(k) == PushItem(<< "key", k >>)
Hash(size) == PushItem(<< "hash", size >>)

-----------------------------------------------------------------------------
(* The scripts, for a preimage of some length.                             *)

swap_script(size, lock_time) ==
    << Op("HASH160"), Hash(size), Op("EQUAL"),
       Op("IF"), Key(ClaimKey),
       Op("ELSE"), Num(lock_time), Op("CLTV"), Op("DROP"), Key(RefundKey),
       Op("ENDIF"), Op("CHECKSIG") >>

reverse_script(size, lock_time) ==
    << Op("SIZE"), Num(PREIMAGE_SIZE), Op("EQUAL"),
       Op("IF"), Op("HASH160"), Hash(size), Op("EQUALVERIFY"), Key(ClaimKey),
       Op("ELSE"), Op("DROP"), Num(lock_time), Op("CLTV"), Op("DROP"), Key(RefundKey),
       Op("ENDIF"), Op("CHECKSIG") >>

refund_leaf(lock_time) ==
    << Key(RefundKey), Op("CHECKSIGVERIFY"), Num(lock_time), Op("CLTV") >>

swap_claim_leaf(size) ==
    << Op("HASH160"), Hash(size), Op("EQUALVERIFY"), Key(ClaimKey), Op("CHECKSIG") >>

SizeCheck == << Op("SIZE"), Num(PREIMAGE_SIZE), Op("EQUALVERIFY") >>

reverse_claim_leaf(size) == SizeCheck \o swap_claim_leaf(size)

\* A mutant: the value is not compared.
covenant_claim_leaf_any_value(size) ==
    SizeCheck \o
    << Op("HASH160"), Hash(size), Op("EQUALVERIFY"),
       Op("INSPECTSCRIPT"), PushItem(PinnedOutput.script), Op("EQUALVERIFY"),
       Op("INSPECTASSET"), PushItem(PinnedOutput.asset), Op("EQUAL") >>

\* Anyone may claim with the preimage, to the output that is pinned.
create_covenant_claim_leaf(size) ==
    SizeCheck \o
    << Op("HASH160"), Hash(size), Op("EQUALVERIFY"),
       Op("INSPECTSCRIPT"), PushItem(PinnedOutput.script), Op("EQUALVERIFY"),
       Op("INSPECTASSET"), PushItem(PinnedOutput.asset), Op("EQUALVERIFY"),
       Op("INSPECTVALUE"), PushItem(PinnedOutput.value), Op("EQUAL") >>

ScriptOf(name, size, lock_time) ==
    CASE name = "swap_script" -> swap_script(size, lock_time)
      [] name = "reverse_script" -> reverse_script(size, lock_time)
      [] name = "refund_leaf" -> refund_leaf(lock_time)
      [] name = "swap_claim_leaf" -> swap_claim_leaf(size)
      [] name = "reverse_claim_leaf" -> reverse_claim_leaf(size)
      [] name = "covenant_claim_leaf" -> create_covenant_claim_leaf(size)

-----------------------------------------------------------------------------
(* Evaluation.  A machine has a stack, whether it is still valid, and      *)
(* whether the branch it is in is executed.                                *)

True == << "num", 1 >>
False == << "num", 0 >>
Truthy(item) == ~(item[1] = "num" /\ item[2] = 0) /\ ~(item[1] = "bytes" /\ item[2] = 0)

SizeOf(item) == IF item[1] = "bytes" THEN item[2] ELSE 64
HashOf(item) == IF item[1] = "bytes" THEN << "hash", item[2] >> ELSE << "hash", -1 >>

Top(m, n) == m.st[Len(m.st) - n + 1]
Popped(m, n) == SubSeq(m.st, 1, Len(m.st) - n)
Fail(m) == [m EXCEPT !.ok = FALSE]
Push2(m, n, item) == [m EXCEPT !.st = Append(Popped(m, n), item)]
Verify(m, n, good) == IF good THEN [m EXCEPT !.st = Popped(m, n)] ELSE Fail(m)
Bool(b) == IF b THEN True ELSE False

Needs(op) == CASE op \in { "EQUAL", "EQUALVERIFY", "CHECKSIG", "CHECKSIGVERIFY" } -> 2
               [] op \in { "HASH160", "SIZE", "IF", "CLTV", "DROP" } -> 1
               [] OTHER -> 0

SigMatches(m) == Top(m, 2)[1] = "sig" /\ Top(m, 2)[2] = Top(m, 1)[2]

\* One instruction in a transaction with a lock time and a pinned output.
Execute(m, i, lock, output) ==
    LET op == i[1]
    IN  IF op = "ELSE" THEN [m EXCEPT !.run = ~@]
        ELSE IF op = "ENDIF" THEN [m EXCEPT !.run = TRUE]
        ELSE IF ~m.ok \/ ~m.run THEN m
        ELSE IF Len(m.st) < Needs(op) THEN Fail(m)
        ELSE CASE op = "PUSH" -> Push2(m, 0, i[2])
               [] op = "HASH160" -> Push2(m, 1, HashOf(Top(m, 1)))
               [] op = "SIZE" -> Push2(m, 0, << "num", SizeOf(Top(m, 1)) >>)
               [] op = "EQUAL" -> Push2(m, 2, Bool(Top(m, 1) = Top(m, 2)))
               [] op = "EQUALVERIFY" -> Verify(m, 2, Top(m, 1) = Top(m, 2))
               [] op = "IF" -> [m EXCEPT !.st = Popped(m, 1), !.run = Truthy(Top(m, 1))]
               [] op = "DROP" -> [m EXCEPT !.st = Popped(m, 1)]
               [] op = "CLTV" -> IF lock >= Top(m, 1)[2] THEN m ELSE Fail(m)
               [] op = "CHECKSIG" -> Push2(m, 2, Bool(SigMatches(m)))
               [] op = "CHECKSIGVERIFY" -> Verify(m, 2, SigMatches(m))
               [] op = "INSPECTSCRIPT" -> Push2(m, 0, output.script)
               [] op = "INSPECTASSET" -> Push2(m, 0, output.asset)
               [] op = "INSPECTVALUE" -> Push2(m, 0, output.value)

\* A spend is valid when exactly one item is left, and it is true.
Evaluates(script, witness, lock, output) ==
    LET m == FoldLeft(LAMBDA acc, i : Execute(acc, i, lock, output),
                      [st |-> witness, ok |-> TRUE, run |-> TRUE], script)
    IN  m.ok /\ Len(m.st) = 1 /\ Truthy(m.st[1])

-----------------------------------------------------------------------------
Attempts ==
    [script : ScriptNames, size : PreimageSizes, lock : LockTimes,
     output : CovenantOutputs, witness : { << >> }]
SsInit == attempt \in Attempts

SsNext ==
    \E item \in WitnessItems :
      /\ Len(attempt.witness) < MaxItems
      /\ attempt' = [attempt EXCEPT !.witness = Append(@, item)]

SsSpec == SsInit /\ [][SsNext]_attempt

-----------------------------------------------------------------------------
Has(item) == item \in ToSet(attempt.witness)
Valid == Evaluates(ScriptOf(attempt.script, attempt.size, Timeout), attempt.witness,
                   attempt.lock, attempt.output)

Claims == Has(<< "sig", ClaimKey >>) /\ Has(<< "bytes", attempt.size >>)
Refunds == Has(<< "sig", RefundKey >>) /\ attempt.lock >= Timeout

\* Whatever witness is tried, the output of a swap is spent with the preimage and the
\* claim key, or with the refund key after the timeout; "the revealed preimage is
\* exactly 32 bytes" where Lightning has to be settled with it
\* (boltz-core/src/bitcoin/scripts/reverse_script.rs); and a covenant "pins the claim
\* transaction's outputs (asset, amount, destination)" (elements/scripts/reverse_tree.rs).
ScriptIsHtlc ==
    Valid =>
      CASE attempt.script = "swap_script" -> Claims \/ Refunds
        [] attempt.script = "reverse_script" ->
             Refunds \/ (Claims /\ attempt.size = PREIMAGE_SIZE)
        [] attempt.script = "refund_leaf" -> Refunds
        [] attempt.script = "swap_claim_leaf" -> Claims
        [] attempt.script = "reverse_claim_leaf" -> Claims /\ attempt.size = PREIMAGE_SIZE
        [] attempt.script = "covenant_claim_leaf" ->
             /\ Has(<< "bytes", PREIMAGE_SIZE >>) /\ attempt.size = PREIMAGE_SIZE
             /\ attempt.output = PinnedOutput
=============================================================================
