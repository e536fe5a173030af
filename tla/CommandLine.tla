---------------------------- MODULE CommandLine ----------------------------
(***************************************************************************)
(* The command line client (boltzr-cli/src): first its offline tools, then *)
(* the operators who control the backend with it.                          *)
(***************************************************************************)
EXTENDS Integers, Sequences, FiniteSets, SequencesExt

-----------------------------------------------------------------------------
(***************************************************************************)
(* The offline tools of the command line client (boltzr-cli/src): spending *)
(* a lockup without the counterparty (tx/utils.rs), decoding the tree of   *)
(* scripts in an Ark transaction (ark/decode.rs), parsing durations        *)
(* (parsers.rs), and which key and which function of the contracts a       *)
(* command for an EVM chain uses (main.rs, evm/utils.rs; what the          *)
(* functions do is the subject of EvmSwaps).                               *)
(*                                                                         *)
(* Hashes and aggregated keys are modelled by what they commit to: an      *)
(* output script is << kind, what it pays to >>, the aggregate of two keys *)
(* is their sequence, and a key is << x coordinate, parity >>.  Bytes are  *)
(* numbers.                                                                *)
(***************************************************************************)

CONSTANTS
    CtSpends,       \* spends the user asks for
    CtTrees,        \* leaves of trees that are encoded in Ark transactions
    CtDurations,    \* << number, suffix >> of durations
    CtEvm,          \* commands for EVM chains
    MaxSeconds      \* largest number of seconds that u64 holds

VARIABLES
    ctAt,       \* "idle", "parsing" or "done"
    ctJob,      \* << what is being done, its input >>
    ctBytes,    \* the bytes of the taptree field
    ctOffset,   \* offset of parse_ark_taptree
    ctLeaves,   \* leaves that it has pushed
    ctOut       \* the result

ctVars == << ctAt, ctJob, ctBytes, ctOffset, ctLeaves, ctOut >>

NoResult == [ ok |-> FALSE, type |-> "none", internal |-> << >>, vout |-> 0,
              seconds |-> 0, unknown |-> FALSE, key |-> "none", v |-> 0 ]

CtInit ==
    /\ ctAt = "idle" /\ ctJob = << "none" >>
    /\ ctBytes = << >> /\ ctOffset = 0 /\ ctLeaves = << >>
    /\ ctOut = NoResult

CtDone(job, out) ==
    /\ ctAt' = "done" /\ ctJob' = job /\ ctOut' = out
    /\ UNCHANGED << ctBytes, ctOffset, ctLeaves >>

-----------------------------------------------------------------------------
(* tx/utils.rs                                                             *)

TieBreakers == { 2, 3 }
PrependTieBreaker(x, tie) == << x, tie >>

\* A mutant, without the other parity: the keys of half of the counterparties are missed.
InternalKeysEven(ours, tree) ==
    LET theirs == { x \in { tree.refund, tree.claim } : x # ours[1] }
    IN  { keys \in UNION { { << ours, << x, 2 >> >>, << << x, 2 >>, ours >> } :
                             x \in theirs } : ours[1] \in { tree.refund, tree.claim } }

\* Neither the parity of the counterparty's key nor the order of the keys is known.
GenerateInternalKeys(ours, tree) ==
    LET treeKeys == { tree.refund, tree.claim }
        pairs(x) == UNION { { << ours, PrependTieBreaker(x, tie) >>,
                              << PrependTieBreaker(x, tie), ours >> } :
                            tie \in TieBreakers }
    IN  IF ours[1] \notin treeKeys THEN {}
        ELSE UNION { pairs(x) : x \in treeKeys \ { ours[1] } }

TaprootScript(internal, tree) == << "p2tr", internal, tree.id >>

\* The type of the output and the script that pays to it, for a redeem script.
LegacyScripts(script) ==
    { << "legacy", << "p2sh", << >>, script >> >>,
      << "compatibility", << "p2sh", << "p2wsh" >>, script >> >>,
      << "segwit", << "p2wsh", << >>, script >> >> }

\* find_matching_output_taproot and _legacy: the first output with one of the
\* scripts; candidates are << type or internal key, script >>.
FindMatchingOutput(outputs, candidates) ==
    LET hits == { i \in DOMAIN outputs : \E c \in candidates : c[2] = outputs[i] }
        first == CHOOSE i \in hits : \A j \in hits : i <= j
    IN  IF hits = {} THEN << >>
        ELSE << CHOOSE c \in candidates : c[2] = outputs[first], first >>

\* handle_output_type and handle_output_type_elements
HandleTree(r) ==
    LET m == FindMatchingOutput(r.outputs,
               { << k, TaprootScript(k, r.tree) >> :
                 k \in GenerateInternalKeys(r.key, r.tree) })
    IN  IF m = << >> THEN NoResult
        ELSE [ NoResult EXCEPT !.ok = TRUE, !.type = "taproot",
                               !.internal = m[1][1], !.vout = m[2] ]

HandleLegacyOutput(r) ==
    LET m == FindMatchingOutput(r.outputs, LegacyScripts(r.script))
    IN  IF m = << >> THEN NoResult
        ELSE [ NoResult EXCEPT !.ok = TRUE, !.type = m[1][1], !.vout = m[2] ]

HandleOutputType(r) ==
    CASE r.kind = "tree" -> HandleTree(r)
      [] r.kind = "script" -> HandleLegacyOutput(r)
      [] OTHER -> NoResult

\* Bitcoin is tried first; bytes that are neither are an error.
ParseTransaction(r) == r.chain
ParseAddress(r) == r.address

\* network.rs: no genesis hash is known for a Liquid signet.
LiquidGenesisHash(network) == network # "signet"

\* The destination has to be an address of the chain of the lockup.
ConstructTransaction(r) ==
    IF \/ ParseTransaction(r) = "invalid" \/ ParseAddress(r) # ParseTransaction(r)
       \/ ParseTransaction(r) = "elements" /\ ~LiquidGenesisHash(r.network)
    THEN NoResult
    ELSE HandleOutputType(r)

SpendUtxo(r) ==
    /\ ctAt = "idle"
    /\ CtDone(<< "spend", r >>, ConstructTransaction(r))

-----------------------------------------------------------------------------
(* ark/decode.rs                                                           *)

\* The encoding that Ark writes: depth, leaf version, compact size, script.  The
\* size takes one, three or five bytes, lowest byte first.
CompactSize(n, width) ==
    CASE width = 1 -> << n >>
      [] width = 3 -> << 253, n % 256, n \div 256 >>
      [] width = 5 -> << 254, n % 256, n \div 256, 0, 0 >>

EncodeLeaf(l) == << l.depth, l.version >> \o CompactSize(Len(l.script), l.width) \o l.script
EncodeTree(ls) == FlattenSeq([ i \in DOMAIN ls |-> EncodeLeaf(ls[i]) ])

HashOps == { 166, 168, 169 }
OpCsv == 178
OpCltv == 177
SigOps == { 172, 173, 186 }

\* What the opcodes of a script say of it; the scripts here push no data.
ClassifyLeaf(script) ==
    LET ops == ToSet(script)
        sigs == Len(SelectSeq(script, LAMBDA b : b \in SigOps))
    IN  IF ops \cap HashOps # {} THEN "claim"
        ELSE IF OpCsv \in ops THEN "unilateral"
        ELSE IF OpCltv \in ops THEN "refund"
        ELSE IF sigs >= 2 THEN "cooperative"
        ELSE "unknown"

TapTreeLeaf(depth, version, script) ==
    [ depth |-> depth, version |-> version, script |-> script,
      looksLike |-> ClassifyLeaf(script) ]

\* << length, bytes it takes >>, << >> when it is truncated or too large.
ReadCompactSize(data) ==
    IF data = << >> \/ data[1] = 255 THEN << >>
    ELSE IF data[1] = 253
         THEN IF Len(data) < 3 THEN << >> ELSE << data[2] + 256 * data[3], 3 >>
    ELSE IF data[1] = 254
         THEN IF Len(data) < 5 THEN << >>
              ELSE << data[2] + 256 * data[3] + 65536 * data[4]
                        + 16777216 * data[5], 5 >>
    ELSE << data[1], 1 >>

\* The field holds the encoding of a tree, or what is left of it.
DecodeTransaction(ls, cut) ==
    /\ ctAt = "idle"
    /\ ctBytes' = SubSeq(EncodeTree(ls), 1, Len(EncodeTree(ls)) - cut)
    /\ ctJob' = << "taptree", ls >>
    /\ ctAt' = "parsing" /\ ctOffset' = 0 /\ ctLeaves' = << >>
    /\ UNCHANGED ctOut

Rest(n) == SubSeq(ctBytes, n + 1, Len(ctBytes))

LeafSize(offset) == ReadCompactSize(Rest(offset + 2))

\* An iteration of parse_ark_taptree; a field that it cannot parse is listed among
\* the unknown fields.
ParseLeaf ==
    /\ ctAt = "parsing" /\ ctOffset < Len(ctBytes)
    /\ LET size == LeafSize(ctOffset)
           start == ctOffset + 2 + size[2]
       IN  IF Len(ctBytes) - ctOffset < 3 \/ size = << >>
              \/ start + size[1] > Len(ctBytes)
           THEN /\ ctAt' = "done" /\ ctOut' = [ NoResult EXCEPT !.unknown = TRUE ]
                /\ UNCHANGED << ctOffset, ctLeaves >>
           ELSE /\ ctLeaves' = Append(ctLeaves,
                     TapTreeLeaf(ctBytes[ctOffset + 1], ctBytes[ctOffset + 2],
                                 SubSeq(ctBytes, start + 1, start + size[1])))
                /\ ctOffset' = start + size[1]
                /\ UNCHANGED << ctAt, ctOut >>
    /\ UNCHANGED << ctJob, ctBytes >>

ParseArkTaptree ==
    /\ ctAt = "parsing" /\ ctOffset = Len(ctBytes)
    /\ ctAt' = "done" /\ ctOut' = [ NoResult EXCEPT !.ok = TRUE ]
    /\ UNCHANGED << ctJob, ctBytes, ctOffset, ctLeaves >>

-----------------------------------------------------------------------------
(* parsers.rs                                                              *)

SecondsOf == [ s |-> 1, m |-> 60, h |-> 3600, d |-> 86400, w |-> 604800,
               y |-> 31536000 ]

\* A mutant: without checked_mul.
HumanDurationUnchecked(n, suffix) ==
    LET mult == IF suffix = "" THEN 1 ELSE SecondsOf[suffix]
    IN  IF n = -1 \/ suffix \notin DOMAIN SecondsOf \cup { "" } THEN NoResult
        ELSE [ NoResult EXCEPT !.ok = TRUE, !.seconds = n * mult ]

\* A bare number is in seconds; -1 stands for no number or not a number.
HumanDuration(n, suffix) ==
    LET mult == IF suffix = "" THEN 1 ELSE SecondsOf[suffix]
    IN  IF n = -1 \/ suffix \notin DOMAIN SecondsOf \cup { "" } \/ n > MaxSeconds \div mult
        THEN NoResult
        ELSE [ NoResult EXCEPT !.ok = TRUE, !.seconds = n * mult ]

ParseDuration(d) ==
    /\ ctAt = "idle"
    /\ CtDone(<< "duration", d >>, HumanDuration(d[1], d[2]))

-----------------------------------------------------------------------------
(* Commands for EVM chains.                                                *)

\* A private key of the command line goes before the seed.
EvmKeys(c) == IF c.privateKey THEN "private key" ELSE "seed path"

\* read_mnemonic: the seed of EVM chains goes before the one of all chains.
ReadMnemonic(files) ==
    IF "seedEvm.dat" \in files THEN "seedEvm.dat"
    ELSE IF "seed.dat" \in files THEN "seed.dat" ELSE "none"

GetProvider(c) == IF EvmKeys(c) = "private key" THEN EvmKeys(c) ELSE ReadMnemonic(c.files)

\* The function of a command, for a token or for the coin of the chain.
OfToken(c) == IF c.token THEN "erc20" ELSE "ether"
EvmFunction(c) ==
    CASE c.op \in { "lock", "claim", "refund" } -> << c.op, OfToken(c) >>
      [] c.op = "get_balance" -> << c.op, OfToken(c) >>
      [] c.op = "locked_in_contract" -> << c.op, IF c.erc20 THEN "erc20" ELSE "ether" >>
      [] OTHER -> << c.op, "any" >>

\* print_signature: v is the recovery id plus 27, when it is split.
PrintSignature(c) == [ NoResult EXCEPT !.ok = TRUE, !.type = "signature",
                                       !.v = IF c.vrs THEN c.recovery + 27 ELSE 0 ]

\* print_evm_address_from_mnemonic: an empty path is refused before the file is read.
PrintEvmAddressFromMnemonic(c) ==
    IF c.path = "" \/ c.files = {} THEN NoResult
    ELSE [ NoResult EXCEPT !.ok = TRUE, !.type = "address", !.key = "mnemonic file" ]

WithoutKeys == { "locked_in_contract", "print_signature", "address_from_mnemonic" }

RunEvmCommand(c) ==
    CASE c.op = "print_signature" -> PrintSignature([ c EXCEPT !.vrs = TRUE ])
      [] c.op = "address_from_mnemonic" -> PrintEvmAddressFromMnemonic(c)
      [] c.op \in { "sign_commitment", "sign_refund" } /\ GetProvider(c) # "none" ->
           [ PrintSignature(c) EXCEPT !.key = GetProvider(c) ]
      [] c.op \notin WithoutKeys /\ GetProvider(c) = "none" -> NoResult
      [] OTHER -> [ NoResult EXCEPT !.ok = TRUE, !.type = EvmFunction(c)[2],
                                    !.key = IF c.op \in WithoutKeys THEN "none"
                                            ELSE GetProvider(c) ]

EvmCommand(c) ==
    /\ ctAt = "idle"
    /\ CtDone(<< "evm", c >>, RunEvmCommand(c))

-----------------------------------------------------------------------------
CtNext ==
    \/ \E r \in CtSpends : SpendUtxo(r)
    \/ \E ls \in CtTrees : \E cut \in 0..Len(EncodeTree(ls)) : DecodeTransaction(ls, cut)
    \/ ParseLeaf \/ ParseArkTaptree
    \/ \E d \in CtDurations : ParseDuration(d)
    \/ \E c \in CtEvm : EvmCommand(c)

CtSpec == CtInit /\ [][CtNext]_ctVars

-----------------------------------------------------------------------------
\* The type of the tool's state.
CtTypeOK ==
    /\ ctAt \in { "idle", "parsing", "done" }
    /\ ctOffset \in 0..Len(ctBytes)
    /\ ctOut.vout \in Nat /\ ctOut.seconds \in 0..MaxSeconds

\* construct_transaction: a lockup that pays to the user's key and one of the tree's
\* other key, in whichever order and whatever its parity, is found, with the keys it
\* was made with; the input spends the first such output and no other output.
LockupIsFound ==
    (ctAt = "done" /\ ctJob[1] = "spend" /\ ctJob[2].kind = "tree") =>
        LET r == ctJob[2]
            mine == { i \in DOMAIN r.outputs :
                        /\ r.outputs[i][1] = "p2tr" /\ r.outputs[i][3] = r.tree.id
                        /\ \E x \in { r.tree.refund, r.tree.claim } \ { r.key[1] } :
                             ToSet(r.outputs[i][2])
                               \in { { r.key, << x, 2 >> }, { r.key, << x, 3 >> } } }
            can == r.key[1] \in { r.tree.refund, r.tree.claim } /\ r.address = r.chain
                   /\ (r.chain = "elements" => r.network # "signet")
        IN  /\ ctOut.ok <=> (can /\ mine # {})
            /\ ctOut.ok => /\ ctOut.vout \in mine
                           /\ \A i \in mine : ctOut.vout <= i
                           /\ r.outputs[ctOut.vout] = TaprootScript(ctOut.internal, r.tree)

\* The redeem script of an old swap is matched with the type of the output that pays
\* to it, so that the input is signed the way the output asks for.
LegacyTypeMatches ==
    (ctAt = "done" /\ ctJob[1] = "spend" /\ ctJob[2].kind = "script" /\ ctOut.ok) =>
        LET o == ctJob[2].outputs[ctOut.vout]
        IN  /\ o[3] = ctJob[2].script
            /\ ctOut.type = "segwit" <=> o[1] = "p2wsh"
            /\ ctOut.type = "compatibility" <=> o[2] = << "p2wsh" >>

\* parse_ark_taptree inverts the encoding: the leaves it has pushed are the first
\* leaves that were encoded, all of them when it succeeds, and it succeeds exactly
\* when the bytes end where a leaf ends.
TaptreeRoundTrips ==
    (ctAt # "idle" /\ ctJob[1] = "taptree") =>
        LET ls == ctJob[2]
            ends == { Len(EncodeTree(SubSeq(ls, 1, n))) : n \in 0..Len(ls) }
        IN  /\ Len(ctLeaves) <= Len(ls)
            /\ \A i \in DOMAIN ctLeaves :
                 ctLeaves[i] = TapTreeLeaf(ls[i].depth, ls[i].version, ls[i].script)
            /\ ctAt = "done" => (ctOut.ok <=> Len(ctBytes) \in ends)
            /\ (ctAt = "done" /\ ctOut.ok) =>
                 Len(EncodeTree(SubSeq(ls, 1, Len(ctLeaves)))) = Len(ctBytes)

\* A lockup is claimed or refunded with the contract and the key that a lock with
\* the same options uses; a seed is read only when no private key is given.
EvmCommandsAgree ==
    (ctAt = "done" /\ ctJob[1] = "evm" /\ ctJob[2].op \in { "claim", "refund" }) =>
        LET lock == RunEvmCommand([ ctJob[2] EXCEPT !.op = "lock" ])
        IN  /\ ctOut = lock
            /\ ctOut.key \in { "seed.dat", "seedEvm.dat" } =>
                 ~ctJob[2].privateKey /\ ctOut.key \in ctJob[2].files
            /\ ctOut.ok <=> ctJob[2].privateKey \/ ctJob[2].files # {}

\* The tools spend, decode, parse and call what they were given.
ToolsAreSound ==
    LockupIsFound /\ LegacyTypeMatches /\ TaptreeRoundTrips /\ EvmCommandsAgree

-----------------------------------------------------------------------------
(***************************************************************************)
(* Operators who control the backend with the command line client          *)
(* (boltzr-cli/src/main.rs, grpc/mod.rs and ark/mod.rs).  A command may    *)
(* have to be confirmed, then the client chooses its token, connects and   *)
(* makes one call.  The backend is external: it applies what the calls ask *)
(* for, in any order, and an answer may be lost.                           *)
(*                                                                         *)
(* A command is a record of its name and arguments, a call a record of the *)
(* method and the message; both have a field for every argument.           *)
(***************************************************************************)

CONSTANTS
    CcCommands,     \* commands that the operator at a terminal runs
    CcClis,         \* their global options: token, token file, certificates
    CcTerminals,    \* terminals that run one command each
    CcSigners,      \* the names of the signers in the order of their numbers
    CcSweeps        \* onchain amounts of the pending sweeps

VARIABLES
    ccAt,           \* where a terminal is
    ccCommand,      \* its command
    ccCli,          \* its global options
    ccCall,         \* the call that it makes
    ccResponse,     \* the response to it
    ccPrinted,      \* what it prints
    ccYes,          \* << command, id >> that an operator has confirmed
    ccDisabled,     \* numbers of the signers that are disabled
    ccRotated,      \* referrals with new keys
    ccTokens        \* tokens that are not revoked

ccVars == << ccAt, ccCommand, ccCli, ccCall, ccResponse, ccPrinted, ccYes, ccDisabled,
             ccRotated, ccTokens >>

NoArgs == [ op |-> "none", id |-> "", signers |-> {}, all |-> FALSE, amount |-> 0,
            seconds |-> -1, yes |-> FALSE, tty |-> TRUE, hex |-> "" ]
NoCall == [ method |-> "none", token |-> "", id |-> "", numbers |-> {}, amount |-> 0,
            sendAll |-> FALSE, seconds |-> -1, field |-> "" ]
NoResponse == [ ok |-> FALSE, disabled |-> {}, tokens |-> {}, sweeps |-> << >> ]
NothingPrinted == [ names |-> {}, tokens |-> {}, sum |-> 0 ]

CcInit ==
    /\ ccAt = [ t \in CcTerminals |-> "idle" ]
    /\ ccCommand = [ t \in CcTerminals |-> NoArgs ]
    /\ ccCli \in { f \in [ CcTerminals -> UNION { CcClis[t] : t \in CcTerminals } ] :
                  \A t \in CcTerminals : f[t] \in CcClis[t] }
    /\ ccCall = [ t \in CcTerminals |-> NoCall ]
    /\ ccResponse = [ t \in CcTerminals |-> NoResponse ]
    /\ ccPrinted = [ t \in CcTerminals |-> NothingPrinted ]
    /\ ccYes = {} /\ ccDisabled = { 1 } /\ ccRotated = {} /\ ccTokens = { "a", "b" }

-----------------------------------------------------------------------------
(* The calls (grpc/mod.rs).                                                *)

\* The call that names the command's id and nothing else.
PassesId(c) == [ NoCall EXCEPT !.method = c.op, !.id = c.id ]

ReferralCalls(c) ==
    c.op \in { "add_referral", "rotate_referral_keys", "allow_refund" }

\* From<Signer> for i32
SignerNumber(s) == CHOOSE n \in DOMAIN CcSigners : CcSigners[n] = s
SignerName(n) == IF n \in DOMAIN CcSigners THEN CcSigners[n] ELSE "unknown"

SignerCalls(c) ==
    [ PassesId(c) EXCEPT !.numbers = { SignerNumber(s) : s \in c.signers } ]

TransactionCalls(c) == c.op \in { "calculate_transaction_fee", "check_transaction" }

\* The type of the swap is the id.
ClnThreshold(c) == [ PassesId(c) EXCEPT !.amount = c.amount ]

KeyCalls(c) ==
    c.op \in { "derive_blinding_keys", "derive_keys", "get_address", "get_balance",
               "get_label", "get_pending_evm_transactions" }

SwapCalls(c) ==
    c.op \in { "set_referral", "get_referrals", "get_pending_sweeps", "rescan" }

\* All the coins are sent with the amount zero.
SendCoins(c) ==
    [ PassesId(c) EXCEPT !.amount = IF c.all THEN 0 ELSE c.amount, !.sendAll = c.all ]

StatusCalls(c) == c.op \in { "set_log_level", "set_swap_status", "stop", "sweep_swaps" }

\* The id is preferred to the transaction itself; one of them is needed.
UnblindOutputs(c) ==
    IF c.id # "" THEN [ PassesId(c) EXCEPT !.field = "id" ]
    ELSE IF c.hex # "" THEN [ PassesId(c) EXCEPT !.id = c.hex, !.field = "hex" ]
    ELSE NoCall

DevCalls(c) ==
    c.op \in { "dev_clear_swap_update_cache", "dev_heap_dump",
               "dev_refresh_balance_cache" }

JwtCalls(c) == [ PassesId(c) EXCEPT !.seconds = c.seconds ]

-----------------------------------------------------------------------------
(* Tokens.                                                                 *)

NoToken == ""
TokenError == "error"

\* A file is [named, exists, token]; the token of an option or a file is trimmed.
ResolveJwt(cli) ==
    IF cli.noJwt THEN NoToken
    ELSE IF cli.jwtGiven THEN cli.jwt
    ELSE IF ~cli.file.exists
         THEN IF cli.file.named THEN TokenError ELSE NoToken
    ELSE cli.file.token

\* new: without the certificates there is no connection unless SSL is disabled.
GetGrpcClient(cli) ==
    /\ ResolveJwt(cli) # TokenError
    /\ cli.disableSsl \/ cli.certificates

-----------------------------------------------------------------------------
(* The commands (main.rs).                                                 *)

\* What is done before the client is created: "send" the call, "ask" the operator
\* first or "refuse".
ReferralStep(c) ==
    IF c.op # "rotate_referral_keys" THEN "send" ELSE IF c.tty THEN "ask" ELSE "refuse"

\* An expiry of zero is refused, none is a token that never expires.
JwtStep(c) ==
    CASE c.op = "issue_jwt" -> IF c.seconds = 0 THEN "refuse" ELSE "send"
      [] c.op = "revoke_jwt" ->
           IF c.yes THEN "send" ELSE IF c.tty THEN "ask" ELSE "refuse"
      [] OTHER -> "send"

\* Every signer that the client knows when all are asked for.
SignerArgs(c) == IF c.all THEN [ c EXCEPT !.signers = ToSet(CcSigners) ] ELSE c

WalletCommand(c) ==
    CASE c.op = "send_coins" -> SendCoins(c)
      [] c.op = "unblind_outputs" -> UnblindOutputs(c)
      [] TransactionCalls(c) \/ KeyCalls(c) -> PassesId(c)
      [] OTHER -> NoCall

SwapCommand(c) ==
    CASE c.op = "cln_threshold" -> ClnThreshold(c)
      [] c.op \in { "allow_refund", "get_pending_sweeps", "set_swap_status",
                    "sweep_swaps" } -> PassesId(c)
      [] OTHER -> NoCall

\* NoCall when the arguments make none.
CommandCall(c) ==
    IF c.op \in { "disable_signers", "enable_signers", "get_disabled_signers" }
    THEN SignerCalls(SignerArgs(c))
    ELSE IF c.op \in { "issue_jwt", "revoke_jwt", "list_jwts", "list_methods" }
    THEN JwtCalls(c)
    ELSE IF WalletCommand(c) # NoCall THEN WalletCommand(c)
    ELSE IF SwapCommand(c) # NoCall THEN SwapCommand(c)
    ELSE IF ReferralCalls(c) \/ SwapCalls(c) \/ StatusCalls(c) \/ DevCalls(c)
            \/ c.op = "get_info"
    THEN PassesId(c)
    ELSE NoCall

\* list filters by the beginning of the id; ids are single letters here.
ListedTokens(c, tokens) == IF c.id = "" THEN tokens ELSE tokens \cap { c.id }

Prints(c, r) ==
    [ names |-> { SignerName(n) : n \in r.disabled },
      tokens |-> ListedTokens(c, r.tokens),
      sum |-> FoldSeq(LAMBDA a, b : a + b, 0, r.sweeps) ]

Moves(t, at) == ccAt' = [ ccAt EXCEPT ![t] = at ]
Backend == << ccDisabled, ccRotated, ccTokens >>
Client == << ccCli, ccPrinted >>

FirstStep(c) ==
    IF c.op = "rotate_referral_keys" THEN ReferralStep(c) ELSE JwtStep(c)

RunCommand(t, c) ==
    /\ ccAt[t] = "idle"
    /\ ccCommand' = [ ccCommand EXCEPT ![t] = c ]
    /\ Moves(t, CASE FirstStep(c) = "ask" -> "asking"
                 [] FirstStep(c) = "send" -> "connecting"
                 [] OTHER -> "failed")
    /\ ccYes' = IF c.yes THEN ccYes \cup { << c.op, c.id >> } ELSE ccYes
    /\ UNCHANGED << ccCall, ccResponse >> /\ UNCHANGED Client /\ UNCHANGED Backend

\* The operator answers; the default is no.
ConfirmPrompt(t, yes) ==
    /\ ccAt[t] = "asking"
    /\ Moves(t, IF yes THEN "connecting" ELSE "aborted")
    /\ ccYes' = IF yes THEN ccYes \cup { << ccCommand[t].op, ccCommand[t].id >> } ELSE ccYes
    /\ UNCHANGED << ccCommand, ccCall, ccResponse >>
    /\ UNCHANGED Client /\ UNCHANGED Backend

\* req puts the token into the metadata of the call.
Req(t) == [ CommandCall(ccCommand[t]) EXCEPT !.token = ResolveJwt(ccCli[t]) ]

MakeCall(t) ==
    /\ ccAt[t] = "connecting"
    /\ IF GetGrpcClient(ccCli[t]) /\ CommandCall(ccCommand[t]) # NoCall
       THEN Moves(t, "sent") /\ ccCall' = [ ccCall EXCEPT ![t] = Req(t) ]
       ELSE Moves(t, "failed") /\ UNCHANGED ccCall
    /\ UNCHANGED << ccCommand, ccResponse, ccYes >>
    /\ UNCHANGED Client /\ UNCHANGED Backend

\* The backend applies the call.
Serve(t) ==
    LET call == ccCall[t] IN
    /\ ccAt[t] = "sent"
    /\ ccDisabled' = CASE call.method = "disable_signers" -> ccDisabled \cup call.numbers
                       [] call.method = "enable_signers" -> ccDisabled \ call.numbers
                       [] OTHER -> ccDisabled
    /\ ccRotated' = IF call.method = "rotate_referral_keys"
                    THEN ccRotated \cup { call.id } ELSE ccRotated
    /\ ccTokens' = IF call.method = "revoke_jwt" THEN ccTokens \ { call.id } ELSE ccTokens
    /\ ccResponse' = [ ccResponse EXCEPT ![t] =
         [ ok |-> TRUE,
           disabled |-> ccDisabled',
           tokens |-> IF call.method = "list_jwts" THEN ccTokens ELSE {},
           sweeps |-> IF call.method = "get_pending_sweeps" THEN CcSweeps ELSE << >> ] ]
    /\ Moves(t, "served")
    /\ UNCHANGED << ccCommand, ccCall, ccYes >> /\ UNCHANGED Client

\* The call is refused, or its answer is lost after it was applied.
CallFails(t) ==
    /\ ccAt[t] \in { "sent", "served" }
    /\ Moves(t, "failed")
    /\ UNCHANGED << ccCommand, ccCall, ccResponse, ccYes >>
    /\ UNCHANGED Client /\ UNCHANGED Backend

PrintPretty(t) ==
    /\ ccAt[t] = "served"
    /\ ccPrinted' = [ ccPrinted EXCEPT ![t] = Prints(ccCommand[t], ccResponse[t]) ]
    /\ Moves(t, "done")
    /\ UNCHANGED << ccCommand, ccCli, ccCall, ccResponse, ccYes >> /\ UNCHANGED Backend

CcNext ==
    \E t \in CcTerminals :
        \/ \E c \in CcCommands[t] : RunCommand(t, c)
        \/ \E yes \in BOOLEAN : ConfirmPrompt(t, yes)
        \/ MakeCall(t) \/ Serve(t) \/ CallFails(t) \/ PrintPretty(t)

CcSpec == CcInit /\ [][CcNext]_ccVars

-----------------------------------------------------------------------------
\* The type of the state of the terminals and the backend.
CcTypeOK ==
    /\ ccAt \in [ CcTerminals -> { "idle", "asking", "connecting", "sent", "served",
                                   "done", "failed", "aborted" } ]
    /\ ccDisabled \subseteq DOMAIN CcSigners
    /\ \A t \in CcTerminals : ccCall[t].numbers \subseteq DOMAIN CcSigners

\* run_command: keys are rotated and tokens revoked only for an operator who said yes
\* to that id, at the prompt or with --yes, whatever the other terminals do and also
\* when the answer to the call was lost.
DestructiveIsConfirmed ==
    /\ \A id \in ccRotated : << "rotate_referral_keys", id >> \in ccYes
    /\ \A id \in { "a", "b" } \ ccTokens : << "revoke_jwt", id >> \in ccYes

\* resolve_jwt: a call is made with the token of the option, else of the file; it goes
\* without one only when that was asked for, the source is blank or the default file
\* does not exist, never because a file that was named is missing.
TokenIsChosen ==
    \A t \in CcTerminals :
        ccAt[t] \in { "sent", "served", "done" } =>
            LET cli == ccCli[t]
                token == ccCall[t].token
            IN  /\ cli.noJwt => token = NoToken
                /\ (~cli.noJwt /\ cli.jwtGiven) => token = cli.jwt
                /\ (~cli.noJwt /\ ~cli.jwtGiven /\ cli.file.named) =>
                     cli.file.exists /\ token = cli.file.token
                /\ cli.disableSsl \/ cli.certificates

\* disable --all leaves no signer enabled when it is applied, enable --all none
\* disabled, and what a terminal prints is what was disabled then.
AllSignersAreMeant ==
    \A t \in CcTerminals :
        ccAt[t] \in { "served", "done" } =>
            /\ (ccCommand[t].op = "disable_signers" /\ ccCommand[t].all) =>
                 ccResponse[t].disabled = DOMAIN CcSigners
            /\ (ccCommand[t].op = "enable_signers" /\ ccCommand[t].all) =>
                 ccResponse[t].disabled = {}
            /\ ccAt[t] = "done" =>
                 Cardinality(ccPrinted[t].names) = Cardinality(ccResponse[t].disabled)

\* The commands do what their operator asked for and confirmed.
ControlIsSound == DestructiveIsConfirmed /\ TokenIsChosen /\ AllSignersAreMeant
=============================================================================
