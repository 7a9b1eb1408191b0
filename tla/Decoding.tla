------------------------------ MODULE Decoding ------------------------------
(***************************************************************************)
(* The ways from a contract's log to an event and back: the router and     *)
(* decoders of src/ingestion, the offline decoders of                      *)
(* src/tools/extract_fixtures.py, and the encoder of the mock node         *)
(* (src/tools/mock_wss/replay.py).                                         *)
(*                                                                         *)
(* A log's data is a sequence of words 0 .. 2*Half-1, an address is a      *)
(* number and a topic0 a name; data[1] is the code's word 0.  An event is  *)
(* a record with the pair token and the pair amount (0 first).  A function *)
(* that may raise or return None returns a set: the result, or nothing.    *)
(***************************************************************************)
EXTENDS Integers, Sequences

CONSTANTS Half,           \* half of what an ABI word holds: 2 ^ 255
          UniPool, Usdc, Weth, AaveV2Pool, AaveV3Pool,
          Whitelist       \* ingestion/whitelist.yaml: address -> protocol, token

ASSUME WordAssumption == Half \in Nat \ {0}

Zero == 0                 \* ZERO_ADDRESS, and a zero word

(* Mutant: the smallest negative number is taken for a positive one.         *)
SignedStrict(word) == IF word > Half THEN word - 2 * Half ELSE word

(* Two's complement: _int_from_hex(signed=True), abi_decode of an int256.    *)
Signed(word) == IF word >= Half THEN word - 2 * Half ELSE word

Event(log, ts, protocol, type, pool, token, amount) ==
    [block |-> log.block, ts |-> ts, protocol |-> protocol, type |-> type,
     pool |-> pool, token |-> token, amount |-> amount, tx |-> log.tx,
     index |-> log.index]

-----------------------------------------------------------------------------
(* What each decoder reads: the words its ABI types need, those of amount0   *)
(* and amount1 (0: none, the amount is 0), and whether they are signed.      *)
UniswapAbi ==
    [Swap |-> [type |-> "swap", words |-> 5, at |-> <<1, 2>>, signed |-> TRUE],
     Mint |-> [type |-> "mint", words |-> 4, at |-> <<3, 4>>, signed |-> FALSE],
     Burn |-> [type |-> "burn", words |-> 3, at |-> <<2, 3>>, signed |-> FALSE]]

(* Mutant: a liquidation's two amounts in the order of its data.             *)
AaveAbiUnswapped ==
    [Supply |-> [type |-> "supply", words |-> 2, at |-> <<2, 0>>, signed |-> FALSE],
     Borrow |-> [type |-> "borrow", words |-> 4, at |-> <<2, 0>>, signed |-> FALSE],
     Withdraw |-> [type |-> "withdraw", words |-> 1, at |-> <<1, 0>>, signed |-> FALSE],
     LiquidationCall |->
         [type |-> "liquidation", words |-> 4, at |-> <<1, 2>>, signed |-> FALSE]]

AaveAbi ==
    [Supply |-> [type |-> "supply", words |-> 2, at |-> <<2, 0>>, signed |-> FALSE],
     Borrow |-> [type |-> "borrow", words |-> 4, at |-> <<2, 0>>, signed |-> FALSE],
     Withdraw |-> [type |-> "withdraw", words |-> 1, at |-> <<1, 0>>, signed |-> FALSE],
     LiquidationCall |->
         [type |-> "liquidation", words |-> 4, at |-> <<2, 1>>, signed |-> FALSE]]

(* abi_decode raises on data that is too short; an unknown topic0 raises.    *)
Decodes(log, abi) == /\ log.topics[1] \in DOMAIN abi
                     /\ Len(log.data) >= abi[log.topics[1]].words

Amount(log, kind, k) ==
    IF kind.at[k] = 0 THEN 0
    ELSE IF kind.signed THEN Signed(log.data[kind.at[k]])
    ELSE log.data[kind.at[k]]

Amounts(log, kind) == <<Amount(log, kind, 1), Amount(log, kind, 2)>>

UniswapDecode(log, meta, ts) ==
    {Event(log, ts, "uniswap_v3", kind.type, log.address, meta, Amounts(log, kind)) :
     kind \in {UniswapAbi[t] : t \in {log.topics[1]} \cap DOMAIN UniswapAbi}}

(* The reserve, or collateral and debt asset, are the first indexed topics.  *)
AaveDecode(log, ts) ==
    {Event(log, ts, "aave_v3", kind.type, log.address,
           <<log.topics[2], IF kind.type = "liquidation" THEN log.topics[3] ELSE Zero>>,
           Amounts(log, kind)) :
     kind \in {AaveAbi[t] : t \in {log.topics[1]} \cap DOMAIN AaveAbi}}

(* EventRouter.route: nothing for a contract that is not whitelisted.        *)
Route(log, ts) ==
    IF log.address \notin DOMAIN Whitelist THEN {}
    ELSE LET entry == Whitelist[log.address]
         IN  IF entry.protocol = "uniswap_v3"
             THEN IF Decodes(log, UniswapAbi) THEN UniswapDecode(log, entry.token, ts) ELSE {}
             ELSE IF Decodes(log, AaveAbi) THEN AaveDecode(log, ts) ELSE {}

-----------------------------------------------------------------------------
(* The offline decoders.  version is the period's, "aave_v2" or "aave_v3".   *)
DecodeUniv3Swap(log) ==
    Event(log, log.ts, "uniswap_v3", "swap", UniPool, <<Usdc, Weth>>,
          <<Signed(log.data[1]), Signed(log.data[2])>>)

AavePool(version) == IF version = "aave_v2" THEN AaveV2Pool ELSE AaveV3Pool

DecodeAaveBorrow(log, version) ==
    Event(log, log.ts, version, "borrow", AavePool(version),
          <<log.topics[2], Zero>>, <<log.data[2], 0>>)

DecodeAaveSupply(log, version) ==
    Event(log, log.ts, version, "supply", AavePool(version),
          <<log.topics[2], Zero>>, <<log.data[2], 0>>)

DecodeAaveLiquidation(log, version) ==
    Event(log, log.ts, version, "liquidation", AavePool(version),
          <<log.topics[2], log.topics[3]>>, <<log.data[2], log.data[1]>>)

-----------------------------------------------------------------------------
ToWord(n) == n % (2 * Half)
FitsInt(n) == n \in -Half .. Half - 1
FitsUint(n) == n \in 0 .. 2 * Half - 1

(* _encode_event with _EVENT_TOPIC0: topics, data, and whether every amount  *)
(* it encodes fits its type.                                                 *)
EncodeEvent(type, a, token) ==
    CASE type = "swap" ->
            [topics |-> <<"Swap", Zero, Zero>>, fits |-> FitsInt(a[1]) /\ FitsInt(a[2]),
             data |-> <<ToWord(a[1]), ToWord(a[2]), 0, 0, 0>>]
      [] type = "mint" ->
            [topics |-> <<"Mint", Zero, Zero, Zero>>, fits |-> FitsUint(a[1]) /\ FitsUint(a[2]),
             data |-> <<0, 0, a[1], a[2]>>]
      [] type = "burn" ->
            [topics |-> <<"Burn", Zero, Zero, Zero>>, fits |-> FitsUint(a[1]) /\ FitsUint(a[2]),
             data |-> <<0, a[1], a[2]>>]
      [] type = "supply" ->
            [topics |-> <<"Supply", token[1], Zero, Zero>>, fits |-> FitsUint(a[1]),
             data |-> <<0, a[1]>>]
      [] type = "borrow" ->
            [topics |-> <<"Borrow", token[1], Zero, Zero>>, fits |-> FitsUint(a[1]),
             data |-> <<0, a[1], 0, 0>>]
      [] type = "withdraw" ->
            [topics |-> <<"Withdraw", token[1], Zero, Zero>>, fits |-> FitsUint(a[1]),
             data |-> <<a[1]>>]
      [] type = "liquidation" ->
            [topics |-> <<"LiquidationCall", token[1], token[2], Zero>>,
             fits |-> FitsUint(a[1]) /\ FitsUint(a[2]), data |-> <<a[2], a[1], 0, 0>>]
      [] OTHER ->
            [topics |-> <<"Zero">>, fits |-> FitsInt(a[1]) /\ FitsInt(a[2]),
             data |-> <<ToWord(a[1]), ToWord(a[2])>>]

(* Nothing for a row that cannot be encoded: the replay skips it.            *)
BuildRawLog(row) ==
    {[address |-> row.pool, topics |-> x.topics, data |-> x.data,
      block |-> row.block, tx |-> row.tx, index |-> row.index] :
     x \in {y \in {EncodeEvent(row.type, row.amount, row.token)} : y.fits}}
=============================================================================
