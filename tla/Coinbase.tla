------------------------------ MODULE Coinbase ------------------------------
(***************************************************************************)
(* The coinbase transaction of a job: the job manager's list of outputs,   *)
(* over which the reward is shared, the scripts, and the two parts between *)
(* which a miner puts the extra nonces.  An output is [kind, data, coins]; *)
(* a commitment is an output without coins.  One thread, the pool's        *)
(* updater, works on the list.  Amounts have no largest value here.        *)
(***************************************************************************)
EXTENDS Bytes

CONSTANTS Precision,       \* CORRECTION_FACTOR_PRECISION
          CommitmentData   \* CoinbaseWitnessCommitment::forCoinbaseOnly()

ASSUME CoinbaseAssumption ==
  /\ Precision \in Nat \ {0}
  /\ CommitmentData \in Seq(0..255)

VARIABLES
  coinbaseOutputs,  \* JobManager::coinbaseOutputs
  coinbaseCoins,    \* the reward: networkState.coinbaseCoins of the latest work
  caller,           \* of rebalance(): "update" (updateCoinbaseOutputs()) or
                    \* "generate" (generateCoinbaseTransaction()); "nobody"
                    \* between two updates, "crashed"
  pass,             \* of rebalance(): "first", "again" once it has called
                    \* itself, or "returned"
  newOutputs,       \* history: the outputs as they were last set
  coinbase          \* the outputs of JobManager::coinbase, <<>> before it is built

managerVars == <<coinbaseOutputs, coinbaseCoins, caller, pass, newOutputs, coinbase>>

SumOf(s) ==
  LET upTo[i \in 0..Len(s)] == IF i = 0 THEN 0 ELSE upTo[i - 1] + s[i]
  IN  upTo[Len(s)]

(***************************************************************************)
(* CoinbaseOutputs::rebalance                                              *)
(***************************************************************************)
(* (Variant: the factor is rounded up.) *)
CorrectionRoundedUp(total, shares) ==
  (total * Precision + shares - 1) \div shares

CorrectionFactor(total, shares) == (total * Precision) \div shares

(* (Variant: the loop stops before the last output.) *)
CorrectedButLast(amounts, factor) ==
  [i \in DOMAIN amounts |->
     IF i = Len(amounts) THEN amounts[i] ELSE (amounts[i] * factor) \div Precision]

Corrected(amounts, factor) ==
  [i \in DOMAIN amounts |-> (amounts[i] * factor) \div Precision]

Coins(outputs) == [i \in DOMAIN outputs |-> outputs[i].coins]

WithCoins(outputs, amounts) ==
  [i \in DOMAIN outputs |-> [outputs[i] EXCEPT !.coins = amounts[i]]]

Shares == SumOf(Coins(coinbaseOutputs))

Rebalancing == caller \in {"update", "generate"} /\ pass # "returned"

(* No outputs, no shares, or balanced already. *)
RebalanceReturns ==
  /\ Rebalancing
  /\ Shares \in {0, coinbaseCoins}
  /\ pass' = "returned"
  /\ UNCHANGED <<coinbaseOutputs, coinbaseCoins, caller, newOutputs, coinbase>>

(* (Variant: what rounding leaves is not looked at.) *)
RebalanceOnce ==
  /\ Rebalancing
  /\ Shares \notin {0, coinbaseCoins}
  /\ coinbaseOutputs' =
       WithCoins(coinbaseOutputs,
                 Corrected(Coins(coinbaseOutputs), CorrectionFactor(coinbaseCoins, Shares)))
  /\ pass' = "returned"
  /\ UNCHANGED <<coinbaseCoins, caller, newOutputs, coinbase>>

(* One call: it returns if the new amounts add up, or calls itself. *)
RebalancePass ==
  /\ Rebalancing
  /\ Shares \notin {0, coinbaseCoins}
  /\ coinbaseOutputs' =
       WithCoins(coinbaseOutputs,
                 Corrected(Coins(coinbaseOutputs), CorrectionFactor(coinbaseCoins, Shares)))
  /\ pass' = IF Shares' = coinbaseCoins THEN "returned" ELSE "again"
  /\ UNCHANGED <<coinbaseCoins, caller, newOutputs, coinbase>>

-----------------------------------------------------------------------------
(***************************************************************************)
(* Scripts                                                                 *)
(***************************************************************************)
OpReturn == 106

(* The fewest bytes of which the last one lacks the sign bit. *)
FromUInt(n) ==
  LET upper == n \div 128
  IN  LittleEndian(n, IF upper = 0 THEN 1 ELSE IF upper < 256 THEN 2
                      ELSE IF upper < 65536 THEN 3 ELSE IF upper < 16777216 THEN 4 ELSE 5)

Push(data) ==
  LET size == Len(data)
  IN  IF data \in {<<>>, <<0>>} THEN <<0>>
      ELSE IF size = 1 /\ data[1] <= 16 THEN <<data[1] + 80>>
      ELSE IF size <= 75 THEN <<size>> \o data
      ELSE IF size < 256 THEN <<76, size>> \o data
      ELSE IF size < 65536 THEN <<77>> \o LittleEndian(size, 2) \o data
      ELSE <<78>> \o LittleEndian(size, 4) \o data

RedeemScript(output) ==
  CASE output.kind = "commitment" -> <<OpReturn>> \o Push(output.data)
    [] output.kind = "P2PKH"  -> <<118, 169>> \o Push(output.data) \o <<136, 172>>
    [] output.kind = "P2SH"   -> <<169>> \o Push(output.data) \o <<135>>
    [] output.kind = "P2WPKH" -> <<0>> \o Push(output.data)

EncodeOutput(output) ==
  LittleEndian(output.coins, 8) \o VarData(RedeemScript(output))

IsCommitment(output) == RedeemScript(output)[1] = OpReturn

-----------------------------------------------------------------------------
(***************************************************************************)
(* JobManager's updates                                                    *)
(***************************************************************************)
(* The only one there is: no block has transactions with witnesses. *)
Commitment == [kind |-> "commitment", data |-> CommitmentData, coins |-> 0]

JobManagerInit(total) ==
  /\ coinbaseOutputs = <<>> /\ newOutputs = <<>> /\ coinbase = <<>>
  /\ coinbaseCoins = total
  /\ caller = "nobody" /\ pass = "returned"

RebalanceFor(by) == caller' = by /\ pass' = "first"

(* updateCoinbaseOutputs(outputs): room is made, and filled at once. *)
UpdateCoinbaseOutputs(outputs) ==
  /\ caller = "nobody"
  /\ coinbaseOutputs' = <<Commitment>> \o outputs
  /\ newOutputs' = outputs
  /\ RebalanceFor("update")
  /\ UNCHANGED <<coinbaseCoins, coinbase>>

(* updateWork(generationInformation) and the updateCoinbaseOutputs() it     *)
(* calls, which assigns to element 0 of the list even if it has none.      *)
UpdateWork(total) ==
  /\ caller = "nobody"
  /\ coinbaseCoins' = total
  /\ IF coinbaseOutputs = <<>>
     THEN caller' = "crashed" /\ UNCHANGED <<coinbaseOutputs, pass>>
     ELSE /\ coinbaseOutputs' = [coinbaseOutputs EXCEPT ![1] = Commitment]
          /\ RebalanceFor("update")
  /\ UNCHANGED <<newOutputs, coinbase>>

PlaceCommitment(outputs) ==
  IF outputs = <<>> \/ ~ IsCommitment(outputs[1])
  THEN <<Commitment>> \o outputs
  ELSE [outputs EXCEPT ![1] = Commitment]

(* updateWork(forceClientUpdates) calls generateCoinbaseTransaction() ... *)
GenerateCoinbaseTransaction ==
  /\ caller = "update" /\ pass = "returned"
  /\ coinbaseOutputs' = PlaceCommitment(coinbaseOutputs)
  /\ RebalanceFor("generate")
  /\ UNCHANGED <<coinbaseCoins, newOutputs, coinbase>>

(* ... and keeps the transaction it builds. *)
KeepCoinbase ==
  /\ caller = "generate" /\ pass = "returned"
  /\ coinbase' = coinbaseOutputs
  /\ caller' = "nobody"
  /\ UNCHANGED <<coinbaseOutputs, coinbaseCoins, pass, newOutputs>>

(* What the updater does without waiting for anything. *)
UpdaterStep ==
  RebalanceReturns \/ RebalancePass \/ GenerateCoinbaseTransaction \/ KeepCoinbase

JobManagerNext(lists, rewards) ==
  \/ UpdaterStep
  \/ \E outputs \in lists : UpdateCoinbaseOutputs(outputs)
  \/ \E total \in rewards : UpdateWork(total)

-----------------------------------------------------------------------------
(***************************************************************************)
(* CoinbaseTransaction::build, with the nonces as the bytes in memory.     *)
(***************************************************************************)
MakeCoinbaseRedeemScript(height, time, nonces, id) ==
  LET start == Push(FromUInt(height)) \o Push(FromUInt(time))
      upTo  == start \o Push(nonces)
  IN  [script |-> upTo \o Push(id), part1Size |-> Len(start) + 1,
       part2Start |-> Len(upTo)]

Build(height, time, nonces, id, outputs) ==
  LET redeem == MakeCoinbaseRedeemScript(height, time, nonces, id)
      input  == LittleEndian(1, 4) \o VarInt(1) \o LittleEndian(0, 32)
                  \o <<255, 255, 255, 255>> \o VarData(redeem.script)
      before == Len(input) - Len(redeem.script)
  IN  [raw |-> input \o LittleEndian(0, 4) \o VarInt(Len(outputs))
                 \o Concatenated([i \in DOMAIN outputs |-> EncodeOutput(outputs[i])])
                 \o LittleEndian(0, 4),
       part1Size  |-> redeem.part1Size + before,
       part2Start |-> redeem.part2Start + before]

(* (Variant: part 2 includes the last byte of the nonces.) *)
Part2Early(tx) == SubSeq(tx.raw, tx.part2Start, Len(tx.raw))

Part1(tx) == SubSeq(tx.raw, 1, tx.part1Size)

Part2(tx) == SubSeq(tx.raw, tx.part2Start + 1, Len(tx.raw))

-----------------------------------------------------------------------------
(***************************************************************************)
(* Rounding never pays out more than the reward, in whichever pass of      *)
(* rebalance() and whatever the rewards were before.                       *)
(***************************************************************************)
NeverOverpays ==
  caller \in {"update", "generate"} /\ pass # "first" => Shares <= coinbaseCoins

(* Fewer coins are missing than there are outputs plus one part in Precision
   of the sum. *)
NearlyPaid ==
  /\ Shares < coinbaseCoins
  /\ (coinbaseCoins - Shares) * Precision < Len(coinbaseOutputs) * Precision + Shares

(* The call that would change nothing: rebalance() calls itself for ever. *)
Stuck ==
  /\ Rebalancing /\ pass = "again" /\ Shares # 0
  /\ Coins(coinbaseOutputs) =
       Corrected(Coins(coinbaseOutputs), CorrectionFactor(coinbaseCoins, Shares))

(***************************************************************************)
(* rebalance() calls itself to make up for rounding: each such call brings *)
(* the sum closer to the reward, from below, until rebalance() returns or  *)
(* is so close that its factor rounds to one.                              *)
(***************************************************************************)
PassGains ==
  Rebalancing /\ pass = "again" /\ Shares # 0 =>
    Shares < Shares' /\ Shares' <= coinbaseCoins
PassesGain == [](Stuck => NearlyPaid) /\ [][PassGains]_managerVars

(* rebalance() retries after a rounding error until the sum is the reward.  *)
Returns == Rebalancing ~> pass = "returned"

(***************************************************************************)
(* Whatever the updates and their order: the coinbase jobs are made of     *)
(* begins with the commitment and goes on with the outputs that were set   *)
(* last, in their order; it pays the whole reward of the latest work, or   *)
(* nothing if nobody has shares (left); and nobody gets more than another  *)
(* whose share is as high.                                                 *)
(***************************************************************************)
PaysAsSet(outputs, set) ==
  /\ Len(outputs) = Len(set) + 1
  /\ outputs[1] = Commitment
  /\ \A i \in DOMAIN set :
       /\ outputs[i + 1].kind = set[i].kind /\ outputs[i + 1].data = set[i].data
       /\ \A j \in DOMAIN set :
            set[i].coins <= set[j].coins => outputs[i + 1].coins <= outputs[j + 1].coins

JobsPayReward ==
  caller = "nobody" /\ coinbase # <<>> =>
    PaysAsSet(coinbase, newOutputs) /\ SumOf(Coins(coinbase)) \in {0, coinbaseCoins}

(***************************************************************************)
(* What another node reads: the data of the push at the start of a script, *)
(* and the number it stands for.                                           *)
(***************************************************************************)
PushedBy(script) ==
  LET code == script[1]
      rest == Tail(script)
  IN  CASE code <= 75 -> SubSeq(rest, 1, code)
        [] code = 76 -> SubSeq(rest, 2, 1 + rest[1])
        [] code = 77 -> SubSeq(rest, 3, 2 + ParseUIntLE(SubSeq(rest, 1, 2), 2))
        [] code = 78 -> SubSeq(rest, 5, 4 + ParseUIntLE(SubSeq(rest, 1, 4), 4))
        [] code > 80 /\ code <= 96 -> <<code - 80>>

ScriptNumber(data) ==
  IF data = <<>> THEN 0
  ELSE IF data[Len(data)] >= 128 THEN -1          \* the sign bit
  ELSE ParseUIntLE(data, Len(data))

(* Data that is pushed is read back, a single zero byte as no data. *)
PushParses(data) == PushedBy(Push(data)) = IF data = <<0>> THEN <<>> ELSE data

(* Numbers are read back as themselves, never as negative ones. *)
NumberParses(n) == ScriptNumber(PushedBy(Push(FromUInt(n)))) = n

(***************************************************************************)
(* Whatever the nonces, and however long the identification: part 1, the   *)
(* nonces and part 2 are the transaction that is built with those nonces,  *)
(* in which the script has the length that precedes it.                    *)
(***************************************************************************)
PartsMakeTransaction(height, time, nonces, id, outputs) ==
  LET tx     == Build(height, time, [i \in 1..8 |-> 0], id, outputs)
      whole  == Build(height, time, nonces, id, outputs)
      script == ReadVarInt(SubSeq(whole.raw, 42, Len(whole.raw)))
  IN  /\ Part1(tx) \o nonces \o Part2(tx) = whole.raw
      /\ SubSeq(script.rest, 1, script.value) =
           MakeCoinbaseRedeemScript(height, time, nonces, id).script
      /\ SubSeq(script.rest, script.value + 1, script.value + 4) = <<0, 0, 0, 0>>
=============================================================================
