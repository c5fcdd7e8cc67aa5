------------------------------- MODULE Blocks -------------------------------
(***************************************************************************)
(* From a block template over the job a miner is told to the solution that *)
(* is checked and the block that is sent to the node: byte orders and the  *)
(* comparison of hashes.  A hash of a transaction or of two hashes is the  *)
(* term it is the hash of: different inputs have different hashes.         *)
(* The numbers that are compared have fewer and smaller digits than the    *)
(* program's, which has 32 of base 256 and looks at 4 of them.             *)
(***************************************************************************)
EXTENDS Bytes

CONSTANTS
  Base,          \* the digits of a hash that is compared are 0 .. Base - 1
  HashLength,    \* their number
  Window,        \* how many of them an inexact quotient looks at
  Diff1          \* the hash of difficulty one

ASSUME DigitsAssumption ==
  /\ Base \in Nat \ {0, 1}
  /\ Window \in Nat \ {0}
  /\ HashLength \in Nat /\ HashLength >= Window
  /\ Diff1 \in [1..HashLength -> 0..(Base - 1)]

Hash(left, right) == <<"hash", left, right>>

(* MerkleBranch::getRoot.  Nothing fills a branch yet. *)
GetRoot(branch, leaf) ==
  LET upTo[i \in 0..Len(branch)] ==
        IF i = 0 THEN leaf ELSE Hash(upTo[i - 1], branch[i])
  IN  upTo[Len(branch)]

-----------------------------------------------------------------------------
(***************************************************************************)
(* What the template becomes, the job's announcement, the submission       *)
(***************************************************************************)
(* (Variant: the bits are taken for a number of the node's byte order.) *)
StateWithSwappedBits(template) ==
  [version       |-> LittleEndian(template.version, 4),
   bits          |-> Reversed(FromHex(template.bits)),
   previousBlock |-> Reversed(FromHex(template.previousblockhash)),
   mintime       |-> template.mintime]

(* getBlockTemplate(): the words as they lie in memory. *)
StateOf(template) ==
  [version       |-> LittleEndian(template.version, 4),
   bits          |-> FromHex(template.bits),
   previousBlock |-> Reversed(FromHex(template.previousblockhash)),
   mintime       |-> template.mintime]

MiningStartTime(now, notBefore) == IF now < notBefore THEN notBefore ELSE now

CreationTime(now, start) == IF now < start THEN start ELSE now

Swap32(word) == Reversed(word)

Swap32All(bytes) ==
  [i \in DOMAIN bytes |-> bytes[i + 3 - 2 * ((i - 1) % 4)]]

Int2Hex(word) == AsHex(Reversed(word))

ToJson(job) ==
  [id       |-> Int2Hex(LittleEndian(job.id, 4)),
   prevhash |-> AsHex(Swap32All(job.state.previousBlock)),
   part1    |-> AsHex(job.part1),
   part2    |-> AsHex(job.part2),
   branch   |-> job.branch,
   version  |-> Int2Hex(job.state.version),
   bits     |-> AsHex(job.state.bits),
   time     |-> Int2Hex(LittleEndian(job.time, 4))]

(* The parameters of mining.submit; those of a number that is too long for
   its type throw. *)
MiningSubmit(params) ==
  [jobId       |-> ParseUIntBE(FromHex(params.jobId), 4),
   extraNonce2 |-> ParseUIntLE(FromHex(params.extraNonce2), 4),
   time        |-> ParseUIntBE(FromHex(params.time), 4),
   nonce       |-> ParseUIntBE(FromHex(params.nonce), 4)]

Header(version, parent, root, time, bits, nonce) ==
  <<version, parent, root, time, bits, nonce>>

RawCoinbase(job, extraNonce1, submit) ==
  job.part1 \o extraNonce1 \o LittleEndian(submit.extraNonce2, 4) \o job.part2

(* The header whose hash checkSolution() compares, and submits. *)
SolutionHeader(job, extraNonce1, submit) ==
  Header(job.state.version, job.state.previousBlock,
         GetRoot(job.branch, <<"tx", RawCoinbase(job, extraNonce1, submit)>>),
         LittleEndian(submit.time, 4), Swap32(job.state.bits),
         LittleEndian(submit.nonce, 4))

SerializeBlock(header, coinbase, transactions) ==
  header \o VarInt(1 + Len(transactions)) \o coinbase \o Concatenated(transactions)

-----------------------------------------------------------------------------
(***************************************************************************)
(* Hash256: comparison, and the quotient of the first digits as a fraction *)
(***************************************************************************)
IsLowerOrEqual(a, b) ==
  \A i \in 1..HashLength :
    a[i] > b[i] => \E k \in 1..(i - 1) : a[k] < b[k]

FindFirstNonZeroByte(a) ==
  LET found == {i \in 1..(HashLength - Window) : a[i] # 0}
  IN  IF found = {} THEN HashLength - Window
      ELSE (CHOOSE i \in found : \A k \in found : i <= k) - 1

ReadWindow(a, from) ==
  LET upTo[i \in 0..Window] == IF i = 0 THEN 0 ELSE upTo[i - 1] * Base + a[from + i]
  IN  upTo[Window]

(* What n digits more are worth. *)
Weight(n) ==
  LET upTo[i \in 0..n] == IF i = 0 THEN 1 ELSE Base * upTo[i - 1]
  IN  upTo[n]

Quotient(a, b) ==
  LET i == FindFirstNonZeroByte(a)
      k == FindFirstNonZeroByte(b)
  IN  [num |-> ReadWindow(a, i) * Weight(IF i < k THEN k - i ELSE 0),
       den |-> ReadWindow(b, k) * Weight(IF i > k THEN i - k ELSE 0)]

AtMost(p, q) == p.num * q.den <= q.num * p.den

(* The same unit of difficulty on both sides: miningDiff * 0x100. *)
MiningDiff(target) == Quotient(Diff1, target)

(* (Variant: a job may be as hard as the client's shares suggest.) *)
DiffUncapped(diff, target) == diff

(* JobManager::createJob: a quarter of the block's difficulty if above it. *)
CappedDiff(diff, target) ==
  IF AtMost(diff, MiningDiff(target)) THEN diff
  ELSE [num |-> MiningDiff(target).num, den |-> 4 * MiningDiff(target).den]

IsLowDiff(hash, diff) == ~ AtMost(diff, Quotient(Diff1, hash))

-----------------------------------------------------------------------------
(* (External: the header a stratum miner makes of a job and hashes.) *)
MinersHeader(json, extraNonce1, extraNonce2, time, nonce) ==
  Header(Reversed(FromHex(json.version)), Swap32All(FromHex(json.prevhash)),
         GetRoot(json.branch,
                 <<"tx", FromHex(json.part1) \o extraNonce1 \o extraNonce2
                           \o FromHex(json.part2)>>),
         Reversed(FromHex(time)), Reversed(FromHex(json.bits)),
         Reversed(FromHex(nonce)))

(* (External: the header in a node's byte order.) *)
NodesHeader(template, root, time, nonce) ==
  Header(LittleEndian(template.version, 4),
         Reversed(FromHex(template.previousblockhash)), root,
         Reversed(FromHex(time)), Reversed(FromHex(template.bits)),
         Reversed(FromHex(nonce)))

(***************************************************************************)
(* For every template, miner and clock: the header that is checked is the  *)
(* one the miner has hashed, and the one the node will read, if the miner  *)
(* submits the second nonce with all its digits; the job it names is the   *)
(* one it was told; and its time is not before the template's.             *)
(***************************************************************************)
HeaderAgrees(template, job, extraNonce1, extraNonce2, time, nonce) ==
  LET json   == ToJson(job)
      submit == MiningSubmit([jobId |-> json.id, extraNonce2 |-> AsHex(extraNonce2),
                              time |-> time, nonce |-> nonce])
      server == SolutionHeader(job, extraNonce1, submit)
      miner  == MinersHeader(json, extraNonce1, extraNonce2, time, nonce)
  IN  /\ submit.jobId = job.id
      /\ server = miner <=> Len(extraNonce2) = 4
      /\ server = NodesHeader(template, server[3], time, nonce)
      /\ job.time >= template.mintime

(* A node reads as many transactions as were sent, the coinbase first. *)
BlockParses(header, coinbase, transactions) ==
  LET raw   == SerializeBlock(header, coinbase, transactions)
      count == ReadVarInt(SubSeq(raw, Len(header) + 1, Len(raw)))
  IN  /\ count.value = Len(transactions) + 1
      /\ count.rest = coinbase \o Concatenated(transactions)

(***************************************************************************)
(* A hash that solves the block is never refused as a share of low         *)
(* difficulty, although difficulties are quotients of the first digits.    *)
(***************************************************************************)
SolutionAccepted(target, diff) ==
  \A hash \in [1..HashLength -> 0..(Base - 1)] :
    IsLowerOrEqual(hash, target) => ~ IsLowDiff(hash, CappedDiff(diff, target))
=============================================================================
