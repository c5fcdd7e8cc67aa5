------------------------------ MODULE MCParts ------------------------------
(***************************************************************************)
(* The parts that turn bytes, numbers and texts into one another, each on  *)
(* its own over bounded inputs, and two small machines: the stream of      *)
(* frames and the job manager's outputs; and the callers of one            *)
(* RPCConnection.  The subject of a behaviour is chosen at its start, and  *)
(* what it does not concern stays at rest.                                 *)
(***************************************************************************)
EXTENDS Frames, Coinbase, Blocks, Options, RpcSharing

VARIABLE subject       \* [of |-> which part, ...its input]

partsVars == <<subject, frameVars, managerVars, rpcVars>>

-----------------------------------------------------------------------------
(* The inputs. *)
Sequences(S, min, max) == UNION {[1..n -> S] : n \in min..max}

Zeros(n) == [i \in 1..n |-> 0]

MCMessage(class, type, content) ==
  [class |-> Zeros(class), type |-> Zeros(type), content |-> Zeros(content)]

(* With a limit of 18 bytes: frames of 16, 18, 19, 22 and 23 bytes, and one
   of a type that is not registered. *)
MCMessages ==
  {MCMessage(0, 0, 0), MCMessage(1, 0, 1), MCMessage(1, 1, 1), MCMessage(1, 0, 5),
   MCMessage(1, 1, 5), MCMessage(0, 1, 0)}

MCRegistrations ==
  <<[class |-> Zeros(0), type |-> Zeros(0)], [class |-> Zeros(1), type |-> Zeros(0)],
    [class |-> Zeros(1), type |-> Zeros(0)], [class |-> Zeros(1), type |-> Zeros(1)]>>

MCNumbersParsed ==
  {0, 1, 16, 17, 127, 128, 252, 253, 254, 255, 256, 32767, 32768, 65535, 65536,
   8388607, 8388608, 1700000000}

MCLengths == {0, 1, 2, 75, 76, 255, 256, 300}

MCCommitment == <<170, 33>>

MCOutput(kind, coins) == [kind |-> kind, data |-> <<1, 2>>, coins |-> coins]

(* Shares that round to the reward and shares that never do. *)
MCOutputLists ==
  {<<>>, <<MCOutput("P2SH", 900)>>, <<MCOutput("P2PKH", 7), MCOutput("P2WPKH", 333)>>,
   <<MCOutput("P2PKH", 1), MCOutput("P2PKH", 0), MCOutput("P2SH", 2500)>>,
   <<MCOutput("P2SH", 333), MCOutput("P2SH", 333), MCOutput("P2SH", 333)>>}

MCRewards == {1, 50, 999, 1000, 2600}

MCDiff1 == <<0, 2, 2, 1>>

MCTemplates ==
  [version : {1, 536870914}, bits : {<<1, 9, 0, 8, 14, 15, 4, 0>>},
   previousblockhash : {[i \in 1..16 |-> (5 * i) % 16], [i \in 1..16 |-> 0]},
   mintime : {0, 1000}]

MCClocks == {10, 999, 1000, 1700000000}

MCHexWords == {<<0, 0, 0, 1, 2, 3, 4, 15>>, <<7, 15, 0, 0, 10, 0, 0, 1>>}

MCTemplate ==
  <<[name |-> "port", abbreviation |-> "p", required |-> FALSE, type |-> "int", width |-> 4],
    [name |-> "hostname", abbreviation |-> "h", required |-> TRUE, type |-> "string", width |-> 8],
    [name |-> "relay", abbreviation |-> "", required |-> FALSE, type |-> "bool", width |-> 5],
    [name |-> "debug", abbreviation |-> "D", required |-> FALSE, type |-> "flag", width |-> 5]>>

MCNumbers == [t \in {"42", "42nd", "1"} |-> IF t = "1" THEN 1 ELSE 42]

MCArguments ==
  [kind : {"long"}, name : {"port", "hostname", "relay", "debug", "help", "other"}]
    \cup [kind : {"short"}, letters : {<<>>, <<"p">>, <<"h">>, <<"D">>, <<"D", "h">>, <<"x">>}]
    \cup [kind : {"plain"}, text : {"42nd", "1", "huge", "no"}]

Inputs ==
  [of : {"hex"}, digits : Sequences({-1, 0, 9, 15}, 0, 4)]
    \cup [of : {"number"}, n : MCNumbersParsed]
    \cup [of : {"push"}, data : {[i \in 1..n |-> b] : n \in MCLengths, b \in {0, 16, 200}}]
    \cup [of : {"coinbase"}, height : {1, 255, 70000}, idLength : {0, 18, 230, 250},
          nonces : {Zeros(8), <<1, 2, 3, 4, 5, 6, 7, 8>>},
          outputs : MCOutputLists]
    \cup [of : {"block"}, count : {0, 1, 100}]
    \cup [of : {"header"}, template : MCTemplates, started : MCClocks, now : MCClocks,
          id : {1, 258}, extraNonce2 : {<<1, 2, 3, 4>>, <<1, 2, 3>>, <<1, 2, 3, 0>>},
          time : MCHexWords, nonce : MCHexWords]
    \cup [of : {"target"}, target : [1..HashLength -> 0..(Base - 1)], share : 1..8]
    \cup [of : {"options"}, args : Sequences(MCArguments, 0, 4)]
    \cup [of : {"help"}, garbage : {0, 6, 7, 8, 1000}]

-----------------------------------------------------------------------------
ManagerInit ==
  /\ subject = [of |-> "manager"]
  /\ FramesInit(<<>>)
  /\ \E total \in MCRewards : JobManagerInit(total)
  /\ RpcInit /\ Connected(1)

Init ==
  \/ /\ subject \in Inputs
     /\ FramesInit(<<>>)
     /\ JobManagerInit(0)
     /\ RpcInit /\ Connected(1)
  \/ /\ subject = [of |-> "frames"]
     /\ \E messages \in Sequences(MCMessages, 1, 3) : FramesInit(messages)
     /\ JobManagerInit(0)
     /\ RpcInit /\ Connected(1)
  \/ ManagerInit
  \/ /\ subject = [of |-> "rpc"]
     /\ FramesInit(<<>>)
     /\ JobManagerInit(0)
     /\ RpcInit

Managing ==
  /\ subject.of = "manager"
  /\ JobManagerNext(MCOutputLists, MCRewards)
  /\ UNCHANGED <<subject, frameVars, rpcVars>>

Next ==
  \/ subject.of = "frames" /\ FramesNext /\ UNCHANGED <<subject, managerVars, rpcVars>>
  \/ Managing
  \/ subject.of = "rpc" /\ RpcNext /\ UNCHANGED <<subject, frameVars, managerVars>>

Spec == Init /\ [][Next]_partsVars

(* The job manager alone.  Its thread goes on while it has something to do. *)
ManagerSpec == ManagerInit /\ [][Managing]_partsVars /\ WF_partsVars(Managing /\ UpdaterStep)

-----------------------------------------------------------------------------
(***************************************************************************)
(* What is written is read back: bytes as hexadecimal digits, of which an  *)
(* odd number begins with a zero that is left out; numbers of a fixed and  *)
(* of a variable width, and in scripts, where none may look negative; data *)
(* that is pushed; and the transactions of a block with their count.       *)
(***************************************************************************)
EncodingsParse ==
  /\ subject.of = "hex" =>
       LET bytes  == FromHex(subject.digits)
           digits == [i \in DOMAIN subject.digits |-> HexValue(subject.digits[i])]
       IN  /\ FromHex(AsHex(bytes)) = bytes
           /\ AsHex(bytes) = Zeros(Len(digits) % 2) \o digits
  /\ subject.of = "number" =>
       /\ ReadVarInt(VarInt(subject.n) \o <<7>>) = [value |-> subject.n, rest |-> <<7>>]
       /\ ParseUIntBE(Reversed(LittleEndian(subject.n, 4)), 4) = subject.n
       /\ NumberParses(subject.n)
  /\ subject.of = "push" => PushParses(subject.data)
  /\ subject.of = "block" =>
       BlockParses(Zeros(80), <<1, 2, 3>>, [i \in 1..subject.count |-> <<i % 256, 5>>])

(***************************************************************************)
(* What a miner makes of the two parts of a coinbase and the nonces is the *)
(* transaction built with these nonces.                                    *)
(***************************************************************************)
CoinbaseWellFormed ==
  subject.of = "coinbase" =>
    PartsMakeTransaction(subject.height, 1700000000, subject.nonces,
                         [i \in 1..subject.idLength |-> 65], subject.outputs)

(* The header that is checked is the miner's and the node's. *)
HeadersAgree ==
  subject.of = "header" =>
    LET network == StateOf(subject.template)
        start == MiningStartTime(subject.started, subject.template.mintime)
        job   == [id |-> subject.id, state |-> network, part1 |-> <<1, 250>>,
                  part2 |-> <<0, 17>>, branch |-> <<<<"tx", 1>>, <<"tx", 2>>>>,
                  time |-> CreationTime(subject.now, start)]
    IN  HeaderAgrees(subject.template, job, <<9, 8, 7, 6>>, subject.extraNonce2,
                     subject.time, subject.nonce)

(* A hash that solves the block is never a share of low difficulty, however
   many eighths of the block's difficulty a client's shares suggest. *)
SolutionsAccepted ==
  subject.of = "target" =>
    SolutionAccepted(subject.target,
                     [num |-> MiningDiff(subject.target).num * subject.share,
                      den |-> MiningDiff(subject.target).den * 4])

(* A command line that is accepted means what it says. *)
OptionsMeanWhatTheySay == subject.of = "options" => OptionsMean(subject.args)

(* The help texts line up, unless the longest name ends at a tab stop. *)
HelpTextsLineUp == subject.of = "help" => HelpLinesUp(subject.garbage)
=============================================================================
