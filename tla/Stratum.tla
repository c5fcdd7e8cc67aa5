------------------------------ MODULE Stratum ------------------------------
(***************************************************************************)
(* The Stratum server's work: one job manager, the thread that updates it, *)
(* and per client a connection with its receiver thread, its jobs and its  *)
(* difficulty.  sendJob() runs in both threads for one client: subscribing *)
(* calls it in the receiver, every update in the updater.  Only the list   *)
(* of jobs has a lock, and the reference job() returns outlives it.        *)
(*                                                                         *)
(* A block stands for what NetworkState::operator!= tells apart, height    *)
(* and previous block.  Difficulties are in units of DIFF_FLOOR.  How      *)
(* connections come and go, and the registry's lock, is the subject of     *)
(* Relay; the connections here stay.                                       *)
(***************************************************************************)
EXTENDS Integers, FiniteSets

CONSTANTS
  Clients,
  Updater,          \* the thread that calls JobManager
  Blocks, FirstBlock,
  NoJob,            \* a null pointer
  DefaultDiff,
  MaxDiff,          \* [Blocks -> miningDiff * 0x100]
  Elapsed,          \* seconds a client may have been measured for
  MaxRequests, MaxUpdates

ASSUME StratumAssumption ==
  /\ Updater \notin Clients
  /\ FirstBlock \in Blocks
  /\ DefaultDiff \in Nat \ {0}
  /\ MaxDiff \in [Blocks -> Nat \ 0..3]
  /\ Elapsed \subseteq Nat
  /\ MaxUpdates \in Nat /\ MaxRequests \in [Clients -> Nat]

Threads == Clients \cup {Updater}

Diffs == Nat \ {0}

Job == [id : Nat, diff : Diffs, block : Blocks, coinbase : Blocks]

VARIABLES
  gen, coinbase,    \* the block of generationInformation, and of the coinbase
  jobCounter,
  jobs, active,     \* per client: its jobs, and activeJob
  currentDiff,      \* per client, -1 before the first
  acceptedShares,   \* per client
  pc,               \* per thread: its next step
  job,              \* per thread: the job it refers to, has copied or encoded
  diff,             \* per thread: a difficulty passed as an argument
  visited, todo, forceUpdate,     \* the updater's loop over the connections
  told, work,       \* per client: the last difficulty and job sent to it
  overlap,          \* per client: "no", "yes", "before": did its sendJob() run
                    \* in both threads at once, since the last block update?
  pooled,           \* the clients whose _jobManager is set
  alive,            \* FALSE once an exception or a freed job ends the program
  requests, updates

managerVars == <<gen, coinbase, jobCounter>>
updaterVars == <<visited, todo, forceUpdate, updates>>
minerVars == <<told, work>>
diffVars == <<currentDiff, acceptedShares>>
otherVars == <<pooled, overlap, alive>>

vars == <<managerVars, jobs, active, diffVars, pc, job, diff, updaterVars,
          minerVars, otherVars, requests>>

Init ==
  /\ gen = FirstBlock /\ coinbase = FirstBlock /\ jobCounter = 0
  /\ jobs = [c \in Clients |-> {}] /\ active = [c \in Clients |-> NoJob]
  /\ currentDiff = [c \in Clients |-> -1] /\ acceptedShares = [c \in Clients |-> 0]
  /\ pc = [t \in Threads |-> "idle"]
  /\ job = [t \in Threads |-> NoJob] /\ diff = [t \in Threads |-> -1]
  /\ visited = Updater /\ todo = {} /\ forceUpdate = FALSE
  /\ told = [c \in Clients |-> -1] /\ work = [c \in Clients |-> NoJob]
  /\ overlap = [c \in Clients |-> "no"] /\ alive = TRUE
  /\ pooled \in SUBSET Clients
  /\ requests = [c \in Clients |-> 0] /\ updates = 0

(* The client a thread is sending a job to. *)
Target(t) == IF t = Updater THEN visited ELSE t

forceNew(t) == t = Updater /\ forceUpdate

(* The jobs' lock is held from the choice of a difficulty to the new job. *)
JobsUnlocked(c) == \A t \in Threads : pc[t] = "create" => Target(t) # c

At(t, step) == alive /\ pc[t] = step

GoTo(t, step) == pc' = [pc EXCEPT ![t] = step]

(* Where sendJob() still needs the job it refers to, and where it goes on. *)
UseSteps == {"compare", "set_difficulty", "store", "encode"}

SendSteps == UseSteps \cup {"clear", "job", "create", "notify"}

InSendJob(t, c) == pc[t] \in SendSteps /\ Target(t) = c

-----------------------------------------------------------------------------
(* What follows sendJob(): the next connection, or the next request.  What
   the thread was about is forgotten. *)
Return(t) ==
  /\ GoTo(t, IF t = Updater THEN "next" ELSE "idle")
  /\ job' = [job EXCEPT ![t] = NoJob] /\ diff' = [diff EXCEPT ![t] = -1]

(***************************************************************************)
(* calcNewDiff(), after a time that is measured in whole seconds.  Ten     *)
(* times the shares per second is a sixth of the shares per minute.        *)
(***************************************************************************)
NotBelowFloor(d) == IF d < 1 THEN 1 ELSE d

(* (Variant: a difficulty that is lowered until it is nothing.) *)
calcWithoutFloor(c, time) ==
  IF time <= 0 THEN -1
  ELSE IF acceptedShares[c] = 0 THEN currentDiff[c] \div 10
  ELSE NotBelowFloor((acceptedShares[c] * 10) \div time)

calcNewDiff(c, time) ==
  LET measured == NotBelowFloor((acceptedShares[c] * 10) \div time)
      outside  == \/ measured * 10 > currentDiff[c] * 11
                  \/ measured * 11 < currentDiff[c] * 10
  IN  IF time <= 0 THEN -1
      ELSE IF acceptedShares[c] = 0 THEN NotBelowFloor(currentDiff[c] \div 10)
      ELSE IF time < 10 THEN -1
      ELSE IF outside THEN measured ELSE currentDiff[c]

(* createJob()'s difficulty: the client's, else the default, and at most
   what the block itself asks for. *)
JobDiff(c, d) ==
  LET given  == IF d >= 0 THEN d ELSE IF currentDiff[c] >= 0 THEN currentDiff[c] ELSE DefaultDiff
  IN  IF MaxDiff[gen] < given THEN MaxDiff[gen] \div 4 ELSE given

(* sendJob() begins: does it run for this client in the other thread? *)
Begin(t, c, force) ==
  LET both == \E u \in Threads \ {t} : InSendJob(u, c)
  IN  overlap' = [overlap EXCEPT ![c] = IF both THEN "yes"
                                        ELSE IF force /\ @ = "yes" THEN "before"
                                        ELSE @]

(* clearJobs(), by the updater before it sends a job of another block. *)
ClearJobs ==
  /\ At(Updater, "clear") /\ JobsUnlocked(visited)
  /\ jobs' = [jobs EXCEPT ![visited] = {}]
  /\ active' = [active EXCEPT ![visited] = NoJob]
  /\ GoTo(Updater, "job")
  /\ UNCHANGED <<managerVars, diffVars, job, diff, updaterVars, minerVars, otherVars, requests>>

(* job(): the active one, unless a new one is forced ... *)
ActiveJob(t) ==
  LET c == Target(t) IN
  /\ At(t, "job") /\ JobsUnlocked(c)
  /\ ~forceNew(t) /\ active[c] # NoJob
  /\ job' = [job EXCEPT ![t] = active[c]]
  /\ GoTo(t, "compare")
  /\ UNCHANGED <<managerVars, jobs, active, diffVars, diff, updaterVars, minerVars, otherVars, requests>>

(* ... or one of a new difficulty, which the manager creates. *)
ChooseDiff(t) ==
  LET c == Target(t) IN
  /\ At(t, "job") /\ JobsUnlocked(c)
  /\ forceNew(t) \/ active[c] = NoJob
  /\ \E time \in Elapsed : diff' = [diff EXCEPT ![t] = calcNewDiff(c, time)]
  /\ GoTo(t, "create")
  /\ UNCHANGED <<managerVars, jobs, active, diffVars, job, updaterVars, minerVars, otherVars, requests>>

CreateJob(t) ==
  LET c   == Target(t)
      new == [id |-> jobCounter + 1, diff |-> JobDiff(c, diff[t]), block |-> gen, coinbase |-> coinbase]
  IN
  /\ At(t, "create")
  /\ jobCounter' = jobCounter + 1
  /\ jobs' = [jobs EXCEPT ![c] = @ \cup {new}]
  /\ active' = [active EXCEPT ![c] = new]
  /\ job' = [job EXCEPT ![t] = new]
  /\ GoTo(t, "compare")
  /\ UNCHANGED <<gen, coinbase, diffVars, diff, updaterVars, minerVars, otherVars, requests>>

(***************************************************************************)
(* sendJob() with the reference it got: the lock is gone, and a job that   *)
(* was cleared is freed memory.  What follows then is undefined, and       *)
(* nothing is promised about it.                                           *)
(***************************************************************************)
Freed(t) == job[t] \notin jobs[Target(t)]

UsesFreed(t) ==
  /\ At(t, "compare") \/ At(t, "encode")
  /\ Freed(t)
  /\ alive' = FALSE
  /\ UNCHANGED <<managerVars, jobs, active, diffVars, pc, job, diff, updaterVars, minerVars,
                 pooled, overlap, requests>>

CompareDiff(t) ==
  /\ At(t, "compare") /\ ~Freed(t)
  /\ diff' = [diff EXCEPT ![t] = job[t].diff]
  /\ GoTo(t, IF job[t].diff # currentDiff[Target(t)] THEN "set_difficulty" ELSE "encode")
  /\ UNCHANGED <<managerVars, jobs, active, diffVars, job, updaterVars, minerVars, otherVars, requests>>

(* updateDiff() *)
SetDifficulty(t) ==
  LET c == Target(t) IN
  /\ At(t, "set_difficulty")
  /\ told' = [told EXCEPT ![c] = diff[t]]
  /\ GoTo(t, "store")
  /\ UNCHANGED <<managerVars, jobs, active, diffVars, job, diff, updaterVars, work, otherVars, requests>>

(* (Variant: the difficulty the connection remembers is the old one.) *)
StoreNothing(t) ==
  /\ At(t, "store")
  /\ GoTo(t, "encode")
  /\ UNCHANGED <<managerVars, jobs, active, diffVars, job, diff, updaterVars, minerVars,
                 otherVars, requests>>

StoreDiff(t) ==
  /\ At(t, "store")
  /\ currentDiff' = [currentDiff EXCEPT ![Target(t)] = diff[t]]
  /\ GoTo(t, "encode")
  /\ UNCHANGED <<managerVars, jobs, active, acceptedShares, job, diff, updaterVars, minerVars,
                 otherVars, requests>>

(* The message is built, after which the job is no longer looked at ... *)
EncodeJob(t) ==
  /\ At(t, "encode") /\ ~Freed(t)
  /\ GoTo(t, "notify")
  /\ UNCHANGED <<managerVars, jobs, active, diffVars, job, diff, updaterVars, minerVars, otherVars, requests>>

(* ... and sent. *)
Notify(t) ==
  LET c == Target(t) IN
  /\ At(t, "notify")
  /\ work' = [work EXCEPT ![c] = job[t]]
  /\ Return(t)
  /\ UNCHANGED <<managerVars, jobs, active, diffVars, updaterVars, told, otherVars, requests>>

(* Is it news of a block? *)
blockUpdate(block) == block # gen

-----------------------------------------------------------------------------
(***************************************************************************)
(* The updater.  One thread calls updateWork(), whose coinbase and outputs *)
(* have no lock of their own.                                              *)
(***************************************************************************)
(* (Variant: the new work is compared with itself.) *)
UpdateBeforeCompare(block) ==
  /\ At(Updater, "idle") /\ updates < MaxUpdates
  /\ forceUpdate' = FALSE
  /\ gen' = block
  /\ updates' = updates + 1
  /\ GoTo(Updater, "coinbase")
  /\ UNCHANGED <<coinbase, jobCounter, jobs, active, diffVars, job, diff, visited, todo,
                 minerVars, otherVars, requests>>

UpdateWork(block) ==
  /\ At(Updater, "idle") /\ updates < MaxUpdates
  /\ forceUpdate' = blockUpdate(block)
  /\ gen' = block
  /\ updates' = updates + 1
  /\ GoTo(Updater, "coinbase")
  /\ UNCHANGED <<coinbase, jobCounter, jobs, active, diffVars, job, diff, visited, todo,
                 minerVars, otherVars, requests>>

(* Other outputs, for the same block. *)
UpdateCoinbaseOutputs ==
  /\ At(Updater, "idle") /\ updates < MaxUpdates
  /\ forceUpdate' = FALSE
  /\ updates' = updates + 1
  /\ GoTo(Updater, "coinbase")
  /\ UNCHANGED <<managerVars, jobs, active, diffVars, job, diff, visited, todo,
                 minerVars, otherVars, requests>>

GenerateCoinbaseTransaction ==
  /\ At(Updater, "coinbase")
  /\ coinbase' = gen
  /\ todo' = pooled
  /\ GoTo(Updater, "next")
  /\ UNCHANGED <<gen, jobCounter, jobs, active, diffVars, job, diff, visited, forceUpdate, updates,
                 minerVars, otherVars, requests>>

(* (Variant: old jobs stay beside the new one.) *)
SendWithoutClearing(c) ==
  /\ At(Updater, "next") /\ c \in todo
  /\ todo' = todo \ {c} /\ visited' = c
  /\ Begin(Updater, c, forceUpdate)
  /\ GoTo(Updater, "job")
  /\ UNCHANGED <<managerVars, jobs, active, diffVars, job, diff, forceUpdate, updates,
                 minerVars, pooled, alive, requests>>

(* sendNewJobsToClients(); the order of the connections is any. *)
SendToNext(c) ==
  /\ At(Updater, "next") /\ c \in todo
  /\ todo' = todo \ {c} /\ visited' = c
  /\ Begin(Updater, c, forceUpdate)
  /\ GoTo(Updater, IF forceUpdate THEN "clear" ELSE "job")
  /\ UNCHANGED <<managerVars, jobs, active, diffVars, job, diff, forceUpdate, updates,
                 minerVars, pooled, alive, requests>>

AllSent ==
  /\ At(Updater, "next") /\ todo = {}
  /\ visited' = Updater
  /\ GoTo(Updater, "idle")
  /\ UNCHANGED <<managerVars, jobs, active, diffVars, job, diff, todo, forceUpdate, updates, minerVars, otherVars, requests>>

-----------------------------------------------------------------------------
(***************************************************************************)
(* A client's requests.                                                    *)
(***************************************************************************)
Receive(c) ==
  /\ At(c, "idle") /\ requests[c] < MaxRequests[c]
  /\ requests' = [requests EXCEPT ![c] = @ + 1]

(* A packet that is not one JSON object, or no call the server knows: two
   requests that one read() returns together are lost like this. *)
Invalid(c) ==
  /\ Receive(c)
  /\ UNCHANGED <<managerVars, jobs, active, diffVars, pc, job, diff, updaterVars, minerVars, otherVars>>

(* A number that is longer than its type: nothing catches the exception. *)
Throw(c) ==
  /\ Receive(c)
  /\ alive' = FALSE
  /\ UNCHANGED <<managerVars, jobs, active, diffVars, pc, job, diff, updaterVars, minerVars, pooled, overlap>>

(* (Variant: a client that subscribes again loses its jobs.) *)
SubscribeAfresh(c) ==
  /\ Receive(c)
  /\ GoTo(c, "subscribed")
  /\ jobs' = [jobs EXCEPT ![c] = {}] /\ active' = [active EXCEPT ![c] = NoJob]
  /\ UNCHANGED <<managerVars, diffVars, job, diff, updaterVars, minerVars, otherVars>>

Subscribe(c) ==
  /\ Receive(c)
  /\ GoTo(c, "subscribed")
  /\ UNCHANGED <<managerVars, jobs, active, diffVars, job, diff, updaterVars, minerVars, otherVars>>

(* The reply to it, and a job for a client that has a job manager. *)
ReplySubscribed(c) ==
  /\ At(c, "subscribed")
  /\ IF c \in pooled
     THEN Begin(c, c, FALSE) /\ GoTo(c, "job") /\ UNCHANGED <<job, diff>>
     ELSE UNCHANGED overlap /\ Return(c)
  /\ UNCHANGED <<managerVars, jobs, active, diffVars, updaterVars, minerVars, pooled, alive, requests>>

(* mining.authorize is granted, mining.extranonce.subscribe is refused. *)
Answer(c) ==
  /\ Receive(c)
  /\ GoTo(c, "reply")
  /\ UNCHANGED <<managerVars, jobs, active, diffVars, job, diff, updaterVars, minerVars, otherVars>>

(* mining.submit, of a share of a job that is copied or of none. *)
Submit(c, id) ==
  /\ Receive(c) /\ JobsUnlocked(c)
  /\ \/ \E j \in jobs[c] : j.id = id /\ job' = [job EXCEPT ![c] = j] /\ GoTo(c, "check")
     \/ (\A j \in jobs[c] : j.id # id) /\ GoTo(c, "reply") /\ UNCHANGED job
  /\ UNCHANGED <<managerVars, jobs, active, diffVars, diff, updaterVars, minerVars, otherVars>>

(* checkSolution(): what solves the block is handed to the node first. *)
AcceptShare(c) ==
  /\ At(c, "check")
  /\ acceptedShares' = [acceptedShares EXCEPT ![c] = @ + job[c].diff]
  /\ GoTo(c, "reply")
  /\ UNCHANGED <<managerVars, jobs, active, currentDiff, job, diff, updaterVars, minerVars,
                 otherVars, requests>>

RejectLowDiff(c) ==
  /\ At(c, "check")
  /\ GoTo(c, "reply")
  /\ UNCHANGED <<managerVars, jobs, active, diffVars, job, diff, updaterVars, minerVars,
                 otherVars, requests>>

Reply(c) ==
  /\ At(c, "reply")
  /\ Return(c)
  /\ UNCHANGED <<managerVars, jobs, active, diffVars, updaterVars, minerVars,
                 otherVars, requests>>

Request(c) ==
  \/ Invalid(c) \/ Throw(c) \/ Subscribe(c) \/ Answer(c)
  \/ \E id \in 0..jobCounter : Submit(c, id)

-----------------------------------------------------------------------------
SendJobStep(t) ==
  \/ ActiveJob(t) \/ ChooseDiff(t) \/ CreateJob(t)
  \/ UsesFreed(t) \/ CompareDiff(t) \/ SetDifficulty(t) \/ StoreDiff(t)
  \/ EncodeJob(t) \/ Notify(t)

ReceiverStep(c) ==
  \/ SendJobStep(c)
  \/ ReplySubscribed(c) \/ AcceptShare(c) \/ RejectLowDiff(c) \/ Reply(c)

UpdaterStep ==
  \/ SendJobStep(Updater)
  \/ ClearJobs \/ GenerateCoinbaseTransaction \/ AllSent
  \/ \E c \in Clients : SendToNext(c)

Update == UpdateCoinbaseOutputs \/ \E block \in Blocks : UpdateWork(block)

Next ==
  \/ UpdaterStep \/ Update
  \/ \E c \in Clients : ReceiverStep(c) \/ Request(c)

(***************************************************************************)
(* A thread that can go on does, which has clients read what they are      *)
(* sent: write() waits for them.  Nobody need ever send a request, or have *)
(* news.                                                                   *)
(***************************************************************************)
Fairness ==
  /\ WF_vars(UpdaterStep)
  /\ \A c \in Clients : WF_vars(ReceiverStep(c))

Spec == Init /\ [][Next]_vars /\ Fairness

-----------------------------------------------------------------------------
(* Every variable has its type; every difficulty that is in use is at least
   the floor, so that none is ever divided away. *)
TypeOK ==
  /\ gen \in Blocks /\ coinbase \in Blocks /\ jobCounter \in Nat
  /\ jobs \in [Clients -> SUBSET Job]
  /\ active \in [Clients -> Job \cup {NoJob}]
  /\ currentDiff \in [Clients -> Diffs \cup {-1}]
  /\ acceptedShares \in [Clients -> Nat]
  /\ pc \in [Threads -> SendSteps \cup {"idle", "coinbase", "next", "subscribed", "check", "reply"}]
  /\ job \in [Threads -> Job \cup {NoJob}]
  /\ diff \in [Threads -> Diffs \cup {-1}]
  /\ visited \in Threads /\ todo \subseteq pooled /\ pooled \subseteq Clients /\ forceUpdate \in BOOLEAN
  /\ told \in [Clients -> Diffs \cup {-1}] /\ work \in [Clients -> Job \cup {NoJob}]
  /\ overlap \in [Clients -> {"no", "yes", "before"}] /\ alive \in BOOLEAN
  /\ requests \in [Clients -> Nat] /\ updates \in 0..MaxUpdates

(***************************************************************************)
(* Between two updates every job a client may submit shares for is of the  *)
(* current block and has a coinbase of this block, although createJob()    *)
(* may run between the two assignments of updateWork(), and between        *)
(* clearJobs() and sendJob().                                              *)
(***************************************************************************)
JobsAreCurrent ==
  pc[Updater] = "idle" =>
    \A c \in Clients : \A j \in jobs[c] : j.block = gen /\ j.coinbase = gen

(***************************************************************************)
(* A client that no thread is sending a job to works on its active job,    *)
(* whose shares will be found, unless sendJob() ran in both threads at     *)
(* once since the last block update; and it has been told this job's       *)
(* difficulty, unless they ever did: currentDiff, which decides whether it *)
(* is told again, may then be wrong for good.                              *)
(***************************************************************************)
MinerInStep ==
  \A c \in Clients :
    alive /\ work[c] # NoJob /\ (\A t \in Threads : ~InSendJob(t, c)) =>
      /\ overlap[c] # "yes" => active[c] = work[c] /\ work[c] \in jobs[c]
      /\ overlap[c] = "no" => told[c] = work[c].diff /\ currentDiff[c] = told[c]

(* The updater never uses a job that was freed, and a receiver only if an
   update went on beside it. *)
NoFreedJob ==
  \A t \in Threads :
    pc[t] \in UseSteps /\ Freed(t) =>
      t # Updater /\ overlap[t] = "yes"

(***************************************************************************)
(* Every update reaches every client of the pool: the updater, which holds *)
(* the registry meanwhile, waits for a client's lock or socket, but not    *)
(* for ever.                                                               *)
(***************************************************************************)
WorkArrives ==
  \A c \in Clients :
    c \in pooled /\ pc[Updater] = "coinbase" ~>
      ~alive \/ (work[c] # NoJob /\ work[c].block = gen)
=============================================================================
