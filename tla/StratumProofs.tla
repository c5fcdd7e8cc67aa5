------------------------- MODULE StratumProofs -------------------------
(***************************************************************************)
(* Theorems of Stratum, for any clients, blocks, difficulties and bounds:  *)
(* its types; that every job between two updates is of the current block;  *)
(* that a miner is in step with the server; and when a job that was freed  *)
(* may still be in use.                                                    *)
(***************************************************************************)
EXTENDS Stratum, TLAPS

USE StratumAssumption

(* Where the threads are, and what they hold there.                        *)
PcInv ==
  /\ pc[Updater] \in {"idle", "coinbase"} => todo = {}
  /\ pc[Updater] \in SendSteps => visited \in pooled
  /\ pc[Updater] \notin {"subscribed", "check", "reply"}
  /\ \A c \in Clients : /\ pc[c] \in SendSteps => c \in pooled
                        /\ pc[c] \notin {"coinbase", "next", "clear"}
  /\ \A t \in Threads : pc[t] \in UseSteps \cup {"notify", "check"} => job[t] \in Job
  /\ \A t \in Threads : pc[t] \in {"set_difficulty", "store"} => diff[t] \in Diffs

(* Who sends to one client from two threads is known to do so.             *)
OverlapInv ==
  pc[Updater] \in SendSteps /\ pc[visited] \in SendSteps => overlap[visited] = "yes"

ActiveInv ==
  \A c \in Clients : active[c] # NoJob => active[c] \in jobs[c]

(* The clients an update of another block has yet to clear.                *)
Stale(c) ==
  forceUpdate /\ (\/ pc[Updater] = "coinbase"
                  \/ c \in todo
                  \/ pc[Updater] = "clear" /\ visited = c)

CoinbaseInv == ~(forceUpdate /\ pc[Updater] = "coinbase") => coinbase = gen

JobsInv ==
  \A c \in Clients :
    /\ c \notin pooled => jobs[c] = {}
    /\ ~Stale(c) => \A j \in jobs[c] : j.block = gen /\ j.coinbase = gen

JobsHeld == OverlapInv /\ ActiveInv /\ NoFreedJob

JobsCurrent == CoinbaseInv /\ JobsInv

Quiet(c) == \A t \in Threads : ~InSendJob(t, c)

(* What the only thread that sends to a client holds, and what it leaves.  *)
WorkInv(c) ==
  overlap[c] # "yes" =>
    /\ \A t \in Threads :
         InSendJob(t, c) /\ pc[t] \in UseSteps \cup {"notify"} =>
           job[t] = active[c] /\ job[t] \in jobs[c]
    /\ Quiet(c) /\ work[c] # NoJob => work[c] = active[c] /\ work[c] \in jobs[c]

DiffInv(c) ==
  overlap[c] = "no" =>
    /\ \A t \in Threads :
         InSendJob(t, c) =>
           /\ pc[t] \in {"set_difficulty", "store"} => diff[t] = job[t].diff
           /\ pc[t] = "store" => told[c] = diff[t]
           /\ pc[t] # "store" => told[c] = currentDiff[c]
           /\ pc[t] \in {"encode", "notify"} => told[c] = job[t].diff
    /\ Quiet(c) => told[c] = currentDiff[c]
    /\ Quiet(c) /\ work[c] # NoJob => told[c] = work[c].diff

MinerInv == \A c \in Clients : WorkInv(c) /\ DiffInv(c)

-----------------------------------------------------------------------------
(* A measured difficulty is at least the floor, or there is none.          *)
LEMMA CalcType ==
  ASSUME TypeOK, NEW c \in Clients, NEW time \in Elapsed
  PROVE  calcNewDiff(c, time) \in Diffs \cup {-1}
<1>1. acceptedShares[c] \in Nat /\ currentDiff[c] \in Int /\ time \in Nat
  BY DEF TypeOK, Diffs
<1>2. ASSUME NEW d \in Int PROVE NotBelowFloor(d) \in Diffs
  BY DEF NotBelowFloor, Diffs
<1>3. currentDiff[c] \div 10 \in Int
  BY <1>1
<1>4. time > 0 => (acceptedShares[c] * 10) \div time \in Int
  BY <1>1
<1> QED
  BY <1>1, <1>2, <1>3, <1>4 DEF calcNewDiff, TypeOK

(* So is the difficulty of a job.                                          *)
LEMMA JobDiffType ==
  ASSUME TypeOK, NEW c \in Clients, NEW d \in Diffs \cup {-1}
  PROVE  JobDiff(c, d) \in Diffs
<1>1. MaxDiff[gen] \in Nat /\ MaxDiff[gen] >= 4
  BY DEF TypeOK
<1>2. MaxDiff[gen] \div 4 \in Nat \ {0}
  BY <1>1
<1> QED
  BY <1>2 DEF JobDiff, TypeOK, Diffs

(* Whom a thread sends to.                                                 *)
LEMMA TargetType ==
  ASSUME TypeOK, PcInv, NEW t \in Threads, pc[t] \in SendSteps
  PROVE  Target(t) \in Clients
BY DEF TypeOK, PcInv, Target, Threads

LEMMA InitTypes == Init => TypeOK /\ PcInv /\ JobsHeld /\ JobsCurrent
<1> SUFFICES ASSUME Init PROVE TypeOK /\ PcInv /\ JobsHeld /\ JobsCurrent
  OBVIOUS
<1>1. TypeOK
  <2>1. /\ gen \in Blocks /\ coinbase \in Blocks /\ jobCounter \in Nat
        /\ requests \in [Clients -> Nat] /\ updates \in 0..MaxUpdates
    BY DEF Init
  <2>4. /\ visited \in Threads /\ todo \subseteq pooled /\ pooled \subseteq Clients
        /\ forceUpdate \in BOOLEAN /\ alive \in BOOLEAN
    BY Zenon DEF Init, Threads
  <2>2. /\ pc \in [Threads -> SendSteps \cup {"idle", "coinbase", "next", "subscribed", "check", "reply"}]
        /\ job \in [Threads -> Job \cup {NoJob}]
        /\ diff \in [Threads -> Diffs \cup {-1}]
    BY DEF Init
  <2>3. /\ jobs \in [Clients -> SUBSET Job] /\ active \in [Clients -> Job \cup {NoJob}]
        /\ currentDiff \in [Clients -> Diffs \cup {-1}] /\ acceptedShares \in [Clients -> Nat]
        /\ told \in [Clients -> Diffs \cup {-1}] /\ work \in [Clients -> Job \cup {NoJob}]
        /\ overlap \in [Clients -> {"no", "yes", "before"}]
    BY DEF Init
  <2> QED
    BY <2>1, <2>2, <2>3, <2>4 DEF TypeOK
<1>2. PcInv /\ OverlapInv /\ NoFreedJob
  BY DEF Init, PcInv, OverlapInv, NoFreedJob, Threads, UseSteps, SendSteps
<1>3. ActiveInv /\ CoinbaseInv /\ JobsInv
  BY DEF Init, ActiveInv, CoinbaseInv, JobsInv
<1> QED
  BY <1>1, <1>2, <1>3 DEF JobsHeld, JobsCurrent

-----------------------------------------------------------------------------
(* A step of sendJob() in either thread keeps the types and the places.    *)
LEMMA SendJobTypes ==
  ASSUME TypeOK, PcInv, NEW t \in Threads, SendJobStep(t)
  PROVE  TypeOK' /\ PcInv'
<1> USE DEF SendJobStep, At, GoTo, Return, UseSteps, SendSteps, Threads,
            managerVars, updaterVars, minerVars, diffVars, otherVars
<1> DEFINE c == Target(t)
<1>0. c \in Clients
  BY TargetType DEF ActiveJob, ChooseDiff, CreateJob, UsesFreed, CompareDiff,
                    SetDifficulty, StoreDiff, EncodeJob, Notify
<1> HIDE DEF c
<1>1. CASE ActiveJob(t)
  <2>1. active[c] \in Job
    BY <1>0, <1>1 DEF ActiveJob, TypeOK, c
  <2> QED
    BY <1>1, <2>1 DEF ActiveJob, TypeOK, PcInv, c
<1>2. CASE ChooseDiff(t)
  <2>1. PICK time \in Elapsed : diff' = [diff EXCEPT ![t] = calcNewDiff(c, time)]
    BY <1>2 DEF ChooseDiff, c
  <2>2. calcNewDiff(c, time) \in Diffs \cup {-1}
    BY <1>0, CalcType
  <2> QED
    BY <1>2, <2>1, <2>2 DEF ChooseDiff, TypeOK, PcInv
<1>3. CASE CreateJob(t)
  <2> DEFINE new == [id |-> jobCounter + 1, diff |-> JobDiff(c, diff[t]),
                     block |-> gen, coinbase |-> coinbase]
  <2>1. JobDiff(c, diff[t]) \in Diffs
    BY <1>0, JobDiffType DEF TypeOK
  <2>2. new \in Job
    BY <2>1 DEF Job, TypeOK
  <2>3. /\ jobs' = [jobs EXCEPT ![c] = @ \cup {new}] /\ active' = [active EXCEPT ![c] = new]
        /\ job' = [job EXCEPT ![t] = new]
    BY <1>3 DEF CreateJob, c
  <2> HIDE DEF new
  <2>4. TypeOK'
    <3>1. jobs[c] \cup {new} \in SUBSET Job
      BY <1>0, <2>2 DEF TypeOK
    <3>2. jobs' \in [Clients -> SUBSET Job] /\ active' \in [Clients -> Job \cup {NoJob}]
      BY <1>0, <2>2, <2>3, <3>1 DEF TypeOK
    <3> QED
      BY <1>3, <2>2, <2>3, <3>2 DEF CreateJob, TypeOK
  <2>5. PcInv'
    BY <1>3, <2>2, <2>3 DEF CreateJob, TypeOK, PcInv
  <2> QED
    BY <2>4, <2>5
<1>4. CASE UsesFreed(t)
  BY <1>4 DEF UsesFreed, TypeOK, PcInv
<1>5. CASE CompareDiff(t)
  <2>1. job[t].diff \in Diffs
    BY <1>5 DEF CompareDiff, PcInv, Job
  <2> QED
    BY <1>5, <2>1 DEF CompareDiff, TypeOK, PcInv
<1>6. CASE SetDifficulty(t)
  <2>1. diff[t] \in Diffs
    BY <1>6 DEF SetDifficulty, PcInv
  <2> QED
    BY <1>0, <1>6, <2>1 DEF SetDifficulty, TypeOK, PcInv, c
<1>7. CASE StoreDiff(t)
  <2>1. diff[t] \in Diffs
    BY <1>7 DEF StoreDiff, PcInv
  <2> QED
    BY <1>0, <1>7, <2>1 DEF StoreDiff, TypeOK, PcInv, c
<1>8. CASE EncodeJob(t)
  BY <1>8 DEF EncodeJob, TypeOK, PcInv
<1>9. CASE Notify(t)
  <2>1. job[t] \in Job
    BY <1>9 DEF Notify, PcInv
  <2> QED
    BY <1>0, <1>9, <2>1 DEF Notify, TypeOK, PcInv, c
<1> QED
  BY <1>1, <1>2, <1>3, <1>4, <1>5, <1>6, <1>7, <1>8, <1>9

(* The same of the updater's own steps ...                                 *)
LEMMA UpdaterTypes ==
  ASSUME TypeOK, PcInv,
         \/ ClearJobs \/ GenerateCoinbaseTransaction \/ AllSent \/ Update
         \/ \E c \in Clients : SendToNext(c)
  PROVE  TypeOK' /\ PcInv'
<1> USE DEF At, GoTo, UseSteps, SendSteps, Threads,
            managerVars, updaterVars, minerVars, diffVars, otherVars
<1>1. CASE ClearJobs
  <2>1. visited \in Clients
    BY <1>1 DEF ClearJobs, PcInv, TypeOK
  <2> QED
    BY <1>1, <2>1 DEF ClearJobs, TypeOK, PcInv
<1>2. CASE GenerateCoinbaseTransaction
  BY <1>2 DEF GenerateCoinbaseTransaction, TypeOK, PcInv
<1>3. CASE AllSent
  BY <1>3 DEF AllSent, TypeOK, PcInv
<1>4. CASE UpdateCoinbaseOutputs
  <2>1. forceUpdate' \in BOOLEAN
    BY <1>4, Zenon DEF UpdateCoinbaseOutputs
  <2> QED
    BY <1>4, <2>1 DEF UpdateCoinbaseOutputs, TypeOK, PcInv
<1>5. ASSUME NEW block \in Blocks, UpdateWork(block)
      PROVE  TypeOK' /\ PcInv'
  BY <1>5 DEF UpdateWork, blockUpdate, TypeOK, PcInv
<1>6. ASSUME NEW c \in Clients, SendToNext(c)
      PROVE  TypeOK' /\ PcInv'
  <2>1. overlap' \in [Clients -> {"no", "yes", "before"}]
    BY <1>6 DEF SendToNext, Begin, TypeOK
  <2>2. c \in pooled /\ todo' \subseteq pooled /\ visited' = c
    BY <1>6 DEF SendToNext, TypeOK
  <2>3. TypeOK'
    BY <1>6, <2>1, <2>2 DEF SendToNext, TypeOK
  <2> QED
    BY <1>6, <2>2, <2>3 DEF SendToNext, TypeOK, PcInv
<1> QED
  BY <1>1, <1>2, <1>3, <1>4, <1>5, <1>6 DEF Update

(* ... and of a receiver's.                                                *)
LEMMA ReceiverTypes ==
  ASSUME TypeOK, PcInv, NEW c \in Clients,
         \/ Request(c) \/ ReplySubscribed(c) \/ AcceptShare(c) \/ RejectLowDiff(c) \/ Reply(c)
  PROVE  TypeOK' /\ PcInv'
<1> USE DEF At, GoTo, Return, Receive, UseSteps, SendSteps, Threads,
            managerVars, updaterVars, minerVars, diffVars, otherVars
<1>1. CASE Invalid(c)
  BY <1>1 DEF Invalid, TypeOK, PcInv
<1>2. CASE Throw(c)
  <2>1. alive' \in BOOLEAN
    BY <1>2, Zenon DEF Throw
  <2> QED
    BY <1>2, <2>1 DEF Throw, TypeOK, PcInv
<1>3. CASE Subscribe(c)
  BY <1>3 DEF Subscribe, TypeOK, PcInv
<1>4. CASE Answer(c)
  BY <1>4 DEF Answer, TypeOK, PcInv
<1>5. ASSUME NEW id \in 0..jobCounter, Submit(c, id)
      PROVE  TypeOK' /\ PcInv'
  <2>1. CASE UNCHANGED job
    BY <1>5, <2>1 DEF Submit, TypeOK, PcInv
  <2>2. ASSUME NEW j \in jobs[c], job' = [job EXCEPT ![c] = j], GoTo(c, "check")
        PROVE  TypeOK' /\ PcInv'
    <3>1. j \in Job
      BY DEF TypeOK
    <3> QED
      BY <1>5, <2>2, <3>1 DEF Submit, TypeOK, PcInv
  <2> QED
    BY <1>5, <2>1, <2>2 DEF Submit
<1>6. CASE ReplySubscribed(c)
  <2>1. CASE c \in pooled
    <3>1. overlap' \in [Clients -> {"no", "yes", "before"}]
      BY <1>6, <2>1 DEF ReplySubscribed, Begin, TypeOK
    <3> QED
      BY <1>6, <2>1, <3>1 DEF ReplySubscribed, TypeOK, PcInv
  <2>2. CASE c \notin pooled
    BY <1>6, <2>2 DEF ReplySubscribed, TypeOK, PcInv
  <2> QED
    BY <2>1, <2>2
<1>7. CASE AcceptShare(c)
  <2>1. job[c].diff \in Nat
    BY <1>7 DEF AcceptShare, PcInv, Job, Diffs
  <2> QED
    BY <1>7, <2>1 DEF AcceptShare, TypeOK, PcInv
<1>8. CASE RejectLowDiff(c)
  BY <1>8 DEF RejectLowDiff, TypeOK, PcInv
<1>9. CASE Reply(c)
  BY <1>9 DEF Reply, TypeOK, PcInv
<1> QED
  BY <1>1, <1>2, <1>3, <1>4, <1>5, <1>6, <1>7, <1>8, <1>9 DEF Request

LEMMA StepTypes == TypeOK /\ PcInv /\ [Next]_vars => TypeOK' /\ PcInv'
<1> SUFFICES ASSUME TypeOK, PcInv, [Next]_vars PROVE TypeOK' /\ PcInv'
  OBVIOUS
<1>1. CASE UNCHANGED vars
  BY <1>1 DEF vars, managerVars, updaterVars, minerVars, diffVars, otherVars, TypeOK, PcInv
<1>2. ASSUME NEW t \in Threads, SendJobStep(t) PROVE TypeOK' /\ PcInv'
  BY <1>2, SendJobTypes
<1>3. CASE \/ ClearJobs \/ GenerateCoinbaseTransaction \/ AllSent \/ Update
           \/ \E c \in Clients : SendToNext(c)
  BY <1>3, UpdaterTypes
<1>4. ASSUME NEW c \in Clients,
             \/ Request(c) \/ ReplySubscribed(c) \/ AcceptShare(c) \/ RejectLowDiff(c) \/ Reply(c)
      PROVE  TypeOK' /\ PcInv'
  BY <1>4, ReceiverTypes
<1> QED
  BY <1>1, <1>2, <1>3, <1>4 DEF Next, UpdaterStep, ReceiverStep, Threads

-----------------------------------------------------------------------------
(* Who is in sendJob() beside another, and what it refers to there.        *)
LEMMA SendJobHolds ==
  ASSUME TypeOK, PcInv, JobsHeld, NEW t \in Threads, SendJobStep(t)
  PROVE  JobsHeld'
<1> USE DEF JobsHeld, OverlapInv, ActiveInv, NoFreedJob, Freed, At, GoTo, UseSteps, SendSteps, Threads,
            managerVars, updaterVars, minerVars, diffVars, otherVars
<1> DEFINE c == Target(t)
<1>0. pc[t] \in SendSteps /\ c \in Clients
  BY TargetType DEF SendJobStep, ActiveJob, ChooseDiff, CreateJob, UsesFreed, CompareDiff,
                    SetDifficulty, StoreDiff, EncodeJob, Notify
<1>1. CASE ActiveJob(t)
  <2>1. active[c] \in jobs[c]
    BY <1>0, <1>1 DEF ActiveJob
  <2> QED
    BY <1>0, <1>1, <2>1 DEF ActiveJob, TypeOK, Target
<1>2. CASE ChooseDiff(t)
  BY <1>0, <1>2 DEF ChooseDiff, TypeOK, Target
<1>3. CASE CreateJob(t)
  BY <1>0, <1>3 DEF CreateJob, TypeOK, Target
<1>4. CASE UsesFreed(t)
  BY <1>4 DEF UsesFreed, Target
<1>5. CASE CompareDiff(t)
  BY <1>0, <1>5 DEF CompareDiff, TypeOK, Target
<1>6. CASE SetDifficulty(t)
  BY <1>0, <1>6 DEF SetDifficulty, TypeOK, Target
<1>7. CASE StoreDiff(t)
  BY <1>0, <1>7 DEF StoreDiff, TypeOK, Target
<1>8. CASE EncodeJob(t)
  BY <1>0, <1>8 DEF EncodeJob, TypeOK, Target
<1>9. CASE Notify(t)
  BY <1>0, <1>9 DEF Notify, Return, TypeOK, Target
<1> QED
  BY <1>1, <1>2, <1>3, <1>4, <1>5, <1>6, <1>7, <1>8, <1>9 DEF SendJobStep

(* Only the updater removes jobs, and what a receiver refers to then is a  *)
(* job it got while it sent one beside the updater.                        *)
LEMMA UpdaterHolds ==
  ASSUME TypeOK, PcInv, JobsHeld,
         \/ ClearJobs \/ GenerateCoinbaseTransaction \/ AllSent \/ Update
         \/ \E c \in Clients : SendToNext(c)
  PROVE  JobsHeld'
<1> USE DEF JobsHeld, OverlapInv, ActiveInv, NoFreedJob, Freed, Target, At, GoTo,
            UseSteps, SendSteps, Threads,
            managerVars, updaterVars, minerVars, diffVars, otherVars
<1>1. CASE ClearJobs
  <2>1. visited \in Clients
    BY <1>1 DEF ClearJobs, PcInv, TypeOK
  <2>2. ASSUME NEW t \in Threads, pc'[t] \in UseSteps, Freed(t)'
        PROVE  t # Updater /\ overlap'[t] = "yes"
    <3>1. t \in Clients /\ pc[t] = pc'[t]
      BY <1>1, <2>2 DEF ClearJobs, TypeOK
    <3>2. CASE t = visited
      BY <1>1, <2>2, <3>1, <3>2 DEF ClearJobs
    <3>3. CASE t # visited
      BY <1>1, <2>2, <3>1, <3>3 DEF ClearJobs, TypeOK
    <3> QED
      BY <3>2, <3>3
  <2>3. OverlapInv' /\ ActiveInv'
    BY <1>1, <2>1 DEF ClearJobs, TypeOK
  <2> QED
    BY <2>2, <2>3
<1>2. CASE GenerateCoinbaseTransaction
  BY <1>2 DEF GenerateCoinbaseTransaction, TypeOK
<1>3. CASE AllSent
  BY <1>3 DEF AllSent, TypeOK
<1>4. CASE UpdateCoinbaseOutputs
  BY <1>4 DEF UpdateCoinbaseOutputs, TypeOK
<1>5. ASSUME NEW block \in Blocks, UpdateWork(block)
      PROVE  JobsHeld'
  BY <1>5 DEF UpdateWork, TypeOK
<1>6. ASSUME NEW c \in Clients, SendToNext(c)
      PROVE  JobsHeld'
  <2>1. pc[c] \in SendSteps => overlap'[c] = "yes"
    BY <1>6 DEF SendToNext, Begin, InSendJob, TypeOK
  <2>2. \A d \in Clients : pc[d] \in SendSteps /\ overlap[d] = "yes" => overlap'[d] = "yes"
    BY <1>6, <2>1 DEF SendToNext, Begin, TypeOK
  <2>3. pc'[Updater] \notin UseSteps /\ visited' = c /\ \A d \in Clients : pc'[d] = pc[d]
    BY <1>6 DEF SendToNext, TypeOK
  <2>4. jobs' = jobs /\ active' = active /\ job' = job
    BY <1>6 DEF SendToNext
  <2> QED
    BY <2>1, <2>2, <2>3, <2>4
<1> QED
  BY <1>1, <1>2, <1>3, <1>4, <1>5, <1>6 DEF Update

LEMMA ReceiverHolds ==
  ASSUME TypeOK, PcInv, JobsHeld, NEW c \in Clients,
         \/ Request(c) \/ ReplySubscribed(c) \/ AcceptShare(c) \/ RejectLowDiff(c) \/ Reply(c)
  PROVE  JobsHeld'
<1> USE DEF JobsHeld, OverlapInv, ActiveInv, NoFreedJob, Freed, Target, At, GoTo, Return, Receive,
            UseSteps, SendSteps, Threads,
            managerVars, updaterVars, minerVars, diffVars, otherVars
<1>1. CASE Invalid(c)
  BY <1>1 DEF Invalid
<1>2. CASE Throw(c)
  BY <1>2 DEF Throw
<1>3. CASE Subscribe(c)
  BY <1>3 DEF Subscribe, TypeOK
<1>4. CASE Answer(c)
  BY <1>4 DEF Answer, TypeOK
<1>5. ASSUME NEW id \in 0..jobCounter, Submit(c, id)
      PROVE  JobsHeld'
  BY <1>5 DEF Submit, TypeOK
<1>6. CASE ReplySubscribed(c)
  <2>1. CASE c \in pooled
    <3>1. pc[Updater] \in SendSteps /\ visited = c => overlap'[c] = "yes"
      BY <1>6, <2>1 DEF ReplySubscribed, Begin, InSendJob, TypeOK
    <3>2. \A d \in Clients \ {c} : overlap'[d] = overlap[d]
      BY <1>6, <2>1 DEF ReplySubscribed, Begin, TypeOK
    <3>3. pc' = [pc EXCEPT ![c] = "job"] /\ UNCHANGED <<jobs, active, job, visited>>
      BY <1>6, <2>1 DEF ReplySubscribed
    <3> QED
      BY <3>1, <3>2, <3>3 DEF TypeOK, PcInv
  <2>2. CASE c \notin pooled
    BY <1>6, <2>2 DEF ReplySubscribed, TypeOK
  <2> QED
    BY <2>1, <2>2
<1>7. CASE AcceptShare(c)
  BY <1>7 DEF AcceptShare, TypeOK
<1>8. CASE RejectLowDiff(c)
  BY <1>8 DEF RejectLowDiff, TypeOK
<1>9. CASE Reply(c)
  BY <1>9 DEF Reply, TypeOK
<1> QED
  BY <1>1, <1>2, <1>3, <1>4, <1>5, <1>6, <1>7, <1>8, <1>9 DEF Request

-----------------------------------------------------------------------------
(* Jobs of another block or coinbase are only where the updater has yet to *)
(* clear them.                                                             *)
LEMMA SendJobCurrent ==
  ASSUME TypeOK, PcInv, JobsCurrent, NEW t \in Threads, SendJobStep(t)
  PROVE  JobsCurrent'
<1> USE DEF JobsCurrent, CoinbaseInv, JobsInv, Stale, At, GoTo, Return,
            managerVars, updaterVars, minerVars, diffVars, otherVars
<1>0. UNCHANGED <<gen, coinbase, pooled, todo, visited, forceUpdate>>
  BY DEF SendJobStep, ActiveJob, ChooseDiff, CreateJob, UsesFreed, CompareDiff,
         SetDifficulty, StoreDiff, EncodeJob, Notify
<1>1. \/ pc[Updater] \notin {"coinbase", "clear"} /\ pc'[Updater] \notin {"coinbase", "clear"}
      \/ pc'[Updater] = pc[Updater]
  BY DEF SendJobStep, ActiveJob, ChooseDiff, CreateJob, UsesFreed, CompareDiff,
         SetDifficulty, StoreDiff, EncodeJob, Notify, TypeOK, Threads
<1>2. \A c \in Clients : Stale(c)' <=> Stale(c)
  BY <1>0, <1>1
<1>3. CASE CreateJob(t)
  <2> DEFINE c == Target(t)
  <2>1. t = Updater => pc[Updater] = "create"
    BY <1>3 DEF CreateJob
  <2>2. c \in pooled /\ c \in Clients
    BY <1>3 DEF CreateJob, Target, Threads, PcInv, SendSteps, UseSteps, TypeOK
  <2>3. \A d \in Clients \ {c} : jobs'[d] = jobs[d]
    BY <1>3 DEF CreateJob, TypeOK
  <2>4. \A j \in jobs'[c] : j \in jobs[c] \/ (j.block = gen /\ j.coinbase = coinbase)
    BY <1>3, <2>2 DEF CreateJob, TypeOK
  <2>5. ~Stale(c) => coinbase = gen
    OBVIOUS
  <2> QED
    BY <1>0, <1>1, <1>2, <2>2, <2>3, <2>4, <2>5
<1>4. CASE UNCHANGED jobs
  BY <1>0, <1>1, <1>2, <1>4
<1> QED
  BY <1>3, <1>4 DEF SendJobStep, ActiveJob, ChooseDiff, UsesFreed, CompareDiff,
                    SetDifficulty, StoreDiff, EncodeJob, Notify

LEMMA UpdaterCurrent ==
  ASSUME TypeOK, PcInv, JobsCurrent,
         \/ ClearJobs \/ GenerateCoinbaseTransaction \/ AllSent \/ Update
         \/ \E c \in Clients : SendToNext(c)
  PROVE  JobsCurrent'
<1> USE DEF JobsCurrent, CoinbaseInv, JobsInv, Stale, At, GoTo, Threads,
            managerVars, updaterVars, minerVars, diffVars, otherVars
<1>1. CASE ClearJobs
  BY <1>1 DEF ClearJobs, TypeOK, PcInv, SendSteps
<1>2. CASE GenerateCoinbaseTransaction
  BY <1>2 DEF GenerateCoinbaseTransaction, TypeOK
<1>3. CASE AllSent
  BY <1>3 DEF AllSent, TypeOK
<1>4. CASE UpdateCoinbaseOutputs
  BY <1>4 DEF UpdateCoinbaseOutputs, TypeOK, PcInv
<1>5. ASSUME NEW block \in Blocks, UpdateWork(block)
      PROVE  JobsCurrent'
  BY <1>5 DEF UpdateWork, blockUpdate, TypeOK, PcInv
<1>6. ASSUME NEW c \in Clients, SendToNext(c)
      PROVE  JobsCurrent'
  BY <1>6 DEF SendToNext, TypeOK
<1> QED
  BY <1>1, <1>2, <1>3, <1>4, <1>5, <1>6 DEF Update

LEMMA ReceiverCurrent ==
  ASSUME TypeOK, JobsCurrent, NEW c \in Clients,
         \/ Request(c) \/ ReplySubscribed(c) \/ AcceptShare(c) \/ RejectLowDiff(c) \/ Reply(c)
  PROVE  JobsCurrent'
<1> USE DEF managerVars, updaterVars, minerVars, diffVars, otherVars, GoTo, Return
<1>1. UNCHANGED <<gen, coinbase, jobs, pooled, todo, visited, forceUpdate>>
  BY DEF Request, Invalid, Throw, Subscribe, Answer, Submit, ReplySubscribed,
         AcceptShare, RejectLowDiff, Reply
<1>2. pc'[Updater] = pc[Updater]
  BY DEF Request, Invalid, Throw, Subscribe, Answer, Submit, ReplySubscribed,
         AcceptShare, RejectLowDiff, Reply, TypeOK, Threads
<1> QED
  BY <1>1, <1>2 DEF JobsCurrent, CoinbaseInv, JobsInv, Stale

-----------------------------------------------------------------------------
(* A client of which one thread at a time sends jobs is told their         *)
(* difficulty, and works on its active job.                                *)
LEMMA SendJobMiner ==
  ASSUME TypeOK, PcInv, OverlapInv, ActiveInv, MinerInv,
         NEW t \in Threads, SendJobStep(t),
         NEW c \in Clients, c = Target(t)
  PROVE  MinerInv'
<1>0. pc[t] \in SendSteps /\ UNCHANGED <<pooled, overlap, visited>>
  BY DEF SendJobStep, ActiveJob, ChooseDiff, CreateJob, UsesFreed, CompareDiff,
         SetDifficulty, StoreDiff, EncodeJob, Notify, At, SendSteps, UseSteps,
         otherVars, updaterVars
<1>1. /\ \A u \in Threads \ {t} : pc'[u] = pc[u] /\ job'[u] = job[u] /\ diff'[u] = diff[u]
      /\ \A d \in Clients \ {c} : /\ jobs'[d] = jobs[d] /\ active'[d] = active[d] /\ work'[d] = work[d]
                                  /\ told'[d] = told[d] /\ currentDiff'[d] = currentDiff[d]
  BY DEF SendJobStep, ActiveJob, ChooseDiff, CreateJob, UsesFreed, CompareDiff,
         SetDifficulty, StoreDiff, EncodeJob, Notify, Return, GoTo, TypeOK,
         minerVars, diffVars
<1>2. ASSUME NEW d \in Clients, d # c
      PROVE  WorkInv(d)' /\ DiffInv(d)'
  <2>1. ~InSendJob(t, d) /\ ~InSendJob(t, d)'
    BY <1>0, <1>2 DEF InSendJob, Target
  <2>2. \A u \in Threads : InSendJob(u, d)' <=> InSendJob(u, d)
    BY <1>0, <1>1, <2>1 DEF InSendJob, Target
  <2>3. Quiet(d)' <=> Quiet(d)
    BY <2>2 DEF Quiet
  <2>4. \A u \in Threads : InSendJob(u, d) => pc'[u] = pc[u] /\ job'[u] = job[u] /\ diff'[u] = diff[u]
    BY <1>1, <2>1
  <2>5. WorkInv(d) /\ DiffInv(d)
    BY DEF MinerInv
  <2>6. WorkInv(d)'
    BY <1>0, <1>1, <1>2, <2>2, <2>3, <2>4, <2>5 DEF WorkInv
  <2>7. DiffInv(d)'
    BY <1>0, <1>1, <1>2, <2>2, <2>3, <2>4, <2>5 DEF DiffInv
  <2> QED
    BY <2>6, <2>7
<1>3. ASSUME overlap[c] # "yes"
      PROVE  WorkInv(c)' /\ DiffInv(c)'
  <2>1. InSendJob(t, c) /\ ~Quiet(c)
    BY <1>0 DEF InSendJob, Quiet
  <2>2. ASSUME NEW u \in Threads \ {t}
        PROVE  ~InSendJob(u, c) /\ ~InSendJob(u, c)'
    <3>1. ~InSendJob(u, c)
      BY <1>0, <1>3 DEF InSendJob, OverlapInv, Target, Threads
    <3> QED
      BY <1>0, <1>1, <3>1 DEF InSendJob, Target
  <2>3. InSendJob(t, c)' <=> pc'[t] \in SendSteps
    BY <1>0 DEF InSendJob, Target
  <2>4. Quiet(c)' <=> pc'[t] \notin SendSteps
    BY <2>2, <2>3 DEF Quiet
  <2>5. /\ pc[t] \in UseSteps \cup {"notify"} => job[t] = active[c] /\ job[t] \in jobs[c]
        /\ overlap[c] = "no" =>
             /\ pc[t] \in {"set_difficulty", "store"} => diff[t] = job[t].diff
             /\ pc[t] = "store" => told[c] = diff[t]
             /\ pc[t] # "store" => told[c] = currentDiff[c]
             /\ pc[t] \in {"encode", "notify"} => told[c] = job[t].diff
    BY <1>0, <1>3, <2>1 DEF MinerInv, WorkInv, DiffInv
  <2> DEFINE Holds ==
        /\ pc'[t] \in UseSteps \cup {"notify"} => job'[t] = active'[c] /\ job'[t] \in jobs'[c]
        /\ pc'[t] \notin SendSteps => work'[c] = active'[c] /\ work'[c] \in jobs'[c]
        /\ overlap[c] = "no" =>
             /\ pc'[t] \in {"set_difficulty", "store"} => diff'[t] = job'[t].diff
             /\ pc'[t] = "store" => told'[c] = diff'[t]
             /\ pc'[t] # "store" => told'[c] = currentDiff'[c]
             /\ pc'[t] \in {"encode", "notify"} => told'[c] = job'[t].diff
             /\ pc'[t] \notin SendSteps => told'[c] = work'[c].diff
  <2>6. Holds
    <3> USE DEF UseSteps, SendSteps, At, GoTo, managerVars, minerVars, diffVars
    <3>1. CASE ActiveJob(t)
      BY <1>0, <2>5, <3>1 DEF ActiveJob, ActiveInv, TypeOK
    <3>2. CASE ChooseDiff(t)
      BY <1>0, <2>5, <3>2 DEF ChooseDiff, TypeOK
    <3>3. CASE CreateJob(t)
      BY <1>0, <2>5, <3>3 DEF CreateJob, TypeOK
    <3>4. CASE UsesFreed(t)
      BY <1>0, <2>5, <3>4 DEF UsesFreed, TypeOK
    <3>5. CASE CompareDiff(t)
      BY <1>0, <2>5, <3>5 DEF CompareDiff, TypeOK
    <3>6. CASE SetDifficulty(t)
      BY <1>0, <2>5, <3>6 DEF SetDifficulty, TypeOK
    <3>7. CASE StoreDiff(t)
      BY <1>0, <2>5, <3>7 DEF StoreDiff, TypeOK
    <3>8. CASE EncodeJob(t)
      BY <1>0, <2>5, <3>8 DEF EncodeJob, TypeOK
    <3>9. CASE Notify(t)
      BY <1>0, <2>5, <3>9 DEF Notify, Return, TypeOK
    <3> QED
      BY <3>1, <3>2, <3>3, <3>4, <3>5, <3>6, <3>7, <3>8, <3>9 DEF SendJobStep
  <2>7. UseSteps \subseteq SendSteps /\ "notify" \in SendSteps /\ "store" \in UseSteps
    BY DEF UseSteps, SendSteps
  <2>8. WorkInv(c)'
    BY <1>0, <2>2, <2>3, <2>4, <2>6, <2>7 DEF WorkInv
  <2>9. DiffInv(c)'
    BY <1>0, <2>2, <2>3, <2>4, <2>6, <2>7 DEF DiffInv
  <2> QED
    BY <2>8, <2>9
<1>4. overlap[c] = "yes" => WorkInv(c)' /\ DiffInv(c)'
  BY <1>0 DEF WorkInv, DiffInv
<1> QED
  BY <1>2, <1>3, <1>4 DEF MinerInv

(* A step beside sendJob() takes nothing from a client.                    *)
LEMMA StepBeside ==
  ASSUME MinerInv,
         UNCHANGED <<jobs, active, work, told, currentDiff, overlap>>,
         \A t \in Threads, c \in Clients : InSendJob(t, c)' <=> InSendJob(t, c),
         \A t \in Threads, c \in Clients :
           InSendJob(t, c) => pc'[t] = pc[t] /\ job'[t] = job[t] /\ diff'[t] = diff[t]
  PROVE  MinerInv'
<1> SUFFICES ASSUME NEW c \in Clients PROVE WorkInv(c)' /\ DiffInv(c)'
  BY DEF MinerInv
<1>1. Quiet(c)' <=> Quiet(c)
  BY DEF Quiet
<1>2. WorkInv(c) /\ DiffInv(c)
  BY DEF MinerInv
<1>3. WorkInv(c)'
  BY <1>1, <1>2 DEF WorkInv
<1>4. DiffInv(c)'
  BY <1>1, <1>2 DEF DiffInv
<1> QED
  BY <1>3, <1>4

(* A thread enters sendJob(), for a client the other may be sending to.    *)
LEMMA StepBegin ==
  ASSUME TypeOK, MinerInv, NEW t \in Threads, NEW c \in Clients, NEW force \in BOOLEAN,
         pc[t] \notin SendSteps, pc' = [pc EXCEPT ![t] = pc'[t]], pc'[t] \in {"clear", "job"},
         UNCHANGED <<jobs, active, work, told, currentDiff, job, diff>>,
         Begin(t, c, force),
         \A d \in Clients : InSendJob(t, d)' <=> d = c,
         \A u \in Threads \ {t}, d \in Clients : InSendJob(u, d)' <=> InSendJob(u, d)
  PROVE  MinerInv'
<1>1. ASSUME NEW d \in Clients, d # c
      PROVE  WorkInv(d)' /\ DiffInv(d)'
  <2>1. \A u \in Threads : /\ InSendJob(u, d)' <=> InSendJob(u, d)
                           /\ InSendJob(u, d) => pc'[u] = pc[u]
    BY <1>1 DEF InSendJob, TypeOK
  <2>2. overlap'[d] = overlap[d]
    BY <1>1 DEF Begin, TypeOK
  <2>3. Quiet(d)' <=> Quiet(d)
    BY <2>1 DEF Quiet
  <2>4. WorkInv(d) /\ DiffInv(d)
    BY DEF MinerInv
  <2>5. WorkInv(d)'
    BY <2>1, <2>2, <2>3, <2>4 DEF WorkInv
  <2>6. DiffInv(d)'
    BY <2>1, <2>2, <2>3, <2>4 DEF DiffInv
  <2> QED
    BY <2>5, <2>6
<1>2. ASSUME overlap'[c] # "yes"
      PROVE  WorkInv(c)' /\ DiffInv(c)'
  <2>1. \A u \in Threads \ {t} : ~InSendJob(u, c) /\ ~InSendJob(u, c)'
    BY <1>2 DEF Begin, TypeOK
  <2>2. Quiet(c) /\ ~Quiet(c)'
    BY <2>1 DEF Quiet, InSendJob
  <2>3. overlap'[c] = "no" => overlap[c] = "no"
    BY DEF Begin, TypeOK
  <2>4. pc'[t] \notin UseSteps \cup {"notify"}
    BY DEF UseSteps
  <2>5. WorkInv(c)'
    BY <2>1, <2>2, <2>4 DEF WorkInv
  <2>6. overlap'[c] = "no" => told[c] = currentDiff[c]
    BY <2>2, <2>3 DEF MinerInv, DiffInv
  <2>7. DiffInv(c)'
    BY <2>1, <2>2, <2>4, <2>6 DEF DiffInv, UseSteps
  <2> QED
    BY <2>5, <2>7
<1>3. overlap'[c] = "yes" => WorkInv(c)' /\ DiffInv(c)'
  BY DEF WorkInv, DiffInv
<1> QED
  BY <1>1, <1>2, <1>3 DEF MinerInv

LEMMA UpdaterMiner ==
  ASSUME TypeOK, PcInv, OverlapInv, MinerInv,
         \/ ClearJobs \/ GenerateCoinbaseTransaction \/ AllSent \/ Update
         \/ \E c \in Clients : SendToNext(c)
  PROVE  MinerInv'
<1> USE DEF At, GoTo, Threads, managerVars, minerVars, diffVars, otherVars
<1>1. CASE ClearJobs
  <2>1. /\ pc[Updater] = "clear" /\ pc' = [pc EXCEPT ![Updater] = "job"]
        /\ visited \in Clients /\ visited' = visited
        /\ jobs' = [jobs EXCEPT ![visited] = {}] /\ active' = [active EXCEPT ![visited] = NoJob]
        /\ UNCHANGED <<work, told, currentDiff, overlap, job, diff>>
    BY <1>1 DEF ClearJobs, PcInv, SendSteps, TypeOK, updaterVars
  <2>2. \A t \in Threads, c \in Clients : InSendJob(t, c)' <=> InSendJob(t, c)
    BY <2>1 DEF InSendJob, Target, SendSteps, TypeOK
  <2>3. \A c \in Clients : Quiet(c)' <=> Quiet(c)
    BY <2>2 DEF Quiet
  <2>4. ASSUME NEW c \in Clients, c # visited
        PROVE  WorkInv(c)' /\ DiffInv(c)'
    <3>1. WorkInv(c) /\ DiffInv(c) /\ ~InSendJob(Updater, c)
      BY <2>4 DEF MinerInv, InSendJob, Target
    <3>2. jobs'[c] = jobs[c] /\ active'[c] = active[c] /\ \A t \in Threads \ {Updater} : pc'[t] = pc[t]
      BY <2>1, <2>4 DEF TypeOK
    <3>3. WorkInv(c)'
      BY <2>1, <2>2, <2>3, <3>1, <3>2 DEF WorkInv
    <3>4. DiffInv(c)'
      BY <2>1, <2>2, <2>3, <3>1, <3>2 DEF DiffInv
    <3> QED
      BY <3>3, <3>4
  <2>5. ASSUME NEW c \in Clients, c = visited
        PROVE  WorkInv(c)' /\ DiffInv(c)'
    <3>1. InSendJob(Updater, c) /\ ~Quiet(c)
      BY <2>1, <2>5 DEF InSendJob, Target, SendSteps, Quiet
    <3>2. overlap[c] # "yes" => \A t \in Threads \ {Updater} : ~InSendJob(t, c)
      BY <2>1, <2>5 DEF OverlapInv, InSendJob, Target, SendSteps
    <3>3. pc'[Updater] = "job" /\ overlap'[c] = overlap[c]
      BY <2>1 DEF TypeOK
    <3>4. WorkInv(c)'
      BY <2>2, <2>3, <3>1, <3>2, <3>3 DEF WorkInv, UseSteps
    <3>5. overlap[c] = "no" => told[c] = currentDiff[c]
      BY <2>1, <3>1 DEF MinerInv, DiffInv
    <3>6. DiffInv(c)'
      BY <2>1, <2>2, <2>3, <3>1, <3>2, <3>3, <3>5 DEF DiffInv
    <3> QED
      BY <3>4, <3>6
  <2> QED
    BY <2>4, <2>5 DEF MinerInv
<1>2. ASSUME GenerateCoinbaseTransaction \/ AllSent \/ Update
      PROVE  MinerInv'
  <2>1. UNCHANGED <<jobs, active, work, told, currentDiff, overlap, job, diff>>
    BY <1>2 DEF GenerateCoinbaseTransaction, AllSent, Update, UpdateCoinbaseOutputs, UpdateWork
  <2>2. /\ pc[Updater] \notin SendSteps /\ pc'[Updater] \notin SendSteps
        /\ \A c \in Clients : pc'[c] = pc[c]
    BY <1>2 DEF GenerateCoinbaseTransaction, AllSent, Update, UpdateCoinbaseOutputs, UpdateWork,
                SendSteps, UseSteps, TypeOK
  <2>3. \A t \in Threads, c \in Clients : /\ InSendJob(t, c)' <=> InSendJob(t, c)
                                          /\ InSendJob(t, c) => pc'[t] = pc[t]
    BY <2>2 DEF InSendJob, Target
  <2> QED
    BY <2>1, <2>3, StepBeside
<1>3. ASSUME NEW c \in Clients, SendToNext(c)
      PROVE  MinerInv'
  <2>1. /\ pc[Updater] = "next" /\ pc'[Updater] \in {"clear", "job"} /\ pc' = [pc EXCEPT ![Updater] = pc'[Updater]]
        /\ visited' = c /\ Begin(Updater, c, forceUpdate)
        /\ UNCHANGED <<jobs, active, work, told, currentDiff, job, diff>>
    BY <1>3 DEF SendToNext, TypeOK
  <2>2. pc[Updater] \notin SendSteps /\ pc'[Updater] \in SendSteps
    BY <2>1 DEF SendSteps, UseSteps
  <2>3. \A d \in Clients : InSendJob(Updater, d)' <=> d = c
    BY <2>1, <2>2 DEF InSendJob, Target
  <2>4. \A u \in Threads \ {Updater}, d \in Clients : InSendJob(u, d)' <=> InSendJob(u, d)
    BY <2>1 DEF InSendJob, Target, TypeOK
  <2>5. forceUpdate \in BOOLEAN
    BY DEF TypeOK
  <2> QED
    BY <2>1, <2>2, <2>3, <2>4, <2>5, StepBegin
<1> QED
  BY <1>1, <1>2, <1>3

LEMMA ReceiverMiner ==
  ASSUME TypeOK, PcInv, MinerInv, NEW c \in Clients,
         \/ Request(c) \/ ReplySubscribed(c) \/ AcceptShare(c) \/ RejectLowDiff(c) \/ Reply(c)
  PROVE  MinerInv'
<1> USE DEF At, GoTo, Return, Threads, managerVars, minerVars, diffVars, otherVars, updaterVars
<1>1. CASE ReplySubscribed(c) /\ c \in pooled
  <2>1. /\ pc[c] = "subscribed" /\ pc'[c] = "job" /\ pc' = [pc EXCEPT ![c] = pc'[c]]
        /\ visited' = visited /\ Begin(c, c, FALSE)
        /\ UNCHANGED <<jobs, active, work, told, currentDiff, job, diff>>
    BY <1>1 DEF ReplySubscribed, TypeOK
  <2>2. pc[c] \notin SendSteps /\ pc'[c] \in SendSteps
    BY <2>1 DEF SendSteps, UseSteps
  <2>3. \A d \in Clients : InSendJob(c, d)' <=> d = c
    BY <2>2 DEF InSendJob, Target
  <2>4. \A u \in Threads \ {c}, d \in Clients : InSendJob(u, d)' <=> InSendJob(u, d)
    BY <2>1 DEF InSendJob, Target, TypeOK
  <2> QED
    BY <2>1, <2>2, <2>3, <2>4, StepBegin
<1>2. CASE ~(ReplySubscribed(c) /\ c \in pooled)
  <2>1. UNCHANGED <<jobs, active, work, told, currentDiff, overlap, visited>>
    BY <1>2 DEF Request, Invalid, Throw, Subscribe, Answer, Submit, ReplySubscribed,
                AcceptShare, RejectLowDiff, Reply
  <2>2. /\ pc[c] \notin SendSteps /\ pc'[c] \notin SendSteps
        /\ \A t \in Threads \ {c} : pc'[t] = pc[t] /\ job'[t] = job[t] /\ diff'[t] = diff[t]
    BY <1>2 DEF Request, Receive, Invalid, Throw, Subscribe, Answer, Submit, ReplySubscribed,
                AcceptShare, RejectLowDiff, Reply, SendSteps, UseSteps, TypeOK
  <2>3. \A t \in Threads, d \in Clients : /\ InSendJob(t, d)' <=> InSendJob(t, d)
                                          /\ InSendJob(t, d) => t # c
    BY <2>1, <2>2 DEF InSendJob, Target
  <2> QED
    BY <2>1, <2>2, <2>3, StepBeside
<1> QED
  BY <1>1, <1>2

-----------------------------------------------------------------------------
Inv == TypeOK /\ PcInv /\ JobsHeld /\ JobsCurrent /\ MinerInv

LEMMA InitInv == Init => Inv
<1>1. Init => MinerInv
  BY DEF Init, MinerInv, WorkInv, DiffInv, InSendJob, SendSteps, UseSteps
<1> QED
  BY <1>1, InitTypes DEF Inv

LEMMA StepInv == Inv /\ [Next]_vars => Inv'
<1> SUFFICES ASSUME Inv, [Next]_vars PROVE Inv'
  OBVIOUS
<1> USE DEF Inv
<1>1. TypeOK' /\ PcInv'
  BY StepTypes
<1>2. CASE UNCHANGED vars
  <2> USE <1>2 DEF vars, managerVars, updaterVars, minerVars, diffVars, otherVars
  <2>1. JobsHeld'
    BY DEF JobsHeld, OverlapInv, ActiveInv, NoFreedJob, Freed, Target
  <2>2. JobsCurrent'
    BY DEF JobsCurrent, CoinbaseInv, JobsInv, Stale
  <2>3. MinerInv'
    BY StepBeside DEF InSendJob, Target
  <2> QED
    BY <1>1, <2>1, <2>2, <2>3
<1>3. ASSUME NEW t \in Threads, SendJobStep(t) PROVE Inv'
  <2>1. pc[t] \in SendSteps
    BY <1>3 DEF SendJobStep, ActiveJob, ChooseDiff, CreateJob, UsesFreed, CompareDiff,
                SetDifficulty, StoreDiff, EncodeJob, Notify, At, SendSteps, UseSteps
  <2>2. Target(t) \in Clients
    BY <2>1, TargetType
  <2>3. MinerInv'
    BY <1>3, <2>2, SendJobMiner DEF JobsHeld
  <2> QED
    BY <1>1, <1>3, <2>3, SendJobHolds, SendJobCurrent
<1>4. CASE \/ ClearJobs \/ GenerateCoinbaseTransaction \/ AllSent \/ Update
           \/ \E c \in Clients : SendToNext(c)
  <2>1. MinerInv'
    BY <1>4, UpdaterMiner DEF JobsHeld
  <2> QED
    BY <1>1, <1>4, <2>1, UpdaterHolds, UpdaterCurrent
<1>5. ASSUME NEW c \in Clients,
             \/ Request(c) \/ ReplySubscribed(c) \/ AcceptShare(c) \/ RejectLowDiff(c) \/ Reply(c)
      PROVE  Inv'
  BY <1>1, <1>5, ReceiverHolds, ReceiverCurrent, ReceiverMiner
<1> QED
  BY <1>2, <1>3, <1>4, <1>5 DEF Next, UpdaterStep, ReceiverStep, Threads

(* The inductive invariant holds in every reachable state.                 *)
THEOREM Invariance == Spec => []Inv
  BY InitInv, StepInv, PTL DEF Spec

(* Every variable of the job manager, the connections and their threads    *)
(* keeps its type; no difficulty in use is ever below the floor.           *)
THEOREM TypeCorrect == Spec => []TypeOK
  BY Invariance, PTL DEF Inv

(* Between two updates, every job of every client is of the current block  *)
(* and has a coinbase of this block.                                       *)
THEOREM JobsCurrentHolds == Spec => []JobsAreCurrent
<1>1. Inv => JobsAreCurrent
  BY DEF Inv, JobsCurrent, JobsInv, Stale, JobsAreCurrent, PcInv
<1> QED
  BY <1>1, Invariance, PTL

(* A client that sendJob() does not run for works on its active job, and   *)
(* knows this job's difficulty, unless it once ran in both threads.        *)
THEOREM MinerInStepHolds == Spec => []MinerInStep
<1>1. Inv => MinerInStep
  BY DEF Inv, MinerInv, WorkInv, DiffInv, Quiet, MinerInStep
<1> QED
  BY <1>1, Invariance, PTL

(* The updater never refers to a job that was freed, and a receiver only   *)
(* where sendJob() ran in both threads.                                    *)
THEOREM NoFreedJobHolds == Spec => []NoFreedJob
  BY Invariance, PTL DEF Inv, JobsHeld
=============================================================================
