-------------------------- MODULE PollDaemonProofs --------------------------
(***************************************************************************)
(* Theorems about PollDaemon, for any number of inverters, blocks and      *)
(* retries, and any set of ports whose driver may hold a query.            *)
(***************************************************************************)
EXTENDS PollDaemon, SequenceTheorems, FiniteSetTheorems, TLAPS

(***************************************************************************)
(* The inductive invariant.                                                *)
(***************************************************************************)
Counted(i) == \E t \in Threads : thread[t].inv = i /\ thread[t].counted

\* A queued or running poll has an unfinished future, and there is one of it.
Excl ==
  /\ \A t \in Threads : thread[t].inv # 0 => fut[thread[t].inv] = "pending"
  /\ \A k \in DOMAIN queue : fut[queue[k].inv] = "pending"
  /\ PortExclusive

\* The uncollected futures of the cycle, by where its two loops are.
FuturesAt ==
  /\ pc = "submit" => \A i \in futures : i < next
  /\ pc = "gather" => \A i \in futures : i >= next
  /\ pc \in {"submit", "gather", "down"} \union Stop \/ futures = {}
  /\ \A i \in futures : fut[i] # "none"

\* Failures never outnumber empty cycles.  A poll the cycle has given up on
\* still owes its failure; one that is done and uncollected has paid ahead.
FailsBelow ==
  \A i \in Inverters :
    /\ i \notin futures => failCount[i] <= emptyRun[i]
    /\ i \notin futures /\ fut[i] = "pending" /\ ~Counted(i) =>
         Bump(failCount[i]) <= emptyRun[i]
    /\ i \in futures => failCount[i] <= Bump(emptyRun[i])
    /\ i \in futures /\ fut[i] = "pending" /\ ~Counted(i) =>
         failCount[i] <= emptyRun[i]
    /\ i \in futures /\ fut[i] = "done" /\ res[i] => failCount[i] = 0

\* A worker counts its result after its last block, and a success counted
\* before it is collected leaves no failure behind.
PaidAhead ==
  \A t \in Threads :
    /\ thread[t].counted => ~Querying(t)
    /\ thread[t].inv \in futures /\ thread[t].counted /\ thread[t].any =>
         failCount[thread[t].inv] = 0

\* Empty cycles outnumber failures by the one a given-up poll owes, unless a
\* poll succeeded too late to be collected.
FailsAbove ==
  \A i \in Inverters : ~lateOk[i] =>
    /\ emptyRun[i] <= Bump(failCount[i])
    /\ i \in futures \/ fut[i] # "pending" \/ Counted(i) =>
         emptyRun[i] <= failCount[i]
    /\ i \in futures /\ (fut[i] = "done" \/ Counted(i)) =>
         Bump(emptyRun[i]) <= failCount[i]

IInv == TypeOK /\ Excl /\ FuturesAt /\ FailsBelow /\ PaidAhead /\ FailsAbove

(***************************************************************************)
(* Type correctness.                                                       *)
(***************************************************************************)
USE NAssumption, BlocksAssumption, RetryAssumption, TimeAssumption,
    FailCapAssumption

\* The saturating increment of the counters (+= 1 in daemon.py).
LEMMA BumpFacts ==
  /\ \A n \in 0..FailCap : Bump(n) \in 0..FailCap /\ n <= Bump(n)
  /\ \A m, n \in 0..FailCap : m <= n => Bump(m) <= Bump(n)
BY DEF Bump

\* A thread is idle or runs a poll of one inverter.
LEMMA ThreadFacts ==
  ASSUME TypeOK, NEW t \in Threads
  PROVE  /\ thread[t] = Idle \/ thread[t] \in JobType
         /\ thread[t].inv \in Inverters \union {0}
         /\ thread[t].inv # 0 => thread[t] \in JobType
         /\ thread[t].any \in BOOLEAN /\ thread[t].counted \in BOOLEAN
<1>1. thread[t] \in JobType \union {Idle}
  BY DEF TypeOK, TypeExec
<1>2. CASE thread[t] = Idle
  BY <1>2 DEF Idle
<1>3. CASE thread[t] \in JobType
  BY <1>3 DEF JobType, Inverters
<1> QED
  BY <1>1, <1>2, <1>3

\* A call of _poll_inverter stays one as it moves on.
LEMMA JobFacts ==
  /\ \A i \in Inverters, tr \in Tiers : Job(i, tr) \in JobType
  /\ \A j \in JobType, blk \in 1..(HotBlocks + ColdBlocks + 1),
        att \in 0..RetryAttempts, any, stuck, counted \in BOOLEAN :
        Step(j, blk, att, any, stuck, counted) \in JobType
<1>1. ASSUME NEW i \in Inverters, NEW tr \in Tiers
      PROVE  Job(i, tr) \in JobType
  BY <1>1 DEF Job, JobType
<1>2. ASSUME NEW j \in JobType, NEW blk \in 1..(HotBlocks + ColdBlocks + 1),
             NEW att \in 0..RetryAttempts, NEW any \in BOOLEAN,
             NEW stuck \in BOOLEAN, NEW counted \in BOOLEAN
      PROVE  Step(j, blk, att, any, stuck, counted) \in JobType
  BY <1>2 DEF Step, JobType
<1> QED
  BY <1>1, <1>2

\* The loops start at the first inverter.
LEMMA OneInverter == 1 \in Inverters
BY NAssumption DEF Inverters

\* A new process starts well typed.
LEMMA TypeInit == Init => TypeOK
<1> SUFFICES ASSUME Init PROVE TypeOK
  OBVIOUS
<1>1. TypeMain
  BY OneInverter DEF Init, TypeMain, Tiers
<1>2. TypeExec
  BY DEF Init, TypeExec
<1>3. TypeCount
  BY DEF Init, TypeCount
<1> QED
  BY <1>1, <1>2, <1>3 DEF TypeOK

\* The main thread's index stays in range as the two loops advance.
LEMMA LoopIndex ==
  ASSUME next \in Inverters, AfterSubmit \/ AfterGather
  PROVE  next' \in Inverters
BY OneInverter DEF AfterSubmit, AfterGather, Inverters

\* A step of no worker: the main thread, systemd or a signal.
MainOrEnv == Main \/ Dies \/ Sigterm \/ Restart

\* The main thread's steps that touch no poll and no count.
Quiet ==
  /\ UNCHANGED <<execVars, futures, failCount, emptyRun, lateOk>>
  /\ \/ UNCHANGED status
     \/ PublishStatus \/ StatusRaises

\* Polls and counts change only in the two loops and with a new process.
LEMMA MainFrame ==
  ASSUME MainOrEnv
  PROVE  Skip \/ Submit \/ Gather \/ GatherTimeout \/ Restart \/ Quiet
BY DEF MainOrEnv, Main, Quiet, loopVars, countVars,
       Connect, Ready, Dies, Ping, GatherNothing, PublishStatus,
       PublishHot, ColdDue, ColdNotDue, PublishCold, SaveCold, StatusRaises, CycleRaises,
       Sleep, Sigterm, StopSave, StopBms, StopSession, StopDrained

\* The locals and outputs of the main thread keep their types.
LEMMA TypeMainStep ==
  ASSUME TypeOK, MainOrEnv
  PROVE  TypeMain'
<1> USE OneInverter DEF TypeOK, TypeMain, Loop, Stop, Tiers, loopVars
<1>1. CASE Connect
  BY <1>1 DEF Connect
<1>2. CASE Ready
  BY <1>2 DEF Ready
<1>3. CASE Dies
  BY <1>3 DEF Dies
<1>4. CASE Ping
  BY <1>4 DEF Ping
<1>5. CASE Skip
  BY <1>5, LoopIndex DEF Skip, AfterSubmit
<1>6. CASE Submit
  BY <1>6, LoopIndex DEF Submit, AfterSubmit
<1>7. CASE Gather
  BY <1>7, LoopIndex DEF Gather, AfterGather
<1>8. CASE GatherTimeout
  BY <1>8, LoopIndex DEF GatherTimeout, AfterGather
<1>9. CASE GatherNothing
  BY <1>9, LoopIndex DEF GatherNothing, AfterGather
<1>10. CASE PublishStatus \/ StatusRaises
  BY <1>10 DEF PublishStatus, StatusRaises
<1>11. CASE PublishHot
  BY <1>11 DEF PublishHot
<1>12. CASE ColdDue
  BY <1>12 DEF ColdDue
<1>13. CASE ColdNotDue
  BY <1>13 DEF ColdNotDue
<1>14. CASE PublishCold
  BY <1>14 DEF PublishCold
<1>15. CASE SaveCold
  BY <1>15 DEF SaveCold
<1>16. CASE CycleRaises
  BY <1>16 DEF CycleRaises
<1>17. CASE Sleep
  BY <1>17 DEF Sleep
<1>18. CASE Sigterm
  BY <1>18 DEF Sigterm
<1>19. CASE StopSave
  BY <1>19 DEF StopSave
<1>20. CASE StopBms
  BY <1>20 DEF StopBms
<1>21. CASE StopSession
  BY <1>21 DEF StopSession
<1>22. CASE StopDrained
  BY <1>22 DEF StopDrained
<1>23. CASE Restart
  BY <1>23 DEF Restart
<1> QED
  BY <1>1, <1>2, <1>3, <1>4, <1>5, <1>6, <1>7, <1>8, <1>9, <1>10, <1>11,
     <1>12, <1>13, <1>14, <1>15, <1>16, <1>17, <1>18, <1>19, <1>20, <1>21,
     <1>22, <1>23
  DEF MainOrEnv, Main

\* The executor's state keeps its type when the main thread moves.
LEMMA TypeExecStep ==
  ASSUME TypeOK, MainOrEnv
  PROVE  TypeExec'
<1> USE DEF TypeOK, TypeExec, TypeMain
<1>1. CASE Submit
  <2>1. [inv |-> next, tier |-> tier] \in [inv : Inverters, tier : Tiers]
    OBVIOUS
  <2> QED
    BY <1>1, <2>1 DEF Submit
<1>2. CASE Restart
  BY <1>2 DEF Restart
<1>3. CASE UNCHANGED execVars
  BY <1>3 DEF execVars
<1> QED
  BY <1>1, <1>2, <1>3, MainFrame
  DEF Skip, Gather, GatherTimeout, Quiet

\* The counters and markers keep their types when the main thread moves.
LEMMA TypeCountStep ==
  ASSUME TypeOK, MainOrEnv
  PROVE  TypeCount'
<1> USE BumpFacts DEF TypeOK, TypeExec, TypeMain, TypeCount, Inverters
<1>1. CASE Skip
  BY <1>1 DEF Skip
<1>2. CASE Submit
  BY <1>2 DEF Submit, countVars
<1>3. CASE Gather
  <2> HIDE DEF TypeExec, TypeMain
  <2>1. emptyRun' \in [Inverters -> 0..FailCap]
    <3>1. emptyRun \in [Inverters -> 0..FailCap] /\ Bump(emptyRun[next]) \in 0..FailCap
      BY DEF TypeMain
    <3>2. \E n \in 0..FailCap : emptyRun' = [emptyRun EXCEPT ![next] = n]
      <4>1. 0 \in 0..FailCap
        OBVIOUS
      <4>2. CASE res[next]
        BY <1>3, <4>1, <4>2 DEF Gather
      <4>3. CASE ~res[next]
        BY <1>3, <3>1, <4>3 DEF Gather
      <4> QED
        BY <4>2, <4>3
    <3> QED
      BY <3>1, <3>2
  <2>2. lateOk' \in [Inverters -> BOOLEAN]
    BY <1>3 DEF Gather
  <2> QED
    BY <1>3, <2>1, <2>2 DEF Gather
<1>4. CASE GatherTimeout
  BY <1>4 DEF GatherTimeout
<1>5. CASE Restart
  BY <1>5 DEF Restart
<1>6. CASE Quiet
  BY <1>6 DEF Quiet, PublishStatus, StatusRaises, Marker
<1> QED
  BY <1>1, <1>2, <1>3, <1>4, <1>5, <1>6, MainFrame

\* A worker's step keeps every type.
LEMMA TypeWorkerStep ==
  ASSUME TypeOK, NEW t \in Threads, Worker(t) \/ Wedge(t)
  PROVE  TypeOK'
<1>1. thread[t] = Idle \/ thread[t] \in JobType
  BY ThreadFacts
<1> DEFINE j == thread[t]
<1>2. j.inv # 0 => /\ j \in JobType
                   /\ j.inv \in Inverters /\ j.any \in BOOLEAN
                   /\ j.block \in 1..(HotBlocks + ColdBlocks + 1)
                   /\ j.attempt \in 0..RetryAttempts
  BY <1>1, ThreadFacts DEF JobType
<1> HIDE DEF j
<1> USE DEF TypeOK, mainVars, loopVars
<1>3. CASE Take(t)
  <2>1. Head(queue) \in [inv : Inverters, tier : Tiers]
    BY <1>3, HeadTailProperties DEF Take, TypeExec
  <2>2. Job(Head(queue).inv, Head(queue).tier) \in JobType
    BY <2>1, JobFacts
  <2> QED
    BY <1>3, <2>2 DEF Take, TypeMain, TypeExec, TypeCount, countVars
<1>4. CASE BlockEnds(t)
  <2>1. PICK ok \in BOOLEAN :
          thread' = [thread EXCEPT ![t] =
                       Step(j, j.block + 1, 0, j.any \/ ok, FALSE, FALSE)]
    BY <1>4 DEF BlockEnds, j
  <2>2. j.block + 1 \in 1..(HotBlocks + ColdBlocks + 1)
    <3>1. j.inv # 0 /\ j.block <= Blocks(j.tier)
      BY <1>4 DEF BlockEnds, Querying, j
    <3>2. Blocks(j.tier) \in Nat /\ Blocks(j.tier) <= HotBlocks + ColdBlocks
      BY DEF Blocks
    <3> QED
      BY <1>2, <3>1, <3>2
  <2>3. Step(j, j.block + 1, 0, j.any \/ ok, FALSE, FALSE) \in JobType
    <3>1. j.inv # 0
      BY <1>4 DEF BlockEnds, Querying, j
    <3>2. (j.any \/ ok) \in BOOLEAN /\ 0 \in 0..RetryAttempts
      OBVIOUS
    <3> QED
      BY <1>2, <2>2, <3>1, <3>2, JobFacts, Zenon
  <2> QED
    BY <1>4, <2>1, <2>3 DEF BlockEnds, TypeMain, TypeExec, TypeCount, countVars
<1>5. CASE RetryBlock(t)
  <2>1. Step(j, j.block, j.attempt + 1, j.any, FALSE, FALSE) \in JobType
    <3>1. j.inv # 0 /\ j.attempt + 1 < RetryAttempts
      BY <1>5 DEF RetryBlock, Querying, j
    <3>2. j.attempt + 1 \in 0..RetryAttempts
      BY <1>2, <3>1
    <3> QED
      BY <1>2, <3>1, <3>2, JobFacts
  <2> QED
    BY <1>5, <2>1 DEF RetryBlock, TypeMain, TypeExec, TypeCount, countVars, j
<1>6. CASE Wedge(t)
  <2>1. Step(j, j.block, j.attempt, j.any, TRUE, FALSE) \in JobType
    <3>1. j.inv # 0
      BY <1>6 DEF Wedge, Querying, j
    <3> QED
      BY <1>2, <3>1, JobFacts
  <2> QED
    BY <1>6, <2>1 DEF Wedge, TypeMain, TypeExec, TypeCount, countVars, j
<1>7. CASE Count(t)
  <2>1. Step(j, j.block, j.attempt, j.any, FALSE, TRUE) \in JobType
    <3>1. j.inv # 0
      BY <1>7 DEF Count, j
    <3> QED
      BY <1>2, <3>1, JobFacts
  <2>2. TypeCount'
    BY <1>2, <1>7, BumpFacts DEF Count, TypeCount, j
  <2> QED
    BY <1>7, <2>1, <2>2 DEF Count, TypeMain, TypeExec, j
<1>8. CASE Resolve(t)
  BY <1>2, <1>8 DEF Resolve, TypeMain, TypeExec, TypeCount, countVars, j
<1> QED
  BY <1>3, <1>4, <1>5, <1>6, <1>7, <1>8 DEF Worker

\* Every step keeps the types.
LEMMA TypeStep == TypeOK /\ [Next]_vars => TypeOK'
<1> SUFFICES ASSUME TypeOK, [Next]_vars PROVE TypeOK'
  OBVIOUS
<1>1. CASE MainOrEnv
  BY <1>1, TypeMainStep, TypeExecStep, TypeCountStep DEF TypeOK
<1>2. CASE \E t \in Threads : Worker(t) \/ Wedge(t)
  BY <1>2, TypeWorkerStep
<1>3. CASE UNCHANGED vars
  BY <1>3 DEF vars, TypeOK, TypeMain, TypeExec, TypeCount
<1> QED
  BY <1>1, <1>2, <1>3 DEF Next, MainOrEnv

\* Type correctness of every reachable state of the polling core.
THEOREM TypeCorrect == Spec => []TypeOK
BY TypeInit, TypeStep, PTL DEF Spec

(***************************************************************************)
(* One poll per port.                                                      *)
(***************************************************************************)

\* A worker inside _poll_inverter changes neither port nor queue.
LEMMA WorkerInside ==
  ASSUME TypeOK, NEW t \in Threads,
         BlockEnds(t) \/ RetryBlock(t) \/ Wedge(t) \/ Count(t)
  PROVE  /\ \A u \in Threads : thread'[u].inv = thread[u].inv
         /\ \A u \in Threads \ {t} : thread'[u] = thread[u]
         /\ UNCHANGED <<fut, res, queue, futures, emptyRun>>
<1>1. CASE BlockEnds(t)
  BY <1>1 DEF BlockEnds, Step, TypeOK, TypeExec, mainVars, loopVars, countVars
<1>2. CASE RetryBlock(t)
  BY <1>2 DEF RetryBlock, Step, TypeOK, TypeExec, mainVars, loopVars, countVars
<1>3. CASE Wedge(t)
  BY <1>3 DEF Wedge, Step, TypeOK, TypeExec, mainVars, loopVars, countVars
<1>4. CASE Count(t)
  BY <1>4 DEF Count, Step, TypeOK, TypeExec, mainVars, loopVars
<1> QED
  BY <1>1, <1>2, <1>3, <1>4

\* A free thread that takes the head of the queue now runs that port.
LEMMA TakeFacts ==
  ASSUME TypeOK, NEW t \in Threads, Take(t)
  PROVE  /\ 1 \in DOMAIN queue
         /\ thread[t].inv = 0
         /\ thread'[t].inv = queue[1].inv /\ ~thread'[t].counted
         /\ \A u \in Threads \ {t} : thread'[u] = thread[u]
         /\ \A k \in DOMAIN queue' : k + 1 \in DOMAIN queue /\ k \in Nat \ {0}
                                    /\ queue'[k] = queue[k + 1]
         /\ UNCHANGED <<fut, res, futures, failCount, emptyRun, lateOk>>
<1>1. queue \in Seq([inv : Inverters, tier : Tiers]) /\ queue # <<>>
  BY DEF Take, TypeOK, TypeExec
<1>2. /\ Tail(queue) \in Seq([inv : Inverters, tier : Tiers])
      /\ Len(Tail(queue)) = Len(queue) - 1 /\ Len(queue) \in Nat \ {0}
      /\ \A k \in 1..Len(Tail(queue)) : Tail(queue)[k] = queue[k + 1]
      /\ DOMAIN queue = 1..Len(queue)
      /\ DOMAIN Tail(queue) = 1..Len(Tail(queue))
  BY <1>1, HeadTailProperties, EmptySeq, LenProperties
<1>3. /\ 1 \in DOMAIN queue
      /\ \A k \in DOMAIN queue' : k + 1 \in DOMAIN queue /\ k \in Nat \ {0}
                                 /\ queue'[k] = queue[k + 1]
  BY <1>2 DEF Take
<1>4. Head(queue) = queue[1]
  BY <1>1
<1>5. /\ thread[t].inv = 0
      /\ thread'[t].inv = queue[1].inv /\ ~thread'[t].counted
      /\ \A u \in Threads \ {t} : thread'[u] = thread[u]
  BY <1>4 DEF Take, Idle, Job, TypeOK, TypeExec
<1>6. UNCHANGED <<fut, res, futures, failCount, emptyRun, lateOk>>
  BY DEF Take, mainVars, loopVars, countVars
<1> QED
  BY <1>3, <1>5, <1>6

\* The queue holds ports.
LEMMA QueueFacts ==
  ASSUME TypeOK
  PROVE  \A k \in DOMAIN queue : queue[k].inv \in Inverters
<1>1. queue \in Seq([inv : Inverters, tier : Tiers])
  BY DEF TypeOK, TypeExec
<1>2. DOMAIN queue = 1..Len(queue)
  BY <1>1, LenProperties
<1>3. \A k \in 1..Len(queue) : queue[k] \in [inv : Inverters, tier : Tiers]
  BY <1>1, ElementOfSeq
<1> QED
  BY <1>2, <1>3

\* What Submit appends, position by position.
LEMMA SubmitFacts ==
  ASSUME TypeOK, Submit
  PROVE  /\ DOMAIN queue' = 1..(Len(queue) + 1) /\ DOMAIN queue = 1..Len(queue)
         /\ Len(queue) \in Nat
         /\ \A k \in DOMAIN queue : queue'[k] = queue[k]
         /\ queue'[Len(queue) + 1].inv = next
<1>1. /\ queue \in Seq([inv : Inverters, tier : Tiers])
      /\ [inv |-> next, tier |-> tier] \in [inv : Inverters, tier : Tiers]
  BY DEF TypeOK, TypeExec, TypeMain
<1>2. queue' = Append(queue, [inv |-> next, tier |-> tier])
  BY DEF Submit
<1> QED
  BY <1>1, <1>2, AppendProperties, LenProperties

\* The exclusion of the ports is kept by every step: the skip guard is what
\* Submit needs, and a returning worker frees only its own port.
LEMMA ExclStep ==
  ASSUME TypeOK, Excl, [Next]_vars
  PROVE  Excl'
<1> USE DEF Excl, PortExclusive
<1>0. \A u \in Threads : thread[u].inv \in Inverters \union {0}
  BY ThreadFacts
<1>1. CASE Submit
  <2>1. fut' = [fut EXCEPT ![next] = "pending"] /\ thread' = thread
        /\ fut[next] # "pending" /\ next \in Inverters
    BY <1>1 DEF Submit, TypeOK, TypeMain
  <2>2. \A i \in Inverters : fut[i] = "pending" => fut'[i] = "pending"
    BY <2>1 DEF TypeOK, TypeExec
  <2>3. fut'[next] = "pending"
    BY <2>1 DEF TypeOK, TypeExec
  <2>4. \A k \in DOMAIN queue : queue[k].inv \in Inverters
    BY QueueFacts
  <2>5. /\ \A t \in Threads : thread[t].inv # next
        /\ \A k \in DOMAIN queue : queue[k].inv # next
    BY <2>1 DEF Inverters
  <2> QED
    BY <1>0, <1>1, <2>1, <2>2, <2>3, <2>4, <2>5, SubmitFacts DEF Inverters
<1>2. CASE Restart
  BY <1>2 DEF Restart, Idle
<1>3. CASE UNCHANGED execVars
  BY <1>3 DEF execVars
<1>4. ASSUME NEW t \in Threads, Take(t) PROVE Excl'
  <2>1. /\ \A u \in Threads \ {t} : thread'[u] = thread[u]
        /\ thread'[t].inv = queue[1].inv /\ 1 \in DOMAIN queue
        /\ \A k \in DOMAIN queue' : k + 1 \in DOMAIN queue /\ k \in Nat \ {0}
                                   /\ queue'[k] = queue[k + 1]
        /\ fut' = fut
    BY <1>4, TakeFacts
  <2>2. \A k \in DOMAIN queue' : queue'[k].inv # queue[1].inv
    BY <2>1
  <2>3. /\ \A u \in Threads : thread'[u].inv # 0 =>
              fut'[thread'[u].inv] = "pending"
        /\ \A k \in DOMAIN queue' : fut'[queue'[k].inv] = "pending"
    BY <2>1
  <2>4. \A u, v \in Threads :
          thread'[u].inv # 0 /\ thread'[u].inv = thread'[v].inv => u = v
    BY <2>1
  <2>5. \A j, k \in DOMAIN queue' : queue'[j].inv = queue'[k].inv => j = k
    BY <2>1
  <2>6. \A u \in Threads, k \in DOMAIN queue' : thread'[u].inv # queue'[k].inv
    BY <2>1, <2>2
  <2> QED
    BY <2>3, <2>4, <2>5, <2>6
<1>5. ASSUME NEW t \in Threads,
             BlockEnds(t) \/ RetryBlock(t) \/ Wedge(t) \/ Count(t)
      PROVE  Excl'
  BY <1>5, WorkerInside
<1>6. ASSUME NEW t \in Threads, Resolve(t) PROVE Excl'
  <2>1. /\ thread'[t].inv = 0
        /\ \A u \in Threads \ {t} : thread'[u] = thread[u]
        /\ queue' = queue /\ thread[t].inv # 0
        /\ \A i \in Inverters \ {thread[t].inv} : fut'[i] = fut[i]
    BY <1>6, <1>0 DEF Resolve, Idle, TypeOK, TypeExec
  <2>2. \A k \in DOMAIN queue : queue[k].inv \in Inverters
    BY QueueFacts
  <2> QED
    BY <1>0, <2>1, <2>2 DEF Inverters
<1>7. ASSUME MainOrEnv PROVE Excl'
  BY <1>1, <1>2, <1>3, <1>7, MainFrame DEF Skip, Gather, GatherTimeout, Quiet
<1> QED
  BY <1>3, <1>4, <1>5, <1>6, <1>7
  DEF Next, MainOrEnv, Worker, vars, execVars

\* M1 for any number of inverters: no two polls of one port exist at once.
THEOREM PortsAreExclusive == Spec => []PortExclusive
<1>1. Init => Excl
  BY DEF Init, Excl, PortExclusive, Idle
<1>2. TypeOK /\ Excl /\ [Next]_vars => (TypeOK /\ Excl)'
  BY TypeStep, ExclStep
<1>3. Excl => PortExclusive
  BY DEF Excl
<1> QED
  BY <1>1, <1>2, <1>3, TypeInit, PTL DEF Spec

(***************************************************************************)
(* The failure count against the empty cycles.                             *)
(***************************************************************************)

\* The workers move neither the main thread nor its list of futures.
LEMMA WorkerFrame ==
  ASSUME NEW t \in Threads, Worker(t) \/ Wedge(t)
  PROVE  UNCHANGED <<pc, next, futures, emptyRun, status>>
BY DEF Worker, Wedge, Take, BlockEnds, RetryBlock, Count, Resolve, mainVars,
       loopVars, countVars

\* The futures of a cycle are collected in order and none is left over.
LEMMA FuturesStep ==
  ASSUME TypeOK, FuturesAt, [Next]_vars
  PROVE  FuturesAt'
<1> USE DEF FuturesAt, TypeOK, TypeMain, TypeExec, Loop, Stop
<1>1. CASE Connect
  BY <1>1 DEF Connect, loopVars, execVars
<1>2. CASE Ready
  BY <1>2 DEF Ready, loopVars, execVars
<1>3. CASE Dies
  BY <1>3 DEF Dies, loopVars, execVars
<1>4. CASE Ping
  BY <1>4 DEF Ping, loopVars, execVars
<1>5. CASE GatherNothing
  BY <1>5 DEF GatherNothing, AfterGather, Inverters, loopVars, execVars
<1>6. CASE PublishStatus \/ StatusRaises
  BY <1>6 DEF PublishStatus, StatusRaises, loopVars, execVars
<1>7. CASE PublishHot
  BY <1>7 DEF PublishHot, loopVars, execVars
<1>8. CASE ColdDue
  BY <1>8 DEF ColdDue, loopVars, execVars
<1>9. CASE ColdNotDue
  BY <1>9 DEF ColdNotDue, loopVars, execVars
<1>10. CASE PublishCold
  BY <1>10 DEF PublishCold, loopVars, execVars
<1>11. CASE SaveCold
  BY <1>11 DEF SaveCold, loopVars, execVars
<1>12. CASE CycleRaises
  BY <1>12 DEF CycleRaises, loopVars, execVars
<1>13. CASE Sleep
  BY <1>13 DEF Sleep, loopVars, execVars
<1>14. CASE Sigterm
  BY <1>14 DEF Sigterm, loopVars, execVars
<1>15. CASE StopSave
  BY <1>15 DEF StopSave, loopVars, execVars
<1>16. CASE StopBms
  BY <1>16 DEF StopBms, loopVars, execVars
<1>17. CASE StopSession
  BY <1>17 DEF StopSession, loopVars, execVars
<1>18. CASE StopDrained
  BY <1>18 DEF StopDrained, loopVars, execVars
<1>19. CASE Skip
  BY <1>19 DEF Skip, AfterSubmit, Inverters, execVars
<1>20. CASE Submit
  BY <1>20 DEF Submit, AfterSubmit, Inverters, execVars
<1>21. CASE Gather
  BY <1>21 DEF Gather, AfterGather, Inverters, execVars
<1>22. CASE GatherTimeout
  BY <1>22 DEF GatherTimeout, AfterGather, Inverters, execVars
<1>23. CASE Restart
  BY <1>23 DEF Restart
<1>24. ASSUME NEW t \in Threads, Worker(t) \/ Wedge(t)
      PROVE  FuturesAt'
  <2>1. \A i \in Inverters : fut[i] # "none" => fut'[i] # "none"
    BY <1>24 DEF Worker, Wedge, Take, BlockEnds, RetryBlock, Count, Resolve
  <2> QED
    BY <1>24, <2>1, WorkerFrame
<1>25. CASE UNCHANGED vars
  BY <1>25 DEF vars
<1> QED
  BY <1>1, <1>2, <1>3, <1>4, <1>5, <1>6, <1>7, <1>8, <1>9, <1>10, <1>11,
     <1>12, <1>13, <1>14, <1>15, <1>16, <1>17, <1>18, <1>19, <1>20, <1>21,
     <1>22, <1>23, <1>24, <1>25
  DEF Next, Main

Counters == FailsBelow /\ PaidAhead /\ FailsAbove

\* What the two loops and a new process do to the counters.
LEMMA CountersMain ==
  ASSUME TypeOK, Excl, FuturesAt, Counters, MainOrEnv
  PROVE  Counters'
<1> USE DEF Counters, TypeOK, TypeMain, TypeExec, TypeCount
<1>0. \A t \in Threads : thread[t].inv \in Inverters \union {0}
  BY ThreadFacts
<1>1. CASE Skip
  <2>1. /\ next \in Inverters /\ next \notin futures /\ fut[next] = "pending"
        /\ thread' = thread /\ fut' = fut /\ res' = res /\ futures' = futures
        /\ failCount' = [failCount EXCEPT ![next] = Bump(@)]
        /\ emptyRun' = [emptyRun EXCEPT ![next] = Bump(@)]
        /\ lateOk' = lateOk
    BY <1>1 DEF Skip, execVars, FuturesAt, Inverters
  <2>2. \A i \in Inverters : Counted(i)' = Counted(i)
    BY <2>1 DEF Counted
  <2>3. FailsBelow'
    BY <2>1, <2>2, BumpFacts DEF FailsBelow
  <2>4. PaidAhead'
    BY <1>0, <2>1 DEF PaidAhead, Querying, Inverters
  <2>5. FailsAbove'
    BY <2>1, <2>2, BumpFacts DEF FailsAbove
  <2> QED
    BY <2>3, <2>4, <2>5
<1>2. CASE Submit
  <2>1. /\ next \in Inverters /\ next \notin futures /\ fut[next] # "pending"
        /\ thread' = thread /\ fut' = [fut EXCEPT ![next] = "pending"]
        /\ res' = res /\ futures' = futures \union {next}
        /\ failCount' = failCount /\ emptyRun' = emptyRun /\ lateOk' = lateOk
    BY <1>2 DEF Submit, countVars, FuturesAt, Inverters
  <2>2. \A i \in Inverters : Counted(i)' = Counted(i)
    BY <2>1 DEF Counted
  <2>3. ~Counted(next) /\ \A t \in Threads : thread[t].inv # next
    <3>1. \A t \in Threads : thread[t].inv # 0 =>
            fut[thread[t].inv] = "pending"
      BY DEF Excl
    <3>2. next # 0
      BY <2>1 DEF Inverters
    <3> QED
      BY <2>1, <3>1, <3>2 DEF Counted
  <2>4. FailsBelow'
    BY <2>1, <2>2, BumpFacts DEF FailsBelow
  <2>5. PaidAhead'
    BY <2>1, <2>3 DEF PaidAhead, Querying
  <2>6. FailsAbove'
    BY <2>1, <2>2, <2>3, BumpFacts DEF FailsAbove
  <2> QED
    BY <2>4, <2>5, <2>6
<1>3. CASE Gather
  <2>1. /\ next \in Inverters /\ next \in futures /\ fut[next] = "done"
        /\ thread' = thread /\ fut' = fut /\ res' = res
        /\ futures' = futures \ {next} /\ failCount' = failCount
        /\ emptyRun' = [emptyRun EXCEPT ![next] =
                          IF res[next] THEN 0 ELSE Bump(@)]
        /\ lateOk' = [lateOk EXCEPT ![next] = @ /\ ~res[next]]
    BY <1>3 DEF Gather, execVars
  <2>2. \A i \in Inverters : Counted(i)' = Counted(i)
    BY <2>1 DEF Counted
  <2>3. FailsBelow'
    BY <2>1, <2>2, BumpFacts DEF FailsBelow
  <2>4. PaidAhead'
    BY <2>1 DEF PaidAhead, Querying
  <2>5. FailsAbove'
    BY <2>1, <2>2, BumpFacts DEF FailsAbove
  <2> QED
    BY <2>3, <2>4, <2>5
<1>4. CASE GatherTimeout
  <2>1. /\ next \in Inverters /\ next \in futures /\ fut[next] = "pending"
        /\ thread' = thread /\ fut' = fut /\ res' = res
        /\ futures' = futures \ {next} /\ failCount' = failCount
        /\ emptyRun' = [emptyRun EXCEPT ![next] = Bump(@)] /\ lateOk' = lateOk
    BY <1>4 DEF GatherTimeout, execVars
  <2>2. \A i \in Inverters : Counted(i)' = Counted(i)
    BY <2>1 DEF Counted
  <2>3. FailsBelow'
    BY <2>1, <2>2, BumpFacts DEF FailsBelow
  <2>4. PaidAhead'
    BY <2>1 DEF PaidAhead, Querying
  <2>5. FailsAbove'
    BY <2>1, <2>2, BumpFacts DEF FailsAbove
  <2> QED
    BY <2>3, <2>4, <2>5
<1>5. CASE Restart
  <2>1. FailsBelow'
    BY <1>5, BumpFacts DEF Restart, FailsBelow
  <2>2. PaidAhead'
    BY <1>5 DEF Restart, PaidAhead, Idle
  <2>3. FailsAbove'
    BY <1>5, BumpFacts DEF Restart, FailsAbove
  <2> QED
    BY <2>1, <2>2, <2>3
<1>6. CASE Quiet
  <2>1. UNCHANGED <<thread, fut, res, futures, failCount, emptyRun, lateOk>>
    BY <1>6 DEF Quiet, execVars
  <2> QED
    BY <2>1 DEF FailsBelow, PaidAhead, FailsAbove, Counted, Querying
<1> QED
  BY <1>1, <1>2, <1>3, <1>4, <1>5, <1>6, MainFrame

\* What a worker does to the counters, in its cycle or long after it.
LEMMA CountersWorker ==
  ASSUME TypeOK, Excl, FuturesAt, Counters,
         NEW t \in Threads, Worker(t) \/ Wedge(t)
  PROVE  Counters'
<1> USE DEF Counters
<1>0. /\ \A u \in Threads : thread[u].inv \in Inverters \union {0}
      /\ futures \subseteq Inverters /\ 0 \notin Inverters
      /\ \A u \in Threads : thread[u].inv # 0 => fut[thread[u].inv] = "pending"
      /\ \A u, v \in Threads :
           thread[u].inv # 0 /\ thread[u].inv = thread[v].inv => u = v
  BY ThreadFacts DEF TypeOK, TypeMain, Inverters, Excl, PortExclusive
<1>1. CASE Take(t)
  <2>1. /\ thread[t].inv = 0 /\ ~thread'[t].counted
        /\ \A u \in Threads \ {t} : thread'[u] = thread[u]
        /\ UNCHANGED <<fut, res, futures, failCount, emptyRun, lateOk>>
    BY <1>1, TakeFacts
  <2>2. \A i \in Inverters : Counted(i)' = Counted(i)
    BY <1>0, <2>1, <1>1 DEF Counted, Take, Idle
  <2>3. FailsBelow' /\ FailsAbove'
    BY <2>1, <2>2 DEF FailsBelow, FailsAbove
  <2>4. PaidAhead'
    BY <2>1 DEF PaidAhead, Querying
  <2> QED
    BY <2>3, <2>4
<1>2. CASE BlockEnds(t) \/ RetryBlock(t) \/ Wedge(t)
  <2>1. /\ Querying(t) /\ ~thread'[t].counted
        /\ UNCHANGED <<failCount, lateOk>>
    BY <1>2 DEF BlockEnds, RetryBlock, Wedge, Step, TypeOK, TypeExec, countVars
  <2>2. /\ \A u \in Threads : thread'[u].inv = thread[u].inv
        /\ \A u \in Threads \ {t} : thread'[u] = thread[u]
        /\ UNCHANGED <<fut, res, futures, emptyRun>>
    BY <1>2, WorkerInside
  <2>3. ~thread[t].counted
    BY <2>1 DEF PaidAhead
  <2>4. \A i \in Inverters : Counted(i)' = Counted(i)
    BY <2>1, <2>2, <2>3 DEF Counted
  <2>5. FailsBelow' /\ FailsAbove'
    BY <2>1, <2>2, <2>4 DEF FailsBelow, FailsAbove
  <2>6. PaidAhead'
    BY <2>1, <2>2 DEF PaidAhead, Querying
  <2> QED
    BY <2>5, <2>6
<1>3. CASE Count(t)
  <2>1. PICK n \in Inverters : n = thread[t].inv
    BY <1>0, <1>3 DEF Count
  <2>2. ~thread[t].counted /\ ~Querying(t) /\ fut[n] = "pending"
    BY <1>0, <1>3, <2>1 DEF Count
  <2>3. /\ thread'[t].counted /\ thread'[t].any = thread[t].any
        /\ thread'[t].block = thread[t].block
        /\ thread'[t].tier = thread[t].tier
    BY <1>3 DEF Count, Step, TypeOK, TypeExec
  <2>4. /\ \A u \in Threads : thread'[u].inv = thread[u].inv
        /\ \A u \in Threads \ {t} : thread'[u] = thread[u]
        /\ UNCHANGED <<fut, res, futures, emptyRun>>
    BY <1>3, WorkerInside
  <2>5. /\ failCount' = [failCount EXCEPT ![n] =
                           IF thread[t].any THEN 0 ELSE Bump(@)]
        /\ lateOk' = [lateOk EXCEPT ![n] = @ \/ thread[t].any]
    BY <1>3, <2>1 DEF Count
  <2>6. \A u \in Threads \ {t} : thread[u].inv # n
    BY <1>0, <2>1
  <2>7. /\ Counted(n)' /\ ~Counted(n)
        /\ \A i \in Inverters \ {n} : Counted(i)' = Counted(i)
    BY <2>1, <2>2, <2>3, <2>4, <2>6 DEF Counted
  <2>8. /\ thread[t].any => failCount'[n] = 0 /\ lateOk'[n]
        /\ ~thread[t].any => /\ failCount'[n] = Bump(failCount[n])
                             /\ lateOk'[n] = lateOk[n]
        /\ \A i \in Inverters \ {n} : /\ failCount'[i] = failCount[i]
                                      /\ lateOk'[i] = lateOk[i]
    BY <2>5, ThreadFacts DEF TypeOK, TypeCount
  <2>9. /\ failCount \in [Inverters -> 0..FailCap]
        /\ emptyRun \in [Inverters -> 0..FailCap]
    BY DEF TypeOK, TypeCount
  <2>10. FailsBelow'
    BY <2>2, <2>4, <2>7, <2>8, <2>9, BumpFacts DEF FailsBelow
  <2>11. FailsAbove'
    BY <2>2, <2>4, <2>7, <2>8, <2>9, BumpFacts DEF FailsAbove
  <2>12. PaidAhead'
    BY <1>0, <2>1, <2>2, <2>3, <2>4, <2>6, <2>8 DEF PaidAhead, Querying
  <2> QED
    BY <2>10, <2>11, <2>12
<1>4. CASE Resolve(t)
  <2> DEFINE n == thread[t].inv
  <2>1. n \in Inverters /\ thread[t].counted /\ fut[n] = "pending"
    BY <1>0, <1>4 DEF Resolve
  <2>2. /\ thread'[t] = Idle
        /\ \A u \in Threads \ {t} : thread'[u] = thread[u]
        /\ fut' = [fut EXCEPT ![n] = "done"]
        /\ res' = [res EXCEPT ![n] = thread[t].any]
        /\ UNCHANGED <<futures, failCount, emptyRun, lateOk>>
    BY <1>4 DEF Resolve, TypeOK, TypeExec, mainVars, loopVars, countVars
  <2>3. /\ Counted(n)
        /\ \A i \in Inverters \ {n} : Counted(i)' = Counted(i)
    BY <1>0, <2>1, <2>2 DEF Counted, Idle
  <2>4. n \in futures /\ thread[t].any => failCount[n] = 0
    BY <2>1 DEF PaidAhead
  <2> HIDE DEF n
  <2>5. /\ fut'[n] = "done" /\ res'[n] = thread[t].any
        /\ \A i \in Inverters \ {n} : fut'[i] = fut[i] /\ res'[i] = res[i]
    BY <2>1, <2>2 DEF TypeOK, TypeExec
  <2>6. FailsBelow'
    BY <2>1, <2>2, <2>3, <2>4, <2>5 DEF FailsBelow
  <2>7. FailsAbove'
    BY <2>1, <2>2, <2>3, <2>5 DEF FailsAbove
  <2>8. PaidAhead'
    BY <2>2 DEF PaidAhead, Querying, Idle
  <2> QED
    BY <2>6, <2>7, <2>8
<1> QED
  BY <1>1, <1>2, <1>3, <1>4 DEF Worker

\* The invariant holds at the start and every step keeps it.
LEMMA IInvInductive == (Init => IInv) /\ (IInv /\ [Next]_vars => IInv')
<1>1. Init => IInv
  <2> SUFFICES ASSUME Init PROVE IInv
    OBVIOUS
  <2>1. TypeOK
    BY TypeInit
  <2>2. Excl /\ FuturesAt /\ PaidAhead
    BY DEF Init, Excl, PortExclusive, FuturesAt, PaidAhead, Idle
  <2>3. FailsBelow /\ FailsAbove
    BY BumpFacts DEF Init, FailsBelow, FailsAbove
  <2> QED
    BY <2>1, <2>2, <2>3 DEF IInv
<1>2. IInv /\ [Next]_vars => IInv'
  <2> SUFFICES ASSUME IInv, [Next]_vars PROVE IInv'
    OBVIOUS
  <2>1. TypeOK' /\ Excl' /\ FuturesAt'
    BY TypeStep, ExclStep, FuturesStep DEF IInv
  <2>2. CASE MainOrEnv
    BY <2>1, <2>2, CountersMain DEF IInv, Counters
  <2>3. CASE \E t \in Threads : Worker(t) \/ Wedge(t)
    BY <2>1, <2>3, CountersWorker DEF IInv, Counters
  <2>4. CASE UNCHANGED vars
    BY <2>1, <2>4
    DEF IInv, vars, FailsBelow, FailsAbove, PaidAhead, Counted, Querying
  <2> QED
    BY <2>2, <2>3, <2>4 DEF Next, MainOrEnv
<1> QED
  BY <1>1, <1>2

\* OfflineSound for any number of inverters: an inverter is marked offline
\* only after OfflineAfter consecutive cycles without data.
THEOREM OfflineIsSound == Spec => OfflineSound
<1>1. IInv /\ [Next]_vars =>
        [\A i \in Inverters :
           status[i] # "offline" /\ status'[i] = "offline"
             => emptyRun[i] >= OfflineAfter]_vars
  <2> SUFFICES ASSUME IInv, Next, NEW i \in Inverters,
                      status[i] # "offline", status'[i] = "offline"
               PROVE  emptyRun[i] >= OfflineAfter
    OBVIOUS
  <2>1. CASE PublishStatus \/ StatusRaises
    <3>1. futures = {} /\ failCount[i] >= OfflineAfter
      BY <2>1 DEF PublishStatus, StatusRaises, Marker, IInv, FuturesAt, Stop, Inverters
    <3> QED
      BY <3>1 DEF IInv, FailsBelow, TypeOK, TypeCount, OfflineAfter
  <2>2. ~Restart
    BY DEF Restart
  <2>3. CASE MainOrEnv
    BY <2>1, <2>2, <2>3, MainFrame
    DEF Skip, Submit, Gather, GatherTimeout, Quiet, countVars
  <2> QED
    BY <2>3, WorkerFrame DEF Next, MainOrEnv
<1> QED
  BY <1>1, IInvInductive, PTL DEF Spec, OfflineSound

\* OfflineTimely for any number of inverters: an inverter published online
\* has been without data for at most OfflineAfter cycles, or one of its polls
\* succeeded too late to be collected.
THEOREM OfflineIsTimely == Spec => OfflineTimely
<1>1. IInv /\ [Next]_vars =>
        [\A i \in Inverters :
           PublishStatus /\ status'[i] = "online"
             => emptyRun[i] <= OfflineAfter \/ lateOk[i]]_vars
  <2> SUFFICES ASSUME IInv, NEW i \in Inverters, PublishStatus,
                      status'[i] = "online"
               PROVE  emptyRun[i] <= OfflineAfter \/ lateOk[i]
    OBVIOUS
  <2>1. ~(failCount[i] >= OfflineAfter)
    BY DEF PublishStatus, Marker
  <2>2. ~lateOk[i] => emptyRun[i] <= Bump(failCount[i])
    BY DEF IInv, FailsAbove
  <2>3. failCount[i] \in 0..FailCap /\ emptyRun[i] \in 0..FailCap
    BY DEF IInv, TypeOK, TypeCount
  <2> QED
    BY <2>1, <2>2, <2>3 DEF Bump, OfflineAfter
<1> QED
  BY <1>1, IInvInductive, PTL DEF Spec, OfflineTimely

(***************************************************************************)
(* The orderly stop.                                                       *)
(***************************************************************************)

\* The finally block: what is done once it has come that far.
StopOrder ==
  /\ pc \in {"bmsStop", "disconnect", "drain"} => ~dirty
  /\ pc = "drain" => session = "closed"

\* Only the main thread moves the main thread's state.
LEMMA MainAlone ==
  ASSUME [Next]_vars
  PROVE  MainOrEnv \/ UNCHANGED <<pc, tier, next, sincePing, dirty, session>>
BY DEF Next, MainOrEnv, Worker, Wedge, Take, BlockEnds, RetryBlock, Count, Resolve, mainVars,
       loopVars, vars

\* The steps that neither enter the finally block nor move in it.
LEMMA StopStep ==
  ASSUME StopOrder, [Next]_vars
  PROVE  StopOrder'
<1>1. CASE StopSave \/ StopBms \/ StopSession
  BY <1>1 DEF StopOrder, StopSave, StopBms, StopSession
<1>2. CASE pc' \notin {"bmsStop", "disconnect", "drain"}
  BY <1>2 DEF StopOrder
<1>3. CASE MainOrEnv
  BY <1>1, <1>2, <1>3
  DEF MainOrEnv, Main, Connect, Ready, Dies, Ping, Skip, Submit, Gather, GatherTimeout,
      GatherNothing, AfterSubmit, AfterGather, PublishStatus, PublishHot, ColdDue, ColdNotDue,
      PublishCold, SaveCold, StatusRaises, CycleRaises, Sleep, Sigterm, StopDrained, Restart
<1>4. CASE UNCHANGED <<pc, tier, next, sincePing, dirty, session>>
  BY <1>4 DEF StopOrder
<1> QED
  BY <1>3, <1>4, MainAlone

\* The stop has saved and closed before it waits for the workers.
THEOREM StopIsOrdered == Spec => []StopBeforeDrain
<1>1. Init => StopOrder
  BY DEF Init, StopOrder
<1>2. StopOrder => StopBeforeDrain
  BY DEF StopOrder, StopBeforeDrain
<1>3. StopOrder /\ [Next]_vars => StopOrder'
  BY StopStep
<1> QED
  BY <1>1, <1>2, <1>3, PTL DEF Spec

(***************************************************************************)
(* A healthy inverter among held ones.                                     *)
(***************************************************************************)
Healthy == Inverters \ Wedgeable

\* Only a driver that may hold a query does.
StuckPart == \A t \in Threads : thread[t].stuck => thread[t].inv \in Wedgeable

\* A poll of a healthy inverter is unfinished only in the cycle that submitted
\* it, which still has its future in the list, or once the loop is over.
HealthyPart ==
  \A i \in Healthy : fut[i] = "pending" =>
    \/ pc \in Stop \union {"down"}
    \/ pc = "submit" /\ i < next /\ i \in futures
    \/ pc = "gather" /\ i \in futures

\* The executor has a thread for each inverter: when every thread is held, each
\* by a port of its own, no healthy inverter is left to wait in the queue.
LEMMA HealthyNotHeld ==
  ASSUME TypeOK, Excl, StuckPart, NEW i \in Healthy
  PROVE  ~Held(i)
<1>1. \A t \in Threads : ~(thread[t].inv = i /\ thread[t].stuck)
  BY DEF StuckPart, Healthy
<1>2. ASSUME \A t \in Threads : thread[t].stuck
      PROVE  FALSE
  <2> DEFINE Others == Inverters \ {i}
             f == [t \in Threads |-> thread[t].inv]
  <2>1. \A t \in Threads : thread[t].inv \in Others /\ thread[t].inv # 0
    <3>1. \A t \in Threads : thread[t].inv \in Wedgeable
      BY <1>2 DEF StuckPart
    <3>2. \A j \in Wedgeable : j \in Inverters /\ j # i /\ j # 0
      BY WedgeableAssumption DEF Healthy, Inverters
    <3> QED
      BY <3>1, <3>2
  <2>2. f \in [Threads -> Others]
    BY <2>1
  <2>3. IsFiniteSet(Threads) /\ Cardinality(Threads) = N
    <3>1. MaxWorkers = N
      BY DEF MaxWorkers
    <3> QED
      BY <3>1, FS_Interval DEF Threads
  <2>4. IsFiniteSet(Inverters) /\ Cardinality(Inverters) = N
    BY FS_Interval DEF Inverters
  <2>5. IsFiniteSet(Others) /\ Cardinality(Others) = N - 1
    BY <2>4, FS_RemoveElement DEF Healthy
  <2> HIDE DEF Others
  <2>6. Cardinality(Others) < Cardinality(Threads)
    BY <2>3, <2>5
  <2>7. PICK t, u \in Threads : t # u /\ f[t] = f[u]
    <3> HIDE DEF f
    <3> QED
      BY <2>2, <2>3, <2>5, <2>6, FS_PigeonHole
  <2>8. thread[t].inv # 0 /\ thread[t].inv = thread[u].inv
    BY <2>1, <2>7
  <2> QED
    BY <2>7, <2>8 DEF Excl, PortExclusive
<1> QED
  BY <1>1, <1>2 DEF Held, Threads, MaxWorkers

\* Only Wedge makes a query held, and it keeps the thread's inverter.
LEMMA StuckStep ==
  ASSUME TypeOK, StuckPart, [Next]_vars
  PROVE  StuckPart'
<1> USE DEF StuckPart
<1>1. CASE Restart
  BY <1>1 DEF Restart, Idle
<1>2. CASE UNCHANGED thread
  BY <1>2
<1>3. ASSUME NEW t \in Threads, Worker(t) \/ Wedge(t)
      PROVE  StuckPart'
  <2>1. /\ \A u \in Threads \ {t} : thread'[u] = thread[u]
        /\ thread'[t].stuck => /\ thread'[t].inv = thread[t].inv
                               /\ thread[t].inv \in Wedgeable
    <3> USE DEF TypeOK, TypeExec
    <3>1. CASE Take(t)
      BY <3>1 DEF Take, Job
    <3>2. CASE BlockEnds(t)
      BY <3>2 DEF BlockEnds, Step
    <3>3. CASE RetryBlock(t)
      BY <3>3 DEF RetryBlock, Step
    <3>4. CASE Wedge(t)
      BY <3>4 DEF Wedge, Step
    <3>5. CASE Count(t)
      BY <3>5 DEF Count, Step
    <3>6. CASE Resolve(t)
      BY <3>6 DEF Resolve, Idle
    <3> QED
      BY <1>3, <3>1, <3>2, <3>3, <3>4, <3>5, <3>6 DEF Worker
  <2> QED
    BY <2>1
<1>4. CASE MainOrEnv
  BY <1>1, <1>2, <1>4, MainFrame
  DEF Skip, Submit, Gather, GatherTimeout, Quiet, execVars
<1> QED
  BY <1>2, <1>3, <1>4 DEF Next, MainOrEnv, vars

\* The gather loop leaves no healthy poll behind: it waits for the future,
\* because a healthy inverter is never held past the worker timeout.
LEMMA HealthyStep ==
  ASSUME IInv, StuckPart, HealthyPart, [Next]_vars
  PROVE  HealthyPart'
<1>0. /\ TypeOK /\ Excl /\ FuturesAt
      /\ next \in Inverters /\ futures \subseteq Inverters
      /\ fut \in [Inverters -> {"none", "pending", "done"}]
      /\ Healthy \subseteq Inverters
  BY DEF IInv, TypeOK, TypeMain, TypeExec, Healthy
<1>1. CASE Skip
  <2>1. next \notin Healthy
    BY <1>0, <1>1 DEF Skip, HealthyPart, Stop, Inverters
  <2>2. /\ pc = "submit" /\ UNCHANGED <<fut, futures>>
        /\ pc' = "gather" \/ (pc' = "submit" /\ next' = next + 1)
    BY <1>1 DEF Skip, AfterSubmit, execVars
  <2> QED
    BY <1>0, <2>1, <2>2 DEF HealthyPart, Stop, Inverters
<1>2. CASE Submit
  <2>1. /\ pc = "submit" /\ futures' = futures \union {next}
        /\ fut' = [fut EXCEPT ![next] = "pending"]
        /\ pc' = "gather" \/ (pc' = "submit" /\ next' = next + 1)
    BY <1>2 DEF Submit, AfterSubmit
  <2> QED
    BY <1>0, <2>1 DEF HealthyPart, Stop, Inverters
<1>3. CASE Gather \/ GatherTimeout \/ GatherNothing
  <2>1. /\ pc = "gather" /\ fut' = fut
        /\ futures' \in {futures, futures \ {next}}
        /\ \/ next = N /\ pc' = "status"
           \/ next # N /\ pc' = "gather"
    BY <1>3 DEF Gather, GatherTimeout, GatherNothing, AfterGather, execVars
  <2>2. next \in Healthy => fut[next] # "pending"
    <3>1. CASE Gather
      BY <3>1 DEF Gather
    <3>2. CASE GatherTimeout
      BY <1>0, <3>2, HealthyNotHeld DEF GatherTimeout
    <3>3. CASE GatherNothing
      BY <3>3 DEF GatherNothing, HealthyPart, Stop
    <3> QED
      BY <1>3, <3>1, <3>2, <3>3
  <2>3. next = N => futures \subseteq {next}
    BY <1>0, <2>1 DEF FuturesAt, Inverters
  <2> QED
    BY <1>0, <2>1, <2>2, <2>3 DEF HealthyPart, Stop
<1>4. CASE Restart
  BY <1>0, <1>4 DEF Restart, HealthyPart
<1>5. CASE /\ UNCHANGED fut
           /\ \/ pc \notin Stop \union {"submit", "gather", "down"}
              \/ pc' \in Stop \union {"down"}
  BY <1>5 DEF HealthyPart
<1>6. CASE MainOrEnv
  BY <1>1, <1>2, <1>3, <1>4, <1>5, <1>6
  DEF MainOrEnv, Main, Stop, Connect, Ready, Dies, Ping, PublishStatus, PublishHot,
      ColdDue, ColdNotDue, PublishCold, SaveCold, StatusRaises, CycleRaises, Sleep, Sigterm,
      StopSave, StopBms, StopSession, StopDrained, execVars
<1>7. ASSUME NEW t \in Threads, Worker(t) \/ Wedge(t)
      PROVE  HealthyPart'
  <2>1. UNCHANGED <<pc, next, futures>>
    BY <1>7, WorkerFrame
  <2>2. fut' = fut \/ \E i \in Inverters : fut' = [fut EXCEPT ![i] = "done"]
    BY <1>0, <1>7, ThreadFacts
    DEF Worker, Wedge, Take, BlockEnds, RetryBlock, Count, Resolve
  <2> QED
    BY <1>0, <2>1, <2>2 DEF HealthyPart
<1>8. CASE UNCHANGED vars
  BY <1>8 DEF vars, HealthyPart
<1> QED
  BY <1>6, <1>7, <1>8 DEF Next, MainOrEnv

\* HealthyNeverLost for any number of inverters and any set of held ports: an
\* empty cycle of a healthy inverter is always one whose poll ran to its end.
THEOREM HealthyIsNeverLost == Spec => HealthyNeverLost
<1> DEFINE HInv == IInv /\ StuckPart /\ HealthyPart
<1>1. Init => HInv
  BY IInvInductive DEF Init, StuckPart, HealthyPart, Idle, Healthy
<1>2. HInv /\ [Next]_vars => HInv'
  BY IInvInductive, StuckStep, HealthyStep DEF IInv
<1>3. HInv /\ [Next]_vars =>
        [\A i \in Inverters \ Wedgeable : emptyRun'[i] > emptyRun[i] =>
           fut[i] = "done" /\ i \in futures]_vars
  <2> SUFFICES ASSUME HInv, Next, NEW i \in Healthy, emptyRun'[i] > emptyRun[i]
               PROVE  fut[i] = "done" /\ i \in futures
    BY DEF Healthy
  <2>0. /\ emptyRun \in [Inverters -> 0..FailCap] /\ i \in Inverters
        /\ next \in Inverters
    BY DEF IInv, TypeOK, TypeMain, TypeCount, Healthy
  <2>1. ~(emptyRun'[i] = emptyRun[i]) /\ ~(emptyRun'[i] = 0)
    BY <2>0
  <2>2. CASE Skip
    BY <2>0, <2>1, <2>2 DEF Skip, HealthyPart, Stop, Inverters
  <2>3. CASE Gather
    BY <2>0, <2>1, <2>3 DEF Gather
  <2>4. CASE GatherTimeout
    BY <2>0, <2>1, <2>4, HealthyNotHeld DEF GatherTimeout, IInv
  <2>5. ~Restart
    BY <2>0, <2>1 DEF Restart
  <2>6. CASE MainOrEnv
    BY <2>1, <2>2, <2>3, <2>4, <2>5, <2>6, MainFrame DEF Submit, Quiet, countVars
  <2> QED
    BY <2>1, <2>6, WorkerFrame DEF Next, MainOrEnv
<1> QED
  BY <1>1, <1>2, <1>3, PTL DEF Spec, HealthyNeverLost

(***************************************************************************)
(* How long the loop waits between two beats.                              *)
(***************************************************************************)

\* The ports among the first k that can wedge, and one worker timeout for each.
Wedged(k) == Wedgeable \intersect (1..k)
Span(k) == Cardinality(Wedged(k)) * WorkerTimeout

\* One port more, and one timeout more if that port can wedge.
LEMMA SpanFacts ==
  /\ Span(0) = 0
  /\ Span(N) = Cardinality(Wedgeable) * WorkerTimeout
  /\ Span(N) \in Nat
  /\ \A k \in Inverters : /\ Span(k - 1) \in Nat /\ Span(k) \in Nat
                          /\ Span(k - 1) <= Span(k)
                          /\ k \in Wedgeable => Span(k) = Span(k - 1) + WorkerTimeout
                          /\ Span(k) <= Span(N)
<1>1. \A k \in Nat : IsFiniteSet(Wedged(k)) /\ Cardinality(Wedged(k)) \in Nat
  <2> SUFFICES ASSUME NEW k \in Nat
               PROVE  IsFiniteSet(Wedged(k)) /\ Cardinality(Wedged(k)) \in Nat
    OBVIOUS
  <2>1. IsFiniteSet(1..k) /\ Wedged(k) \subseteq 1..k
    BY FS_Interval DEF Wedged
  <2> QED
    BY <2>1, FS_Subset, FS_CardinalityType
<1>2. \A m, n \in Nat : m <= n => m * WorkerTimeout <= n * WorkerTimeout
  <2> SUFFICES ASSUME NEW m \in Nat, NEW n \in Nat, m <= n
               PROVE  m * WorkerTimeout <= n * WorkerTimeout
    OBVIOUS
  <2>1. n - m \in Nat /\ n * WorkerTimeout = m * WorkerTimeout + (n - m) * WorkerTimeout
    OBVIOUS
  <2>2. (n - m) * WorkerTimeout \in Nat /\ m * WorkerTimeout \in Nat
    BY <2>1
  <2> QED
    BY <2>1, <2>2
<1>3. ASSUME NEW k \in Nat, NEW n \in Nat, k <= n
      PROVE  Span(k) \in Nat /\ Span(k) <= Span(n)
  <2>1. Wedged(k) \subseteq Wedged(n)
    BY <1>3 DEF Wedged
  <2>2. Cardinality(Wedged(k)) <= Cardinality(Wedged(n))
    BY <1>1, <2>1, FS_Subset
  <2> QED
    BY <1>1, <1>2, <2>2 DEF Span
<1>4. ASSUME NEW k \in Inverters, k \in Wedgeable
      PROVE  Span(k) = Span(k - 1) + WorkerTimeout
  <2>1. k - 1 \in Nat /\ Wedged(k) = Wedged(k - 1) \union {k} /\ k \notin Wedged(k - 1)
    BY <1>4 DEF Wedged, Inverters
  <2>2. Cardinality(Wedged(k)) = Cardinality(Wedged(k - 1)) + 1
    BY <1>1, <2>1, FS_AddElement
  <2>3. Cardinality(Wedged(k - 1)) \in Nat
    BY <1>1, <2>1
  <2> QED
    BY <2>2, <2>3 DEF Span
<1>5. Span(0) = 0
  <2>1. Wedged(0) = {}
    BY DEF Wedged
  <2> QED
    BY <2>1, FS_EmptySet DEF Span
<1>6. Wedged(N) = Wedgeable
  BY WedgeableAssumption DEF Wedged
<1>7. \A k \in Inverters : k \in Nat /\ k - 1 \in Nat /\ k - 1 <= k /\ k <= N
  BY DEF Inverters
<1> QED
  BY <1>3, <1>4, <1>5, <1>6, <1>7 DEF Span

\* What the loop has waited for workers since its last beat: each gather loop
\* waits once for each port it has passed that can wedge, and there are two of them.
Waited ==
  /\ pc = "submit" /\ tier = "hot" => sincePing = 0
  /\ pc = "gather" /\ tier = "hot" => sincePing <= Span(next - 1)
  /\ pc \in {"status", "publish"} /\ tier = "hot" => sincePing <= Span(N)
  /\ pc = "cold" => sincePing <= Span(N)
  /\ pc = "submit" /\ tier = "cold" => sincePing <= Span(N)
  /\ pc = "gather" /\ tier = "cold" => sincePing <= Span(N) + Span(next - 1)
  /\ sincePing <= Span(N) + Span(N)

\* Each step keeps the account of the waits.
LEMMA WaitedStep ==
  ASSUME TypeOK, Excl, StuckPart, Waited, [Next]_vars
  PROVE  Waited'
<1>0. /\ next \in Inverters /\ sincePing \in Nat /\ tier \in {"hot", "cold"}
      /\ WorkerTimeout \in Nat
  BY DEF TypeOK, TypeMain, Tiers
<1> USE SpanFacts
<1>1. CASE Ping \/ Restart
  <2>1. sincePing' = 0 /\ pc' \in {"submit", "start"} /\ tier' = "hot"
    BY <1>1 DEF Ping, Restart
  <2> QED
    BY <2>1 DEF Waited
<1>2. CASE /\ pc = "submit" /\ AfterSubmit /\ UNCHANGED <<tier, sincePing>>
  <2>1. pc' = "submit" \/ (pc' = "gather" /\ next' - 1 = 0)
    BY <1>2 DEF AfterSubmit
  <2> QED
    BY <1>0, <1>2, <2>1 DEF Waited
<1>3. CASE /\ pc = "gather" /\ AfterGather /\ tier' = tier
           /\ \/ sincePing' = sincePing
              \/ next \in Wedgeable /\ sincePing' = sincePing + WorkerTimeout
  <2>1. (next + 1) - 1 = next /\ (next = N => Span(next) = Span(N))
    BY <1>0 DEF Inverters
  <2>2. CASE next = N
    <3>1. pc' = "status" /\ next' = 1
      BY <1>3, <2>2 DEF AfterGather
    <3> QED
      BY <1>0, <1>3, <2>1, <2>2, <3>1 DEF Waited
  <2>3. CASE next # N
    <3>1. pc' = "gather" /\ next' - 1 = next
      BY <1>0, <1>3, <2>1, <2>3 DEF AfterGather
    <3> QED
      BY <1>0, <1>3, <2>3, <3>1 DEF Waited
  <2> QED
    BY <2>2, <2>3
<1>4. CASE /\ UNCHANGED <<tier, sincePing>>
           /\ \/ pc = "status" /\ pc' = "publish"
              \/ pc = "publish" /\ tier = "hot" /\ pc' = "cold"
              \/ pc' \notin {"submit", "gather", "status", "publish", "cold"}
  BY <1>0, <1>4 DEF Waited
<1>5. CASE ColdDue
  BY <1>0, <1>5 DEF ColdDue, Waited
<1>6. CASE UNCHANGED <<pc, tier, next, sincePing, dirty, session>>
  BY <1>6 DEF Waited
<1>7. CASE Skip \/ Submit \/ Gather \/ GatherTimeout \/ GatherNothing
  <2>1. GatherTimeout => next \in Wedgeable
    BY <1>0, HealthyNotHeld DEF GatherTimeout, Healthy
  <2> QED
    BY <1>2, <1>3, <1>7, <2>1 DEF Skip, Submit, Gather, GatherTimeout, GatherNothing
<1>8. CASE MainOrEnv
  BY <1>1, <1>4, <1>5, <1>7, <1>8
  DEF MainOrEnv, Main, Connect, Ready, Dies, PublishStatus, PublishHot, ColdNotDue,
      PublishCold, SaveCold, StatusRaises, CycleRaises, Sleep, Sigterm, StopSave, StopBms, StopSession,
      StopDrained, loopVars
<1> QED
  BY <1>6, <1>8, MainAlone

\* WaitBounded for any number of inverters and any set of ports that can wedge: an
\* installation needs a WatchdogSec above the bound, which is what it takes.
THEOREM WaitIsBounded == Spec => []WaitBounded
<1> DEFINE WInv == IInv /\ StuckPart /\ Waited
<1>1. Init => WInv
  BY IInvInductive, SpanFacts DEF Init, StuckPart, Waited, Idle
<1>2. WInv /\ [Next]_vars => WInv'
  BY IInvInductive, StuckStep, WaitedStep DEF IInv
<1>3. WInv => WaitBounded
  <2>1. Span(N) + Span(N) = 2 * Span(N)
    BY SpanFacts
  <2> QED
    BY <2>1, SpanFacts DEF Waited, WaitBounded
<1> QED
  BY <1>1, <1>2, <1>3, PTL DEF Spec
=============================================================================
