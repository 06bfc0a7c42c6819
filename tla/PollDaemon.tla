----------------------------- MODULE PollDaemon -----------------------------
(***************************************************************************)
(* The polling core of inverter_bridge/daemon.py: the main thread's loop   *)
(* (watchdog beat, hot cycle, cold cycle, orderly stop), the executor with *)
(* one worker per inverter, and the failure count the two share under      *)
(* _fail_count_lock.                                                       *)
(*                                                                         *)
(* A step of the main thread is one iteration of a loop of                 *)
(* _poll_all_parallel or one call of the cycle around it; a step of a      *)
(* worker is one port.query with everything it decides.  A query that the  *)
(* driver holds for longer than the worker timeout is "stuck"; it may      *)
(* return much later, or never.  Time is counted only where the code waits *)
(* for a worker timeout.                                                   *)
(*                                                                         *)
(* fail counts are only ever compared with OfflineAfter, so they saturate  *)
(* at the bound FailCap.                                                   *)
(***************************************************************************)
EXTENDS Integers, Sequences, FiniteSets

CONSTANTS
  N,              \* number of configured inverters
  HotBlocks,      \* blocks of tier HOT in BLOCKS
  ColdBlocks,     \* blocks of tier COLD in BLOCKS
  RetryAttempts,  \* polling.retry_attempts
  WorkerTimeout,  \* _poll_worker_timeout_s
  WatchdogSec,    \* WatchdogSec of the systemd unit
  Wedgeable,      \* the inverters whose driver may hold a query
  FailCap         \* bound: the counters saturate here

OfflineAfter == 3

ASSUME NAssumption == N \in Nat \ {0}
ASSUME BlocksAssumption == HotBlocks \in Nat \ {0} /\ ColdBlocks \in Nat \ {0}
ASSUME RetryAssumption == RetryAttempts \in Nat
ASSUME TimeAssumption == WorkerTimeout \in Nat \ {0} /\ WatchdogSec \in Nat
ASSUME WedgeableAssumption == Wedgeable \subseteq 1..N
ASSUME FailCapAssumption == FailCap \in Nat /\ FailCap > OfflineAfter + 1

VARIABLES
  pc,         \* where the main thread is
  tier,       \* tier of the running _poll_all_parallel
  next,       \* loop index of its submit and gather loops
  futures,    \* the local list futures, less the ones already gathered
  fut,        \* _inflight: state of the last future of each inverter
  res,        \* the result of that future: did any block arrive
  queue,      \* the executor's work queue, inverters in submit order
  thread,     \* the executor's threads
  failCount,  \* _fail_count
  status,     \* last inverter_<n>_status published
  sincePing,  \* seconds of worker timeout since the last WATCHDOG=1
  dirty,      \* energy integrated since the last call of save
  session,    \* the publisher's MQTT session
  emptyRun,   \* history: consecutive cycles that brought no data
  lateOk      \* history: a poll succeeded, uncollected, in that run

vars == <<pc, tier, next, futures, fut, res, queue, thread, failCount, status,
          sincePing, dirty, session, emptyRun, lateOk>>

loopVars == <<tier, next, futures>>
mainVars == <<pc, loopVars, sincePing, dirty, session>>
execVars == <<fut, res, queue, thread>>
countVars == <<failCount, status, emptyRun, lateOk>>

Inverters == 1..N

\* Mutant of MaxWorkers: a single worker for all inverters.
OneWorker == 1

\* ThreadPoolExecutor(max_workers=max(1, len(cfg.inverters)))
MaxWorkers == IF N > 1 THEN N ELSE 1
Threads == 1..MaxWorkers

Tiers == {"hot", "cold"}
Blocks(tr) == IF tr = "hot" THEN HotBlocks ELSE ColdBlocks

Idle == [inv |-> 0, tier |-> "hot", block |-> 0, attempt |-> 0, any |-> FALSE,
         stuck |-> FALSE, counted |-> FALSE]

\* A call _poll_inverter(inv, tier) that has read nothing yet.
Job(i, tr) == [inv |-> i, tier |-> tr, block |-> 1, attempt |-> 0,
               any |-> FALSE, stuck |-> FALSE, counted |-> FALSE]

\* The same call further on.
Step(j, block, attempt, any, stuck, counted) ==
  [inv |-> j.inv, tier |-> j.tier, block |-> block, attempt |-> attempt,
   any |-> any, stuck |-> stuck, counted |-> counted]

Bump(n) == IF n < FailCap THEN n + 1 ELSE FailCap

Loop == {"ping", "submit", "gather", "status", "publish", "cold", "saveCold",
         "sleep"}
Stop == {"save", "bmsStop", "disconnect", "drain"}

Init ==
  /\ pc = "start" /\ tier = "hot" /\ next = 1 /\ futures = {}
  /\ fut = [i \in Inverters |-> "none"]
  /\ res = [i \in Inverters |-> FALSE]
  /\ queue = <<>>
  /\ thread = [t \in Threads |-> Idle]
  /\ failCount = [i \in Inverters |-> 0]
  /\ status = [i \in Inverters |-> "none"]
  /\ sincePing = 0 /\ dirty = FALSE /\ session = "none"
  /\ emptyRun = [i \in Inverters |-> 0]
  /\ lateOk = [i \in Inverters |-> FALSE]

(***************************************************************************)
(* start(): connect, discovery, online, BMS thread, READY=1.               *)
(***************************************************************************)
Connect ==
  /\ pc = "start" /\ pc' = "ready" /\ session' = "open"
  /\ UNCHANGED <<loopVars, execVars, countVars, sincePing, dirty>>

Ready ==
  /\ pc = "ready" /\ pc' = "ping"
  /\ UNCHANGED <<loopVars, execVars, countVars, sincePing, dirty, session>>

\* The process ends without its finally block, or in the middle of it: an
\* exception or a SIGTERM in start() before the try, a second SIGTERM in the
\* finally block, a SIGKILL, the watchdog.  Threads and socket die with it.
Dies ==
  /\ pc # "down" /\ pc' = "down"
  /\ session' = IF session = "open" THEN "dropped" ELSE session
  /\ UNCHANGED <<loopVars, execVars, countVars, sincePing, dirty>>

(***************************************************************************)
(* The main loop.                                                          *)
(***************************************************************************)
\* Mutant of Ping: the loop forgets WATCHDOG=1.
PingForgotten ==
  /\ pc = "ping" /\ pc' = "submit" /\ tier' = "hot" /\ next' = 1
  /\ UNCHANGED <<futures, execVars, countVars, sincePing, dirty, session>>

Ping ==
  /\ pc = "ping" /\ sincePing' = 0
  /\ pc' = "submit" /\ tier' = "hot" /\ next' = 1
  /\ UNCHANGED <<futures, execVars, countVars, dirty, session>>

\* The submit loop moves on to the gather loop after the last inverter.
AfterSubmit ==
  IF next = N THEN pc' = "gather" /\ next' = 1
              ELSE pc' = pc /\ next' = next + 1

\* Mutant of Skip: a skipped cycle is not counted.
SkipUncounted ==
  /\ pc = "submit" /\ fut[next] = "pending"
  /\ emptyRun' = [emptyRun EXCEPT ![next] = Bump(@)]
  /\ AfterSubmit
  /\ UNCHANGED <<tier, futures, execVars, failCount, status, lateOk, sincePing,
                 dirty, session>>

\* The previous poll of this port still runs: skip it and count a failure.
Skip ==
  /\ pc = "submit" /\ fut[next] = "pending"
  /\ failCount' = [failCount EXCEPT ![next] = Bump(@)]
  /\ emptyRun' = [emptyRun EXCEPT ![next] = Bump(@)]
  /\ AfterSubmit
  /\ UNCHANGED <<tier, futures, execVars, status, lateOk, sincePing, dirty,
                 session>>

\* Mutant of Submit: without M1's guard.
SubmitAlways ==
  /\ pc = "submit"
  /\ queue' = Append(queue, [inv |-> next, tier |-> tier])
  /\ fut' = [fut EXCEPT ![next] = "pending"]
  /\ futures' = futures \union {next}
  /\ AfterSubmit
  /\ UNCHANGED <<tier, res, thread, countVars, sincePing, dirty, session>>

Submit ==
  /\ pc = "submit" /\ fut[next] # "pending"
  /\ queue' = Append(queue, [inv |-> next, tier |-> tier])
  /\ fut' = [fut EXCEPT ![next] = "pending"]
  /\ futures' = futures \union {next}
  /\ AfterSubmit
  /\ UNCHANGED <<tier, res, thread, countVars, sincePing, dirty, session>>

\* The gather loop visits the futures of this cycle in cfg order and moves on
\* to the status markers after the last one.
AfterGather ==
  IF next = N THEN pc' = "status" /\ next' = 1
              ELSE pc' = pc /\ next' = next + 1

Gather ==
  /\ pc = "gather" /\ next \in futures /\ fut[next] = "done"
  /\ futures' = futures \ {next}
  /\ emptyRun' = [emptyRun EXCEPT ![next] = IF res[next] THEN 0 ELSE Bump(@)]
  /\ lateOk' = [lateOk EXCEPT ![next] = @ /\ ~res[next]]
  /\ AfterGather
  /\ UNCHANGED <<tier, execVars, failCount, status, sincePing, dirty, session>>

\* A worker outlasts its timeout only when the driver holds its query, or when
\* it waits for a thread and every thread's query is held: the timeout is twice
\* the slowest legal poll.
Held(i) ==
  \/ \E t \in Threads : thread[t].inv = i /\ thread[t].stuck
  \/ /\ \E k \in DOMAIN queue : queue[k].inv = i
     /\ \A t \in Threads : thread[t].stuck

\* Mutant of GatherTimeout: a timeout counts a failure too, as before B5.
GatherTimeoutCounts ==
  /\ pc = "gather" /\ next \in futures /\ fut[next] = "pending" /\ Held(next)
  /\ futures' = futures \ {next}
  /\ sincePing' = sincePing + WorkerTimeout
  /\ failCount' = [failCount EXCEPT ![next] = Bump(@)]
  /\ emptyRun' = [emptyRun EXCEPT ![next] = Bump(@)]
  /\ AfterGather
  /\ UNCHANGED <<tier, execVars, status, lateOk, dirty, session>>

\* Mutant of GatherTimeout: result() without a timeout.
GatherForever == FALSE /\ UNCHANGED vars

GatherTimeout ==
  /\ pc = "gather" /\ next \in futures /\ fut[next] = "pending" /\ Held(next)
  /\ futures' = futures \ {next}
  /\ sincePing' = sincePing + WorkerTimeout
  /\ emptyRun' = [emptyRun EXCEPT ![next] = Bump(@)]
  /\ AfterGather
  /\ UNCHANGED <<tier, execVars, failCount, status, lateOk, dirty, session>>

\* An inverter the submit loop skipped has no entry in futures.
GatherNothing ==
  /\ pc = "gather" /\ next \notin futures
  /\ AfterGather
  /\ UNCHANGED <<tier, futures, execVars, countVars, sincePing, dirty, session>>

\* inverter_<n>_status from the snapshot taken under the lock.
Marker(i) == IF failCount[i] >= OfflineAfter THEN "offline" ELSE "online"

\* The status topics, one for each inverter.
PublishStatus ==
  /\ pc = "status" /\ pc' = "publish"
  /\ status' = [i \in Inverters |-> Marker(i)]
  /\ UNCHANGED <<loopVars, execVars, failCount, emptyRun, lateOk, sincePing,
                 dirty, session>>

\* The rest of run_one_hot_cycle: aggregate, integrate, publish.
PublishHot ==
  /\ pc = "publish" /\ tier = "hot" /\ pc' = "cold" /\ dirty' = TRUE
  /\ UNCHANGED <<loopVars, execVars, countVars, sincePing, session>>

\* Whether cold_interval_s has passed since last_cold.
ColdDue ==
  /\ pc = "cold" /\ pc' = "submit" /\ tier' = "cold" /\ next' = 1
  /\ UNCHANGED <<futures, execVars, countVars, sincePing, dirty, session>>

ColdNotDue ==
  /\ pc = "cold" /\ pc' = "sleep"
  /\ UNCHANGED <<loopVars, execVars, countVars, sincePing, dirty, session>>

PublishCold ==
  /\ pc = "publish" /\ tier = "cold" /\ pc' = "saveCold"
  /\ UNCHANGED <<loopVars, execVars, countVars, sincePing, dirty, session>>

SaveCold ==
  /\ pc = "saveCold" /\ pc' = "sleep" /\ dirty' = FALSE
  /\ UNCHANGED <<loopVars, execVars, countVars, sincePing, session>>

\* "except Exception" around both cycles: the publish of a status raised, after
\* those of the inverters before it.
StatusRaises ==
  /\ pc = "status" /\ pc' = "sleep"
  /\ \E n \in Inverters :
       status' = [i \in Inverters |-> IF i < n THEN Marker(i) ELSE status[i]]
  /\ UNCHANGED <<loopVars, execVars, failCount, emptyRun, lateOk, sincePing,
                 dirty, session>>

\* The same: aggregating or publishing raised, before or after the integrator
\* took the sample.
CycleRaises ==
  /\ pc = "publish" /\ pc' = "sleep"
  /\ dirty' \in {dirty, dirty \/ tier = "hot"}
  /\ UNCHANGED <<loopVars, execVars, countVars, sincePing, session>>

Sleep ==
  /\ pc = "sleep" /\ pc' = "ping"
  /\ UNCHANGED <<loopVars, execVars, countVars, sincePing, dirty, session>>

(***************************************************************************)
(* The orderly stop: SIGTERM raises KeyboardInterrupt wherever the loop    *)
(* is, and the finally block saves, stops the BMS, closes the session and  *)
(* drains the executor.  Workers keep running meanwhile.                   *)
(***************************************************************************)
Sigterm ==
  /\ pc \in Loop /\ pc' = "save"
  /\ UNCHANGED <<loopVars, execVars, countVars, sincePing, dirty, session>>

StopSave ==
  /\ pc = "save" /\ pc' = "bmsStop" /\ dirty' = FALSE
  /\ UNCHANGED <<loopVars, execVars, countVars, sincePing, session>>

\* Mutant of StopBms: the drain before the end of the MQTT session.
DrainFirst ==
  /\ pc = "bmsStop" /\ pc' = "drain"
  /\ UNCHANGED <<loopVars, execVars, countVars, sincePing, dirty, session>>

StopBms ==
  /\ pc = "bmsStop" /\ pc' = "disconnect"
  /\ UNCHANGED <<loopVars, execVars, countVars, sincePing, dirty, session>>

\* Mutant of StopSession: it waits for the workers.
StopSessionWaits ==
  /\ pc = "disconnect" /\ \A t \in Threads : thread[t] = Idle
  /\ pc' = "drain" /\ session' = "closed"
  /\ UNCHANGED <<loopVars, execVars, countVars, sincePing, dirty>>

StopSession ==
  /\ pc = "disconnect" /\ pc' = "drain" /\ session' = "closed"
  /\ UNCHANGED <<loopVars, execVars, countVars, sincePing, dirty>>

\* executor.shutdown(wait=True, cancel_futures=False)
StopDrained ==
  /\ pc = "drain" /\ queue = <<>> /\ \A t \in Threads : thread[t] = Idle
  /\ pc' = "down"
  /\ UNCHANGED <<loopVars, execVars, countVars, sincePing, dirty, session>>

\* Restart=always: a new process starts from nothing.
Restart ==
  /\ pc = "down"
  /\ pc' = "start" /\ tier' = "hot" /\ next' = 1 /\ futures' = {}
  /\ fut' = [i \in Inverters |-> "none"]
  /\ res' = [i \in Inverters |-> FALSE]
  /\ queue' = <<>>
  /\ thread' = [t \in Threads |-> Idle]
  /\ failCount' = [i \in Inverters |-> 0]
  /\ status' = [i \in Inverters |-> "none"]
  /\ sincePing' = 0 /\ dirty' = FALSE /\ session' = "none"
  /\ emptyRun' = [i \in Inverters |-> 0]
  /\ lateOk' = [i \in Inverters |-> FALSE]

(***************************************************************************)
(* The executor's threads and _poll_inverter.                              *)
(***************************************************************************)
Take(t) ==
  /\ queue # <<>> /\ thread[t] = Idle
  /\ thread' = [thread EXCEPT ![t] = Job(Head(queue).inv, Head(queue).tier)]
  /\ queue' = Tail(queue)
  /\ UNCHANGED <<mainVars, fut, res, countVars>>

Querying(t) == thread[t].inv # 0 /\ thread[t].block <= Blocks(thread[t].tier)

\* The query ends this block: with a parsed block, or with a ModbusException,
\* an unexpected error, a parse error or the last timeout.
BlockEnds(t) ==
  /\ Querying(t)
  /\ \E ok \in BOOLEAN :
       thread' = [thread EXCEPT ![t] =
                    Step(@, @.block + 1, 0, @.any \/ ok, FALSE, FALSE)]
  /\ UNCHANGED <<mainVars, fut, res, queue, countVars>>

\* Mutant of RetryBlock: retries without end.
RetryForever(t) ==
  /\ Querying(t)
  /\ thread' = [thread EXCEPT ![t] =
                  Step(@, @.block, @.attempt + 1, @.any, FALSE, FALSE)]
  /\ UNCHANGED <<mainVars, fut, res, queue, countVars>>

\* TimeoutError with attempts left: back off and ask again.
RetryBlock(t) ==
  /\ Querying(t) /\ thread[t].attempt + 1 < RetryAttempts
  /\ thread' = [thread EXCEPT ![t] =
                  Step(@, @.block, @.attempt + 1, @.any, FALSE, FALSE)]
  /\ UNCHANGED <<mainVars, fut, res, queue, countVars>>

\* The driver holds the query past the worker timeout.
Wedge(t) ==
  /\ Querying(t) /\ thread[t].inv \in Wedgeable /\ ~thread[t].stuck
  /\ thread' = [thread EXCEPT ![t] =
                  Step(@, @.block, @.attempt, @.any, TRUE, FALSE)]
  /\ UNCHANGED <<mainVars, fut, res, queue, countVars>>

\* The read-modify-write of _fail_count after the last block.
Count(t) ==
  /\ thread[t].inv # 0 /\ ~Querying(t) /\ ~thread[t].counted
  /\ thread' = [thread EXCEPT ![t] =
                  Step(@, @.block, @.attempt, @.any, FALSE, TRUE)]
  /\ LET i == thread[t].inv IN
       /\ failCount' = [failCount EXCEPT ![i] =
                          IF thread[t].any THEN 0 ELSE Bump(@)]
       /\ lateOk' = [lateOk EXCEPT ![i] = @ \/ thread[t].any]
  /\ UNCHANGED <<mainVars, fut, res, queue, status, emptyRun>>

\* The worker returns: its future is done and the thread is free again.
Resolve(t) ==
  /\ thread[t].inv # 0 /\ thread[t].counted
  /\ fut' = [fut EXCEPT ![thread[t].inv] = "done"]
  /\ res' = [res EXCEPT ![thread[t].inv] = thread[t].any]
  /\ thread' = [thread EXCEPT ![t] = Idle]
  /\ UNCHANGED <<mainVars, queue, countVars>>

Main ==
  \/ Connect \/ Ready \/ Ping \/ Skip \/ Submit \/ Gather \/ GatherTimeout
  \/ GatherNothing \/ PublishStatus \/ PublishHot \/ ColdDue \/ ColdNotDue
  \/ PublishCold \/ SaveCold \/ StatusRaises \/ CycleRaises \/ Sleep
  \/ StopSave \/ StopBms \/ StopSession \/ StopDrained

Worker(t) == Take(t) \/ BlockEnds(t) \/ RetryBlock(t) \/ Count(t) \/ Resolve(t)

Next ==
  \/ Main \/ Dies \/ Sigterm \/ Restart
  \/ pc # "down" /\ \E t \in Threads : Worker(t) \/ Wedge(t)

Spec == Init /\ [][Next]_vars

\* The main thread and every worker whose query the driver does not hold keep
\* running; a held query may stay held for ever.
Fairness ==
  /\ WF_vars(Main) /\ WF_vars(Restart)
  /\ \A t \in Threads : WF_vars(pc # "down" /\ ~thread[t].stuck /\ Worker(t))

FairSpec == Spec /\ Fairness

(***************************************************************************)
(* Properties.                                                             *)
(***************************************************************************)
JobType == [inv : Inverters, tier : Tiers, block : 1..(HotBlocks + ColdBlocks + 1),
            attempt : 0..RetryAttempts, any : BOOLEAN, stuck : BOOLEAN,
            counted : BOOLEAN]

TypeMain ==
  /\ pc \in {"start", "ready", "down"} \union Loop \union Stop
  /\ tier \in Tiers /\ next \in Inverters /\ futures \subseteq Inverters
  /\ sincePing \in Nat /\ dirty \in BOOLEAN
  /\ session \in {"none", "open", "closed", "dropped"}

TypeExec ==
  /\ fut \in [Inverters -> {"none", "pending", "done"}]
  /\ res \in [Inverters -> BOOLEAN]
  /\ queue \in Seq([inv : Inverters, tier : Tiers])
  /\ thread \in [Threads -> JobType \union {Idle}]

TypeCount ==
  /\ failCount \in [Inverters -> 0..FailCap]
  /\ status \in [Inverters -> {"none", "online", "offline"}]
  /\ emptyRun \in [Inverters -> 0..FailCap]
  /\ lateOk \in [Inverters -> BOOLEAN]

\* Type correctness: the main thread's locals and outputs, the executor's
\* futures, queue and threads, and the counters they share.
TypeOK == TypeMain /\ TypeExec /\ TypeCount

\* M1: two polls of one port never coexist, running or queued, however late
\* an earlier worker returns and whichever cycle submitted it.
PortExclusive ==
  /\ \A t, u \in Threads :
       thread[t].inv # 0 /\ thread[t].inv = thread[u].inv => t = u
  /\ \A j, k \in DOMAIN queue : queue[j].inv = queue[k].inv => j = k
  /\ \A t \in Threads, k \in DOMAIN queue : thread[t].inv # queue[k].inv

\* An inverter whose driver never holds a query is never skipped and never
\* times out, whatever the other ports do.
HealthyNeverLost ==
  [][\A i \in Inverters \ Wedgeable : emptyRun'[i] > emptyRun[i] =>
       fut[i] = "done" /\ i \in futures]_vars

\* inverter_<n>_status goes to "offline" only after three consecutive cycles
\* without data: counts by late workers and by the skip guard never add up to
\* more failures than there were empty cycles (B5).
OfflineSound ==
  [][\A i \in Inverters :
       status[i] # "offline" /\ status'[i] = "offline"
         => emptyRun[i] >= OfflineAfter]_vars

\* An inverter without data for more than three cycles is published offline,
\* unless one of its polls succeeded after its cycle had given up on it.
OfflineTimely ==
  [][\A i \in Inverters :
       PublishStatus /\ status'[i] = "online"
         => emptyRun[i] <= OfflineAfter \/ lateOk[i]]_vars

\* What the systemd unit says of WatchdogSec: it covers what a loop may wait for
\* wedged workers between two beats.
WatchdogFed == sincePing <= WatchdogSec

\* Between two beats the loop waits at most one worker timeout for each port that
\* can wedge, in each tier: a healthy port adds nothing, a port that stays wedged
\* is skipped, and an exception in a cycle does not cost a beat.
WaitBounded == sincePing <= 2 * (Cardinality(Wedgeable) * WorkerTimeout)

\* The finally block has saved the energy and closed the session before it
\* blocks on the workers: a held worker (and the SIGKILL that ends it) costs
\* no energy and no offline marker.
StopBeforeDrain == pc = "drain" => ~dirty /\ session = "closed"

\* No port can stop the main loop: it beats again and again, until it is told
\* to stop, even when every driver holds its query for ever.
KeepsBeating == []<>(pc \in {"ping", "down", "drain"})

\* A SIGTERM ends with the energy saved and the session closed, whatever the
\* ports hold, unless the process is killed first.
StopPersists ==
  (pc = "save") ~> (pc = "down" \/ (pc = "drain" /\ ~dirty /\ session = "closed"))
=============================================================================
