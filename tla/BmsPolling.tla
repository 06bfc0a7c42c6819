----------------------------- MODULE BmsPolling -----------------------------
(***************************************************************************)
(* The BMS thread of inverter_bridge/bms/service.py: _run_async, which     *)
(* keeps a BLE connection, _poll_loop, which reads every pack each cycle,  *)
(* _fresh_states, which drops the packs that fell silent, and              *)
(* _integrate_energy with its periodic save.                               *)
(*                                                                         *)
(* One step is one await or one call between two of them.  Time is a tick  *)
(* that passes anywhere; what the code remembers as a time is kept as its  *)
(* age, which saturates one tick above the largest bound it is compared    *)
(* with.  The values a pack reports are not modelled, only when it did.    *)
(***************************************************************************)
EXTENDS Integers

CONSTANTS
  PackCount,      \* bms.pack_count
  FastInterval,   \* poll_fast_interval_s, in ticks
  SlowInterval,   \* poll_slow_interval_s
  StaleTimeout,   \* stale_pack_timeout_s
  MaxGap,         \* the 60 s above which _integrate_energy ignores a gap
  SaveEvery,      \* the 30 s between two saves
  MaxFailed,      \* max_failed_cycles
  InitialBackoff, \* reconnect_initial_backoff_s
  MaxBackoff      \* reconnect_max_backoff_s

Packs == 1..PackCount
None == -1

ASSUME PacksAssumption == PackCount \in 1..4
ASSUME IntervalsAssumption ==
  {FastInterval, SlowInterval, StaleTimeout, MaxGap, SaveEvery} \subseteq Nat \ {0}
ASSUME SaveAssumption == SaveEvery <= MaxGap
ASSUME FailedAssumption == MaxFailed \in Nat \ {0}
ASSUME BackoffAssumption ==
  InitialBackoff \in Nat \ {0} /\ MaxBackoff \in Nat /\ InitialBackoff <= MaxBackoff

VARIABLES
  pc,         \* where the coroutines are
  stop,       \* _stop_event
  link,       \* client.is_connected
  stage,      \* the round of the cycle: PIA or PIB
  pack,       \* loop index of that round
  slow,       \* is a PIB round due in this cycle
  cycleOk,    \* cycle_ok > 0
  failed,     \* failed_cycles
  backoff,    \* backoff
  uptime,     \* age of the monotonic clock's zero
  slowAge,    \* age of last_slow
  cycleAge,   \* age of cycle_start
  piaAge,     \* age of _pia_seen_t of each pack; None without a reading
  sampleAge,  \* age of _last_energy_sample_t; None before the first sample
  saveAge,    \* age of _last_energy_save_t
  unsaved,    \* history: ticks integrated since the last save, up to UnsavedCap
  missed,     \* history: the last save failed
  frozen      \* history: ticks integrated with each pack's last reading

vars == <<pc, stop, link, stage, pack, slow, cycleOk, failed, backoff, uptime,
          slowAge, cycleAge, piaAge, sampleAge, saveAge, unsaved, missed, frozen>>

roundVars == <<stage, pack, slow, cycleOk, failed>>
ageVars == <<uptime, slowAge, cycleAge, piaAge, sampleAge, saveAge>>
energyVars == <<unsaved, missed, frozen>>

Init ==
  /\ pc = "start" /\ stop = FALSE /\ link = FALSE
  /\ stage = "pia" /\ pack = 1 /\ slow = FALSE /\ cycleOk = FALSE /\ failed = 0
  /\ backoff = InitialBackoff
  /\ uptime \in 0..SlowInterval
  /\ slowAge = 0 /\ cycleAge = 0
  /\ piaAge = [p \in Packs |-> None] /\ sampleAge = None /\ saveAge = 0
  /\ unsaved = 0 /\ missed = FALSE /\ frozen = [p \in Packs |-> 0]

\* An age one tick later.
Older(age, bound) == IF age = None \/ age = bound THEN age ELSE age + 1

Tick ==
  /\ uptime' = Older(uptime, SlowInterval)
  /\ slowAge' = Older(slowAge, SlowInterval)
  /\ cycleAge' = Older(cycleAge, FastInterval)
  /\ piaAge' = [p \in Packs |-> Older(piaAge[p], StaleTimeout + 1)]
  /\ sampleAge' = Older(sampleAge, MaxGap)
  /\ saveAge' = Older(saveAge, SaveEvery)
  /\ UNCHANGED <<pc, stop, link, roundVars, backoff, energyVars>>

\* stop(), from the main thread, through call_soon_threadsafe.
StopSet ==
  /\ ~stop /\ stop' = TRUE
  /\ UNCHANGED <<pc, link, roundVars, backoff, ageVars, energyVars>>

\* The BLE link goes down, or stops answering while is_connected still lies.
LinkDrops ==
  /\ link /\ link' = FALSE
  /\ UNCHANGED <<pc, stop, roundVars, backoff, ageVars, energyVars>>

(***************************************************************************)
(* _run_async.                                                             *)
(***************************************************************************)

\* The first test of the event.
RunAsync ==
  /\ pc = "start" /\ pc' = IF stop THEN "exited" ELSE "dial"
  /\ UNCHANGED <<stop, link, roundVars, backoff, ageVars, energyVars>>

\* Connected: the backoff is reset and _poll_loop starts with its locals.
DialOk ==
  /\ pc = "dial" /\ pc' = "top" /\ link' = TRUE
  /\ backoff' = InitialBackoff /\ failed' = 0 /\ slowAge' = uptime
  /\ UNCHANGED <<stop, stage, pack, slow, cycleOk, uptime, cycleAge, piaAge,
                 sampleAge, saveAge, energyVars>>

DialFails ==
  /\ pc = "dial" /\ pc' = "backoff"
  /\ UNCHANGED <<stop, link, roundVars, backoff, ageVars, energyVars>>

\* _poll_loop returned or raised: the client disconnects.
Leave ==
  /\ pc = "leave" /\ pc' = "backoff" /\ link' = FALSE
  /\ UNCHANGED <<stop, roundVars, backoff, ageVars, energyVars>>

\* Mutant of BackoffStop: the wait for the next attempt ignores the event.
BackoffDeaf == FALSE /\ UNCHANGED vars

BackoffStop ==
  /\ pc = "backoff" /\ stop /\ pc' = "exited"
  /\ UNCHANGED <<stop, link, roundVars, backoff, ageVars, energyVars>>

\* Mutant of BackoffOver: the wait that ran into its timeout ends the loop too.
BackoffGivesUp ==
  /\ pc = "backoff" /\ ~stop /\ pc' = "exited"
  /\ UNCHANGED <<stop, link, roundVars, backoff, ageVars, energyVars>>

BackoffOver ==
  /\ pc = "backoff" /\ ~stop /\ pc' = "dial"
  /\ backoff' = IF backoff * 2 < MaxBackoff THEN backoff * 2 ELSE MaxBackoff
  /\ UNCHANGED <<stop, link, roundVars, ageVars, energyVars>>

(***************************************************************************)
(* _poll_loop.                                                             *)
(***************************************************************************)

\* The top of the while loop; last_slow moves with the start of its cycle.
CycleStart ==
  /\ pc = "top" /\ ~stop /\ pc' = "poll"
  /\ stage' = "pia" /\ pack' = 1 /\ cycleOk' = FALSE /\ cycleAge' = 0
  /\ slow' = (slowAge >= SlowInterval)
  /\ slowAge' = IF slow' THEN 0 ELSE slowAge
  /\ UNCHANGED <<stop, link, failed, backoff, uptime, piaAge, sampleAge, saveAge,
                 energyVars>>

TopStop ==
  /\ pc = "top" /\ stop /\ pc' = "leave"
  /\ UNCHANGED <<stop, link, roundVars, backoff, ageVars, energyVars>>

\* The pack answered; only a PIA reading refreshes it for the bank.
PollOk ==
  /\ pc = "poll" /\ link /\ pc' = "pause" /\ cycleOk' = TRUE
  /\ IF stage = "pia"
       THEN /\ piaAge' = [piaAge EXCEPT ![pack] = 0]
            /\ frozen' = [frozen EXCEPT ![pack] = 0]
       ELSE UNCHANGED <<piaAge, frozen>>
  /\ UNCHANGED <<stop, link, stage, pack, slow, failed, backoff, uptime, slowAge,
                 cycleAge, sampleAge, saveAge, unsaved, missed>>

\* TimeoutError, BleakError or DecodeError: on to the next pack if the link is
\* there, else out of the loop.
PollFails ==
  /\ pc = "poll" /\ pc' = IF link THEN "pause" ELSE "leave"
  /\ UNCHANGED <<stop, link, roundVars, backoff, ageVars, energyVars>>

\* Any other exception ends the loop; _run_async logs it.
PollRaises ==
  /\ pc = "poll" /\ pc' = "leave"
  /\ UNCHANGED <<stop, link, roundVars, backoff, ageVars, energyVars>>

\* After the pause between two packs.
PauseStop ==
  /\ pc = "pause" /\ stop /\ pc' = "leave"
  /\ UNCHANGED <<stop, link, roundVars, backoff, ageVars, energyVars>>

PauseOver ==
  /\ pc = "pause" /\ ~stop
  /\ \/ pack < PackCount /\ pc' = "poll" /\ pack' = pack + 1 /\ UNCHANGED stage
     \/ pack = PackCount /\ stage = "pia" /\ slow
        /\ pc' = "poll" /\ pack' = 1 /\ stage' = "pib"
     \/ pack = PackCount /\ (stage = "pib" \/ ~slow)
        /\ pc' = "cycle" /\ UNCHANGED <<pack, stage>>
  /\ UNCHANGED <<stop, link, slow, cycleOk, failed, backoff, ageVars, energyVars>>

\* A cycle without any reading, for the last time the code accepts it.
Zombie == ~cycleOk /\ failed + 1 >= MaxFailed

CycleZombie ==
  /\ pc = "cycle" /\ Zombie /\ pc' = "leave" /\ failed' = failed + 1
  /\ UNCHANGED <<stop, link, stage, pack, slow, cycleOk, backoff, ageVars,
                 energyVars>>

\* Mutant of Fresh: every pack that ever answered counts, as before M6.
EverSeen == {p \in Packs : piaAge[p] # None}

\* _fresh_states: the packs aggregate_bank gets to see.
Fresh == {p \in Packs : piaAge[p] # None /\ piaAge[p] <= StaleTimeout}

\* Mutant of SaveDue: the save waits for an exact multiple, as before M5.
SaveDueExactly == saveAge = SaveEvery - 1

\* now - _last_energy_save_t >= 30
SaveDue == saveAge >= SaveEvery

\* Bound on the history, reached only after failed saves.
UnsavedCap == SaveEvery + MaxGap

\* Ticks of a gap that are integrated.
Gap == IF sampleAge < MaxGap THEN sampleAge ELSE 0

\* _integrate_energy up to the save: the first sample, or one without power,
\* only sets the time; a gap of MaxGap or more is not integrated.
Integrate ==
  /\ sampleAge' = 0
  /\ IF sampleAge = None \/ Fresh = {}
       THEN UNCHANGED <<unsaved, frozen>>
       ELSE /\ frozen' = [p \in Packs |->
                            IF p \notin Fresh THEN frozen[p]
                            ELSE frozen[p] + (IF Gap < piaAge[p] THEN Gap ELSE piaAge[p])]
            /\ unsaved' = IF unsaved + Gap < UnsavedCap THEN unsaved + Gap ELSE UnsavedCap

\* What is left of the cycle once the energy is integrated.
Rest == IF cycleAge < FastInterval THEN "wait" ELSE "top"

\* Mutant of CycleEnd: a cycle without a reading resets the count too.
CycleEndForgets ==
  /\ pc = "cycle" /\ ~Zombie
  /\ failed' = 0
  /\ Integrate
  /\ pc' = IF sampleAge # None /\ Fresh # {} /\ SaveDue THEN "save" ELSE Rest
  /\ UNCHANGED <<stop, link, stage, pack, slow, cycleOk, backoff, uptime, slowAge,
                 cycleAge, piaAge, saveAge, missed>>

\* The rest of the cycle: aggregate, publish, integrate, then save, wait or go on.
CycleEnd ==
  /\ pc = "cycle" /\ ~Zombie
  /\ failed' = IF cycleOk THEN 0 ELSE failed + 1
  /\ Integrate
  /\ pc' = IF sampleAge # None /\ Fresh # {} /\ SaveDue THEN "save" ELSE Rest
  /\ UNCHANGED <<stop, link, stage, pack, slow, cycleOk, backoff, uptime, slowAge,
                 cycleAge, piaAge, saveAge, missed>>

\* _save_energy_state has returned, ok or not: the time of the save becomes the
\* time of the sample in either case.
SaveEnds(ok) ==
  /\ pc = "save" /\ pc' = Rest
  /\ saveAge' = IF sampleAge < SaveEvery THEN sampleAge ELSE SaveEvery
  /\ unsaved' = IF ok THEN 0 ELSE unsaved
  /\ missed' = ~ok
  /\ UNCHANGED <<stop, link, roundVars, backoff, uptime, slowAge, cycleAge, piaAge,
                 sampleAge, frozen>>

WaitStop ==
  /\ pc = "wait" /\ stop /\ pc' = "leave"
  /\ UNCHANGED <<stop, link, roundVars, backoff, ageVars, energyVars>>

WaitOver ==
  /\ pc = "wait" /\ ~stop /\ cycleAge >= FastInterval /\ pc' = "top"
  /\ UNCHANGED <<stop, link, roundVars, backoff, ageVars, energyVars>>

\* Every step of the coroutines but the save.
Run ==
  \/ RunAsync \/ DialOk \/ DialFails \/ Leave \/ BackoffStop \/ BackoffOver
  \/ CycleStart \/ TopStop \/ PollOk \/ PollFails \/ PollRaises
  \/ PauseStop \/ PauseOver \/ CycleZombie \/ CycleEnd \/ WaitStop \/ WaitOver

Save == \E ok \in BOOLEAN : SaveEnds(ok)

Next == Run \/ Save \/ Tick \/ StopSet \/ LinkDrops

Spec == Init /\ [][Next]_vars

\* The event loop runs, every BLE call and every save ends, time passes.  Nothing
\* says that a connection or a poll ever succeeds.
FairSpec == Spec /\ WF_vars(Run \/ Save) /\ WF_vars(Tick)

(***************************************************************************)
(* Properties.                                                             *)
(***************************************************************************)

\* Type correctness of the coroutines' locals, the remembered times and the
\* energy history.
TypeOK ==
  /\ pc \in {"start", "dial", "top", "poll", "pause", "cycle", "save", "wait",
             "leave", "backoff", "exited"}
  /\ stop \in BOOLEAN /\ link \in BOOLEAN /\ stage \in {"pia", "pib"}
  /\ pack \in Packs /\ slow \in BOOLEAN /\ cycleOk \in BOOLEAN
  /\ failed \in 0..MaxFailed /\ backoff \in InitialBackoff..MaxBackoff
  /\ uptime \in 0..SlowInterval /\ slowAge \in 0..SlowInterval
  /\ cycleAge \in 0..FastInterval
  /\ piaAge \in [Packs -> 0..(StaleTimeout + 1) \union {None}]
  /\ sampleAge \in 0..MaxGap \union {None} /\ saveAge \in 0..SaveEvery
  /\ unsaved \in 0..UnsavedCap /\ missed \in BOOLEAN /\ frozen \in [Packs -> Nat]

\* M6: the last reading of a pack that fell silent is integrated for at most
\* stale_pack_timeout_s, over however many cycles and reconnections.
FrozenBounded == \A p \in Packs : frozen[p] <= StaleTimeout

\* M5: what a crash can lose is less than the 30 s between two saves, plus the gap
\* of the sample being saved, however the cycles, the silent packs and the
\* reconnections fall, unless the last save failed.
UnsavedBounded ==
  missed \/ unsaved < SaveEvery + (IF pc = "save" THEN MaxGap ELSE 0)

\* A link that answers nothing does not spin for ever: the loop reads a pack or
\* dials again, although is_connected still says the link is there.
ZombieLeaves == (pc = "top") ~> (cycleOk \/ pc \in {"dial", "exited"})

\* After stop() the coroutine ends, wherever the event finds it.
StopExits == stop ~> (pc = "exited")

\* The thread as BmsService uses it: the coroutines save where and when BmsThread
\* says and never return without the stop event.
Thread == INSTANCE BmsThread WITH
  phase <- CASE pc = "save" -> "save" [] pc = "exited" -> "returned" [] OTHER -> "await",
  told <- stop, dirty <- unsaved > 0
ThreadImplemented == Thread!ThreadSpec
=============================================================================
