-------------------------- MODULE BmsPollingProofs --------------------------
(***************************************************************************)
(* Theorems about BmsPolling, for any number of packs the code allows and  *)
(* any intervals, limits and backoffs.                                     *)
(***************************************************************************)
EXTENDS BmsPolling, TLAPS

(***************************************************************************)
(* The inductive invariant.  The time integrated with a pack's last        *)
(* reading lies between that reading and the last sample; the time         *)
(* integrated since the last save lies between that save and the last      *)
(* sample, as long as the save is not due.                                 *)
(***************************************************************************)

\* Age of the last sample; before the first one nothing is integrated.
SinceSample == IF sampleAge = None THEN 0 ELSE sampleAge

\* The part of the age of p's reading that is not integrated yet.
Pending(p) == IF SinceSample < piaAge[p] THEN SinceSample ELSE piaAge[p]

FrozenPart ==
  \A p \in Packs :
    /\ frozen[p] <= StaleTimeout
    /\ piaAge[p] = None => frozen[p] = 0
    /\ piaAge[p] # None /\ piaAge[p] <= StaleTimeout => frozen[p] + Pending(p) <= piaAge[p]

UnsavedPart ==
  missed \/ /\ saveAge < SaveEvery => unsaved + SinceSample <= saveAge
            /\ pc # "save" => unsaved < SaveEvery
            /\ unsaved < SaveEvery + MaxGap

\* The save comes after a sample.
SavePart == pc = "save" => sampleAge # None

\* failed_cycles stays below its limit while _poll_loop runs.
FailedPart ==
  pc \in {"top", "poll", "pause", "cycle", "save", "wait"} => failed < MaxFailed

IInv == TypeOK /\ FailedPart /\ FrozenPart /\ UnsavedPart /\ SavePart

(***************************************************************************)
(* Lemmas.                                                                 *)
(***************************************************************************)

\* The constants as the provers need them.
LEMMA ConstantFacts ==
  /\ FastInterval \in Nat /\ FastInterval > 0 /\ SlowInterval \in Nat /\ SlowInterval > 0
  /\ StaleTimeout \in Nat /\ StaleTimeout > 0 /\ MaxGap \in Nat /\ MaxGap > 0
  /\ SaveEvery \in Nat /\ SaveEvery > 0 /\ SaveEvery <= MaxGap
  /\ MaxFailed \in Nat /\ MaxFailed > 0 /\ PackCount \in Nat /\ PackCount > 0
  /\ InitialBackoff \in Nat /\ InitialBackoff > 0 /\ MaxBackoff \in Nat
  /\ InitialBackoff <= MaxBackoff
BY PacksAssumption, IntervalsAssumption, SaveAssumption, FailedAssumption, BackoffAssumption

\* The steps that leave the energy history and the ages alone.
Quiet ==
  \/ StopSet \/ LinkDrops \/ RunAsync \/ DialFails \/ Leave \/ BackoffStop \/ BackoffOver
  \/ TopStop \/ PollFails \/ PollRaises \/ PauseStop \/ PauseOver \/ CycleZombie
  \/ WaitStop \/ WaitOver \/ DialOk \/ CycleStart \/ UNCHANGED vars

\* They also neither begin nor end a save.
LEMMA QuietFacts ==
  ASSUME Quiet
  PROVE  /\ UNCHANGED <<piaAge, sampleAge, saveAge, unsaved, missed, frozen>>
         /\ pc' = "save" <=> pc = "save"
BY DEF Quiet, StopSet, LinkDrops, RunAsync, DialFails, Leave, BackoffStop, BackoffOver,
       TopStop, PollFails, PollRaises, PauseStop, PauseOver, CycleZombie, WaitStop,
       WaitOver, DialOk, CycleStart, vars, ageVars, energyVars

\* Every step is one of these.
LEMMA StepCases ==
  ASSUME [Next]_vars
  PROVE  Quiet \/ Tick \/ PollOk \/ CycleEnd \/ (\E ok \in BOOLEAN : SaveEnds(ok))
BY DEF Next, Run, Save, Quiet

\* The bounds of the locals.
LEMMA TypeStep == TypeOK /\ SavePart /\ FailedPart /\ [Next]_vars => TypeOK'
<1> SUFFICES ASSUME TypeOK, SavePart, FailedPart, [Next]_vars PROVE TypeOK'
  OBVIOUS
<1> USE ConstantFacts DEF TypeOK
<1>1. CASE Tick
  <2>1. /\ uptime' \in 0..SlowInterval /\ slowAge' \in 0..SlowInterval
        /\ cycleAge' \in 0..FastInterval /\ saveAge' \in 0..SaveEvery
        /\ sampleAge' \in 0..MaxGap \union {None}
    BY <1>1 DEF Tick, Older, None
  <2>2. piaAge' \in [Packs -> 0..(StaleTimeout + 1) \union {None}]
    BY <1>1 DEF Tick, Older, None
  <2> QED
    BY <1>1, <2>1, <2>2 DEF Tick, roundVars, energyVars
<1>2. CASE PollOk
  <2>1. piaAge' \in [Packs -> 0..(StaleTimeout + 1) \union {None}]
    BY <1>2 DEF PollOk
  <2>2. frozen' \in [Packs -> Nat]
    BY <1>2 DEF PollOk
  <2> QED
    BY <1>2, <2>1, <2>2 DEF PollOk
<1>3. CASE CycleEnd
  <2>1. failed' \in 0..MaxFailed
    BY <1>3 DEF CycleEnd, Zombie
  <2>2. sampleAge' = 0
    BY <1>3 DEF CycleEnd, Integrate
  <2>3. CASE sampleAge = None \/ Fresh = {}
    BY <1>3, <2>1, <2>2, <2>3 DEF CycleEnd, Integrate, Rest
  <2>4. CASE sampleAge # None /\ Fresh # {}
    <3>1. Gap \in Nat
      BY <2>4 DEF Gap
    <3>2. frozen' \in [Packs -> Nat]
      <4>1. \A p \in Packs : p \in Fresh => piaAge[p] \in Nat
        BY DEF Fresh
      <4> QED
        BY <1>3, <2>4, <3>1, <4>1 DEF CycleEnd, Integrate
    <3>3. unsaved' \in 0..UnsavedCap
      BY <1>3, <2>4, <3>1 DEF CycleEnd, Integrate, UnsavedCap
    <3> QED
      BY <1>3, <2>1, <2>2, <3>2, <3>3 DEF CycleEnd, Rest
  <2> QED
    BY <2>3, <2>4
<1>4. ASSUME NEW ok \in BOOLEAN, SaveEnds(ok) PROVE TypeOK'
  <2>1. saveAge' \in 0..SaveEvery
    BY <1>4 DEF SaveEnds, SavePart
  <2>2. unsaved' \in 0..UnsavedCap
    BY <1>4 DEF SaveEnds, UnsavedCap
  <2>3. missed' \in BOOLEAN
    BY <1>4 DEF SaveEnds
  <2> QED
    BY <1>4, <2>1, <2>2, <2>3 DEF SaveEnds, Rest, roundVars
<1>5. CASE Quiet
  <2>1. CASE BackoffOver
    BY <2>1 DEF BackoffOver, roundVars, ageVars, energyVars
  <2>2. CASE PauseOver
    BY <2>2 DEF PauseOver, ageVars, energyVars, Packs
  <2>3. CASE CycleZombie
    <3>1. failed < MaxFailed
      BY <2>3 DEF CycleZombie, FailedPart
    <3> QED
      BY <2>3, <3>1 DEF CycleZombie, ageVars, energyVars
  <2>4. CASE DialOk
    BY <2>4 DEF DialOk, energyVars
  <2>6. CASE CycleStart
    <3>1. slow' \in BOOLEAN
      BY <2>6 DEF CycleStart
    <3>2. slowAge' \in 0..SlowInterval
      BY <2>6 DEF CycleStart
    <3>3. /\ pc' = "poll" /\ stage' = "pia" /\ pack' \in Packs /\ cycleAge' = 0
          /\ UNCHANGED <<stop, link, failed, backoff, uptime, piaAge, sampleAge, saveAge,
                         unsaved, missed, frozen>>
      BY <2>6 DEF CycleStart, energyVars, Packs
    <3>4. cycleOk' \in BOOLEAN
      BY <2>6 DEF CycleStart
    <3> QED
      BY <3>1, <3>2, <3>3, <3>4
  <2>5. CASE \/ StopSet \/ LinkDrops \/ RunAsync \/ DialFails \/ Leave \/ BackoffStop
             \/ TopStop \/ PollFails \/ PollRaises \/ PauseStop \/ WaitStop \/ WaitOver
             \/ UNCHANGED vars
    <3>1. UNCHANGED <<roundVars, backoff, ageVars, energyVars>>
      BY <2>5 DEF StopSet, LinkDrops, RunAsync, DialFails, Leave, BackoffStop, TopStop,
                  PollFails, PollRaises, PauseStop, WaitStop, WaitOver, vars,
                  roundVars, ageVars, energyVars
    <3>2. pc' \in {pc, "exited", "dial", "backoff", "leave", "pause", "top"}
      BY <2>5 DEF StopSet, LinkDrops, RunAsync, DialFails, Leave, BackoffStop, TopStop,
                  PollFails, PollRaises, PauseStop, WaitStop, WaitOver, vars
    <3>3. stop' \in BOOLEAN /\ link' \in BOOLEAN
      BY <2>5 DEF StopSet, LinkDrops, RunAsync, DialFails, Leave, BackoffStop, TopStop,
                  PollFails, PollRaises, PauseStop, WaitStop, WaitOver, vars
    <3> QED
      BY <3>1, <3>2, <3>3 DEF roundVars, ageVars, energyVars
  <2> QED
    BY <1>5, <2>1, <2>2, <2>3, <2>4, <2>5, <2>6 DEF Quiet
<1> QED
  BY <1>1, <1>2, <1>3, <1>4, <1>5, StepCases

\* A sample precedes every save.
LEMMA SaveStep == TypeOK /\ SavePart /\ [Next]_vars => SavePart'
<1> SUFFICES ASSUME TypeOK, SavePart, [Next]_vars PROVE SavePart'
  OBVIOUS
<1>1. CASE Tick
  BY <1>1, ConstantFacts DEF Tick, SavePart, TypeOK, Older, None
<1>2. CASE PollOk
  BY <1>2 DEF PollOk, SavePart
<1>3. CASE CycleEnd
  BY <1>3 DEF CycleEnd, Integrate, SavePart, None
<1>4. ASSUME NEW ok \in BOOLEAN, SaveEnds(ok) PROVE SavePart'
  BY <1>4 DEF SaveEnds, SavePart, Rest
<1>5. CASE Quiet
  BY <1>5, QuietFacts DEF SavePart
<1> QED
  BY <1>1, <1>2, <1>3, <1>4, <1>5, StepCases

\* A cycle without a reading either ends the loop or leaves the count below its limit.
LEMMA FailedStep == TypeOK /\ FailedPart /\ [Next]_vars => FailedPart'
<1> SUFFICES ASSUME TypeOK, FailedPart, [Next]_vars PROVE FailedPart'
  OBVIOUS
<1>1. CASE DialOk
  BY <1>1, ConstantFacts DEF DialOk, FailedPart
<1>2. CASE CycleEnd
  BY <1>2, ConstantFacts DEF CycleEnd, Zombie, FailedPart, TypeOK
<1>3. CASE UNCHANGED <<pc, failed>>
  BY <1>3 DEF FailedPart
<1>4. CASE Tick \/ StopSet \/ LinkDrops \/ UNCHANGED vars
  BY <1>3, <1>4 DEF Tick, StopSet, LinkDrops, roundVars, vars
<1>5. CASE RunAsync \/ DialFails \/ Leave \/ BackoffStop \/ BackoffOver \/ TopStop
           \/ PollRaises \/ PauseStop \/ CycleZombie \/ WaitStop
  BY <1>5 DEF RunAsync, DialFails, Leave, BackoffStop, BackoffOver, TopStop, PollRaises,
              PauseStop, CycleZombie, WaitStop, FailedPart
<1>6. CASE \/ CycleStart \/ PollOk \/ PollFails \/ PauseOver \/ WaitOver
           \/ (\E ok \in BOOLEAN : SaveEnds(ok))
  BY <1>6 DEF CycleStart, PollOk, PollFails, PauseOver, WaitOver, SaveEnds, roundVars,
              FailedPart
<1> QED
  BY <1>1, <1>2, <1>4, <1>5, <1>6 DEF Next, Run, Save

\* A reading is integrated from its arrival to the last sample at most.
LEMMA FrozenStep == TypeOK /\ FrozenPart /\ [Next]_vars => FrozenPart'
<1> SUFFICES ASSUME TypeOK, FrozenPart, [Next]_vars, NEW p \in Packs
             PROVE  /\ frozen'[p] <= StaleTimeout
                    /\ piaAge'[p] = None => frozen'[p] = 0
                    /\ piaAge'[p] # None /\ piaAge'[p] <= StaleTimeout
                         => frozen'[p] + Pending(p)' <= piaAge'[p]
  BY DEF FrozenPart
<1>0. /\ frozen[p] \in Nat /\ frozen[p] <= StaleTimeout
      /\ piaAge[p] \in 0..(StaleTimeout + 1) \union {None}
      /\ sampleAge \in 0..MaxGap \union {None}
      /\ piaAge[p] = None => frozen[p] = 0
      /\ piaAge[p] # None /\ piaAge[p] <= StaleTimeout => frozen[p] + Pending(p) <= piaAge[p]
  BY DEF TypeOK, FrozenPart
<1> USE ConstantFacts
<1>1. CASE Tick
  <2>1. /\ piaAge'[p] = Older(piaAge[p], StaleTimeout + 1)
        /\ sampleAge' = Older(sampleAge, MaxGap) /\ frozen'[p] = frozen[p]
    BY <1>1 DEF Tick, energyVars
  <2> QED
    BY <1>0, <2>1 DEF Older, Pending, SinceSample, None
<1>2. CASE PollOk
  <2>1. \/ frozen'[p] = 0 /\ piaAge'[p] = 0
        \/ frozen'[p] = frozen[p] /\ piaAge'[p] = piaAge[p]
    BY <1>2 DEF PollOk, TypeOK
  <2>2. sampleAge' = sampleAge
    BY <1>2 DEF PollOk
  <2> QED
    BY <1>0, <2>1, <2>2 DEF Pending, SinceSample, None
<1>3. CASE CycleEnd
  <2>1. sampleAge' = 0 /\ piaAge'[p] = piaAge[p]
    BY <1>3 DEF CycleEnd, Integrate
  <2>2. Pending(p)' <= 0 \/ piaAge[p] = None
    BY <1>0, <2>1 DEF Pending, SinceSample, None
  <2>3. CASE frozen'[p] = frozen[p]
    BY <1>0, <2>1, <2>3 DEF Pending, SinceSample, None
  <2>4. CASE /\ sampleAge # None /\ p \in Fresh
             /\ frozen'[p] = frozen[p] + (IF Gap < piaAge[p] THEN Gap ELSE piaAge[p])
    BY <1>0, <2>1, <2>4 DEF Pending, SinceSample, Gap, Fresh, None
  <2> QED
    BY <1>3, <2>3, <2>4 DEF CycleEnd, Integrate
<1>4. ASSUME NEW ok \in BOOLEAN, SaveEnds(ok) PROVE UNCHANGED <<frozen, piaAge, sampleAge>>
  BY <1>4 DEF SaveEnds
<1>6. CASE UNCHANGED <<frozen, piaAge, sampleAge>>
  BY <1>0, <1>6 DEF Pending, SinceSample
<1>5. CASE Quiet
  BY <1>5, <1>6, QuietFacts
<1> QED
  BY <1>1, <1>2, <1>3, <1>4, <1>5, <1>6, StepCases

\* What is integrated since the last save fits between that save and the last
\* sample until the next save is due, and then the next sample saves it.
LEMMA UnsavedStep == TypeOK /\ SavePart /\ UnsavedPart /\ [Next]_vars => UnsavedPart'
<1> SUFFICES ASSUME TypeOK, SavePart, UnsavedPart, [Next]_vars PROVE UnsavedPart'
  OBVIOUS
<1>0. /\ unsaved \in 0..(SaveEvery + MaxGap) /\ saveAge \in 0..SaveEvery
      /\ sampleAge \in 0..MaxGap \union {None} /\ missed \in BOOLEAN
  BY DEF TypeOK, UnsavedCap
<1> USE ConstantFacts
<1>1. CASE Tick
  <2>1. /\ saveAge' = Older(saveAge, SaveEvery) /\ sampleAge' = Older(sampleAge, MaxGap)
        /\ UNCHANGED <<unsaved, missed, pc>>
    BY <1>1 DEF Tick, energyVars
  <2> QED
    BY <1>0, <2>1 DEF UnsavedPart, SinceSample, Older, None
<1>2. CASE PollOk
  BY <1>0, <1>2 DEF PollOk, UnsavedPart, SinceSample
<1>3. CASE CycleEnd
  <2>1. /\ sampleAge' = 0 /\ pc = "cycle" /\ UNCHANGED <<missed, saveAge>>
        /\ pc' = IF sampleAge # None /\ Fresh # {} /\ SaveDue THEN "save" ELSE Rest
    BY <1>3 DEF CycleEnd, Integrate
  <2>2. CASE sampleAge = None \/ Fresh = {}
    <3>1. unsaved' = unsaved
      BY <1>3, <2>2 DEF CycleEnd, Integrate
    <3> QED
      BY <1>0, <2>1, <3>1 DEF UnsavedPart, SinceSample, None
  <2>3. CASE sampleAge # None /\ Fresh # {}
    <3>1. unsaved' = IF unsaved + Gap < UnsavedCap THEN unsaved + Gap ELSE UnsavedCap
      BY <1>3, <2>3 DEF CycleEnd, Integrate
    <3>2. Gap \in Nat /\ Gap < MaxGap /\ Gap <= sampleAge
      BY <1>0, <2>3 DEF Gap, None
    <3>3. CASE saveAge < SaveEvery
      BY <1>0, <2>1, <2>3, <3>1, <3>2, <3>3 DEF UnsavedPart, SinceSample, UnsavedCap, None
    <3>4. CASE saveAge = SaveEvery
      <4>1. pc' = "save"
        BY <2>1, <2>3, <3>4 DEF SaveDue
      <4> QED
        BY <1>0, <2>1, <3>1, <3>2, <3>4, <4>1 DEF UnsavedPart, UnsavedCap
    <3> QED
      BY <1>0, <3>3, <3>4
  <2> QED
    BY <2>2, <2>3
<1>4. ASSUME NEW ok \in BOOLEAN, SaveEnds(ok) PROVE UnsavedPart'
  <2>1. sampleAge' = sampleAge /\ sampleAge \in Nat
    BY <1>0, <1>4 DEF SaveEnds, SavePart, None
  <2>2. CASE ok
    BY <1>0, <1>4, <2>1, <2>2 DEF SaveEnds, UnsavedPart, SinceSample, None
  <2>3. CASE ~ok
    BY <1>4, <2>3 DEF SaveEnds, UnsavedPart
  <2> QED
    BY <2>2, <2>3
<1>5. CASE Quiet
  BY <1>0, <1>5, QuietFacts DEF UnsavedPart, SinceSample
<1> QED
  BY <1>1, <1>2, <1>3, <1>4, <1>5, StepCases

\* The invariant holds at the start and every step keeps it.
LEMMA Inductive == (Init => IInv) /\ (IInv /\ [Next]_vars => IInv')
<1>1. Init => IInv
  <2> SUFFICES ASSUME Init PROVE IInv
    OBVIOUS
  <2>1. TypeOK
    <3>1. uptime \in 0..SlowInterval
      BY DEF Init
    <3>2. pack \in Packs /\ backoff \in InitialBackoff..MaxBackoff
      BY ConstantFacts DEF Init, Packs
    <3>3. /\ stop \in BOOLEAN /\ link \in BOOLEAN /\ slow \in BOOLEAN
          /\ cycleOk \in BOOLEAN /\ missed \in BOOLEAN
      BY DEF Init
    <3>4. /\ pc = "start" /\ stage = "pia" /\ failed = 0 /\ slowAge = 0 /\ cycleAge = 0
          /\ piaAge = [p \in Packs |-> None] /\ sampleAge = None /\ saveAge = 0
          /\ unsaved = 0 /\ frozen = [p \in Packs |-> 0]
      BY DEF Init
    <3> QED
      BY <3>1, <3>2, <3>3, <3>4, ConstantFacts DEF TypeOK, UnsavedCap
  <2>2. FailedPart /\ FrozenPart /\ UnsavedPart /\ SavePart
    BY ConstantFacts DEF Init, FailedPart, FrozenPart, Pending, UnsavedPart, SavePart, SinceSample, None
  <2> QED
    BY <2>1, <2>2 DEF IInv
<1> QED
  BY <1>1, TypeStep, SaveStep, FailedStep, FrozenStep, UnsavedStep DEF IInv

(***************************************************************************)
(* Theorems.                                                               *)
(***************************************************************************)

\* Type correctness of the BMS thread in every reachable state.
THEOREM TypeCorrect == Spec => []TypeOK
BY Inductive, PTL DEF Spec, IInv

\* A silent pack's last reading is integrated for at most stale_pack_timeout_s,
\* over however many cycles, reconnections and gaps.
THEOREM FrozenIsBounded == Spec => []FrozenBounded
<1>1. IInv => FrozenBounded
  BY DEF IInv, FrozenPart, FrozenBounded
<1> QED
  BY <1>1, Inductive, PTL DEF Spec

\* A crash loses less than one save interval, plus the sample being saved, as
\* long as the last save succeeded.
THEOREM UnsavedIsBounded == Spec => []UnsavedBounded
<1>1. IInv => UnsavedBounded
  BY ConstantFacts DEF IInv, TypeOK, UnsavedPart, UnsavedBounded
<1> QED
  BY <1>1, Inductive, PTL DEF Spec

\* The coroutines, with every interval and every backoff, are the thread that
\* BmsService relies on.
THEOREM ThreadIsImplemented == Spec => ThreadImplemented
<1>1. Init => Thread!ThreadInit
  BY DEF Init, Thread!ThreadInit
<1>2. IInv /\ [Next]_vars => [Thread!ThreadNext]_(Thread!threadVars)
  <2> SUFFICES ASSUME IInv, [Next]_vars
               PROVE  [Thread!ThreadNext]_(Thread!threadVars)
    OBVIOUS
  <2> USE DEF Thread!ThreadNext, Thread!threadVars
  <2>1. CASE StopSet
    BY <2>1 DEF StopSet, energyVars, Thread!Tell
  <2>2. CASE BackoffStop
    BY <2>2 DEF BackoffStop, energyVars, Thread!Returns
  <2>3. CASE RunAsync
    BY <2>3 DEF RunAsync, energyVars, Thread!Returns
  <2>4. CASE CycleEnd
    <3>1. unsaved' >= unsaved /\ unsaved \in Nat /\ unsaved' \in Nat
      <4>1. CASE sampleAge = None \/ Fresh = {}
        BY <2>4, <4>1 DEF CycleEnd, Integrate, IInv, TypeOK
      <4>2. CASE sampleAge # None /\ Fresh # {}
        <5>1. Gap \in Nat
          BY <4>2, ConstantFacts DEF IInv, TypeOK, Gap
        <5> QED
          BY <2>4, <4>2, <5>1, ConstantFacts DEF CycleEnd, Integrate, IInv, TypeOK, UnsavedCap
      <4> QED
        BY <4>1, <4>2
    <3>2. (unsaved > 0)' \in {unsaved > 0, TRUE}
      <4>1. (unsaved > 0)' = (unsaved > 0) \/ (unsaved > 0)' = TRUE
        BY <3>1
      <4> QED
        BY <4>1, Zenon
    <3> QED
      BY <2>4, <3>2 DEF CycleEnd, Rest, Thread!Integrates
  <2>5. ASSUME NEW ok \in BOOLEAN, SaveEnds(ok) PROVE Thread!SaveReturns(ok)
    BY <2>5, ConstantFacts DEF SaveEnds, Rest, IInv, TypeOK, UnsavedCap, Thread!SaveReturns
  <2>6. CASE UNCHANGED <<stop, unsaved, missed>> /\ pc # "save" /\ pc' # "save"
               /\ pc # "exited" /\ pc' # "exited"
    BY <2>6
  <2>7. CASE Tick \/ UNCHANGED vars \/ LinkDrops
    BY <2>7 DEF Tick, LinkDrops, vars, energyVars
  <2>8. CASE \/ DialOk \/ DialFails \/ Leave \/ BackoffOver \/ CycleStart \/ TopStop
             \/ PollOk \/ PollFails \/ PollRaises \/ PauseStop \/ PauseOver
             \/ CycleZombie \/ WaitStop \/ WaitOver
    BY <2>6, <2>8 DEF DialOk, DialFails, Leave, BackoffOver, CycleStart, TopStop, PollOk,
       PollFails, PollRaises, PauseStop, PauseOver, CycleZombie, WaitStop, WaitOver,
       energyVars
  <2> QED
    BY <2>1, <2>2, <2>3, <2>4, <2>5, <2>7, <2>8 DEF Next, Run, Save
<1> QED
  BY <1>1, <1>2, Inductive, PTL DEF Spec, ThreadImplemented, Thread!ThreadSpec
=============================================================================
