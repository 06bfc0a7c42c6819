-------------------------- MODULE EnergyStoreProofs --------------------------
(***************************************************************************)
(* Theorems about EnergyStore, for any signals, any elapsed-time limit and *)
(* any length of time.                                                     *)
(***************************************************************************)
EXTENDS EnergyStore, TLAPS

(***************************************************************************)
(* The inductive invariant.  A temporary file is renamed only once it is   *)
(* whole, fsynced and equal to the counters; the counters cover no more    *)
(* time than up to the last sample (all of it, before the first sample of  *)
(* a process), and a file no more than the clock.                          *)
(***************************************************************************)
Good(f) == f.kind # "torn" /\ f.synced

Files ==
  /\ Good(file) /\ Good(disk)
  /\ saving = "replace" => tmp = Whole(wh, TRUE)
  /\ exit = "saved" => phase = "down" /\ Restored(file) = wh
  /\ phase = "down" => saving = "no"

Covers(w, time) == \A s \in Signals : w[<<s, "in">>] + w[<<s, "out">>] <= time

Budget ==
  /\ last # None => last <= clock /\ Covers(wh, last)
  /\ Covers(wh, clock) /\ Covers(Restored(file), clock)
  /\ Covers(Restored(disk), clock)

IInv == TypeOK /\ Files /\ Budget

(***************************************************************************)
(* Lemmas.                                                                 *)
(***************************************************************************)

\* The files the code can produce, and what load() makes of each.
LEMMA FileFacts ==
  /\ NoFile \in FileType /\ Torn \in FileType
  /\ \A w \in [Keys -> Nat], b \in BOOLEAN :
       Whole(w, b) \in FileType /\ Restored(Whole(w, b)) = w
  /\ Restored(NoFile) = Zeros /\ Zeros \in [Keys -> Nat]
  /\ \A f \in FileType : Restored(f) \in [Keys -> Nat]
  /\ Good(NoFile) /\ \A w \in [Keys -> Nat] : Good(Whole(w, TRUE))
<1>1. Zeros \in [Keys -> Nat]
  BY DEF Zeros
<1> QED
  BY <1>1 DEF NoFile, Torn, Whole, Restored, FileType, Good

\* update() splits one sample between the two accumulators of its signal.
LEMMA GainFacts ==
  ASSUME NEW power \in [Signals -> {-1, 0, 1}], NEW s \in Signals
  PROVE  /\ Gain(power, <<s, "in">>) \in {0, 1}
         /\ Gain(power, <<s, "out">>) \in {0, 1}
         /\ Gain(power, <<s, "in">>) + Gain(power, <<s, "out">>) <= 1
BY DEF Gain

\* The shape of a key, <<signal, direction>>.
LEMMA KeyFacts ==
  /\ \A s \in Signals : <<s, "in">> \in Keys /\ <<s, "out">> \in Keys
  /\ \A k \in Keys : \E s \in Signals : k = <<s, "in">> \/ k = <<s, "out">>
BY DEF Keys

\* What one sample adds to an accumulator: nothing, or the elapsed time.
LEMMA SampleFacts ==
  ASSUME TypeOK, last # None => last <= clock,
         NEW power \in [Signals -> {-1, 0, 1}]
  PROVE  LET add(k) == IF Integrable(Elapsed) THEN Gain(power, k) * Elapsed ELSE 0
         IN  /\ Elapsed \in Nat /\ (last # None => last + Elapsed = clock)
             /\ \A k \in Keys : add(k) \in Nat
             /\ \A s \in Signals :
                  add(<<s, "in">>) + add(<<s, "out">>) <= Elapsed
             /\ last = None => \A k \in Keys : add(k) = 0
<1> DEFINE add(k) == IF Integrable(Elapsed) THEN Gain(power, k) * Elapsed ELSE 0
<1>1. Elapsed \in Nat /\ (last # None => last + Elapsed = clock)
      /\ (last = None => Elapsed = 0)
  BY DEF Elapsed, TypeOK, None
<1>2. ASSUME NEW s \in Signals
      PROVE  /\ add(<<s, "in">>) \in {0, Elapsed} /\ add(<<s, "out">>) \in {0, Elapsed}
             /\ add(<<s, "in">>) + add(<<s, "out">>) <= Elapsed
  <2>1. \A g \in {0, 1} : g * Elapsed \in {0, Elapsed}
    BY <1>1
  <2>2. /\ Gain(power, <<s, "in">>) \in {0, 1}
        /\ Gain(power, <<s, "out">>) \in {0, 1}
        /\ Gain(power, <<s, "in">>) + Gain(power, <<s, "out">>) <= 1
    BY GainFacts
  <2>3. Gain(power, <<s, "in">>) = 0 \/ Gain(power, <<s, "out">>) = 0
    BY <2>2
  <2>4. 0 * Elapsed = 0
    BY <1>1
  <2> QED
    BY <1>1, <2>1, <2>2, <2>3, <2>4
<1>3. \A k \in Keys : add(k) \in {0, Elapsed}
  BY <1>2, KeyFacts
<1> QED
  BY <1>1, <1>2, <1>3

\* A sample keeps the accumulators natural and within the time they cover.
LEMMA HotCycleFacts ==
  ASSUME IInv, HotCycle
  PROVE  /\ wh' \in [Keys -> Nat] /\ \A k \in Keys : wh'[k] >= wh[k]
         /\ last' = clock /\ Covers(wh', clock)
<1>1. PICK power \in [Signals -> {-1, 0, 1}] :
        wh' = [k \in Keys |->
                 wh[k] + (IF Integrable(Elapsed) THEN Gain(power, k) * Elapsed
                          ELSE 0)]
  BY DEF HotCycle
<1> DEFINE add(k) == IF Integrable(Elapsed) THEN Gain(power, k) * Elapsed ELSE 0
<1>2. /\ Elapsed \in Nat /\ (last # None => last + Elapsed = clock)
      /\ \A k \in Keys : add(k) \in Nat
      /\ \A s \in Signals : add(<<s, "in">>) + add(<<s, "out">>) <= Elapsed
      /\ last = None => \A k \in Keys : add(k) = 0
  BY SampleFacts DEF IInv, Budget
<1>3. wh' = [k \in Keys |-> wh[k] + add(k)]
  BY <1>1
<1> HIDE DEF add
<1>4. wh \in [Keys -> Nat] /\ clock \in Nat /\ last \in Nat \union {None}
  BY DEF IInv, TypeOK
<1>5. wh' \in [Keys -> Nat] /\ \A k \in Keys : wh'[k] >= wh[k]
  BY <1>2, <1>3, <1>4
<1>6. Covers(wh', clock)
  <2> SUFFICES ASSUME NEW s \in Signals
               PROVE  wh'[<<s, "in">>] + wh'[<<s, "out">>] <= clock
    BY DEF Covers
  <2>1. /\ <<s, "in">> \in Keys /\ <<s, "out">> \in Keys
        /\ wh'[<<s, "in">>] = wh[<<s, "in">>] + add(<<s, "in">>)
        /\ wh'[<<s, "out">>] = wh[<<s, "out">>] + add(<<s, "out">>)
    BY <1>3, KeyFacts
  <2>2. wh[<<s, "in">>] \in Nat /\ wh[<<s, "out">>] \in Nat
        /\ add(<<s, "in">>) \in Nat /\ add(<<s, "out">>) \in Nat
    BY <1>2, <1>4, <2>1
  <2>3. CASE last = None
    BY <1>2, <1>4, <2>1, <2>2, <2>3 DEF IInv, Budget, Covers
  <2>4. CASE last # None
    <3>1. wh[<<s, "in">>] + wh[<<s, "out">>] <= last
      BY <2>4 DEF IInv, Budget, Covers
    <3> QED
      BY <1>2, <1>4, <2>1, <2>2, <2>4, <3>1
  <2> QED
    BY <2>3, <2>4
<1> QED
  BY <1>5, <1>6 DEF HotCycle

\* Every step keeps the types.
LEMMA TypeStep == IInv /\ [Next]_vars => TypeOK'
<1> SUFFICES ASSUME IInv, [Next]_vars PROVE TypeOK'
  OBVIOUS
<1> USE FileFacts, ClockAssumption DEF IInv, TypeOK
<1>1. CASE Tick
  BY <1>1 DEF Tick
<1>2. CASE HotCycle
  BY <1>2, HotCycleFacts DEF HotCycle
<1>3. CASE ColdCycle
  BY <1>3 DEF ColdCycle
<1>4. CASE Create
  BY <1>4 DEF Create
<1>5. CASE Write
  BY <1>5 DEF Write
<1>6. CASE Fsync
  BY <1>6 DEF Fsync
<1>7. CASE Replace
  BY <1>7 DEF Replace, SaveReturns
<1>8. CASE SaveFails
  BY <1>8 DEF SaveFails, SaveReturns
<1>9. CASE Sigterm
  BY <1>9 DEF Sigterm
<1>10. CASE Crash
  BY <1>10 DEF Crash
<1>11. CASE Settle
  BY <1>11 DEF Settle
<1>12. CASE PowerCut
  BY <1>12 DEF PowerCut, Files, Good
<1>13. CASE Load
  BY <1>13 DEF Load, Start
<1>14. CASE LoadFails
  BY <1>14 DEF LoadFails, Start
<1>15. CASE UNCHANGED vars
  BY <1>15 DEF vars
<1> QED
  BY <1>1, <1>2, <1>3, <1>4, <1>5, <1>6, <1>7, <1>8, <1>9,
     <1>10, <1>11, <1>12, <1>13, <1>14, <1>15 DEF Next

\* Every step keeps the files whole.
LEMMA FilesStep == IInv /\ [Next]_vars => Files'
<1> SUFFICES ASSUME IInv, [Next]_vars PROVE Files'
  OBVIOUS
<1> USE FileFacts DEF IInv, Files, TypeOK
<1>1. CASE Tick
  BY <1>1 DEF Tick
<1>2. CASE HotCycle
  BY <1>2 DEF HotCycle
<1>3. CASE ColdCycle
  BY <1>3 DEF ColdCycle
<1>4. CASE Create
  BY <1>4 DEF Create
<1>5. CASE Write
  BY <1>5 DEF Write
<1>6. CASE Fsync
  BY <1>6 DEF Fsync
<1>7. CASE Replace
  BY <1>7 DEF Replace, SaveReturns
<1>8. CASE SaveFails
  BY <1>8 DEF SaveFails, SaveReturns
<1>9. CASE Sigterm
  BY <1>9 DEF Sigterm
<1>10. CASE Crash
  BY <1>10 DEF Crash
<1>11. CASE Settle
  BY <1>11 DEF Settle
<1>12. CASE PowerCut
  BY <1>12 DEF PowerCut, Good
<1>13. CASE Load
  BY <1>13 DEF Load, Start
<1>14. CASE LoadFails
  BY <1>14 DEF LoadFails, Start
<1>15. CASE UNCHANGED vars
  BY <1>15 DEF vars
<1> QED
  BY <1>1, <1>2, <1>3, <1>4, <1>5, <1>6, <1>7, <1>8, <1>9,
     <1>10, <1>11, <1>12, <1>13, <1>14, <1>15 DEF Next

\* Zeros cover no time, and what covers no more than now does so later.
LEMMA CoversFacts ==
  /\ \A time \in Nat : Covers(Zeros, time)
  /\ \A w \in [Keys -> Nat], t1, t2 \in Nat :
       Covers(w, t1) /\ t1 <= t2 => Covers(w, t2)
BY KeyFacts DEF Covers, Zeros

\* How one step changes what the budget is about.
Moves ==
  \/ UNCHANGED <<clock, last, wh, file, disk>>
  \/ Tick
  \/ HotCycle
  \/ file' = Whole(wh, TRUE) /\ UNCHANGED <<clock, last, wh, disk>>
  \/ disk' = file /\ UNCHANGED <<clock, last, wh, file>>
  \/ file' = disk /\ disk' = disk /\ UNCHANGED <<clock, last, wh>>
  \/ /\ wh' \in {Zeros, Restored(file)} /\ last' = None
     /\ UNCHANGED <<clock, file, disk>>

\* Every step is one of the Moves.
LEMMA StepMoves == IInv /\ [Next]_vars => Moves
<1> SUFFICES ASSUME IInv, [Next]_vars PROVE Moves
  OBVIOUS
<1>1. CASE Replace
  BY <1>1 DEF Replace, IInv, Files, Moves
<1>2. CASE PowerCut
  BY <1>2 DEF PowerCut, IInv, Files, Good, Moves
<1>3. CASE Settle
  BY <1>3 DEF Settle, Moves
<1>4. CASE Load \/ LoadFails
  BY <1>4 DEF Load, LoadFails, Start, Moves
<1>5. CASE \/ ColdCycle \/ Create \/ Write \/ Fsync \/ SaveFails \/ Sigterm
           \/ Crash \/ UNCHANGED vars
  BY <1>5
  DEF ColdCycle, Create, Write, Fsync, SaveFails, Sigterm, Crash, vars, Moves
<1> QED
  BY <1>1, <1>2, <1>3, <1>4, <1>5 DEF Next, Moves

\* Every step keeps the counters within the time they cover.
LEMMA BudgetStep == IInv /\ [Next]_vars => Budget'
<1> SUFFICES ASSUME IInv, [Next]_vars PROVE Budget'
  OBVIOUS
<1>0. /\ clock \in Nat /\ last \in Nat \union {None} /\ wh \in [Keys -> Nat]
      /\ file \in FileType /\ disk \in FileType
      /\ Restored(file) \in [Keys -> Nat] /\ Restored(disk) \in [Keys -> Nat]
      /\ Budget
  BY FileFacts DEF IInv, TypeOK
<1>1. CASE Tick
  BY <1>0, <1>1, CoversFacts DEF Tick, Budget
<1>2. CASE HotCycle
  BY <1>0, <1>2, HotCycleFacts DEF HotCycle, Budget
<1>3. CASE \/ UNCHANGED <<clock, last, wh, file, disk>>
           \/ file' = Whole(wh, TRUE) /\ UNCHANGED <<clock, last, wh, disk>>
           \/ disk' = file /\ UNCHANGED <<clock, last, wh, file>>
           \/ file' = disk /\ disk' = disk /\ UNCHANGED <<clock, last, wh>>
  BY <1>0, <1>3, FileFacts DEF Budget
<1>4. CASE /\ wh' \in {Zeros, Restored(file)} /\ last' = None
           /\ UNCHANGED <<clock, file, disk>>
  BY <1>0, <1>4, CoversFacts DEF Budget
<1> QED
  BY <1>1, <1>2, <1>3, <1>4, StepMoves DEF Moves

\* The invariant holds at the start and every step keeps it.
LEMMA Inductive == (Init => IInv) /\ (IInv /\ [Next]_vars => IInv')
<1>1. Init => IInv
  <2> SUFFICES ASSUME Init PROVE IInv
    OBVIOUS
  <2>1. TypeOK /\ Files
    BY FileFacts DEF Init, TypeOK, Files
  <2>2. Budget
    BY FileFacts, CoversFacts DEF Init, Budget
  <2> QED
    BY <2>1, <2>2 DEF IInv
<1> QED
  BY <1>1, TypeStep, FilesStep, BudgetStep DEF IInv

(***************************************************************************)
(* Theorems.                                                               *)
(***************************************************************************)

\* Type correctness of the integrator and its files in every reachable state.
THEOREM TypeCorrect == Spec => []TypeOK
BY Inductive, PTL DEF Spec, IInv

\* Whatever interrupts save(), the file at persist_path is never torn.
THEOREM FileIsAlwaysWhole == Spec => []AlwaysWhole
<1>1. IInv => AlwaysWhole
  BY DEF IInv, Files, Good, AlwaysWhole
<1> QED
  BY <1>1, Inductive, PTL DEF Spec

\* No stretch of time is integrated twice, whatever crashes and restarts.
THEOREM NothingCountedTwice == Spec => []NoDoubleCount
<1>1. IInv => NoDoubleCount
  BY DEF IInv, Budget, Covers, NoDoubleCount
<1> QED
  BY <1>1, Inductive, PTL DEF Spec

\* An orderly stop whose save succeeded keeps every counter.
THEOREM CleanStopLosesNothing == Spec => []CleanStopKeeps
<1>1. IInv => CleanStopKeeps
  BY DEF IInv, Files, CleanStopKeeps
<1> QED
  BY <1>1, Inductive, PTL DEF Spec

\* Memory is never behind the file, nor the file behind what a power cut leaves,
\* since no start has failed to read the file.
Ahead ==
  unread \/ (Behind(Restored(disk), Restored(file)) /\ Behind(Restored(file), wh))

\* The order of two counters.
LEMMA BehindFacts ==
  /\ \A v \in [Keys -> Nat] : Behind(v, v)
  /\ \A u, v, w \in [Keys -> Nat] : Behind(u, v) /\ Behind(v, w) => Behind(u, w)
<1>1. \A v \in [Keys -> Nat] : Behind(v, v)
  BY DEF Behind
<1>2. ASSUME NEW u \in [Keys -> Nat], NEW v \in [Keys -> Nat], NEW w \in [Keys -> Nat],
             Behind(u, v), Behind(v, w)
      PROVE  Behind(u, w)
  BY <1>2 DEF Behind
<1> QED
  BY <1>1, <1>2

\* A step keeps that order, and moves neither file backwards but for a power cut.
LEMMA AheadStep ==
  ASSUME IInv, Ahead, [Next]_vars
  PROVE  /\ Ahead'
         /\ Behind(Restored(file), Restored(file')) \/ PowerCut \/ unread
         /\ Behind(Restored(disk), Restored(disk')) \/ unread
<1>0. /\ wh \in [Keys -> Nat] /\ Restored(file) \in [Keys -> Nat]
      /\ Restored(disk) \in [Keys -> Nat]
  BY FileFacts DEF IInv, TypeOK
<1>1. CASE HotCycle
  <2>1. wh' \in [Keys -> Nat] /\ Behind(wh, wh') /\ UNCHANGED <<file, disk, unread>>
    BY <1>0, <1>1, HotCycleFacts DEF HotCycle, Behind
  <2> QED
    BY <1>0, <2>1, BehindFacts DEF Ahead
<1>2. CASE Replace
  <2>1. file' = Whole(wh, TRUE) /\ UNCHANGED <<wh, disk, unread>>
    BY <1>2 DEF Replace, IInv, Files
  <2>2. Restored(file') = wh
    BY <1>0, <2>1, FileFacts
  <2> QED
    BY <1>0, <2>1, <2>2, BehindFacts DEF Ahead
<1>3. CASE Settle
  <2>1. disk' = file /\ UNCHANGED <<wh, file, unread>>
    BY <1>3 DEF Settle
  <2> QED
    BY <1>0, <2>1, BehindFacts DEF Ahead
<1>4. CASE PowerCut
  <2>1. file' = disk /\ disk' = disk /\ UNCHANGED <<wh, unread>>
    BY <1>4 DEF PowerCut, IInv, Files, Good
  <2> QED
    BY <1>0, <1>4, <2>1, BehindFacts DEF Ahead
<1>5. CASE Load
  <2>1. wh' = Restored(file) /\ UNCHANGED <<file, disk, unread>>
    BY <1>5 DEF Load, Start
  <2> QED
    BY <1>0, <2>1, BehindFacts DEF Ahead
<1>6. CASE LoadFails
  <2>1. unread' /\ UNCHANGED <<file, disk>>
    BY <1>6 DEF LoadFails, Start
  <2> QED
    BY <1>0, <2>1, BehindFacts DEF Ahead
<1>7. CASE UNCHANGED <<wh, file, disk, unread>>
  BY <1>0, <1>7, BehindFacts DEF Ahead
<1>8. CASE \/ Tick \/ ColdCycle \/ Create \/ Write \/ Fsync \/ SaveFails
           \/ Sigterm \/ Crash \/ UNCHANGED vars
  BY <1>7, <1>8
  DEF Tick, ColdCycle, Create, Write, Fsync, SaveFails, Sigterm, Crash, vars
<1> QED
  BY <1>1, <1>2, <1>3, <1>4, <1>5, <1>6, <1>8 DEF Next

\* The saved counters never run backwards while every start could read the file,
\* and a power cut goes back no further than the last committed rename.
THEOREM CountersNeverRunBackwards == Spec => NeverBackwards
<1>1. Init => Ahead
  BY FileFacts, BehindFacts DEF Init, Ahead
<1>2. IInv /\ Ahead /\ [Next]_vars => Ahead'
  BY AheadStep
<1>3. IInv /\ Ahead /\ [Next]_vars =>
        [/\ Behind(Restored(file), Restored(file')) \/ PowerCut \/ unread
         /\ Behind(Restored(disk), Restored(disk')) \/ unread]_vars
  BY AheadStep
<1> QED
  BY <1>1, <1>2, <1>3, Inductive, PTL DEF Spec, NeverBackwards

\* The system calls of save(), with every interruption, implement the atomic
\* commit of EnergyCounter.
THEOREM SaveIsAtomic == Spec => AtomicSave
<1>1. Init => Abstract!CInit
  BY FileFacts DEF Init, Abstract!CInit, Abstract!Zero, Zeros
<1>2. IInv /\ [Next]_vars => [Abstract!CNext]_(Abstract!cvars)
  <2> SUFFICES ASSUME IInv, [Next]_vars
               PROVE  [Abstract!CNext]_(Abstract!cvars)
    OBVIOUS
  <2> USE DEF Abstract!CNext, Abstract!cvars
  <2>1. CASE HotCycle
    BY <2>1, HotCycleFacts DEF HotCycle, Abstract!Accrue, Abstract!Counters
  <2>2. CASE Replace
    <3>1. file' = Whole(wh, TRUE) /\ wh \in [Keys -> Nat]
      BY <2>2 DEF Replace, IInv, Files, TypeOK
    <3>2. Restored(file)' = wh
      BY <3>1, FileFacts
    <3> QED
      BY <2>2, <3>2 DEF Replace, Abstract!Commit
  <2>3. CASE Settle
    BY <2>3 DEF Settle, Abstract!Settle
  <2>4. CASE PowerCut
    BY <2>4 DEF PowerCut, IInv, Files, Good, Abstract!PowerCut
  <2>5. CASE Load
    BY <2>5 DEF Load, Start, Abstract!Restore
  <2>6. CASE LoadFails
    BY <2>6 DEF LoadFails, Start, Abstract!Forget, Abstract!Zero, Zeros
  <2>7. CASE UNCHANGED <<wh, file, disk>>
    BY <2>7
  <2>8. CASE \/ Tick \/ ColdCycle \/ Create \/ Write \/ Fsync \/ SaveFails
             \/ Sigterm \/ Crash \/ UNCHANGED vars
    BY <2>7, <2>8
    DEF Tick, ColdCycle, Create, Write, Fsync, SaveFails, Sigterm, Crash, vars
  <2> QED
    BY <2>1, <2>2, <2>3, <2>4, <2>5, <2>6, <2>8 DEF Next
<1> QED
  BY <1>1, <1>2, Inductive, PTL DEF Spec, AtomicSave, Abstract!CSpec
=============================================================================
