----------------------------- MODULE EnergyStore -----------------------------
(***************************************************************************)
(* The energy integrator (inverter_bridge/energy_integrator.py) as the     *)
(* daemon drives it: one sample per hot cycle, a save per cold cycle and   *)
(* one at the orderly stop, a load at the start.  save() is taken apart    *)
(* into its system calls, so that a SIGTERM, a crash, a power cut or an    *)
(* OSError falls between any two of them.                                  *)
(*                                                                         *)
(* One unit of energy is one unit of power for one tick.  Power is signed: *)
(* positive goes to the "in" accumulator of its signal, negative to "out". *)
(* pv_power and load_power have no "out" accumulator: theirs stays 0.      *)
(***************************************************************************)
EXTENDS Integers

CONSTANTS
  Signed,      \* battery_power, grid_power
  Unsigned,    \* pv_power, load_power
  MaxElapsed,  \* _MAX_ELAPSED_S, in ticks
  MaxClock     \* bound: ticks of the monotonic clock

Signals == Signed \union Unsigned
Keys == Signals \X {"in", "out"}

ASSUME SignalsAssumption == Signed \intersect Unsigned = {}
ASSUME ElapsedAssumption == MaxElapsed \in Nat \ {0}
ASSUME ClockAssumption == MaxClock \in Nat

VARIABLES
  clock,   \* time.monotonic()
  last,    \* _last_hot_cycle_monotonic; -1 for None
  wh,      \* _wh
  phase,   \* the process: running, in its finally block, gone
  saving,  \* the next system call of save(), or "no"
  tmp,     \* the temporary file of the running save
  orphans, \* are temporary files left that nothing will remove
  file,    \* the file at persist_path
  disk,    \* the file a power cut would leave there
  exit,    \* history: how the last process ended
  unread   \* history: a start could not read an existing file

vars == <<clock, last, wh, phase, saving, tmp, orphans, file, disk, exit, unread>>

Zeros == [k \in Keys |-> 0]
None == -1

\* A file: absent, cut short, or a whole JSON document with its fsync.
NoFile == [kind |-> "none", synced |-> TRUE, data |-> Zeros]
Torn == [kind |-> "torn", synced |-> FALSE, data |-> Zeros]
Whole(w, sync) == [kind |-> "whole", synced |-> sync, data |-> w]

\* load(): anything but a whole document is read as zeros.
Restored(f) == IF f.kind = "whole" THEN f.data ELSE Zeros

Init ==
  /\ clock = 0 /\ last = None /\ wh = Zeros
  /\ phase = "run" /\ saving = "no" /\ tmp = NoFile /\ orphans = FALSE
  /\ file = NoFile /\ disk = NoFile
  /\ exit = "none" /\ unread = FALSE

Tick ==
  /\ clock < MaxClock /\ clock' = clock + 1
  /\ UNCHANGED <<last, wh, phase, saving, tmp, orphans, file, disk, exit, unread>>

(***************************************************************************)
(* update(): one sample of power per signal over the time since the last   *)
(* hot cycle; the first cycle of a process has elapsed_s = 0.              *)
(***************************************************************************)
Elapsed == IF last = None THEN 0 ELSE clock - last

\* 0 < elapsed_s <= _MAX_ELAPSED_S, else a clock anomaly: nothing integrated.
Integrable(e) == e > 0 /\ e <= MaxElapsed

\* Mutant of Gain: the sign of a discharge is lost.
GainSigned(power, k) ==
  IF k[2] = "in" THEN IF power[k[1]] > 0 THEN power[k[1]] ELSE 0
  ELSE IF k[1] \in Signed /\ power[k[1]] < 0 THEN power[k[1]] ELSE 0

\* The power samples: a missing or non-numeric value is 0 W, and a negative
\* pv or load power (bad data) adds to no accumulator.
Gain(power, k) ==
  IF k[2] = "in" THEN IF power[k[1]] > 0 THEN power[k[1]] ELSE 0
  ELSE IF k[1] \in Signed /\ power[k[1]] < 0 THEN -power[k[1]] ELSE 0

\* Mutant of HotCycle: the time of the sample is not remembered.
HotCycleRepeats ==
  /\ phase = "run" /\ saving = "no"
  /\ \E power \in [Signals -> {-1, 0, 1}] :
       wh' = [k \in Keys |->
                wh[k] + (IF Integrable(Elapsed) THEN Gain(power, k) * Elapsed
                         ELSE 0)]
  /\ last' = IF last = None THEN clock ELSE last
  /\ UNCHANGED <<clock, phase, saving, tmp, orphans, file, disk, exit, unread>>

HotCycle ==
  /\ phase = "run" /\ saving = "no"
  /\ \E power \in [Signals -> {-1, 0, 1}] :
       wh' = [k \in Keys |->
                wh[k] + (IF Integrable(Elapsed) THEN Gain(power, k) * Elapsed
                         ELSE 0)]
  /\ last' = clock
  /\ UNCHANGED <<clock, phase, saving, tmp, orphans, file, disk, exit, unread>>

(***************************************************************************)
(* save(): mkdir and NamedTemporaryFile, json.dump, flush and fsync,       *)
(* os.replace.                                                             *)
(***************************************************************************)
ColdCycle ==
  /\ phase = "run" /\ saving = "no" /\ saving' = "create"
  /\ UNCHANGED <<clock, last, wh, phase, tmp, orphans, file, disk, exit, unread>>

\* Mutant of Create: the file itself is opened for writing.
CreateInPlace ==
  /\ saving = "create" /\ saving' = "write" /\ tmp' = Torn /\ file' = Torn
  /\ UNCHANGED <<clock, last, wh, phase, orphans, disk, exit, unread>>

Create ==
  /\ saving = "create" /\ saving' = "write" /\ tmp' = Torn
  /\ UNCHANGED <<clock, last, wh, phase, orphans, file, disk, exit, unread>>

Write ==
  /\ saving = "write" /\ saving' = "sync" /\ tmp' = Whole(wh, FALSE)
  /\ UNCHANGED <<clock, last, wh, phase, orphans, file, disk, exit, unread>>

\* Mutant of Fsync: no fsync before the rename.
FsyncForgotten ==
  /\ saving = "sync" /\ saving' = "replace"
  /\ UNCHANGED <<clock, last, wh, phase, tmp, orphans, file, disk, exit, unread>>

Fsync ==
  /\ saving = "sync" /\ saving' = "replace" /\ tmp' = Whole(wh, TRUE)
  /\ UNCHANGED <<clock, last, wh, phase, orphans, file, disk, exit, unread>>

\* save() returns: to the loop, or to the end of the finally block.
SaveReturns(outcome) ==
  /\ saving' = "no" /\ tmp' = NoFile
  /\ IF phase = "stop" THEN phase' = "down" /\ exit' = outcome
                       ELSE UNCHANGED <<phase, exit>>

\* Mutant of Replace: the temporary file never takes the place of the file.
ReplaceForgotten ==
  /\ saving = "replace" /\ SaveReturns("saved")
  /\ UNCHANGED <<clock, last, wh, orphans, file, disk, unread>>

Replace ==
  /\ saving = "replace" /\ file' = tmp /\ SaveReturns("saved")
  /\ UNCHANGED <<clock, last, wh, orphans, disk, unread>>

\* except OSError, at any of the calls: log, remove the temporary file (the
\* unlink may fail too, which is ignored), carry on.
SaveFails ==
  /\ saving # "no" /\ SaveReturns("failed")
  /\ orphans' \in {orphans, orphans \/ tmp.kind # "none"}
  /\ UNCHANGED <<clock, last, wh, file, disk, unread>>

(***************************************************************************)
(* SIGTERM raises KeyboardInterrupt, also inside a periodic save: no       *)
(* handler there catches it, and the finally block saves again.            *)
(***************************************************************************)
Sigterm ==
  /\ phase = "run" /\ phase' = "stop" /\ saving' = "create"
  /\ orphans' = (orphans \/ tmp.kind # "none") /\ tmp' = NoFile
  /\ UNCHANGED <<clock, last, wh, file, disk, exit, unread>>

\* A crash: SIGKILL, watchdog, out of memory, a second SIGTERM in the finally.
Crash ==
  /\ phase # "down" /\ phase' = "down" /\ saving' = "no" /\ exit' = "crashed"
  /\ orphans' = (orphans \/ tmp.kind # "none") /\ tmp' = NoFile
  /\ UNCHANGED <<clock, last, wh, file, disk, unread>>

\* The file system commits the rename some time after os.replace.
Settle ==
  /\ disk # file /\ disk' = file
  /\ UNCHANGED <<clock, last, wh, phase, saving, tmp, orphans, file, exit, unread>>

\* A power cut leaves what was committed; data that was never fsynced is torn.
PowerCut ==
  /\ phase' = "down" /\ saving' = "no" /\ exit' = "crashed"
  /\ file' = IF disk.synced THEN disk ELSE Torn
  /\ disk' = file'
  /\ orphans' = (orphans \/ tmp.kind # "none") /\ tmp' = NoFile
  /\ UNCHANGED <<clock, last, wh, unread>>

\* A new process: load() restores the file, or zeros when it cannot be read.
Start(restored) ==
  /\ phase = "down" /\ phase' = "run"
  /\ wh' = restored /\ last' = None /\ exit' = "none"
  /\ UNCHANGED <<clock, saving, tmp, orphans, file, disk>>

\* Mutant of Load: the start does not restore the file.
LoadNothing == Start(Zeros) /\ UNCHANGED unread

Load == Start(Restored(file)) /\ UNCHANGED unread

LoadFails == file.kind # "none" /\ Start(Zeros) /\ unread' = TRUE

Next ==
  \/ Tick \/ HotCycle \/ ColdCycle \/ Create \/ Write \/ Fsync \/ Replace
  \/ SaveFails \/ Sigterm \/ Crash \/ Settle \/ PowerCut \/ Load \/ LoadFails

Spec == Init /\ [][Next]_vars

(***************************************************************************)
(* Properties.                                                             *)
(***************************************************************************)
FileType == [kind : {"none", "torn", "whole"}, synced : BOOLEAN,
             data : [Keys -> Nat]]

\* Type correctness of the integrator and of its files.
TypeOK ==
  /\ clock \in Nat /\ last \in Nat \union {None} /\ wh \in [Keys -> Nat]
  /\ phase \in {"run", "stop", "down"}
  /\ saving \in {"no", "create", "write", "sync", "replace"}
  /\ tmp \in FileType /\ file \in FileType /\ disk \in FileType
  /\ orphans \in BOOLEAN /\ unread \in BOOLEAN
  /\ exit \in {"none", "saved", "failed", "crashed"}

\* Whatever interrupts a save, and wherever, the file at persist_path is
\* absent or whole and fsynced, before and after a power cut.
AlwaysWhole == file.kind # "torn" /\ disk.kind # "torn" /\ disk.synced

\* No tick of the clock is integrated twice, over all the processes and the
\* files they restored: a signal's accumulators never exceed the time that
\* has passed (at most one unit of power), in memory and on disk.
NoDoubleCount ==
  \A s \in Signals, w \in {wh, Restored(file), Restored(disk)} :
    w[<<s, "in">>] + w[<<s, "out">>] <= clock

\* An orderly stop whose save succeeded loses nothing, also when the SIGTERM
\* came in the middle of a periodic save.
CleanStopKeeps == exit = "saved" => Restored(file) = wh

Behind(v, w) == \A k \in Keys : v[k] <= w[k]

\* What a start restores never runs backwards, unless a start could not read
\* the file; a power cut goes back no further than the last committed rename.
NeverBackwards ==
  [][/\ Behind(Restored(file), Restored(file')) \/ PowerCut \/ unread
     /\ Behind(Restored(disk), Restored(disk')) \/ unread]_vars

\* save() as a whole is one atomic commit: the integrator implements the
\* counters of EnergyCounter, with the file as the saved copy.
Abstract == INSTANCE EnergyCounter
              WITH mem <- wh, saved <- Restored(file), safe <- Restored(disk)
AtomicSave == Abstract!CSpec
=============================================================================
