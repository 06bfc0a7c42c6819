-------------------------- MODULE BmsServiceProofs ---------------------------
(***************************************************************************)
(* Theorems about BmsService: the file, the clean stop and the retained    *)
(* availability, over every interleaving of the daemon's thread, the BMS   *)
(* thread and the MQTT client.                                             *)
(***************************************************************************)
EXTENDS BmsService, TLAPS

(***************************************************************************)
(* The inductive invariant.                                                *)
(***************************************************************************)

\* Where the writers, the daemon's thread and the client can be.
Shape ==
  /\ at \in [Writers -> {"idle", "open", "written"}]
  /\ fd \in [Writers -> {"gone", "tmp", "file"}]
  /\ client \in {"none", "off", "on"} /\ session \in {"none", "live", "stale"}
  /\ svc \in {"new", "connect", "failed", "up", "join", "save", "offline", "close", "done"}

\* A writer inside a save is where its caller may save.
Writing ==
  /\ at["bms"] # "idle" => life = "loop" /\ phase = "save"
  /\ at["main"] # "idle" => svc = "save"

\* Once the join is over, and did not time out, the BMS thread is gone.
Apart == late \/ (svc \in {"save", "offline", "close", "done"} => life = "ended")

\* The only writer has the temporary file to itself.
Alone ==
  late \/ /\ file \in {"absent", "whole"}
          /\ \A w \in Writers :
               /\ at[w] = "open" => fd[w] = "tmp" /\ tmp = "empty"
               /\ at[w] = "written" => tmp = "whole"

\* The thread ends for a stop only, and is told by stop() only.
Ended ==
  /\ svc \in {"new", "connect", "failed"} => life = "none"
  /\ svc \in {"new", "connect", "failed", "up"} => ~told
  /\ phase = "returned" => told
  /\ life = "ended" => phase = "returned"

\* What stop() has saved stays saved.
Kept ==
  svc \in {"offline", "close", "done"} /\ ~late /\ ~missed => ~dirty /\ file = "whole"

\* The broker shows nobody online of whom it has no session; a client that dials has
\* none that works, and the last publish holds on the one it went out on.
Shown ==
  /\ svc = "new" => client = "none"
  /\ client # "on" => session # "live"
  /\ client = "none" => svc \in {"new", "failed", "done"}
  /\ svc = "done" => client = "none"
  /\ session = "none" /\ ~raced => avail # "online"
  /\ svc = "close" /\ session = "live" /\ ~raced => avail # "online"

IInv == Shape /\ Writing /\ Apart /\ Alone /\ Ended /\ Kept /\ Shown

(***************************************************************************)
(* Lemmas.                                                                 *)
(***************************************************************************)

\* The daemon's thread.
LEMMA MainStep == IInv /\ Main => IInv'
<1> SUFFICES ASSUME IInv, Main PROVE IInv'
  OBVIOUS
<1> USE DEF IInv, threadVars, fileVars, netVars
<1>1. CASE StartCall
  BY <1>1 DEF StartCall, Shape, Writing, Apart, Alone, Ended, Kept, Shown
<1>2. CASE StartThread
  BY <1>2 DEF StartThread, Shape, Writing, Apart, Alone, Ended, Kept, Shown
<1>3. CASE StartFails
  BY <1>3 DEF StartFails, Shape, Writing, Apart, Alone, Ended, Kept, Shown
<1>4. CASE Joined
  BY <1>4 DEF Joined, Shape, Writing, Apart, Alone, Ended, Kept, Shown
<1>5. CASE JoinTimesOut
  BY <1>5 DEF JoinTimesOut, Shape, Writing, Apart, Alone, Ended, Kept, Shown
<1>6. CASE StopOffline
  BY <1>6 DEF StopOffline, Shape, Writing, Apart, Alone, Ended, Kept, Shown
<1>7. CASE StopClose
  BY <1>7 DEF StopClose, Shape, Writing, Apart, Alone, Ended, Kept, Shown
<1> QED
  BY <1>1, <1>2, <1>3, <1>4, <1>5, <1>6, <1>7 DEF Main

\* The BMS thread between two saves.
LEMMA ThreadStep == IInv /\ Thread => IInv'
<1> SUFFICES ASSUME IInv, Thread PROVE IInv'
  OBVIOUS
<1> USE DEF IInv, threadVars, fileVars, netVars
<1>1. CASE ThreadLoop
  BY <1>1 DEF ThreadLoop, Shape, Writing, Apart, Alone, Ended, Kept, Shown
<1>2. CASE Coroutine
  <2>1. /\ life = "loop" /\ phase = "await" /\ told' = told
        /\ phase' = "returned" => told
        /\ UNCHANGED svcVars
    BY <1>2 DEF Coroutine, Integrates, Returns
  <2>2. Shape' /\ Writing' /\ Apart' /\ Alone' /\ Ended' /\ Shown'
    BY <2>1 DEF svcVars, netVars, fileVars, Shape, Writing, Apart, Alone, Ended, Shown
  <2>3. Kept'
    BY <2>1 DEF svcVars, fileVars, Apart, Kept
  <2> QED
    BY <2>2, <2>3
<1>3. CASE ThreadEnds
  BY <1>3 DEF ThreadEnds, Shape, Writing, Apart, Alone, Ended, Kept, Shown
<1> QED
  BY <1>1, <1>2, <1>3 DEF Thread

\* The broker, the client and the daemon's call of stop().
LEMMA EnvironmentStep == IInv /\ Environment => IInv'
<1> SUFFICES ASSUME IInv, Environment PROVE IInv'
  OBVIOUS
<1> USE DEF IInv, threadVars, fileVars, netVars
<1>1. CASE MqttUp
  BY <1>1 DEF MqttUp, Shape, Writing, Apart, Alone, Ended, Kept, Shown
<1>2. CASE MqttUpCut
  BY <1>2 DEF MqttUpCut, Shape, Writing, Apart, Alone, Ended, Kept, Shown
<1>3. CASE LinkBreaks
  BY <1>3 DEF LinkBreaks, Shape, Writing, Apart, Alone, Ended, Kept, Shown
<1>4. CASE ClientNotices
  BY <1>4 DEF ClientNotices, Shape, Writing, Apart, Alone, Ended, Kept, Shown
<1>5. CASE KeepaliveExpires
  BY <1>5 DEF KeepaliveExpires, Shape, Writing, Apart, Alone, Ended, Kept, Shown
<1>6. CASE StopCall
  <2>1. /\ svc = "up" /\ svc' = "join" /\ told' \in {told, TRUE}
        /\ UNCHANGED <<phase, dirty, missed, life, netVars, at, fd, tmp, file, late, raced>>
    BY <1>6 DEF StopCall, Tell
  <2> QED
    BY <2>1 DEF netVars, Shape, Writing, Apart, Alone, Ended, Kept, Shown
<1> QED
  BY <1>1, <1>2, <1>3, <1>4, <1>5, <1>6 DEF Environment

\* The two writers cannot both be in a save, unless the join timed out.
LEMMA OneWriter ==
  ASSUME IInv, ~late, NEW w \in Writers, NEW v \in Writers, at[w] # "idle" \/ MaySave(w), v # w
  PROVE  at[v] = "idle"
BY DEF IInv, Writing, Apart, MaySave, Writers

\* Opening and writing the temporary file.
LEMMA SaveGoesOn == ASSUME IInv, NEW w \in Writers, SaveOpen(w) \/ SaveWrite(w) PROVE IInv'
<1> USE DEF IInv, netVars
<1>1. CASE SaveOpen(w)
  <2>1. /\ MaySave(w) /\ at' = [at EXCEPT ![w] = "open"] /\ fd' = [fd EXCEPT ![w] = "tmp"]
        /\ tmp' = "empty"
        /\ UNCHANGED <<phase, told, dirty, missed, svc, life, netVars, file, late, raced>>
    BY <1>1 DEF SaveOpen, threadVars
  <2>2. Shape' /\ Writing'
    BY <2>1 DEF Shape, Writing, MaySave, Writers
  <2>3. Alone'
    BY <2>1, OneWriter DEF Shape, Alone
  <2> QED
    BY <2>1, <2>2, <2>3 DEF Apart, Ended, Kept, Shown
<1>2. CASE SaveWrite(w)
  <2>1. /\ at[w] = "open" /\ at' = [at EXCEPT ![w] = "written"]
        /\ fd' = [fd EXCEPT ![w] = "gone"]
        /\ UNCHANGED <<phase, told, dirty, missed, svc, life, netVars, late, raced>>
    BY <1>2 DEF SaveWrite, threadVars
  <2>2. Shape' /\ Writing'
    BY <2>1 DEF Shape, Writing, Writers
  <2>3. ~late => tmp' = "whole" /\ file' = file
    BY <1>2 DEF SaveWrite, Alone, Overwritten
  <2>4. Alone'
    BY <2>1, <2>3, OneWriter DEF Shape, Alone
  <2>5. Kept'
    BY <2>1, <2>3 DEF Kept
  <2> QED
    BY <2>1, <2>2, <2>4, <2>5 DEF Apart, Ended, Shown
<1> QED
  BY <1>1, <1>2

\* What the caller of a save does once it returns.
LEMMA SavedFacts ==
  ASSUME NEW w \in Writers, NEW ok \in BOOLEAN, Saved(w, ok)
  PROVE  /\ told' = told /\ missed' = ~ok /\ (dirty' => dirty)
         /\ w = "bms" => svc' = svc /\ phase = "save" /\ phase' = "await"
         /\ w = "main" => svc' = "offline" /\ phase' = phase
         /\ w = "main" /\ ok /\ ~late => ~dirty'
BY DEF Saved, SaveReturns, Writers

\* The save returns: the file is replaced, or the save failed and left it.
LEMMA SaveReturned == ASSUME IInv, NEW w \in Writers, SaveRename(w) \/ SaveFails(w) PROVE IInv'
<1> USE DEF IInv, netVars
<1>0. /\ at' = [at EXCEPT ![w] = "idle"]
      /\ UNCHANGED <<life, netVars, late, raced>>
      /\ fd' \in [Writers -> {"gone", "tmp", "file"}]
  BY DEF SaveRename, SaveFails, Renamed, Shape
<1>1. PICK ok \in BOOLEAN : /\ Saved(w, ok)
                            /\ ok => at[w] = "written" /\ file' = tmp
                            /\ ~ok => file' = file /\ MaySave(w)
  BY DEF SaveRename, SaveFails
<1>2. at[w] # "idle" \/ MaySave(w)
  BY <1>1
<1>3. /\ told' = told /\ missed' = ~ok /\ (dirty' => dirty)
      /\ w = "bms" => svc' = svc /\ phase = "save" /\ phase' = "await"
      /\ w = "main" => svc' = "offline" /\ phase' = phase
      /\ w = "main" /\ ok /\ ~late => ~dirty'
  BY <1>1, SavedFacts
<1>4. /\ w = "main" => svc = "save"
      /\ w = "bms" => life = "loop"
  BY <1>2 DEF Writing, MaySave, Writers
<1>5. Shape'
  BY <1>0, <1>3 DEF Shape, Writers
<1>6. Writing'
  BY <1>0, <1>3, <1>4 DEF Writing, Shape, Writers
<1>7. Apart'
  BY <1>0, <1>3, <1>4 DEF Apart, Writers
<1>8. Alone'
  <2> SUFFICES ASSUME ~late
               PROVE  /\ file' \in {"absent", "whole"}
                      /\ \A v \in Writers : at'[v] = "idle"
    BY <1>0 DEF Alone
  <2>1. \A v \in Writers : at'[v] = "idle"
    BY <1>0, <1>2, OneWriter DEF Shape
  <2>2. file' \in {"absent", "whole"}
    BY <1>1 DEF Alone
  <2> QED
    BY <2>1, <2>2
<1>9. Ended'
  BY <1>0, <1>3, <1>4 DEF Ended, Writers
<1>10. Kept'
  <2>1. CASE w = "bms"
    BY <1>0, <1>3, <1>4, <2>1 DEF Kept, Apart
  <2>2. CASE w = "main"
    BY <1>0, <1>1, <1>3, <2>2 DEF Kept, Alone
  <2> QED
    BY <2>1, <2>2 DEF Writers
<1>11. Shown'
  BY <1>0, <1>3, <1>4 DEF Shown, Writers
<1> QED
  BY <1>5, <1>6, <1>7, <1>8, <1>9, <1>10, <1>11

\* The invariant holds at the start and every step keeps it.
LEMMA Inductive == (Init => IInv) /\ (IInv /\ [Next]_vars => IInv')
<1>1. Init => IInv
  <2> SUFFICES ASSUME Init PROVE IInv
    OBVIOUS
  <2>1. Shape
    BY DEF Init, Shape
  <2> QED
    BY <2>1 DEF Init, ThreadInit, IInv, Writing, Apart, Alone, Ended, Kept, Shown, Writers
<1>2. IInv /\ [Next]_vars => IInv'
  <2> SUFFICES ASSUME IInv, [Next]_vars PROVE IInv'
    OBVIOUS
  <2>1. CASE UNCHANGED vars
    BY <2>1 DEF vars, threadVars, svcVars, netVars, fileVars, IInv, Shape, Writing, Apart, Alone, Ended, Kept, Shown
  <2> QED
    BY <2>1, MainStep, ThreadStep, EnvironmentStep, SaveGoesOn, SaveReturned DEF Next, SaveStep
<1> QED
  BY <1>1, <1>2

(***************************************************************************)
(* Theorems.                                                               *)
(***************************************************************************)

\* The file is absent or whole at every moment, if the join kept the writers apart.
THEOREM FileIsWhole == Spec => []FileWhole
<1>1. IInv => FileWhole
  BY DEF IInv, Alone, FileWhole
<1> QED
  BY <1>1, Inductive, PTL DEF Spec

\* A stop whose join and save succeeded has all integrated energy in the file.
THEOREM StopIsClean == Spec => []CleanStop
<1>1. IInv => CleanStop
  BY DEF IInv, Kept, CleanStop
<1> QED
  BY <1>1, Inductive, PTL DEF Spec

\* A stopped service is not shown online once the broker has no session of it, over
\* broken links that either side notices late, unless it reconnected after its last
\* publish.
THEOREM StopShowsOffline == Spec => []StoppedIsOffline
<1>1. IInv => StoppedIsOffline
  BY DEF IInv, Shown, StoppedIsOffline
<1> QED
  BY <1>1, Inductive, PTL DEF Spec
=============================================================================
