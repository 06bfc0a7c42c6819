----------------------------- MODULE BmsService -----------------------------
(***************************************************************************)
(* BmsService (inverter_bridge/bms/service.py) as the daemon sees it:      *)
(* start() with its MQTT client, the thread, of whose coroutines only      *)
(* BmsThread is used here, and stop(), which signals the thread, joins it  *)
(* for at most ten seconds and saves.                                      *)
(*                                                                         *)
(* The save is taken apart into its system calls, because after a join     *)
(* that timed out two threads run it on one temporary file.  Files are     *)
(* kept as the contents of two names; an open descriptor knows which name  *)
(* its inode has now.                                                      *)
(***************************************************************************)
EXTENDS BmsThread

Writers == {"bms", "main"}
Contents == {"absent", "empty", "whole", "mixed"}

VARIABLES
  svc,       \* where the daemon is in start() and stop()
  life,      \* the thread: "none", "begin", "loop" (with its event), "ended"
  client,    \* the MQTT client: "none", "off" (dialling) or "on"
  session,   \* the broker's view of it: "none", "live" or "stale" (link is gone)
  connected, \* _mqtt_connected
  avail,     \* the retained availability; "none" before the first connection
  at,        \* where each writer is in _save_energy_state
  fd,        \* the name of the inode each writer has open; "gone" without one
  tmp,       \* content of energy.json.tmp
  file,      \* content of energy.json
  late,      \* history: the join timed out
  raced      \* history: the client reconnected after stop() said offline

netVars == <<client, session, connected, avail>>
fileVars == <<at, fd, tmp, file>>
svcVars == <<svc, life, netVars, fileVars, late, raced>>
vars == <<threadVars, svcVars>>

Init ==
  /\ ThreadInit
  /\ svc = "new" /\ life = "none"
  /\ client = "none" /\ session = "none" /\ connected = FALSE /\ avail = "none"
  /\ at = [w \in Writers |-> "idle"] /\ fd = [w \in Writers |-> "gone"]
  /\ tmp = "absent" /\ file \in {"absent", "whole"}
  /\ late = FALSE /\ raced = FALSE

(***************************************************************************)
(* start().                                                                *)
(***************************************************************************)

\* _load_energy_state and _connect_mqtt up to the wait; connect() may raise, and
\* then the client has no network thread.
StartCall ==
  /\ svc = "new"
  /\ \/ svc' = "connect" /\ client' = "off"
     \/ svc' = "failed" /\ UNCHANGED client
  /\ UNCHANGED <<threadVars, life, session, connected, avail, fileVars, late, raced>>

\* _mqtt_connected is set once on_connect has run: the thread is started.
StartThread ==
  /\ svc = "connect" /\ connected /\ svc' = "up" /\ life' = "begin"
  /\ UNCHANGED <<threadVars, netVars, fileVars, late, raced>>

\* Ten seconds without a connection: start() raises and the daemon forgets the
\* service, whose client goes on dialling.
StartFails ==
  /\ svc = "connect" /\ ~connected /\ svc' = "failed"
  /\ UNCHANGED <<threadVars, life, netVars, fileVars, late, raced>>

\* _handle_mqtt_connect: discovery, then availability online.  A session the broker
\* still holds is taken over, with its will before the new one's first message.
MqttUp ==
  /\ client = "off" /\ client' = "on" /\ connected' = TRUE
  /\ session' = "live" /\ avail' = "online"
  /\ raced' = (raced \/ svc = "close")
  /\ UNCHANGED <<threadVars, svc, life, fileVars, late>>

\* The link breaks again before that message arrives.
MqttUpCut ==
  /\ client = "off" /\ client' = "on" /\ connected' = TRUE /\ session' = "stale"
  /\ avail' = IF session = "stale" THEN "offline" ELSE avail
  /\ UNCHANGED <<threadVars, svc, life, fileVars, late, raced>>

\* The link breaks; neither side knows.
LinkBreaks ==
  /\ session = "live" /\ session' = "stale"
  /\ UNCHANGED <<threadVars, svc, life, client, connected, avail, fileVars, late, raced>>

\* A failed write, a reset or no PINGRESP: the client dials again.
ClientNotices ==
  /\ client = "on" /\ session # "live" /\ client' = "off"
  /\ UNCHANGED <<threadVars, svc, life, session, connected, avail, fileVars, late, raced>>

\* The broker misses the client for one and a half keepalives: the will.
KeepaliveExpires ==
  /\ session = "stale" /\ session' = "none" /\ avail' = "offline"
  /\ UNCHANGED <<threadVars, svc, life, client, connected, fileVars, late, raced>>

(***************************************************************************)
(* _thread_main.                                                           *)
(***************************************************************************)

\* The loop and the stop event exist from here on.
ThreadLoop ==
  /\ life = "begin" /\ life' = "loop"
  /\ UNCHANGED <<threadVars, svc, netVars, fileVars, late, raced>>

\* The coroutines, between two saves.
Coroutine ==
  /\ life = "loop" /\ (Integrates \/ Returns)
  /\ UNCHANGED svcVars

\* _run_async has returned: the loop is closed.
ThreadEnds ==
  /\ life = "loop" /\ phase = "returned" /\ life' = "ended"
  /\ UNCHANGED <<threadVars, svc, netVars, fileVars, late, raced>>

(***************************************************************************)
(* _save_energy_state, run by writer w.                                    *)
(***************************************************************************)

\* What of it each writer's caller does next.
Saved(w, ok) ==
  \/ w = "bms" /\ SaveReturns(ok) /\ UNCHANGED svc
  \/ /\ w = "main" /\ svc' = "offline"
     /\ dirty' = (dirty /\ (late \/ ~ok)) /\ missed' = ~ok
     /\ UNCHANGED <<phase, told>>

MaySave(w) == IF w = "bms" THEN life = "loop" /\ phase = "save" ELSE svc = "save"

\* Mutant of SaveOpen: the file itself is rewritten.
SaveOpenInPlace(w) ==
  /\ MaySave(w) /\ at[w] = "idle"
  /\ at' = [at EXCEPT ![w] = "open"] /\ fd' = [fd EXCEPT ![w] = "file"]
  /\ file' = "empty"
  /\ UNCHANGED <<threadVars, svc, life, netVars, tmp, late, raced>>

\* open(tmp, "w") makes the name or truncates its inode.
SaveOpen(w) ==
  /\ MaySave(w) /\ at[w] = "idle"
  /\ at' = [at EXCEPT ![w] = "open"] /\ fd' = [fd EXCEPT ![w] = "tmp"]
  /\ tmp' = "empty"
  /\ UNCHANGED <<threadVars, svc, life, netVars, file, late, raced>>

\* From offset 0: over the bytes of another writer the longer of them shows.
Overwritten(c) == IF c = "empty" THEN {"whole"} ELSE {"whole", "mixed"}

\* json.dump, flush, fsync and the end of the with block.
SaveWrite(w) ==
  /\ at[w] = "open" /\ at' = [at EXCEPT ![w] = "written"]
  /\ fd' = [fd EXCEPT ![w] = "gone"]
  /\ \/ fd[w] = "tmp" /\ tmp' \in Overwritten(tmp) /\ UNCHANGED file
     \/ fd[w] = "file" /\ file' \in Overwritten(file) /\ UNCHANGED tmp
     \/ fd[w] = "gone" /\ UNCHANGED <<tmp, file>>
  /\ UNCHANGED <<threadVars, svc, life, netVars, late, raced>>

\* Descriptors of the old file lose their name, those of tmp become the file's.
Renamed == [w \in Writers |-> IF fd[w] = "tmp" THEN "file" ELSE "gone"]

\* tmp.replace(path)
SaveRename(w) ==
  /\ at[w] = "written" /\ tmp # "absent"
  /\ file' = tmp /\ tmp' = "absent" /\ fd' = Renamed
  /\ at' = [at EXCEPT ![w] = "idle"]
  /\ Saved(w, TRUE)
  /\ UNCHANGED <<life, netVars, late, raced>>

\* Any call raises, the replace also because the name is gone; tmp is unlinked.
SaveFails(w) ==
  /\ MaySave(w) /\ at' = [at EXCEPT ![w] = "idle"]
  /\ tmp' = "absent"
  /\ fd' = [v \in Writers |-> IF v = w \/ fd[v] = "tmp" THEN "gone" ELSE fd[v]]
  /\ Saved(w, FALSE)
  /\ UNCHANGED <<file, life, netVars, late, raced>>

SaveStep(w) == SaveOpen(w) \/ SaveWrite(w) \/ SaveRename(w) \/ SaveFails(w)

(***************************************************************************)
(* stop(), which the daemon calls only when start() returned.              *)
(***************************************************************************)

\* The event is set if the thread has made it; the loop is not closed before.
StopCall ==
  /\ svc = "up" /\ svc' = "join"
  /\ IF life = "loop" THEN Tell ELSE UNCHANGED threadVars
  /\ UNCHANGED <<life, netVars, fileVars, late, raced>>

\* Mutant of Joined: the thread is not waited for.
JoinForgotten ==
  /\ svc = "join" /\ svc' = "save"
  /\ UNCHANGED <<threadVars, life, netVars, fileVars, late, raced>>

Joined ==
  /\ svc = "join" /\ life = "ended" /\ svc' = "save"
  /\ UNCHANGED <<threadVars, life, netVars, fileVars, late, raced>>

\* Mutant of JoinTimesOut: join() without its timeout.
JoinForever == FALSE /\ UNCHANGED vars

\* The thread is in a BLE connect, in a save, or was never told.
JoinTimesOut ==
  /\ svc = "join" /\ life # "ended" /\ svc' = "save" /\ late' = TRUE
  /\ UNCHANGED <<threadVars, life, netVars, fileVars, raced>>

\* Mutant of StopOffline: the clean disconnect is left to speak for itself.
StopSilent ==
  /\ svc = "offline" /\ svc' = "close"
  /\ UNCHANGED <<threadVars, life, netVars, fileVars, late, raced>>

\* Published at QoS 0: without a connection, or into a broken one, it is lost.
StopOffline ==
  /\ svc = "offline" /\ svc' = "close"
  /\ avail' = IF client = "on" /\ session = "live" THEN "offline" ELSE avail
  /\ UNCHANGED <<threadVars, life, client, session, connected, fileVars, late, raced>>

\* loop_stop and disconnect: on a link that works the broker drops the will.
StopClose ==
  /\ svc = "close" /\ svc' = "done" /\ client' = "none"
  /\ session' = IF session = "live" THEN "none" ELSE session
  /\ UNCHANGED <<threadVars, life, connected, avail, fileVars, late, raced>>

Main ==
  \/ StartCall \/ StartThread \/ StartFails
  \/ Joined \/ JoinTimesOut \/ StopOffline \/ StopClose

Thread == ThreadLoop \/ Coroutine \/ ThreadEnds

Environment ==
  \/ MqttUp \/ MqttUpCut \/ LinkBreaks \/ ClientNotices \/ KeepaliveExpires \/ StopCall

Next == Main \/ Thread \/ (\E w \in Writers : SaveStep(w)) \/ Environment

Spec == Init /\ [][Next]_vars

\* Both threads run and every call of theirs ends.
Fairness ==
  /\ WF_vars(Main) /\ WF_vars(ThreadLoop) /\ WF_vars(ThreadEnds)
  /\ WF_vars(life = "loop" /\ Returns /\ UNCHANGED svcVars)
  /\ \A w \in Writers : WF_vars(SaveStep(w))

(***************************************************************************)
(* Properties.                                                             *)
(***************************************************************************)

\* A1: stop() leaves all energy integrated so far in a readable file, if the
\* thread ended within the join and its own save succeeded.
CleanStop == svc = "done" /\ ~late /\ ~missed => ~dirty /\ file = "whole"

\* The atomic save: a crash or a power cut at any moment finds the file absent or
\* whole, as long as the join keeps the two writers apart.
FileWhole == late \/ file \in {"absent", "whole"}

\* A stopped service is not shown online once the broker has no session of it,
\* whatever the connection did during the stop: an offline lost in a broken link is
\* made up for by the will.  Only a reconnection between the last publish and the
\* disconnect leaves it online for good.
StoppedIsOffline == svc = "done" /\ session = "none" /\ ~raced => avail # "online"

\* stop() comes back to the daemon, although the thread may not have been told.
StopReturns == (svc = "join") ~> (svc = "done")
=============================================================================
