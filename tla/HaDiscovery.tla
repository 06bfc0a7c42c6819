----------------------------- MODULE HaDiscovery -----------------------------
(***************************************************************************)
(* tools/cleanup_orphan_discoveries.py: the retained discovery payloads    *)
(* are captured for some seconds, categorised against the canonical spec,  *)
(* and the orphans cleared over a second connection by publishing empty    *)
(* retained payloads at QoS 1.  The daemon and others publish discovery    *)
(* meanwhile, at most MaxWrites times.                                     *)
(***************************************************************************)
EXTENDS Integers

CONSTANTS
  Topics,         \* config topics
  BinaryTopics,   \* those of the component binary_sensor
  PayloadUids,    \* unique_ids a discovery payload may carry
  SensorUids,     \* the canonical ones of sensors: aggregates, per inverter, meta
  BinaryUids,     \* the canonical ones of binary sensors
  V1Uids,         \* those with the prefix of the first deploy
  BaseOf,         \* unique_id -> the same without its "_<digits>" tails
  SaStyle,        \* those that look like Solar Assistant's
  SpecSizes,      \* what load_canonical_spec may return: sets of unique_ids
  DaemonPayload,  \* config topic -> payload, of the daemon's own discovery
  NoPayload,      \* in place of a payload: the topic retains nothing
  MaxWrites       \* discovery publishes by others during a run

\* sa: the state topic is Solar Assistant's, or the device is sa_inverter.
Payload == [uid : PayloadUids, sa : BOOLEAN]

VARIABLES
  ret,       \* topic -> retained payload
  dpc,       \* where the tool is
  known,     \* the spec it loaded
  captured,  \* topic -> payload captured
  goal,      \* topics to clear
  pub,       \* topic -> its publish: "none", "queued", "handled", "acked"
  exit,      \* the exit code
  rewritten, \* history: topics others wrote since they were captured
  writes     \* publishes by others so far

discVars == <<ret, dpc, known, captured, goal, pub, exit, rewritten, writes>>

Nothing == [t \in Topics |-> NoPayload]
Silent == [t \in Topics |-> "none"]

DiscIdle(r) ==
  /\ ret = r /\ captured = Nothing /\ goal = {} /\ pub = Silent
  /\ exit = 0 /\ rewritten = {} /\ writes = 0

DiscInit ==
  /\ dpc = "start" /\ known \in SpecSizes
  /\ \E r \in [Topics -> Payload \cup {NoPayload}] : DiscIdle(r)

Leave(c) == dpc' = "exited" /\ exit' = c

\* load_canonical_spec and the connection; an empty spec is refused.
LoadSpec ==
  /\ dpc = "start"
  /\ \/ known = {} /\ Leave(2)
     \/ known # {} /\ Leave(3)
     \/ known # {} /\ dpc' = "capture" /\ UNCHANGED exit
  /\ UNCHANGED <<ret, known, captured, goal, pub, rewritten, writes>>

\* on_connect subscribes, again after a reconnection, and the broker sends what the
\* topics retain; some of it may not arrive in the time.  Others' publishes meanwhile
\* are not marked retained and are ignored.
CaptureRetained ==
  /\ dpc = "capture"
  /\ \E ts \in SUBSET {t \in Topics : ret[t] # NoPayload} :
       /\ captured' = [t \in Topics |-> IF t \in ts THEN ret[t] ELSE captured[t]]
       /\ rewritten' = rewritten \ ts
  /\ UNCHANGED <<ret, dpc, known, goal, pub, exit, writes>>

KnownOn(t) == known \cap (IF t \in BinaryTopics THEN BinaryUids ELSE SensorUids)

\* Mutant of Categorize: the canonical ids are not passed through first.
CategorizeLate(t) ==
  LET p == captured[t] IN
  IF p = NoPayload THEN "NONE"
  ELSE IF p.uid \in V1Uids THEN "ORPHAN_V1"
  ELSE IF BaseOf[p.uid] # p.uid /\ BaseOf[p.uid] \in KnownOn(t) THEN "ORPHAN_COLLISION"
  ELSE IF p.uid \in SaStyle /\ p.sa THEN "SA_STATIC"
  ELSE IF p.uid \in KnownOn(t) THEN "CANONICAL"
  ELSE "UNRELATED"

\* categorize: the order is significant.
Categorize(t) ==
  LET p == captured[t] IN
  IF p = NoPayload THEN "NONE"
  ELSE IF p.uid \in KnownOn(t) THEN "CANONICAL"
  ELSE IF p.uid \in V1Uids THEN "ORPHAN_V1"
  ELSE IF BaseOf[p.uid] # p.uid /\ BaseOf[p.uid] \in KnownOn(t) THEN "ORPHAN_COLLISION"
  ELSE IF p.uid \in SaStyle /\ p.sa THEN "SA_STATIC"
  ELSE "UNRELATED"

\* collect_topics_to_clean
TopicsToClean(sa) ==
  {t \in Topics : Categorize(t) \in {"ORPHAN_V1", "ORPHAN_COLLISION"}
                                    \cup (IF sa THEN {"SA_STATIC"} ELSE {})}

\* A dry run or nothing to clean ends here; so does a clear_retained that cannot connect.
CaptureEnds ==
  /\ dpc = "capture"
  /\ \E sa \in BOOLEAN :
       LET ts == TopicsToClean(sa) IN
       \/ Leave(0) /\ UNCHANGED goal
       \/ ts # {} /\ goal' = ts /\ Leave(4)
       \/ ts # {} /\ goal' = ts /\ dpc' = "connect" /\ UNCHANGED exit
  /\ UNCHANGED <<ret, known, captured, pub, rewritten, writes>>

\* The loop of publish calls: all are handed to the client at once.
PublishEmpties ==
  /\ dpc = "connect" /\ dpc' = "clear"
  /\ pub' = [t \in Topics |-> IF t \in goal THEN "queued" ELSE "none"]
  /\ UNCHANGED <<ret, known, captured, goal, exit, rewritten, writes>>

\* The broker clears the topic, also after the tool has gone.
BrokerClears(t) ==
  /\ pub[t] = "queued" /\ pub' = [pub EXCEPT ![t] = "handled"]
  /\ ret' = [ret EXCEPT ![t] = NoPayload]
  /\ UNCHANGED <<dpc, known, captured, goal, exit, rewritten, writes>>

BrokerAcks(t) ==
  /\ dpc = "clear" /\ pub[t] = "handled" /\ pub' = [pub EXCEPT ![t] = "acked"]
  /\ UNCHANGED <<ret, dpc, known, captured, goal, exit, rewritten, writes>>

\* The connection is lost with the acknowledgement: the client publishes again.
Resend(t) ==
  /\ dpc = "clear" /\ pub[t] = "handled" /\ pub' = [pub EXCEPT ![t] = "queued"]
  /\ UNCHANGED <<ret, dpc, known, captured, goal, exit, rewritten, writes>>

\* is_published() once the wait is over.
Acked == {t \in goal : pub[t] = "acked"}

\* All acknowledged, or the deadline of the batch has passed.
ClearEnds ==
  /\ dpc = "clear" /\ Leave(IF Acked = goal THEN 0 ELSE 5)
  /\ UNCHANGED <<ret, known, captured, goal, pub, rewritten, writes>>

Write(t, p) ==
  /\ dpc \in {"capture", "connect", "clear"} /\ writes < MaxWrites /\ writes' = writes + 1
  /\ ret' = [ret EXCEPT ![t] = p] /\ rewritten' = rewritten \cup {t}
  /\ UNCHANGED <<dpc, known, captured, goal, pub, exit>>

\* publish_discovery of the daemon, which runs on each of its connections.
PublishDiscovery == \E t \in DOMAIN DaemonPayload : Write(t, DaemonPayload[t])

\* Solar Assistant or another integration publishes or clears a discovery.
OthersPublish == \E t \in Topics, p \in Payload \cup {NoPayload} : Write(t, p)

DiscNext ==
  \/ LoadSpec \/ CaptureRetained \/ CaptureEnds \/ PublishEmpties \/ ClearEnds
  \/ PublishDiscovery \/ OthersPublish
  \/ \E t \in Topics : BrokerClears(t) \/ BrokerAcks(t) \/ Resend(t)

DiscSpec == DiscInit /\ [][DiscNext]_discVars

(***************************************************************************)
(* Properties.                                                             *)
(***************************************************************************)

\* A payload the loaded spec calls canonical is never cleared, unless others put it
\* there after the capture, and exit code 0 says the broker cleared every orphan.
ClearedWasOrphan ==
  /\ [][\A t \in Topics : pub'[t] # pub[t] /\ ret'[t] # ret[t] /\ ret[t].uid \in KnownOn(t)
                            => t \in rewritten]_discVars
  /\ [](dpc = "exited" /\ exit = 0 => \A t \in goal : pub[t] = "acked")
=============================================================================
