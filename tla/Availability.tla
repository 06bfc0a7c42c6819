---------------------------- MODULE Availability ----------------------------
(***************************************************************************)
(* The retained availability topic of the inverter publisher               *)
(* (inverter_bridge/mqtt_publisher.py): the main thread that connects,     *)
(* marks itself online and, at an orderly stop, offline; paho's network    *)
(* thread that reconnects by itself and calls _handle_connect; and the     *)
(* broker with its retained message, its session and the last will.        *)
(*                                                                         *)
(* paho and the broker are external.  Packets of one connection arrive in  *)
(* order or are lost with the connection; a QoS 0 publish without a socket *)
(* is dropped.  The broker may hear of a lost connection late.             *)
(***************************************************************************)
EXTENDS Naturals, Sequences

CONSTANT MaxWire    \* bound: packets in flight on one connection

ASSUME MaxWireAssumption == MaxWire \in Nat \ {0}

VARIABLES
  main,       \* where the process is in its life
  net,        \* paho's network thread
  terminate,  \* loop_stop() was called
  sock,       \* is there a socket
  wire,       \* packets on their way to the broker
  connack,    \* a CONNACK the network thread has not handled
  session,    \* the broker's session of this client, "stale" if its socket died
  will,       \* the session has the last will
  retained    \* the retained availability

vars == <<main, net, terminate, sock, wire, connack, session, will, retained>>
brokerVars == <<session, will, retained>>

Alive == main \in {"started", "run", "loopStop", "join", "disconnect"}

Init ==
  /\ main = "new" /\ net = "none" /\ terminate = FALSE
  /\ sock = FALSE /\ wire = <<>> /\ connack = FALSE
  /\ session = "none" /\ will = FALSE /\ retained = "none"

\* client.publish of an availability at QoS 0.
Publish(p) == wire' = IF sock THEN Append(wire, p) ELSE wire

(***************************************************************************)
(* The main thread.                                                        *)
(***************************************************************************)

\* connect(): will_set, connect, loop_start.
Connect ==
  /\ main = "new" /\ main' = "started"
  /\ net' = "loop" /\ terminate' = FALSE
  /\ sock' = TRUE /\ wire' = <<"connect">> /\ connack' = FALSE
  /\ UNCHANGED brokerVars

\* start(): publish_discovery, set_online.
FirstOnline ==
  /\ main = "started" /\ main' = "run" /\ Len(wire) < MaxWire
  /\ Publish("online")
  /\ UNCHANGED <<net, terminate, sock, connack, brokerVars>>

\* A hot cycle with data calls set_online again.
HotCycleOnline ==
  /\ main = "run" /\ Len(wire) < MaxWire
  /\ Publish("online")
  /\ UNCHANGED <<main, net, terminate, sock, connack, brokerVars>>

\* Mutant of StopOffline: disconnect() leaves the topic alone.
StopSilently ==
  /\ main = "run" /\ main' = "loopStop"
  /\ UNCHANGED <<net, terminate, sock, wire, connack, brokerVars>>

\* disconnect(): publish offline, loop_stop, disconnect.
StopOffline ==
  /\ main = "run" /\ main' = "loopStop" /\ Len(wire) < MaxWire
  /\ Publish("offline")
  /\ UNCHANGED <<net, terminate, sock, connack, brokerVars>>

\* Mutant of LoopStop: the network thread is never told to end.
LoopStopForgotten ==
  /\ main = "loopStop" /\ main' = "join"
  /\ UNCHANGED <<net, terminate, sock, wire, connack, brokerVars>>

LoopStop ==
  /\ main = "loopStop" /\ main' = "join" /\ terminate' = TRUE
  /\ UNCHANGED <<net, sock, wire, connack, brokerVars>>

Joined ==
  /\ main = "join" /\ net = "ended" /\ main' = "disconnect"
  /\ UNCHANGED <<net, terminate, sock, wire, connack, brokerVars>>

Disconnect ==
  /\ main = "disconnect" /\ main' = "gone" /\ Len(wire) < MaxWire
  /\ Publish("disconnect") /\ connack' = FALSE
  /\ UNCHANGED <<net, terminate, sock, brokerVars>>

\* The process dies without any of this; so do its threads.
Crash ==
  /\ Alive /\ main' = "crashed" /\ net' = "ended" /\ connack' = FALSE
  /\ UNCHANGED <<terminate, sock, wire, brokerVars>>

Restart ==
  /\ main \in {"gone", "crashed"} /\ ~sock /\ main' = "new"
  /\ UNCHANGED <<net, terminate, sock, wire, connack, brokerVars>>

(***************************************************************************)
(* paho's network thread.                                                  *)
(***************************************************************************)

\* Mutant of HandleConnect: a reconnection does not say online, as before M7.
HandleConnectSilent ==
  /\ net = "loop" /\ connack /\ connack' = FALSE
  /\ UNCHANGED <<main, net, terminate, sock, wire, brokerVars>>

\* _handle_connect, rc = 0: discovery and online, on every (re)connection.
\* "late" is the payload "online" sent after the "offline" of disconnect().
HandleConnect ==
  /\ net = "loop" /\ connack /\ connack' = FALSE /\ Len(wire) < MaxWire
  /\ Publish(IF main \in {"loopStop", "join"} THEN "late" ELSE "online")
  /\ UNCHANGED <<main, net, terminate, sock, brokerVars>>

\* The socket is gone: unless told to terminate, dial again.
Redial ==
  /\ net = "loop" /\ ~sock /\ ~terminate /\ net' = "dialing"
  /\ UNCHANGED <<main, terminate, sock, wire, connack, brokerVars>>

Dialed ==
  /\ net = "dialing" /\ net' = "loop"
  /\ sock' = TRUE /\ wire' = <<"connect">> /\ connack' = FALSE
  /\ UNCHANGED <<main, terminate, brokerVars>>

DialFails ==
  /\ net = "dialing" /\ net' = "loop"
  /\ UNCHANGED <<main, terminate, sock, wire, connack, brokerVars>>

NetEnds ==
  /\ net = "loop" /\ terminate /\ net' = "ended"
  /\ UNCHANGED <<main, terminate, sock, wire, connack, brokerVars>>

(***************************************************************************)
(* The connection and the broker.                                          *)
(***************************************************************************)

\* The connection is lost, or the broker refuses it (rc # 0, which
\* _handle_connect only logs).
LinkDrops ==
  /\ sock /\ sock' = FALSE /\ wire' = <<>> /\ connack' = FALSE
  /\ session' = IF session = "live" THEN "stale" ELSE session
  /\ UNCHANGED <<main, net, terminate, will, retained>>

\* A session that ends without DISCONNECT publishes its will.
AfterWill == IF will THEN "offline" ELSE retained

\* Mutant of WillSet: connect() sets no will.
NoWill == FALSE

\* will_set in connect(): each CONNECT carries the will "offline".
WillSet == TRUE

\* CONNECT takes over a stale session, whose will is published first; the new
\* session has the will that connect() set.
RecvConnect ==
  /\ sock /\ wire # <<>> /\ Head(wire) = "connect" /\ wire' = Tail(wire)
  /\ retained' = IF session = "stale" THEN AfterWill ELSE retained
  /\ session' = "live" /\ will' = WillSet
  /\ connack' = Alive
  /\ UNCHANGED <<main, net, terminate, sock>>

RecvPublish ==
  /\ sock /\ wire # <<>> /\ Head(wire) \in {"online", "late", "offline"}
  /\ wire' = Tail(wire) /\ retained' = Head(wire)
  /\ UNCHANGED <<main, net, terminate, sock, connack, session, will>>

\* DISCONNECT ends the session without its will.
RecvDisconnect ==
  /\ sock /\ wire # <<>> /\ Head(wire) = "disconnect"
  /\ wire' = <<>> /\ sock' = FALSE /\ session' = "none"
  /\ UNCHANGED <<main, net, terminate, connack, will, retained>>

\* The socket of a dead process closes once what it sent has arrived.
RecvClose ==
  /\ main = "crashed" /\ sock /\ wire = <<>> /\ sock' = FALSE
  /\ session' = "none"
  /\ retained' = IF session = "live" THEN AfterWill ELSE retained
  /\ UNCHANGED <<main, net, terminate, wire, connack, will>>

\* The keepalive of a lost connection runs out.
KeepaliveExpires ==
  /\ session = "stale" /\ session' = "none" /\ retained' = AfterWill
  /\ UNCHANGED <<main, net, terminate, sock, wire, connack, will>>

MainNext ==
  Connect \/ FirstOnline \/ StopOffline \/ LoopStop \/ Joined \/ Disconnect
NetNext == HandleConnect \/ Redial \/ Dialed \/ NetEnds
BrokerNext ==
  RecvConnect \/ RecvPublish \/ RecvDisconnect \/ RecvClose \/ KeepaliveExpires

Next ==
  \/ MainNext \/ HotCycleOnline \/ Crash \/ Restart
  \/ NetNext \/ DialFails \/ LinkDrops \/ BrokerNext

Spec == Init /\ [][Next]_vars

\* paho's thread runs, the broker handles what arrives, and a dial that is
\* tried for ever succeeds some time; cycles need not bring data.
Fairness ==
  /\ WF_vars(Connect) /\ WF_vars(FirstOnline) /\ WF_vars(LoopStop)
  /\ WF_vars(Joined) /\ WF_vars(Disconnect) /\ WF_vars(HandleConnect)
  /\ WF_vars(Redial) /\ SF_vars(Dialed) /\ WF_vars(NetEnds)
  /\ WF_vars(BrokerNext)

FairSpec == Spec /\ Fairness

(***************************************************************************)
(* Properties.                                                             *)
(***************************************************************************)
\* The process is over and the broker has heard everything of it.
Over == main \in {"gone", "crashed"} /\ ~sock /\ session = "none"

\* A daemon that is gone is not retained online by what it published before
\* disconnect() said offline, whatever drops, crashes, late keepalives and
\* restarts came between.
GoneIsOffline == Over => retained # "online"

\* M7: a daemon that runs with a connection that lasts is retained online,
\* also when its polls bring no data and only _handle_connect says so.
BackOnline == <>[](main = "run" /\ sock) => <>[](retained = "online")

\* A crash is retained offline in the end, or the daemon comes back; what an
\* earlier orderly stop left there "late" is not the crash's.
CrashShows == (main = "crashed") ~> (retained # "online" \/ main # "crashed")

\* An orderly stop ends: neither the network thread nor the broker can hold it.
StopEnds == (main = "loopStop") ~> (main \in {"gone", "crashed"})

\* What the documentation says of the availability topic: a daemon that is gone
\* is retained offline.
NeverOnlineWhenGone == Over => retained \notin {"online", "late"}
=============================================================================
