----------------------------- MODULE BleClient ------------------------------
(***************************************************************************)
(* OctopusBleClient (inverter_bridge/bms/ble_client.py) with the frame     *)
(* checks of octopus_protocol.py: one request at a time is written to the  *)
(* master pack, replies come back as notifications, and _request takes     *)
(* the first of at most three that carries the pack and the byte count it  *)
(* asked for.                                                              *)
(*                                                                         *)
(* The link, the master and BlueZ are external.  Replies arrive in order,  *)
(* any time after the request or never, whole or damaged; frames nobody    *)
(* asked for arrive too.  A frame says which pack and block it is of, not  *)
(* which request it answers: own is known to the properties only.          *)
(***************************************************************************)
EXTENDS Naturals, Sequences

CONSTANTS
  Packs,      \* packs behind the master
  Attempts,   \* notifications _request looks at before it gives up
  MaxFrames   \* bound: frames in the air, and frames in the queue

ASSUME AttemptsAssumption == Attempts \in Nat \ {0}
ASSUME MaxFramesAssumption == MaxFrames \in Nat \ {0}

\* The two blocks: byte_count 0x24 and 0x34.
Kinds == {"pia", "pib"}

\* A notification: the pack and block its header names, whether its CRC is right
\* for its length, and whether it answers the request being served.  One that is
\* too short, or of another function code, is passed over like one of a pack
\* and block nobody asks for.
Frame == [pack : Packs, kind : Kinds, crc : BOOLEAN, own : BOOLEAN]

VARIABLES
  link,     \* "down", "half" (connected, but start_notify failed) or "up"
  call,    \* where _request is
  asked,    \* the pack and the block of that request
  tries,    \* _attempt
  q,        \* _notify_q
  air,      \* replies the master has not sent yet
  got,      \* the frame the request returned, as a set of at most one
  result,   \* how the poll ended
  alone     \* history: nothing but the answer to this request was on its way

bleVars == <<link, call, asked, tries, q, air, got, result, alone>>
requestVars == <<asked, tries, got>>

Blocks == [pack : Packs, kind : Kinds]

BleInit ==
  /\ link = "down" /\ call = "idle" /\ asked \in Blocks /\ tries = 0
  /\ q = <<>> /\ air = <<>> /\ got = {}
  /\ result = "none" /\ alone = FALSE

(***************************************************************************)
(* The connection.                                                         *)
(***************************************************************************)

\* connect() of a new client: its queue is empty.
Connect ==
  /\ link # "up" /\ call = "idle" /\ link' = "up"
  /\ q' = <<>> /\ air' = <<>>
  /\ UNCHANGED <<call, requestVars, result, alone>>

\* start_notify raises: __aenter__ fails, so nobody calls disconnect().
ConnectHalf ==
  /\ link = "down" /\ call = "idle" /\ link' = "half"
  /\ UNCHANGED <<call, requestVars, q, air, result, alone>>

\* disconnect(): stop_notify, disconnect, and an empty queue in any case.
Disconnect ==
  /\ call = "idle" /\ link' = (IF link = "up" THEN "down" ELSE link)
  /\ q' = <<>> /\ air' = (IF link = "up" THEN <<>> ELSE air)
  /\ UNCHANGED <<call, requestVars, result, alone>>

LinkDrops ==
  /\ link # "down" /\ link' = "down" /\ air' = <<>>
  /\ UNCHANGED <<call, requestVars, q, result, alone>>

(***************************************************************************)
(* The master pack and _on_notify.                                         *)
(***************************************************************************)

\* The same frame with some of its bytes wrong.
Damaged(f) == {[g EXCEPT !.own = f.own] : g \in {h \in Frame : ~h.crc}}

\* _on_notify: whatever arrives is queued.
Notify ==
  /\ link = "up" /\ air # <<>> /\ Len(q) < MaxFrames /\ air' = Tail(air)
  /\ \E f \in {Head(air)} \union Damaged(Head(air)) : q' = Append(q, f)
  /\ UNCHANGED <<link, call, requestVars, result, alone>>

\* A frame that answers nobody: another master's reply, an echo, noise.
Unsolicited ==
  /\ link = "up" /\ Len(q) < MaxFrames /\ alone' = FALSE
  /\ \E f \in Frame : ~f.own /\ q' = Append(q, f)
  /\ UNCHANGED <<link, call, requestVars, air, result>>

(***************************************************************************)
(* _request, with what poll_pia and poll_pib make of its outcome.          *)
(***************************************************************************)

\* Frames of earlier requests answer none that is still waiting.
Disown(s) == [i \in DOMAIN s |-> [s[i] EXCEPT !.own = FALSE]]

\* Mutant of Request: the queue is not drained.
RequestUndrained(b) ==
  /\ call = "idle" /\ link = "up" /\ call' = "write"
  /\ asked' = b /\ tries' = 0 /\ got' = {} /\ result' = "none"
  /\ q' = Disown(q) /\ air' = Disown(air) /\ alone' = (air = <<>>)
  /\ UNCHANGED link

\* The queue is drained before the frame is written.
Request(b) ==
  /\ call = "idle" /\ link = "up" /\ call' = "write"
  /\ asked' = b /\ tries' = 0 /\ got' = {} /\ result' = "none"
  /\ q' = <<>> /\ air' = Disown(air) /\ alone' = (air = <<>>)
  /\ UNCHANGED link

\* "not connected"
Refuse(b) ==
  /\ call = "idle" /\ link # "up" /\ asked' = b /\ got' = {}
  /\ result' = "error"
  /\ UNCHANGED <<link, call, tries, q, air, alone>>

Reply == [pack |-> asked.pack, kind |-> asked.kind, crc |-> TRUE, own |-> TRUE]

\* write_gatt_char without response: the request may be lost, or answered later.
Write ==
  /\ call = "write" /\ link = "up" /\ call' = "await"
  /\ \/ Len(air) < MaxFrames /\ air' = Append(air, Reply)
     \/ UNCHANGED air
  /\ UNCHANGED <<link, requestVars, q, result, alone>>

WriteFails ==
  /\ call = "write" /\ call' = "idle" /\ result' = "error"
  /\ UNCHANGED <<link, requestVars, q, air, alone>>

\* The header checks: length, slave, function code, byte count.
Matches(f) == f.pack = asked.pack /\ f.kind = asked.kind

\* The first match is parsed; a DecodeError is the caller's failed poll.
Accept ==
  /\ call = "await" /\ q # <<>> /\ Matches(Head(q))
  /\ call' = "idle" /\ q' = Tail(q)
  /\ IF Head(q).crc
       THEN got' = {Head(q)} /\ result' = "ok"
       ELSE result' = "decode" /\ UNCHANGED got
  /\ UNCHANGED <<link, asked, tries, air, alone>>

\* Mutant of Discard: it looks for the response for ever.
DiscardForever ==
  /\ call = "await" /\ q # <<>> /\ ~Matches(Head(q))
  /\ q' = Tail(q)
  /\ UNCHANGED <<link, call, asked, tries, air, got, result, alone>>

\* A frame of something else costs one attempt; the last one is a TimeoutError.
Discard ==
  /\ call = "await" /\ q # <<>> /\ ~Matches(Head(q))
  /\ q' = Tail(q) /\ tries' = tries + 1
  /\ IF tries' = Attempts
       THEN call' = "idle" /\ result' = "timeout"
       ELSE UNCHANGED <<call, result>>
  /\ UNCHANGED <<link, asked, air, got, alone>>

\* wait_for gives up on an empty queue.
TimesOut ==
  /\ call = "await" /\ q = <<>> /\ call' = "idle" /\ result' = "timeout"
  /\ UNCHANGED <<link, requestVars, q, air, alone>>

Serve == Write \/ WriteFails \/ Accept \/ Discard \/ TimesOut

BleNext ==
  \/ Connect \/ ConnectHalf \/ Disconnect \/ LinkDrops
  \/ Notify \/ Unsolicited
  \/ (\E b \in Blocks : Request(b) \/ Refuse(b))
  \/ Serve

BleSpec == BleInit /\ [][BleNext]_bleVars

\* The event loop runs and its timers fire; nothing says that a reply comes.
BleFairness == WF_bleVars(Serve)

(***************************************************************************)
(* Properties.                                                             *)
(***************************************************************************)

\* Type correctness of the client, its queue and the link.
TypeOK ==
  /\ link \in {"down", "half", "up"} /\ call \in {"idle", "write", "await"}
  /\ asked \in Blocks /\ tries \in 0..Attempts
  /\ q \in Seq(Frame) /\ air \in Seq(Frame)
  /\ got \in SUBSET Frame
  /\ result \in {"none", "ok", "decode", "timeout", "error"}
  /\ alone \in BOOLEAN

\* The drain before the write brings requests and replies back in step: when
\* nothing was on its way as a request began and nothing foreign came since, the
\* reading it returns is the undamaged answer to this very request, whatever
\* frames earlier requests, lost links and timeouts left in the queue.
InStep ==
  alone => \A f \in got : /\ f.own /\ f.crc
                           /\ f.pack = asked.pack /\ f.kind = asked.kind

\* A poll ends, also on a link that never stops bringing foreign frames.
PollEnds == (call # "idle") ~> (call = "idle")
=============================================================================
