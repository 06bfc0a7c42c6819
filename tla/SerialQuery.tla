---------------------------- MODULE SerialQuery ----------------------------
(***************************************************************************)
(* SerialPort.query of inverter_bridge/serial_io.py on a bus that the      *)
(* inverter's LCD uses as a second master: the incremental read, the       *)
(* pairing of responses with the requests before them, the three-tier      *)
(* match and the search for an exception.  The callback that counts CRC    *)
(* errors is left out.                                                     *)
(*                                                                         *)
(* A frame is two pieces, so that a chunk, or the flush at the start of a  *)
(* query, can cut it anywhere; the walk over the bytes recognises a frame  *)
(* when both pieces are there and steps over anything else.  A response    *)
(* tells its slave and its number of registers, not its address: its       *)
(* addr is known to the properties only.                                   *)
(***************************************************************************)
EXTENDS Integers, Sequences

CONSTANTS
  Blocks,     \* the addresses this port queries
  LcdBlocks,  \* the addresses the LCD asks for
  Count,      \* number of registers of each address
  Slaves,     \* the slaves of the bus
  OurSlave,   \* the slave of this inverter
  MaxPieces,  \* bound: pieces received in one query
  MaxOwed     \* bound: requests a slave has not answered

Addrs == Blocks \union LcdBlocks

ASSUME CountAssumption == Count \in [Addrs -> Nat \ {0}]
ASSUME SlaveAssumption == OurSlave \in Slaves
ASSUME BoundAssumption == MaxPieces \in Nat /\ MaxOwed \in Nat

VARIABLES
  pc,      \* "closed", "open" before the write, or "read" inside query's loop
  ask,     \* addr of the query
  line,    \* pieces in the driver's input buffer
  buf,     \* buf
  rest,    \* the piece that completes the frame being sent; <<>> without one
  owed,    \* requests the slaves have not answered, ours and the LCD's
  result,  \* how the last query ended
  got      \* history: everything the query has read

vars == <<pc, ask, line, buf, rest, owed, result, got>>
busVars == <<rest, owed>>

Kinds == {"request", "response", "corrupt", "exception"}
Frame == [kind : Kinds, slave : Slaves, addr : Addrs]
Piece == [kind : Kinds, slave : Slaves, addr : Addrs, part : {1, 2}]
PieceOf(f, part) == [kind |-> f.kind, slave |-> f.slave, addr |-> f.addr,
                     part |-> part]

\* How a query ends, and the place of the frame that ended it in what was read.
NoResult == [kind |-> "none", addr |-> 0, at |-> 0]
Ended(kind, b, k) == [kind |-> kind, addr |-> b[k].addr, at |-> k]

Init ==
  /\ pc = "closed" /\ ask \in Blocks
  /\ line = <<>> /\ buf = <<>> /\ rest = <<>> /\ owed = <<>>
  /\ result = NoResult /\ got = <<>>

(***************************************************************************)
(* The bus.  Masters and slaves speak one at a time; a port that is closed *)
(* hears nothing.                                                          *)
(***************************************************************************)
Hear(p) == line' = IF pc = "closed" THEN line ELSE Append(line, p)

\* The first piece of a frame; the second follows before anything else.
Speak(f) ==
  /\ rest = <<>> /\ Len(line) + Len(buf) + 2 <= MaxPieces
  /\ Hear(PieceOf(f, 1)) /\ rest' = <<PieceOf(f, 2)>>
  /\ UNCHANGED <<pc, ask, buf, result, got>>

Finish ==
  /\ rest # <<>> /\ Hear(rest[1]) /\ rest' = <<>>
  /\ UNCHANGED <<pc, ask, buf, owed, result, got>>

\* The LCD asks for a block, when it waits for no other.
LcdAsks(s, a) ==
  /\ Len(owed) < MaxOwed /\ \A k \in DOMAIN owed : owed[k].mine
  /\ owed' = Append(owed, [slave |-> s, addr |-> a, mine |-> FALSE])
  /\ Speak([kind |-> "request", slave |-> s, addr |-> a])

\* The oldest request is answered, perhaps damaged or with an exception.
SlaveAnswers(kind) ==
  /\ owed # <<>> /\ owed' = Tail(owed)
  /\ Speak([kind |-> kind, slave |-> owed[1].slave, addr |-> owed[1].addr])

RequestLost ==
  /\ owed # <<>> /\ owed' = Tail(owed)
  /\ UNCHANGED <<pc, ask, line, buf, rest, result, got>>

(***************************************************************************)
(* The walk over the buffer.                                               *)
(***************************************************************************)

\* The frames of which all bytes are in b, by the place where they start.
Whole(b) == {k \in DOMAIN b : b[k].part = 1 /\ k < Len(b)}

Sets(b, k) == b[k].kind \in {"request", "response"}

\* The frame that pending_addr and pending_slave come from at frame k: the last
\* request or response before it.
Before(b, k) ==
  {j \in Whole(b) : /\ j < k /\ Sets(b, j)
                    /\ \A i \in Whole(b) : i > j /\ i < k => ~Sets(b, i)}

\* The request that responses_with_context pairs with the response k: at most
\* one, and none when a response came in between.
Context(b, k) ==
  {j \in Before(b, k) : b[j].kind = "request" /\ b[j].slave = b[k].slave}

\* Responses of our slave with as many registers as we asked for.
Matches(b) ==
  {k \in Whole(b) : /\ b[k].kind = "response" /\ b[k].slave = OurSlave
                    /\ Count[b[k].addr] = Count[ask]}

Tier(b, k) ==
  IF Context(b, k) = {} THEN 2
  ELSE IF \E j \in Context(b, k) : b[j].addr = ask THEN 1 ELSE 3

\* Mutant of Selected: the first match, whatever stands before it.
SelectedFirst(b) == {k \in Matches(b) : \A j \in Matches(b) : k <= j}

\* select_response: the first match of the strongest tier.
Selected(b) ==
  {k \in Matches(b) :
     \A j \in Matches(b) : \/ Tier(b, k) < Tier(b, j)
                           \/ Tier(b, k) = Tier(b, j) /\ k <= j}

\* _find_exception: an exception of our slave, whoever had asked.
Exceptions(b) ==
  {k \in Whole(b) : b[k].kind = "exception" /\ b[k].slave = OurSlave}

(***************************************************************************)
(* query().                                                                *)
(***************************************************************************)

\* Open the port and flush what it held.
Query(a) ==
  /\ pc = "closed" /\ pc' = "open" /\ ask' = a
  /\ line' = <<>> /\ buf' = <<>> /\ result' = NoResult /\ got' = <<>>
  /\ UNCHANGED busVars

\* Write the request; the bus is ours when it goes out, and it does not echo.
Send ==
  /\ pc = "open" /\ pc' = "read" /\ rest = <<>>
  /\ Len(owed) < MaxOwed
  /\ owed' = Append(owed, [slave |-> OurSlave, addr |-> ask, mine |-> TRUE])
  /\ UNCHANGED <<ask, line, buf, rest, result, got>>

\* Mutant of Grown: each chunk is matched on its own.
LastChunk(n) == SubSeq(line, 1, n)

\* buf += chunk
Grown(n) == buf \o SubSeq(line, 1, n)

\* One iteration that reads n pieces: match, else look for an exception.
Read(n) ==
  /\ pc = "read"
  /\ buf' = Grown(n) /\ line' = SubSeq(line, n + 1, Len(line))
  /\ got' = got \o SubSeq(line, 1, n)
  /\ \/ \E k \in Selected(buf') :
          pc' = "closed" /\ result' = Ended("frame", buf', k)
     \/ /\ Matches(buf') = {}
        /\ \E k \in Exceptions(buf') :
             /\ \A j \in Exceptions(buf') : k <= j
             /\ pc' = "closed" /\ result' = Ended("exception", buf', k)
     \/ Matches(buf') = {} /\ Exceptions(buf') = {} /\ UNCHANGED <<pc, result>>
  /\ UNCHANGED <<ask, busVars>>

\* Mutant of Deadline: the function ends without raising anything.
DeadlineReturns ==
  /\ pc = "read" /\ pc' = "closed" /\ result' = [NoResult EXCEPT !.kind = "nothing"]
  /\ UNCHANGED <<ask, line, buf, got, busVars>>

\* The deadline: the buffer is searched for an exception once more.
Deadline ==
  /\ pc = "read" /\ pc' = "closed"
  /\ \/ \E k \in Exceptions(buf) : result' = Ended("exception", buf, k)
     \/ Exceptions(buf) = {} /\ result' = [NoResult EXCEPT !.kind = "timeout"]
  /\ UNCHANGED <<ask, line, buf, got, busVars>>

\* The driver raises (open, write, read): the port is closed.
DriverFails ==
  /\ pc # "closed" /\ pc' = "closed" /\ result' = [NoResult EXCEPT !.kind = "error"]
  /\ UNCHANGED <<ask, line, buf, got, busVars>>

Next ==
  \/ \E s \in Slaves, a \in LcdBlocks : LcdAsks(s, a)
  \/ \E kind \in {"response", "corrupt", "exception"} : SlaveAnswers(kind)
  \/ Finish \/ RequestLost
  \/ \E a \in Blocks : Query(a)
  \/ Send
  \/ \E n \in 1..Len(line) : Read(n)
  \/ Deadline \/ DriverFails

Spec == Init /\ [][Next]_vars

(***************************************************************************)
(* Properties.                                                             *)
(***************************************************************************)

\* Type correctness of the bus, the buffers and the outcome.
TypeOK ==
  /\ pc \in {"closed", "open", "read"} /\ ask \in Blocks
  /\ line \in Seq(Piece) /\ buf \in Seq(Piece) /\ got \in Seq(Piece)
  /\ rest \in {<<>>} \union {<<p>> : p \in Piece}
  /\ owed \in Seq([slave : Slaves, addr : Addrs, mine : BOOLEAN])
  /\ Len(owed) <= MaxOwed
  /\ result.kind \in {"none", "frame", "exception", "timeout", "error"}


\* The undamaged answers in b with the registers that were asked for.
Answers(b) ==
  {k \in Whole(b) : b[k].kind = "response" /\ b[k].slave = OurSlave /\ b[k].addr = ask}

\* M2: query() returns another block only if this is one that the LCD alone reads, so
\* never through a late answer to an earlier query, and if the pairing could not tell:
\* the LCD's response had lost its request (flushed, or answered for us in between),
\* or no answer to us had been read but behind a request of the LCD.
OnlyUnpaired ==
  result.kind = "frame" /\ result.addr # ask =>
    /\ result.addr \notin Blocks
    /\ \/ Context(got, result.at) = {}
       \/ \A k \in Answers(got) : Context(got, k) # {}

\* query() gives up only when nothing it has read answers it: an answer cut by
\* chunks, or behind noise, is never thrown away.
NothingLost ==
  result.kind = "timeout" => Matches(got) = {} /\ Exceptions(got) = {}

\* Every block we poll has a register count of its own; an LCD block may share one.
OwnCounts == \A a, b \in Blocks : Count[a] = Count[b] => a = b
=============================================================================
