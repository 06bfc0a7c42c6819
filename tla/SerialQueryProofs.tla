-------------------------- MODULE SerialQueryProofs --------------------------
(***************************************************************************)
(* Theorems about SerialQuery, for any blocks, counts and slaves and any   *)
(* amount of traffic.                                                      *)
(***************************************************************************)
EXTENDS SerialQuery, SequenceTheorems, TLAPS

(***************************************************************************)
(* The inductive invariant.  While query() reads, nothing in its buffer    *)
(* answers it: every chunk is matched with all the bytes before it.  What  *)
(* query() has read is all in its buffer.                                  *)
(***************************************************************************)
Pieces ==
  /\ pc \in {"closed", "open", "read"} /\ ask \in Blocks
  /\ line \in Seq(Piece) /\ buf \in Seq(Piece)
  /\ rest \in {<<>>} \union {<<p>> : p \in Piece}
  /\ owed \in Seq([slave : Slaves, addr : Addrs, mine : BOOLEAN])

Unanswered == Matches(buf) = {} /\ Exceptions(buf) = {}

Reading == pc # "closed" => Unanswered /\ result.kind = "none"

IInv == Pieces /\ got = buf /\ Reading /\ NothingLost

(***************************************************************************)
(* Lemmas.                                                                 *)
(***************************************************************************)

\* The two pieces of a frame are pieces.
LEMMA PieceFacts ==
  ASSUME NEW f \in Frame, NEW part \in {1, 2}
  PROVE  PieceOf(f, part) \in Piece
BY DEF PieceOf, Piece, Frame

\* A chunk and what is left of the input buffer.
LEMMA ChunkFacts ==
  ASSUME NEW s \in Seq(Piece), NEW n \in 1..Len(s)
  PROVE  /\ SubSeq(s, 1, n) \in Seq(Piece)
         /\ SubSeq(s, n + 1, Len(s)) \in Seq(Piece)
<1>1. Len(s) \in Nat /\ \A k \in 1..Len(s) : s[k] \in Piece
  BY LenProperties, ElementOfSeq
<1>2. SubSeq(s, 1, n) \in Seq(Piece)
  BY <1>1, SubSeqProperties, \A k \in 1..n : s[k] \in Piece
<1>3. SubSeq(s, n + 1, Len(s)) \in Seq(Piece)
  BY <1>1, SubSeqProperties, \A k \in (n + 1)..Len(s) : s[k] \in Piece
<1> QED
  BY <1>2, <1>3

\* Speaking puts at most one more piece on the line.
LEMMA SpeakFacts ==
  ASSUME Pieces, NEW f \in Frame, Speak(f)
  PROVE  line' \in Seq(Piece) /\ rest' \in {<<p>> : p \in Piece}
<1>1. PieceOf(f, 1) \in Piece /\ PieceOf(f, 2) \in Piece
  BY PieceFacts
<1>2. Append(line, PieceOf(f, 1)) \in Seq(Piece)
  BY <1>1, AppendProperties DEF Pieces
<1> QED
  BY <1>1, <1>2 DEF Speak, Hear, Pieces

\* Every step keeps the types the argument needs.
LEMMA PiecesStep == Pieces /\ [Next]_vars => Pieces'
<1> SUFFICES ASSUME Pieces, [Next]_vars PROVE Pieces'
  OBVIOUS
<1> DEFINE Request == [slave : Slaves, addr : Addrs, mine : BOOLEAN]
<1>1. ASSUME NEW s \in Slaves, NEW a \in LcdBlocks, LcdAsks(s, a) PROVE Pieces'
  <2>1. [kind |-> "request", slave |-> s, addr |-> a] \in Frame
    BY DEF Frame, Kinds, Addrs
  <2>2. line' \in Seq(Piece) /\ rest' \in {<<p>> : p \in Piece}
    BY <1>1, <2>1, SpeakFacts DEF LcdAsks
  <2>3. [slave |-> s, addr |-> a, mine |-> FALSE] \in Request
    BY DEF Addrs
  <2>4. owed' \in Seq(Request)
    BY <1>1, <2>3, AppendProperties DEF LcdAsks, Pieces
  <2> QED
    BY <1>1, <2>2, <2>4 DEF LcdAsks, Speak, Pieces
<1>2. ASSUME NEW kind \in {"response", "corrupt", "exception"}, SlaveAnswers(kind)
      PROVE  Pieces'
  <2>1. owed[1] \in Request /\ owed' \in Seq(Request)
    <3>1. owed \in Seq(Request) /\ owed # <<>>
      BY <1>2 DEF SlaveAnswers, Pieces
    <3>2. Len(owed) \in Nat \ {0} /\ Tail(owed) \in Seq(Request)
      BY <3>1, EmptySeq, HeadTailProperties
    <3>3. owed[1] \in Request
      <4>1. 1 \in 1..Len(owed)
        BY <3>2
      <4> HIDE DEF Request
      <4> QED
        BY <3>1, <4>1, ElementOfSeq
    <3> QED
      BY <1>2, <3>2, <3>3 DEF SlaveAnswers
  <2>2. [kind |-> kind, slave |-> owed[1].slave, addr |-> owed[1].addr] \in Frame
    BY <2>1 DEF Frame, Kinds
  <2>3. line' \in Seq(Piece) /\ rest' \in {<<p>> : p \in Piece}
    BY <1>2, <2>2, SpeakFacts DEF SlaveAnswers
  <2> QED
    BY <1>2, <2>1, <2>3 DEF SlaveAnswers, Speak, Pieces
<1>3. CASE Finish
  <2>1. rest[1] \in Piece
    BY <1>3 DEF Finish, Pieces
  <2>2. Append(line, rest[1]) \in Seq(Piece)
    BY <2>1, AppendProperties DEF Pieces
  <2> QED
    BY <1>3, <2>2 DEF Finish, Hear, Pieces
<1>4. CASE RequestLost
  <2>1. owed' \in Seq(Request)
    BY <1>4, HeadTailProperties DEF RequestLost, Pieces
  <2> QED
    BY <1>4, <2>1 DEF RequestLost, Pieces
<1>5. ASSUME NEW a \in Blocks, Query(a) PROVE Pieces'
  <2>1. <<>> \in Seq(Piece)
    BY EmptySeq
  <2> QED
    BY <1>5, <2>1 DEF Query, Pieces, busVars
<1>10. CASE Send
  <2>1. [slave |-> OurSlave, addr |-> ask, mine |-> TRUE] \in Request
    BY SlaveAssumption DEF Addrs, Pieces
  <2>2. owed' \in Seq(Request)
    BY <1>10, <2>1, AppendProperties DEF Send, Pieces
  <2> QED
    BY <1>10, <2>2 DEF Send, Pieces
<1>6. ASSUME NEW n \in 1..Len(line), Read(n) PROVE Pieces'
  <2>1. /\ SubSeq(line, 1, n) \in Seq(Piece)
        /\ SubSeq(line, n + 1, Len(line)) \in Seq(Piece)
    BY ChunkFacts DEF Pieces
  <2>2. buf' \in Seq(Piece) /\ line' \in Seq(Piece)
    BY <1>6, <2>1, ConcatProperties DEF Read, Grown, Pieces
  <2>3. pc' \in {"closed", "open", "read"}
    BY <1>6 DEF Read, Pieces
  <2> QED
    BY <1>6, <2>2, <2>3 DEF Read, Pieces, busVars
<1>7. CASE Deadline
  BY <1>7 DEF Deadline, Pieces, busVars
<1>8. CASE DriverFails
  BY <1>8 DEF DriverFails, Pieces, busVars
<1>9. CASE UNCHANGED vars
  BY <1>9 DEF vars, Pieces
<1> QED
  BY <1>1, <1>2, <1>3, <1>4, <1>5, <1>6, <1>7, <1>8, <1>9, <1>10 DEF Next

\* The bus does not touch the query's buffer, its question or its outcome.
BusStep ==
  UNCHANGED <<pc, ask, buf, result, got>>

\* Every step is one of the bus or one of the query.
LEMMA StepCases ==
  ASSUME [Next]_vars
  PROVE  \/ BusStep
         \/ \E a \in Blocks : Query(a)
         \/ Send
         \/ \E n \in 1..Len(line) : Read(n)
         \/ Deadline
         \/ DriverFails
BY DEF Next, vars, BusStep, LcdAsks, SlaveAnswers, Speak, Finish, RequestLost

\* While it reads, nothing in the buffer answers the query; every step keeps
\* that, and with it what a timeout means.
LEMMA ReadingStep ==
  ASSUME IInv, [Next]_vars
  PROVE  got' = buf' /\ Reading' /\ NothingLost'
<1> USE DEF IInv
<1>1. CASE BusStep
  BY <1>1 DEF BusStep, Reading, Unanswered, NothingLost, Matches, Exceptions, Whole
<1>2. ASSUME NEW a \in Blocks, Query(a) PROVE got' = buf' /\ Reading' /\ NothingLost'
  <2>1. buf' = <<>> /\ got' = <<>> /\ result'.kind = "none"
    BY <1>2 DEF Query, NoResult
  <2>2. Matches(buf)' = {} /\ Exceptions(buf)' = {}
    BY <2>1 DEF Matches, Exceptions, Whole
  <2> QED
    BY <2>1, <2>2 DEF Reading, Unanswered, NothingLost
<1>3. ASSUME NEW n \in 1..Len(line), Read(n) PROVE got' = buf' /\ Reading' /\ NothingLost'
  <2>1. \/ pc' = "closed" /\ result'.kind \in {"frame", "exception"}
        \/ Unanswered' /\ pc' = pc /\ result' = result
    <3>1. \/ pc' = "closed" /\ \E k \in DOMAIN buf' :
               \/ result' = Ended("frame", buf', k)
               \/ result' = Ended("exception", buf', k)
          \/ /\ Matches(buf') = {} /\ Exceptions(buf') = {}
             /\ UNCHANGED <<pc, result>>
      BY <1>3 DEF Read, Selected, Matches, Exceptions, Whole
    <3>2. Matches(buf)' = Matches(buf') /\ Exceptions(buf)' = Exceptions(buf')
      BY <1>3 DEF Read, Matches, Exceptions, Whole
    <3>3. CASE \E k \in DOMAIN buf' : \/ result' = Ended("frame", buf', k)
                                      \/ result' = Ended("exception", buf', k)
      BY <3>1, <3>2, <3>3 DEF Ended, Unanswered
    <3>4. CASE Matches(buf') = {} /\ Exceptions(buf') = {} /\ UNCHANGED <<pc, result>>
      BY <3>2, <3>4 DEF Unanswered
    <3> QED
      BY <3>1, <3>3, <3>4
  <2>2. pc = "read" /\ result.kind = "none"
    BY <1>3 DEF Read, Reading
  <2>3. got' = buf'
    BY <1>3 DEF Read, Grown
  <2> QED
    BY <2>1, <2>2, <2>3 DEF Reading, NothingLost
<1>4. CASE Deadline
  <2>1. Unanswered /\ UNCHANGED <<ask, buf, got>> /\ pc' = "closed"
    BY <1>4 DEF Deadline, Reading
  <2>2. Matches(got)' = {} /\ Exceptions(got)' = {}
    BY <2>1 DEF Unanswered, Matches, Exceptions, Whole
  <2> QED
    BY <2>1, <2>2 DEF Reading, NothingLost
<1>5. CASE DriverFails
  BY <1>5 DEF DriverFails, Reading, NothingLost, NoResult
<1>6. CASE Send
  BY <1>6 DEF Send, Reading, Unanswered, NothingLost, Matches, Exceptions, Whole
<1> QED
  BY <1>1, <1>2, <1>3, <1>4, <1>5, <1>6, StepCases

\* The invariant holds at the start and every step keeps it.
LEMMA Inductive == (Init => IInv) /\ (IInv /\ [Next]_vars => IInv')
<1>1. Init => IInv
  <2> SUFFICES ASSUME Init PROVE IInv
    OBVIOUS
  <2>1. Pieces
    BY EmptySeq DEF Init, Pieces
  <2> QED
    BY <2>1 DEF Init, IInv, Reading, NothingLost, NoResult
<1> QED
  BY <1>1, PiecesStep, ReadingStep DEF IInv

\* What TypeOK adds to Pieces: the bus keeps its bound and query() ends in one of
\* its ways.
Outcomes ==
  /\ Len(owed) <= MaxOwed
  /\ result.kind \in {"none", "frame", "exception", "timeout", "error"}

\* Every step keeps the bus in its bound and the outcome well formed.
LEMMA OutcomesStep ==
  ASSUME IInv, Outcomes, [Next]_vars
  PROVE  Outcomes'
<1> DEFINE Request == [slave : Slaves, addr : Addrs, mine : BOOLEAN]
<1>0. owed \in Seq(Request) /\ Len(owed) \in Nat /\ MaxOwed \in Nat
  BY LenProperties, BoundAssumption DEF IInv, Pieces
<1>1. ASSUME Len(owed) < MaxOwed, NEW r, owed' = Append(owed, r)
      PROVE  Len(owed') <= MaxOwed
  BY <1>0, <1>1
<1>2. ASSUME owed # <<>>, owed' = Tail(owed)
      PROVE  Len(owed') <= MaxOwed
  <2>1. Len(Tail(owed)) = Len(owed) - 1
    BY <1>0, <1>2, HeadTailProperties
  <2> QED
    BY <1>0, <1>2, <2>1 DEF Outcomes
<1>3. ASSUME NEW s \in Slaves, NEW a \in LcdBlocks, LcdAsks(s, a) PROVE Outcomes'
  BY <1>1, <1>3 DEF LcdAsks, Speak, Outcomes
<1>4. ASSUME NEW kind \in {"response", "corrupt", "exception"}, SlaveAnswers(kind)
      PROVE  Outcomes'
  BY <1>2, <1>4 DEF SlaveAnswers, Speak, Outcomes
<1>5. CASE Finish
  BY <1>5 DEF Finish, Outcomes
<1>6. CASE RequestLost
  BY <1>2, <1>6 DEF RequestLost, Outcomes
<1>7. ASSUME NEW a \in Blocks, Query(a) PROVE Outcomes'
  BY <1>7 DEF Query, NoResult, Outcomes, busVars
<1>8. ASSUME NEW n \in 1..Len(line), Read(n) PROVE Outcomes'
  <2>1. result'.kind \in {"frame", "exception"} \/ result' = result
    BY <1>8 DEF Read, Ended
  <2> QED
    BY <1>8, <2>1 DEF Read, busVars, Outcomes
<1>11. CASE Send
  BY <1>1, <1>11 DEF Send, Outcomes
<1>9. CASE Deadline \/ DriverFails
  BY <1>9 DEF Deadline, DriverFails, Ended, NoResult, busVars, Outcomes
<1>10. CASE UNCHANGED vars
  BY <1>10 DEF vars, Outcomes
<1> QED
  BY <1>3, <1>4, <1>5, <1>6, <1>7, <1>8, <1>9, <1>10, <1>11 DEF Next

\* Every reachable state of the bus and the query is well typed, for any traffic.
THEOREM TypeCorrect == Spec => []TypeOK
<1>1. Init => IInv /\ Outcomes
  BY Inductive, BoundAssumption DEF Init, Outcomes, NoResult
<1>2. IInv /\ Outcomes /\ [Next]_vars => (IInv /\ Outcomes)'
  BY Inductive, OutcomesStep
<1>3. IInv /\ Outcomes => TypeOK
  BY DEF IInv, Pieces, Outcomes, TypeOK
<1> QED
  BY <1>1, <1>2, <1>3, PTL DEF Spec

\* query() gives up only when nothing it has read answers it, for any traffic.
THEOREM NoAnswerIsLost == Spec => []NothingLost
<1>1. IInv => NothingLost
  BY DEF IInv
<1> QED
  BY Inductive, <1>1, PTL DEF Spec


(***************************************************************************)
(* The pairing.  What a query receives is one stream, of which the buffer  *)
(* is the part read so far.  In the stream a response follows a request    *)
(* directly, not counting damaged frames and exceptions, only if it        *)
(* answers that request or one of ours: the LCD waits for one answer at a  *)
(* time, and a request of ours is not in the stream.                       *)
(***************************************************************************)
Stream == buf \o line

\* A request or a response begins at k.
Begins(s, k) == s[k].part = 1 /\ s[k].kind \in {"request", "response"}

\* Frame k of the stream comes after request j with neither kind between.
Follows(s, j, k) ==
  /\ j < k /\ s[j].part = 1 /\ s[j].kind = "request"
  /\ \A i \in 1..Len(s) : j < i /\ i < k => ~Begins(s, i)

Paired(s) ==
  \A j, k \in 1..Len(s) :
    Follows(s, j, k) /\ s[k].part = 1 /\ s[k].kind = "response"
      => s[k].addr = s[j].addr \/ s[k].addr \in Blocks

\* The LCD waits for the answer to the request the stream ends with, if any.
Waits ==
  pc # "closed" =>
    \A j \in 1..Len(Stream) : Follows(Stream, j, Len(Stream) + 1) =>
      \A m \in 1..Len(owed) : ~owed[m].mine => owed[m].addr = Stream[j].addr

\* What we ask for is a block of ours.
Mine == \A m \in 1..Len(owed) : owed[m].mine => owed[m].addr \in Blocks

\* The piece to come completes a frame.
Second == rest # <<>> => rest[1].part = 2

PInv == Pieces /\ Paired(Stream) /\ Waits /\ Mine /\ Second

\* What appending a piece does to the stream, place by place.
LEMMA Appended ==
  ASSUME Pieces, NEW p \in Piece
  PROVE  /\ Stream \in Seq(Piece) /\ Len(Stream) \in Nat
         /\ Len(buf \o Append(line, p)) = Len(Stream) + 1
         /\ \A k \in 1..Len(Stream) : (buf \o Append(line, p))[k] = Stream[k]
         /\ (buf \o Append(line, p))[Len(Stream) + 1] = p
<1>1. /\ buf \in Seq(Piece) /\ line \in Seq(Piece)
      /\ Len(buf) \in Nat /\ Len(line) \in Nat
  BY LenProperties DEF Pieces
<1>2. /\ Append(line, p) \in Seq(Piece) /\ Len(Append(line, p)) = Len(line) + 1
      /\ \A k \in 1..Len(line) : Append(line, p)[k] = line[k]
      /\ Append(line, p)[Len(line) + 1] = p
  BY <1>1, AppendProperties
<1>3. /\ Stream \in Seq(Piece) /\ Len(Stream) = Len(buf) + Len(line)
      /\ \A k \in 1..(Len(buf) + Len(line)) :
           Stream[k] = IF k <= Len(buf) THEN buf[k] ELSE line[k - Len(buf)]
  BY <1>1, ConcatProperties DEF Stream
<1>4. /\ Len(buf \o Append(line, p)) = Len(buf) + Len(line) + 1
      /\ \A k \in 1..(Len(buf) + Len(line) + 1) :
           (buf \o Append(line, p))[k] =
             IF k <= Len(buf) THEN buf[k] ELSE Append(line, p)[k - Len(buf)]
  BY <1>1, <1>2, ConcatProperties
<1>5. \A k \in 1..Len(Stream) : (buf \o Append(line, p))[k] = Stream[k]
  <2> SUFFICES ASSUME NEW k \in 1..Len(Stream)
               PROVE  (buf \o Append(line, p))[k] = Stream[k]
    OBVIOUS
  <2>1. k \in 1..(Len(buf) + Len(line)) /\ k \in 1..(Len(buf) + Len(line) + 1)
    BY <1>1, <1>3
  <2>2. CASE k <= Len(buf)
    BY <1>3, <1>4, <2>1, <2>2
  <2>3. CASE ~(k <= Len(buf))
    <3>1. k - Len(buf) \in 1..Len(line)
      BY <1>1, <2>1, <2>3
    <3> QED
      BY <1>2, <1>3, <1>4, <2>1, <2>3, <3>1
  <2> QED
    BY <2>2, <2>3
<1>6. (buf \o Append(line, p))[Len(Stream) + 1] = p
  <2>1. /\ Len(Stream) + 1 \in 1..(Len(buf) + Len(line) + 1)
        /\ ~(Len(Stream) + 1 <= Len(buf))
        /\ (Len(Stream) + 1) - Len(buf) = Len(line) + 1
    BY <1>1, <1>3
  <2> QED
    BY <1>2, <1>4, <2>1
<1> QED
  BY <1>1, <1>3, <1>4, <1>5, <1>6

\* Sequence t is s and one piece more.
Grows(s, t, p) ==
  /\ Len(s) \in Nat /\ Len(t) = Len(s) + 1
  /\ (\A k \in 1..Len(s) : t[k] = s[k]) /\ t[Len(s) + 1] = p

\* The frame a piece follows is the same before and after it is appended; nothing
\* older follows on once a request or a response has begun.
LEMMA FollowsGrows ==
  ASSUME NEW s, NEW t, NEW p, Grows(s, t, p)
  PROVE  /\ \A j \in 1..Len(s), k \in 1..(Len(s) + 1) : Follows(t, j, k) => Follows(s, j, k)
         /\ \A j \in 1..Len(s) : Follows(t, j, Len(t) + 1) =>
              /\ Follows(s, j, Len(s) + 1)
              /\ ~(p.part = 1 /\ p.kind \in {"request", "response"})
         /\ Follows(t, Len(t), Len(t) + 1) => p.part = 1 /\ p.kind = "request"
<1>0. /\ Len(s) \in Nat /\ Len(t) = Len(s) + 1
      /\ (\A k \in 1..Len(s) : t[k] = s[k]) /\ t[Len(s) + 1] = p
  BY DEF Grows
<1>1. ASSUME NEW j \in 1..Len(s), NEW k \in Nat, Follows(t, j, k)
      PROVE  k \in 1..(Len(s) + 2) /\ k # Len(s) + 2 => Follows(s, j, k)
  <2> SUFFICES ASSUME k \in 1..(Len(s) + 1) PROVE Follows(s, j, k)
    BY <1>0
  <2>1. j < k /\ s[j].part = 1 /\ s[j].kind = "request"
    BY <1>0, <1>1 DEF Follows
  <2>2. ASSUME NEW i \in 1..Len(s), j < i, i < k PROVE ~Begins(s, i)
    <3>1. i \in 1..Len(t) /\ t[i] = s[i]
      BY <1>0
    <3>2. ~Begins(t, i)
      BY <1>1, <2>2, <3>1 DEF Follows
    <3> QED
      BY <3>1, <3>2 DEF Begins
  <2> QED
    BY <2>1, <2>2 DEF Follows
<1>2. \A j \in 1..Len(s), k \in 1..(Len(s) + 1) : Follows(t, j, k) => Follows(s, j, k)
  BY <1>0, <1>1
<1>3. ASSUME NEW j \in 1..Len(s), Follows(t, j, Len(t) + 1)
      PROVE  /\ Follows(s, j, Len(s) + 1)
             /\ ~(p.part = 1 /\ p.kind \in {"request", "response"})
  <2>1. Len(t) \in 1..Len(t) /\ j < Len(t) /\ Len(t) < Len(t) + 1 /\ t[Len(t)] = p
    BY <1>0
  <2>2. ~Begins(t, Len(t))
    BY <1>3, <2>1 DEF Follows
  <2>3. Follows(t, j, Len(s) + 1)
    BY <1>0, <1>3 DEF Follows
  <2>4. Follows(s, j, Len(s) + 1)
    BY <1>0, <1>2, <2>3
  <2> QED
    BY <2>1, <2>2, <2>4 DEF Begins
<1>4. Follows(t, Len(t), Len(t) + 1) => p.part = 1 /\ p.kind = "request"
  BY <1>0 DEF Follows
<1> QED
  BY <1>2, <1>3, <1>4

\* A piece keeps the pairing if, as a response, it fits the request it follows.
LEMMA PairedGrows ==
  ASSUME NEW s, NEW t, NEW p, Grows(s, t, p), Paired(s),
         p.part = 1 /\ p.kind = "response" =>
           \A j \in 1..Len(s) : Follows(s, j, Len(s) + 1) =>
             p.addr = s[j].addr \/ p.addr \in Blocks
  PROVE  Paired(t)
<1>0. /\ Len(s) \in Nat /\ Len(t) = Len(s) + 1
      /\ (\A k \in 1..Len(s) : t[k] = s[k]) /\ t[Len(s) + 1] = p
  BY DEF Grows
<1> SUFFICES ASSUME NEW j \in 1..Len(t), NEW k \in 1..Len(t), Follows(t, j, k),
                    t[k].part = 1, t[k].kind = "response"
             PROVE  t[k].addr = t[j].addr \/ t[k].addr \in Blocks
  BY DEF Paired
<1>1. j < k
  BY DEF Follows
<1>2. j \in 1..Len(s) /\ k \in 1..(Len(s) + 1) /\ t[j] = s[j]
  BY <1>0, <1>1
<1>3. Follows(s, j, k)
  BY <1>2, FollowsGrows
<1>4. CASE k = Len(s) + 1
  BY <1>0, <1>2, <1>3, <1>4
<1>5. CASE k # Len(s) + 1
  <2>1. k \in 1..Len(s) /\ t[k] = s[k]
    BY <1>0, <1>5
  <2> QED
    BY <1>2, <1>3, <2>1 DEF Paired
<1> QED
  BY <1>4, <1>5

\* What is heard is one more piece of the stream; a closed port hears nothing.
LEMMA Heard ==
  ASSUME Pieces, NEW p \in Piece, Hear(p), buf' = buf
  PROVE  /\ pc = "closed" => Stream' = Stream
         /\ pc # "closed" => Grows(Stream, Stream', p)
<1>1. pc = "closed" => Stream' = Stream
  BY DEF Hear, Stream
<1>2. pc # "closed" => Stream' = buf \o Append(line, p)
  BY DEF Hear, Stream
<1> QED
  BY <1>1, <1>2, Appended DEF Grows

\* Reading moves pieces from the line to the buffer: the stream stays.
LEMMA StreamRead ==
  ASSUME Pieces, NEW n \in 1..Len(line), Read(n)
  PROVE  Stream' = Stream
<1> DEFINE one == SubSeq(line, 1, n)
           two == SubSeq(line, n + 1, Len(line))
<1>1. /\ buf \in Seq(Piece) /\ line \in Seq(Piece) /\ Len(buf) \in Nat /\ Len(line) \in Nat
      /\ \A k \in 1..Len(line) : line[k] \in Piece
  BY LenProperties, ElementOfSeq DEF Pieces
<1>2. /\ one \in Seq(Piece) /\ Len(one) = n
      /\ \A k \in 1..n : one[k] = line[k]
  <2>1. \A k \in 1..n : line[k] \in Piece
    BY <1>1
  <2>2. /\ one \in Seq(Piece) /\ Len(one) = (IF 1 <= n THEN n - 1 + 1 ELSE 0)
        /\ \A k \in 1..(n - 1 + 1) : one[k] = line[1 + k - 1]
    BY <2>1, SubSeqProperties
  <2> QED
    BY <2>2
<1>3. /\ two \in Seq(Piece) /\ Len(two) = Len(line) - n
      /\ \A k \in 1..(Len(line) - n) : two[k] = line[n + k]
  <2>1. \A k \in (n + 1)..Len(line) : line[k] \in Piece
    BY <1>1
  <2>2. /\ two \in Seq(Piece)
        /\ Len(two) = (IF n + 1 <= Len(line) THEN Len(line) - (n + 1) + 1 ELSE 0)
        /\ \A k \in 1..(Len(line) - (n + 1) + 1) : two[k] = line[(n + 1) + k - 1]
    BY <1>1, <2>1, SubSeqProperties
  <2> QED
    BY <1>1, <2>2
<1>4. Stream' = (buf \o one) \o two
  BY DEF Read, Grown, Stream
<1> HIDE DEF one, two
<1>5. /\ buf \o one \in Seq(Piece) /\ Len(buf \o one) = Len(buf) + n
      /\ \A k \in 1..(Len(buf) + n) :
           (buf \o one)[k] = IF k <= Len(buf) THEN buf[k] ELSE one[k - Len(buf)]
  BY <1>1, <1>2, ConcatProperties
<1>6. /\ Stream' \in Seq(Piece) /\ Len(Stream') = Len(buf) + n + (Len(line) - n)
      /\ \A k \in 1..(Len(buf) + n + (Len(line) - n)) :
           Stream'[k] = IF k <= Len(buf) + n THEN (buf \o one)[k]
                        ELSE two[k - (Len(buf) + n)]
  <2> DEFINE read == buf \o one
  <2>1. read \in Seq(Piece) /\ Len(read) = Len(buf) + n /\ Stream' = read \o two
    BY <1>4, <1>5
  <2> HIDE DEF read
  <2>2. /\ read \o two \in Seq(Piece) /\ Len(read \o two) = Len(read) + Len(two)
        /\ \A k \in 1..(Len(read) + Len(two)) :
             (read \o two)[k] = IF k <= Len(read) THEN read[k] ELSE two[k - Len(read)]
    BY <1>3, <2>1, ConcatProperties
  <2>3. Len(two) = Len(line) - n
    BY <1>3
  <2>4. /\ Stream' \in Seq(Piece) /\ Len(Stream') = Len(buf) + n + (Len(line) - n)
        /\ \A k \in 1..(Len(buf) + n + (Len(line) - n)) :
             Stream'[k] = IF k <= Len(buf) + n THEN read[k] ELSE two[k - (Len(buf) + n)]
    BY <2>1, <2>2, <2>3
  <2> QED
    BY <2>4 DEF read
<1>7. /\ Stream \in Seq(Piece) /\ Len(Stream) = Len(buf) + Len(line)
      /\ \A k \in 1..(Len(buf) + Len(line)) :
           Stream[k] = IF k <= Len(buf) THEN buf[k] ELSE line[k - Len(buf)]
  BY <1>1, ConcatProperties DEF Stream
<1>8. ASSUME NEW k \in 1..(Len(buf) + Len(line))
      PROVE  Stream'[k] = Stream[k]
  <2>0. k \in 1..(Len(buf) + n + (Len(line) - n))
    BY <1>1
  <2>1. CASE k <= Len(buf)
    <3>1. k <= Len(buf) + n /\ k \in 1..(Len(buf) + n)
      BY <1>1, <2>1
    <3> QED
      BY <1>5, <1>6, <1>7, <2>0, <2>1, <3>1
  <2>2. CASE ~(k <= Len(buf)) /\ k <= Len(buf) + n
    <3>1. k \in 1..(Len(buf) + n) /\ k - Len(buf) \in 1..n
      BY <1>1, <2>2
    <3> QED
      BY <1>2, <1>5, <1>6, <1>7, <2>0, <2>2, <3>1
  <2>3. CASE ~(k <= Len(buf) + n)
    <3>1. /\ k - (Len(buf) + n) \in 1..(Len(line) - n) /\ ~(k <= Len(buf))
          /\ n + (k - (Len(buf) + n)) = k - Len(buf)
      BY <1>1, <2>3
    <3> QED
      BY <1>3, <1>6, <1>7, <2>0, <2>3, <3>1
  <2> QED
    BY <2>1, <2>2, <2>3
<1>9. Len(Stream') = Len(Stream) /\ \A k \in 1..Len(Stream') : Stream'[k] = Stream[k]
  BY <1>1, <1>6, <1>7, <1>8
<1> QED
  BY <1>6, <1>7, <1>9, SeqEqual

\* The requests left are some of those there were.
LEMMA OwedTail ==
  ASSUME Pieces, owed # <<>>, owed' = Tail(owed)
  PROVE  /\ 1 \in 1..Len(owed) /\ owed[1].mine \in BOOLEAN
         /\ owed[1].slave \in Slaves /\ owed[1].addr \in Addrs
         /\ \A m \in 1..Len(owed') : \E n \in 1..Len(owed) : owed'[m] = owed[n]
<1> DEFINE Request == [slave : Slaves, addr : Addrs, mine : BOOLEAN]
<1>1. owed \in Seq(Request) /\ owed # <<>>
  BY DEF Pieces
<1>2. owed[1] \in Request /\ 1 \in 1..Len(owed)
  <2> HIDE DEF Request
  <2>1. Len(owed) \in Nat \ {0}
    BY <1>1, EmptySeq, LenProperties
  <2> QED
    BY <1>1, <2>1, ElementOfSeq
<1>3. \A m \in 1..Len(owed') : \E n \in 1..Len(owed) : owed'[m] = owed[n]
  <2> HIDE DEF Request
  <2>1. /\ Len(Tail(owed)) = Len(owed) - 1 /\ Len(owed) \in Nat
        /\ \A m \in 1..Len(Tail(owed)) : Tail(owed)[m] = owed[m + 1]
    BY <1>1, HeadTailProperties, LenProperties
  <2>2. \A m \in 1..Len(Tail(owed)) : m + 1 \in 1..Len(owed)
    BY <2>1
  <2> QED
    BY <2>1, <2>2
<1> QED
  BY <1>2, <1>3

\* A request more.
LEMMA OwedAppend ==
  ASSUME Pieces, NEW r \in [slave : Slaves, addr : Addrs, mine : BOOLEAN],
         owed' = Append(owed, r)
  PROVE  \A m \in 1..Len(owed') : (m \in 1..Len(owed) /\ owed'[m] = owed[m]) \/ owed'[m] = r
<1> DEFINE Request == [slave : Slaves, addr : Addrs, mine : BOOLEAN]
<1>1. owed \in Seq(Request) /\ r \in Request
  BY DEF Pieces
<1> HIDE DEF Request
<1>2. /\ Len(owed) \in Nat /\ Len(owed') = Len(owed) + 1
      /\ \A m \in 1..Len(owed) : owed'[m] = owed[m]
      /\ owed'[Len(owed) + 1] = r
  BY <1>1, AppendProperties, LenProperties
<1> QED
  BY <1>2

\* A step that leaves the stream as it is and asks for nothing of the LCD's.
LEMMA StillStep ==
  ASSUME PInv, Stream' = Stream, pc' # "closed" => pc # "closed",
         \A m \in 1..Len(owed') : ~owed'[m].mine =>
           \E n \in 1..Len(owed) : owed'[m] = owed[n]
  PROVE  Paired(Stream)' /\ Waits'
<1>1. Paired(Stream)'
  BY DEF PInv, Paired, Follows, Begins
<1>2. Waits'
  BY DEF PInv, Waits, Follows, Begins
<1> QED
  BY <1>1, <1>2

\* The steps of the bus.
LEMMA PairingBus ==
  ASSUME PInv, Pieces',
         \/ \E s \in Slaves, a \in LcdBlocks : LcdAsks(s, a)
         \/ \E kind \in {"response", "corrupt", "exception"} : SlaveAnswers(kind)
         \/ Finish \/ RequestLost
  PROVE  Paired(Stream)' /\ Waits' /\ Mine' /\ Second'
<1>0. Pieces /\ Paired(Stream) /\ Waits /\ Mine /\ Second
  BY DEF PInv
<1>1. ASSUME NEW s \in Slaves, NEW a \in LcdBlocks, LcdAsks(s, a)
      PROVE  Paired(Stream)' /\ Waits' /\ Mine' /\ Second'
  <2> DEFINE f == [kind |-> "request", slave |-> s, addr |-> a]
             p == PieceOf(f, 1)
             r == [slave |-> s, addr |-> a, mine |-> FALSE]
  <2>1. /\ p \in Piece /\ p.part = 1 /\ p.kind = "request" /\ p.addr = a
        /\ PieceOf(f, 2).part = 2
    <3>1. f \in Frame
      BY DEF Frame, Kinds, Addrs
    <3> QED
      BY <3>1, PieceFacts DEF PieceOf
  <2>2. /\ Hear(p) /\ rest' = <<PieceOf(f, 2)>> /\ pc' = pc /\ buf' = buf
        /\ owed' = Append(owed, r) /\ \A m \in DOMAIN owed : owed[m].mine
    BY <1>1 DEF LcdAsks, Speak
  <2>3. r \in [slave : Slaves, addr : Addrs, mine : BOOLEAN] /\ r.addr = a /\ ~r.mine
    BY DEF Addrs
  <2>4. DOMAIN owed = 1..Len(owed)
    BY <1>0, LenProperties DEF Pieces
  <2> HIDE DEF p, r
  <2>5. \A m \in 1..Len(owed') : (m \in 1..Len(owed) /\ owed'[m] = owed[m]) \/ owed'[m] = r
    BY <1>0, <2>2, <2>3, OwedAppend
  <2>6. \A m \in 1..Len(owed') : ~owed'[m].mine => owed'[m].addr = a
    BY <2>2, <2>3, <2>4, <2>5
  <2>7. Mine'
    BY <1>0, <2>3, <2>5 DEF Mine
  <2>8. Second'
    BY <2>1, <2>2 DEF Second
  <2>9. Paired(Stream)' /\ Waits'
    <3>1. CASE pc = "closed"
      <4>1. Stream' = Stream
        BY <1>0, <2>1, <2>2, <3>1, Heard
      <4> QED
        BY <1>0, <2>2, <3>1, <4>1 DEF Waits, Paired, Follows, Begins
    <3>2. CASE pc # "closed"
      <4>1. Grows(Stream, Stream', p)
        BY <1>0, <2>1, <2>2, <3>2, Heard
      <4>2. Paired(Stream')
        BY <1>0, <2>1, <4>1, PairedGrows
      <4>3. \A j \in 1..Len(Stream') :
              Follows(Stream', j, Len(Stream') + 1) => Stream'[j].addr = a
        <5> SUFFICES ASSUME NEW j \in 1..Len(Stream'),
                            Follows(Stream', j, Len(Stream') + 1)
                     PROVE  Stream'[j].addr = a
          OBVIOUS
        <5>1. j \notin 1..Len(Stream)
          BY <2>1, <4>1, FollowsGrows
        <5>2. j = Len(Stream) + 1
          BY <4>1, <5>1 DEF Grows
        <5> QED
          BY <2>1, <4>1, <5>2 DEF Grows
      <4>4. Waits'
        BY <2>6, <4>3 DEF Waits, Follows, Begins
      <4> QED
        BY <4>2, <4>4 DEF Paired, Follows, Begins
    <3> QED
      BY <3>1, <3>2
  <2> QED
    BY <2>7, <2>8, <2>9
<1>2. ASSUME NEW kind \in {"response", "corrupt", "exception"}, SlaveAnswers(kind)
      PROVE  Paired(Stream)' /\ Waits' /\ Mine' /\ Second'
  <2> DEFINE f == [kind |-> kind, slave |-> owed[1].slave, addr |-> owed[1].addr]
             p == PieceOf(f, 1)
  <2>1. /\ 1 \in 1..Len(owed) /\ owed[1].mine \in BOOLEAN
        /\ owed[1].slave \in Slaves /\ owed[1].addr \in Addrs
        /\ \A m \in 1..Len(owed') : \E n \in 1..Len(owed) : owed'[m] = owed[n]
    BY <1>0, <1>2, OwedTail DEF SlaveAnswers
  <2>2. /\ p \in Piece /\ p.kind = kind /\ p.addr = owed[1].addr
        /\ PieceOf(f, 2).part = 2
    <3>1. f \in Frame
      BY <2>1 DEF Frame, Kinds
    <3> QED
      BY <3>1, PieceFacts DEF PieceOf
  <2>3. Hear(p) /\ rest' = <<PieceOf(f, 2)>> /\ pc' = pc /\ buf' = buf
    BY <1>2 DEF SlaveAnswers, Speak
  <2> HIDE DEF p
  <2>4. Mine'
    BY <1>0, <2>1 DEF Mine
  <2>5. Second'
    BY <2>2, <2>3 DEF Second
  <2>6. CASE pc = "closed"
    <3>1. Stream' = Stream
      BY <1>0, <2>2, <2>3, <2>6, Heard
    <3> QED
      BY <2>1, <2>3, <2>4, <2>5, <3>1, StillStep
  <2>7. CASE pc # "closed"
    <3>1. Grows(Stream, Stream', p)
      BY <1>0, <2>2, <2>3, <2>7, Heard
    <3>2. \A j \in 1..Len(Stream) : Follows(Stream, j, Len(Stream) + 1) =>
            \A m \in 1..Len(owed) : ~owed[m].mine => owed[m].addr = Stream[j].addr
      BY <1>0, <2>7 DEF Waits
    <3>3. \A j \in 1..Len(Stream) : Follows(Stream, j, Len(Stream) + 1) =>
            p.addr = Stream[j].addr \/ p.addr \in Blocks
      BY <1>0, <2>1, <2>2, <3>2 DEF Mine
    <3>4. Paired(Stream')
      BY <1>0, <3>1, <3>3, PairedGrows
    <3>5. \A j \in 1..Len(Stream') : Follows(Stream', j, Len(Stream') + 1) =>
            /\ j \in 1..Len(Stream) /\ Stream'[j] = Stream[j]
            /\ Follows(Stream, j, Len(Stream) + 1)
      <4> SUFFICES ASSUME NEW j \in 1..Len(Stream'),
                          Follows(Stream', j, Len(Stream') + 1)
                   PROVE  /\ j \in 1..Len(Stream) /\ Stream'[j] = Stream[j]
                          /\ Follows(Stream, j, Len(Stream) + 1)
        OBVIOUS
      <4>1. j # Len(Stream')
        BY <2>2, <3>1, FollowsGrows
      <4>2. j \in 1..Len(Stream) /\ Stream'[j] = Stream[j]
        BY <3>1, <4>1 DEF Grows
      <4> QED
        BY <3>1, <4>2, FollowsGrows
    <3>6. \A j \in 1..Len(Stream') : Follows(Stream', j, Len(Stream') + 1) =>
            \A m \in 1..Len(owed') : ~owed'[m].mine => owed'[m].addr = Stream'[j].addr
      BY <2>1, <3>2, <3>5
    <3>7. Waits'
      BY <3>6 DEF Waits
    <3> QED
      BY <2>4, <2>5, <3>4, <3>7 DEF Paired, Follows, Begins
  <2> QED
    BY <2>6, <2>7
<1>3. CASE Finish
  <2> DEFINE p == rest[1]
  <2>1. /\ p \in Piece /\ p.part = 2 /\ Hear(p) /\ rest' = <<>>
        /\ UNCHANGED <<pc, buf, owed>>
    BY <1>0, <1>3 DEF Finish, Pieces, Second
  <2> HIDE DEF p
  <2>2. Mine' /\ Second'
    BY <1>0, <2>1 DEF Mine, Second
  <2>3. CASE pc = "closed"
    <3>1. Stream' = Stream
      BY <1>0, <2>1, <2>3, Heard
    <3> QED
      BY <2>1, <2>2, <3>1, StillStep
  <2>4. CASE pc # "closed"
    <3>1. Grows(Stream, Stream', p)
      BY <1>0, <2>1, <2>4, Heard
    <3>2. Paired(Stream')
      BY <1>0, <2>1, <3>1, PairedGrows
    <3>3. \A j \in 1..Len(Stream') : Follows(Stream', j, Len(Stream') + 1) =>
            /\ j \in 1..Len(Stream) /\ Stream'[j] = Stream[j]
            /\ Follows(Stream, j, Len(Stream) + 1)
      <4> SUFFICES ASSUME NEW j \in 1..Len(Stream'),
                          Follows(Stream', j, Len(Stream') + 1)
                   PROVE  /\ j \in 1..Len(Stream) /\ Stream'[j] = Stream[j]
                          /\ Follows(Stream, j, Len(Stream) + 1)
        OBVIOUS
      <4>1. j # Len(Stream')
        BY <2>1, <3>1, FollowsGrows
      <4>2. j \in 1..Len(Stream) /\ Stream'[j] = Stream[j]
        BY <3>1, <4>1 DEF Grows
      <4> QED
        BY <3>1, <4>2, FollowsGrows
    <3>4. \A j \in 1..Len(Stream') : Follows(Stream', j, Len(Stream') + 1) =>
            \A m \in 1..Len(owed') : ~owed'[m].mine => owed'[m].addr = Stream'[j].addr
      BY <1>0, <2>1, <2>4, <3>3 DEF Waits
    <3>5. Waits'
      BY <3>4 DEF Waits
    <3> QED
      BY <2>2, <3>2, <3>5 DEF Paired, Follows, Begins
  <2> QED
    BY <2>3, <2>4
<1>4. CASE RequestLost
  <2>1. /\ \A m \in 1..Len(owed') : \E n \in 1..Len(owed) : owed'[m] = owed[n]
        /\ UNCHANGED <<pc, buf, line, rest>>
    BY <1>0, <1>4, OwedTail DEF RequestLost
  <2>2. Mine' /\ Second'
    BY <1>0, <2>1 DEF Mine, Second
  <2>3. Stream' = Stream
    BY <2>1 DEF Stream
  <2> QED
    BY <2>1, <2>2, <2>3, StillStep
<1> QED
  BY <1>1, <1>2, <1>3, <1>4

\* The pairing holds of every stream a query receives.
LEMMA PairingStep == ASSUME PInv, [Next]_vars PROVE PInv'
<1>0. Pieces /\ Paired(Stream) /\ Waits /\ Mine /\ Second /\ Pieces'
  BY PiecesStep DEF PInv
<1>1. CASE \/ \E s \in Slaves, a \in LcdBlocks : LcdAsks(s, a)
           \/ \E kind \in {"response", "corrupt", "exception"} : SlaveAnswers(kind)
           \/ Finish \/ RequestLost
  BY <1>0, <1>1, PairingBus DEF PInv
<1>2. ASSUME NEW a \in Blocks, Query(a) PROVE PInv'
  <2>1. buf' = <<>> /\ line' = <<>> /\ owed' = owed /\ rest' = rest
    BY <1>2 DEF Query, busVars
  <2>2. Stream' = <<>> /\ 1..Len(Stream') = {}
    BY <2>1 DEF Stream
  <2>3. Paired(Stream)' /\ Waits'
    BY <2>2 DEF Paired, Waits
  <2> QED
    BY <1>0, <2>1, <2>3 DEF PInv, Mine, Second
<1>3. CASE Send
  <2> DEFINE r == [slave |-> OurSlave, addr |-> ask, mine |-> TRUE]
  <2>1. /\ r \in [slave : Slaves, addr : Addrs, mine : BOOLEAN] /\ r.mine
        /\ r.addr \in Blocks
    BY <1>0, SlaveAssumption DEF Addrs, Pieces
  <2>2. /\ owed' = Append(owed, r) /\ Stream' = Stream /\ rest' = rest
        /\ pc = "open" /\ pc' = "read"
    BY <1>3 DEF Send, Stream
  <2> HIDE DEF r
  <2>3. \A m \in 1..Len(owed') : (m \in 1..Len(owed) /\ owed'[m] = owed[m]) \/ owed'[m] = r
    BY <1>0, <2>1, <2>2, OwedAppend
  <2>4. Mine'
    BY <1>0, <2>1, <2>3 DEF Mine
  <2>5. Paired(Stream)' /\ Waits'
    BY <2>1, <2>2, <2>3, StillStep
  <2> QED
    BY <1>0, <2>2, <2>4, <2>5 DEF PInv, Second
<1>4. CASE /\ Stream' = Stream /\ owed' = owed /\ rest' = rest
           /\ pc' # "closed" => pc # "closed"
  <2>1. Paired(Stream)' /\ Waits'
    BY <1>4, StillStep
  <2> QED
    BY <1>0, <1>4, <2>1 DEF PInv, Mine, Second
<1>5. ASSUME NEW n \in 1..Len(line), Read(n) PROVE PInv'
  <2>1. Stream' = Stream
    BY <1>0, <1>5, StreamRead
  <2>2. owed' = owed /\ rest' = rest /\ pc # "closed"
    BY <1>5 DEF Read, busVars
  <2> QED
    BY <1>4, <2>1, <2>2
<1>6. CASE Deadline \/ DriverFails \/ UNCHANGED vars
  BY <1>4, <1>6 DEF Deadline, DriverFails, vars, busVars, Stream
<1> QED
  BY <1>1, <1>2, <1>3, <1>5, <1>6 DEF Next

\* In the buffer as in the stream: a response that responses_with_context pairs with
\* a request answers it, or a request of ours.
LEMMA ContextIsPaired ==
  ASSUME NEW b \in Seq(Piece), NEW l \in Seq(Piece), Paired(b \o l),
         NEW k \in Whole(b), b[k].kind = "response", NEW j \in Context(b, k)
  PROVE  b[k].addr = b[j].addr \/ b[k].addr \in Blocks
<1> DEFINE s == b \o l
<1>1. Len(b) \in Nat /\ Len(l) \in Nat /\ DOMAIN b = 1..Len(b)
  BY LenProperties
<1>2. /\ Len(s) = Len(b) + Len(l)
      /\ \A i \in 1..(Len(b) + Len(l)) :
           s[i] = IF i <= Len(b) THEN b[i] ELSE l[i - Len(b)]
  BY <1>1, ConcatProperties 
<1> HIDE DEF s
<1>3. \A i \in 1..Len(b) : s[i] = b[i] /\ i \in 1..Len(s)
  BY <1>1, <1>2
<1>4. /\ k \in 1..Len(b) /\ j \in 1..Len(b) /\ j < k
      /\ b[j].part = 1 /\ b[j].kind = "request" /\ b[k].part = 1
      /\ \A i \in Whole(b) : i > j /\ i < k => ~Sets(b, i)
  BY <1>1 DEF Whole, Context, Before
<1>5. Follows(s, j, k)
  <2> SUFFICES ASSUME NEW i \in 1..Len(s), j < i, i < k PROVE ~Begins(s, i)
    BY <1>3, <1>4 DEF Follows
  <2>1. i \in 1..Len(b) /\ i < Len(b) /\ i > j
    BY <1>1, <1>2, <1>4
  <2>2. b[i].part = 1 => i \in Whole(b)
    BY <1>1, <2>1 DEF Whole
  <2> QED
    BY <1>3, <1>4, <2>1, <2>2 DEF Begins, Sets
<1> QED
  BY <1>3, <1>4, <1>5 DEF Paired, s

\* OnlyUnpaired for any traffic, when our own blocks differ in size: a block that is
\* not the one asked for is one of the LCD's whose pairing could not tell it.
THEOREM OnlyCollisions ==
  ASSUME OwnCounts
  PROVE  Spec => []OnlyUnpaired
<1> DEFINE Inv == IInv /\ PInv /\ OnlyUnpaired
<1>1. Init => Inv
  <2> SUFFICES ASSUME Init PROVE Inv
    OBVIOUS
  <2>1. IInv /\ Stream = <<>> /\ 1..Len(Stream) = {} /\ 1..Len(owed) = {}
    BY Inductive DEF Init, Stream
  <2> QED
    BY <2>1 DEF Init, IInv, PInv, Paired, Waits, Mine, Second, OnlyUnpaired, NoResult
<1>2. Inv /\ [Next]_vars => Inv'
  <2> SUFFICES ASSUME Inv, [Next]_vars PROVE OnlyUnpaired'
    BY PairingStep, Inductive
  <2>0. /\ Pieces /\ buf' \in Seq(Piece) /\ line' \in Seq(Piece)
        /\ Paired(buf' \o line') /\ got' = buf'
    BY PairingStep, Inductive DEF PInv, IInv, Pieces, Stream
  <2>1. CASE BusStep
    BY <2>1 DEF BusStep, OnlyUnpaired, Context, Before, Whole, Sets, Answers
  <2>2. CASE \E a \in Blocks : Query(a)
    BY <2>2 DEF Query, OnlyUnpaired, NoResult
  <2>3. ASSUME NEW n \in 1..Len(line), Read(n) PROVE OnlyUnpaired'
    <3>0. ask' = ask /\ ask \in Blocks /\ pc = "read"
      BY <2>0, <2>3 DEF Read, Pieces
    <3>1. CASE UNCHANGED <<pc, result>>
      BY <3>0, <3>1 DEF IInv, Reading, OnlyUnpaired
    <3>2. ASSUME NEW k \in Selected(buf'), result' = Ended("frame", buf', k)
          PROVE  OnlyUnpaired'
      <4> DEFINE b == buf'
      <4>1. /\ k \in Matches(b) /\ k \in Whole(b) /\ b[k].kind = "response"
            /\ Count[b[k].addr] = Count[ask]
            /\ \A m \in Matches(b) : \/ Tier(b, k) < Tier(b, m)
                                     \/ Tier(b, k) = Tier(b, m) /\ k <= m
        BY <3>2 DEF Selected, Matches
      <4>2. /\ result'.addr = b[k].addr /\ result'.at = k
            /\ Context(got, result.at)' = Context(b, k)
            /\ Answers(got)' = Answers(b) /\ Answers(b) \subseteq Matches(b)
        BY <2>0, <3>0, <3>2 DEF Ended, Context, Before, Whole, Sets, Answers, Matches
      <4>3. ASSUME b[k].addr # ask
            PROVE  /\ b[k].addr \notin Blocks
                   /\ Context(b, k) # {} => \A m \in Answers(b) : Context(b, m) # {}
        <5>1. b[k].addr \notin Blocks
          BY <3>0, <4>1, <4>3 DEF OwnCounts
        <5>2. ASSUME Context(b, k) # {}, NEW m \in Answers(b), Context(b, m) = {}
              PROVE  FALSE
          <6>1. Tier(b, m) = 2 /\ m \in Matches(b)
            BY <4>2, <5>2 DEF Tier
          <6>2. ~(\E j \in Context(b, k) : b[j].addr = ask)
            BY <2>0, <4>1, <4>3, <5>1, ContextIsPaired
          <6>3. Tier(b, k) = 3
            BY <5>2, <6>2 DEF Tier
          <6> QED
            BY <4>1, <6>1, <6>3
        <5> QED
          BY <5>1, <5>2
      <4> HIDE DEF b
      <4>4. /\ result'.addr # ask' => b[k].addr # ask
            /\ \A m : Context(got, m)' = Context(b, m)
        BY <2>0, <3>0, <4>2 DEF b, Context, Before, Whole, Sets
      <4> QED
        BY <4>2, <4>3, <4>4 DEF OnlyUnpaired
    <3>3. ASSUME NEW k, result' = Ended("exception", buf', k)
          PROVE  OnlyUnpaired'
      BY <3>3 DEF OnlyUnpaired, Ended
    <3> QED
      BY <2>3, <3>0, <3>1, <3>2, <3>3 DEF Read
  <2>4. CASE Deadline
    BY <2>4 DEF Deadline, OnlyUnpaired, Ended, NoResult
  <2>5. CASE DriverFails
    BY <2>5 DEF DriverFails, OnlyUnpaired, NoResult
  <2>6. CASE Send
    BY <2>6 DEF Send, OnlyUnpaired, Context, Before, Whole, Sets, Answers
  <2> QED
    BY <2>1, <2>2, <2>3, <2>4, <2>5, <2>6, StepCases
<1>3. Inv => OnlyUnpaired
  OBVIOUS
<1> QED
  BY <1>1, <1>2, <1>3, PTL DEF Spec
=============================================================================
