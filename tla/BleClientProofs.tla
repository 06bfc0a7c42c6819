--------------------------- MODULE BleClientProofs ---------------------------
(***************************************************************************)
(* Theorems about BleClient, for any packs, any number of attempts and any *)
(* number of frames on their way.                                          *)
(***************************************************************************)
EXTENDS BleClient, SequenceTheorems, TLAPS

(***************************************************************************)
(* The inductive invariant.  A request that is alone can only meet frames  *)
(* that answer it: the drain empties the queue, nothing was in the air,    *)
(* and damage does not change whom a frame answers.                        *)
(***************************************************************************)
Own(s) == \A i \in 1..Len(s) : s[i].own

StepPart == alone /\ call # "idle" => Own(q) /\ Own(air)

TriesPart == call # "idle" => tries < Attempts

IInv == TypeOK /\ TriesPart /\ StepPart /\ InStep

(***************************************************************************)
(* Lemmas.                                                                 *)
(***************************************************************************)

\* Types of what the client and the link put together.
LEMMA FrameFacts ==
  /\ <<>> \in Seq(Frame) /\ Own(<<>>)
  /\ \A s \in Seq(Frame), f \in Frame :
       Append(s, f) \in Seq(Frame) /\ (Own(s) /\ f.own => Own(Append(s, f)))
  /\ \A s \in Seq(Frame) : s # <<>> =>
       /\ Head(s) \in Frame /\ Tail(s) \in Seq(Frame)
       /\ Own(s) => Head(s).own /\ Own(Tail(s))
  /\ \A f \in Frame : Damaged(f) \subseteq Frame /\ \A g \in Damaged(f) : g.own = f.own
<1>1. <<>> \in Seq(Frame) /\ Own(<<>>)
  BY DEF Own
<1>2. ASSUME NEW s \in Seq(Frame), NEW f \in Frame
      PROVE  Append(s, f) \in Seq(Frame) /\ (Own(s) /\ f.own => Own(Append(s, f)))
  BY DEF Own
<1>3. ASSUME NEW s \in Seq(Frame), s # <<>>
      PROVE  /\ Head(s) \in Frame /\ Tail(s) \in Seq(Frame)
             /\ Own(s) => Head(s).own /\ Own(Tail(s))
  BY <1>3 DEF Own
<1>4. ASSUME NEW f \in Frame
      PROVE  Damaged(f) \subseteq Frame /\ \A g \in Damaged(f) : g.own = f.own
  BY DEF Damaged, Frame
<1> QED
  BY <1>1, <1>2, <1>3, <1>4

\* Frames of an earlier request stay frames.
LEMMA DisownFacts ==
  ASSUME NEW s \in Seq(Frame)
  PROVE  Disown(s) \in Seq(Frame) /\ (s = <<>> => Disown(s) = <<>>)
<1>1. ASSUME NEW i \in 1..Len(s) PROVE [s[i] EXCEPT !.own = FALSE] \in Frame
  <2>1. s[i] \in Frame
    OBVIOUS
  <2> QED
    BY <2>1 DEF Frame
<1>2. DOMAIN s = 1..Len(s) /\ Len(s) \in Nat
  OBVIOUS
<1>3. Disown(s) \in [1..Len(s) -> Frame]
  BY <1>1, <1>2 DEF Disown
<1>4. Disown(s) \in Seq(Frame)
  BY <1>2, <1>3, SeqDef
<1>5. Len(Disown(s)) = Len(s)
  BY <1>2, <1>3, <1>4
<1> QED
  BY <1>4, <1>5, EmptySeq

\* The invariant holds at the start.
LEMMA AtStart == BleInit => IInv
<1> SUFFICES ASSUME BleInit PROVE IInv
  OBVIOUS
<1>1. alone \in BOOLEAN
  BY DEF BleInit
<1>2. TypeOK
  BY <1>1, AttemptsAssumption, FrameFacts DEF BleInit, TypeOK
<1> QED
  BY <1>2 DEF BleInit, IInv, TriesPart, StepPart, InStep

\* Connections and what they bring.
LEMMA LinkStep ==
  IInv /\ (Connect \/ ConnectHalf \/ Disconnect \/ LinkDrops \/ Notify \/ Unsolicited) => IInv'
<1> SUFFICES ASSUME IInv, Connect \/ ConnectHalf \/ Disconnect \/ LinkDrops \/ Notify \/ Unsolicited
             PROVE  IInv'
  OBVIOUS
<1> USE FrameFacts DEF IInv
<1>1. CASE Connect \/ ConnectHalf \/ Disconnect
  <2>1. TypeOK'
    BY <1>1 DEF Connect, ConnectHalf, Disconnect, requestVars, TypeOK
  <2>2. TriesPart' /\ StepPart' /\ InStep'
    BY <1>1 DEF Connect, ConnectHalf, Disconnect, requestVars, TriesPart, StepPart, InStep
  <2> QED
    BY <2>1, <2>2
<1>2. CASE LinkDrops
  <2>1. TypeOK'
    BY <1>2 DEF LinkDrops, requestVars, TypeOK
  <2>2. TriesPart' /\ StepPart' /\ InStep'
    BY <1>2 DEF LinkDrops, requestVars, TriesPart, StepPart, InStep
  <2> QED
    BY <2>1, <2>2
<1>3. CASE Notify
  <2>1. PICK f \in {Head(air)} \union Damaged(Head(air)) : q' = Append(q, f)
    BY <1>3 DEF Notify
  <2>2. /\ q \in Seq(Frame) /\ air \in Seq(Frame) /\ air # <<>> /\ air' = Tail(air)
        /\ UNCHANGED <<link, call, asked, tries, got, result, alone>>
    BY <1>3 DEF Notify, requestVars, TypeOK
  <2>3. f \in Frame /\ f.own = Head(air).own
    BY <2>1, <2>2
  <2>4. TypeOK'
    BY <2>1, <2>2, <2>3 DEF TypeOK
  <2>5. StepPart'
    BY <2>1, <2>2, <2>3 DEF StepPart
  <2> QED
    BY <2>2, <2>4, <2>5 DEF TriesPart, InStep
<1>4. CASE Unsolicited
  <2>1. PICK f \in Frame : q' = Append(q, f)
    BY <1>4 DEF Unsolicited
  <2>2. alone' = FALSE /\ UNCHANGED <<link, call, asked, tries, got, air, result>>
    BY <1>4 DEF Unsolicited, requestVars
  <2>3. TypeOK'
    BY <2>1, <2>2 DEF TypeOK
  <2> QED
    BY <2>2, <2>3 DEF TriesPart, StepPart, InStep
<1> QED
  BY <1>1, <1>2, <1>3, <1>4

\* A request begins or is refused.
LEMMA RequestStep ==
  ASSUME IInv, NEW b \in Blocks, Request(b) \/ Refuse(b)
  PROVE  IInv'
<1> USE FrameFacts, AttemptsAssumption DEF IInv
<1>1. CASE Request(b)
  <2>1. air \in Seq(Frame)
    BY DEF TypeOK
  <2>2. Disown(air) \in Seq(Frame) /\ (air = <<>> => Disown(air) = <<>>)
    BY <2>1, DisownFacts
  <2>3. alone' \in BOOLEAN /\ (alone' => air = <<>>)
    BY <1>1 DEF Request
  <2>4. /\ asked' = b /\ tries' = 0 /\ got' = {} /\ result' = "none" /\ call' = "write"
        /\ q' = <<>> /\ air' = Disown(air) /\ link' = link
    BY <1>1 DEF Request
  <2>5. TypeOK'
    BY <2>2, <2>3, <2>4 DEF TypeOK
  <2>6. StepPart'
    BY <2>2, <2>3, <2>4 DEF StepPart
  <2> QED
    BY <2>4, <2>5, <2>6 DEF TriesPart, InStep
<1>2. CASE Refuse(b)
  <2>1. TypeOK'
    BY <1>2 DEF Refuse, TypeOK
  <2> QED
    BY <1>2, <2>1 DEF Refuse, TriesPart, StepPart, InStep
<1> QED
  BY <1>1, <1>2

\* _request ends or goes on.
LEMMA ServeStep == IInv /\ Serve => IInv'
<1> SUFFICES ASSUME IInv, Serve PROVE IInv'
  OBVIOUS
<1> USE FrameFacts, AttemptsAssumption DEF IInv
<1>0. q \in Seq(Frame) /\ air \in Seq(Frame)
  BY DEF TypeOK
<1>1. CASE Write
  <2>1. Reply \in Frame /\ Reply.own
    BY DEF Reply, TypeOK, Blocks, Frame
  <2>2. /\ air' = Append(air, Reply) \/ air' = air
        /\ call = "write" /\ call' = "await"
        /\ UNCHANGED <<link, asked, tries, got, q, result, alone>>
    BY <1>1 DEF Write, requestVars
  <2>3. TypeOK'
    BY <1>0, <2>1, <2>2 DEF TypeOK
  <2>4. StepPart'
    BY <1>0, <2>1, <2>2 DEF StepPart
  <2> QED
    BY <2>2, <2>3, <2>4 DEF TriesPart, InStep
<1>2. CASE WriteFails \/ TimesOut
  <2>1. TypeOK'
    BY <1>2 DEF WriteFails, TimesOut, requestVars, TypeOK
  <2> QED
    BY <1>2, <2>1 DEF WriteFails, TimesOut, requestVars, TriesPart, StepPart, InStep
<1>3. CASE Accept
  <2>1. /\ call = "await" /\ call' = "idle" /\ q # <<>> /\ q' = Tail(q) /\ Matches(Head(q))
        /\ UNCHANGED <<link, asked, tries, air, alone>>
        /\ result' \in {"ok", "decode"}
    BY <1>3 DEF Accept
  <2>2. (got' = {Head(q)} /\ Head(q).crc) \/ got' = got
    BY <1>3 DEF Accept
  <2>3. Head(q) \in Frame /\ Tail(q) \in Seq(Frame)
    BY <1>0, <2>1
  <2>4. TypeOK'
    BY <2>1, <2>2, <2>3 DEF TypeOK
  <2>5. InStep'
    BY <1>0, <2>1, <2>2 DEF InStep, StepPart, Matches
  <2> QED
    BY <2>1, <2>4, <2>5 DEF TriesPart, StepPart
<1>4. CASE Discard
  <2>1. /\ call = "await" /\ q # <<>> /\ q' = Tail(q) /\ tries' = tries + 1
        /\ UNCHANGED <<link, asked, air, got, alone>>
        /\ \/ tries' = Attempts /\ call' = "idle" /\ result' = "timeout"
           \/ tries' # Attempts /\ UNCHANGED <<call, result>>
    BY <1>4 DEF Discard
  <2>2. tries' \in 0..Attempts /\ TriesPart'
    BY <2>1 DEF TypeOK, TriesPart
  <2>3. TypeOK'
    BY <1>0, <2>1, <2>2 DEF TypeOK
  <2>4. StepPart'
    BY <1>0, <2>1 DEF StepPart
  <2> QED
    BY <2>1, <2>2, <2>3, <2>4 DEF InStep
<1> QED
  BY <1>1, <1>2, <1>3, <1>4 DEF Serve

\* Every step keeps the invariant.
LEMMA Inductive == IInv /\ [BleNext]_bleVars => IInv'
<1> SUFFICES ASSUME IInv, [BleNext]_bleVars PROVE IInv'
  OBVIOUS
<1>1. CASE UNCHANGED bleVars
  BY <1>1 DEF bleVars, IInv, TypeOK, TriesPart, StepPart, InStep
<1> QED
  BY <1>1, LinkStep, RequestStep, ServeStep DEF BleNext

(***************************************************************************)
(* Theorems.                                                               *)
(***************************************************************************)

\* Type correctness of the client, its queue and the link in every reachable state.
THEOREM TypeCorrect == BleSpec => []TypeOK
BY AtStart, Inductive, PTL DEF BleSpec, IInv

\* A request that starts on a quiet link and meets nothing foreign returns the
\* undamaged answer to itself, whatever the queue held before.
THEOREM RequestsAreInStep == BleSpec => []InStep
BY AtStart, Inductive, PTL DEF BleSpec, IInv
=============================================================================
