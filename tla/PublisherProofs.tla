--------------------------- MODULE PublisherProofs ---------------------------
(***************************************************************************)
(* What the publisher leaves in Home Assistant.  First the safety of the   *)
(* retained availability, for any number of packets in flight and any      *)
(* number of connections, crashes and restarts; then the values: for any   *)
(* number of inverters, registers of any width and any blocks and packs    *)
(* missing, what is published is what was measured, and it adds up.        *)
(***************************************************************************)
EXTENDS Availability, Telemetry, FiniteSetTheorems, WellFoundedInduction, TLAPS

Packets == {"connect", "online", "late", "offline", "disconnect"}

(***************************************************************************)
(* Availability: the inductive invariant.                                  *)
(***************************************************************************)

\* A connection starts with its CONNECT, and until the broker has taken that the
\* session is not of this connection.
Connection ==
  /\ wire \in Seq(Packets)
  /\ \A i \in 1..Len(wire) : i > 1 => wire[i] # "connect"
  /\ sock /\ (wire = <<>> \/ wire[1] # "connect") => session = "live"
  /\ wire # <<>> /\ wire[1] = "connect" => session # "live"
  /\ ~sock => wire = <<>> /\ session # "live"
  /\ session \in {"none", "live", "stale"}
  /\ session # "none" => will

\* Without its network thread a process neither dials nor handles a CONNACK.
Threads ==
  /\ net \in {"none", "loop", "dialing", "ended"}
  /\ net = "dialing" => ~sock
  /\ main \in {"new", "disconnect", "gone", "crashed"} => net \in {"none", "ended"}
  /\ main = "new" => ~sock

\* DISCONNECT is the last packet of an orderly stop.
LastWord ==
  \A i \in 1..Len(wire) : wire[i] = "disconnect" => i = Len(wire) /\ main = "gone"

\* Nothing in flight says online after position i.
QuietAfter(i) == \A k \in 1..Len(wire) : k > i => wire[k] # "online"

\* What is in flight leaves the topic other than online: its last availability is
\* not online, or it has none and the topic is not online, or the CONNECT in
\* flight ends a stale session, whose will is published.
Settled ==
  \/ \E i \in 1..Len(wire) : wire[i] \in {"offline", "late"} /\ QuietAfter(i)
  \/ /\ QuietAfter(0)
     /\ retained # "online" \/ (wire # <<>> /\ wire[1] = "connect" /\ session = "stale")

Stopping == main \in {"loopStop", "join", "disconnect", "gone"} /\ sock => Settled

\* Only a session can hold the topic online.
Held == retained = "online" => session # "none"

IInv == Connection /\ Threads /\ LastWord /\ Stopping /\ Held

(***************************************************************************)
(* Availability: lemmas.                                                   *)
(***************************************************************************)

\* The two ways a sequence of packets changes.
LEMMA WireFacts ==
  ASSUME NEW s \in Seq(Packets)
  PROVE  /\ \A p \in Packets :
              /\ Append(s, p) \in Seq(Packets) /\ Len(Append(s, p)) = Len(s) + 1
              /\ Append(s, p)[Len(s) + 1] = p
              /\ \A i \in 1..Len(s) : Append(s, p)[i] = s[i]
         /\ s # <<>> => /\ Tail(s) \in Seq(Packets) /\ Len(Tail(s)) = Len(s) - 1
                        /\ \A i \in 1..Len(Tail(s)) : Tail(s)[i] = s[i + 1]
                        /\ Head(s) = s[1] /\ Len(s) > 0
         /\ Len(s) \in Nat /\ (s = <<>> <=> Len(s) = 0)
OBVIOUS

\* A fresh socket with its CONNECT, and a lost one.
LEMMA FreshWire ==
  /\ <<"connect">> \in Seq(Packets) /\ Len(<<"connect">>) = 1 /\ <<"connect">>[1] = "connect"
  /\ <<"connect">> # <<>> /\ <<>> \in Seq(Packets) /\ Len(<<>>) = 0
BY DEF Packets

\* The daemon, the network thread and the broker leave the wire alone.
LEMMA SameWire ==
  ASSUME IInv, LoopStop \/ Joined \/ Crash \/ Restart \/ Redial \/ DialFails \/ NetEnds
               \/ UNCHANGED vars
  PROVE  IInv'
<1>1. UNCHANGED <<sock, wire, session, will, retained>>
  BY DEF LoopStop, Joined, Crash, Restart, Redial, DialFails, NetEnds, brokerVars, vars
<1>2. Connection' /\ Held'
  BY <1>1 DEF IInv, Connection, Held
<1>3. Threads'
  BY DEF IInv, Threads, LoopStop, Joined, Crash, Restart, Redial, DialFails, NetEnds, Alive,
         brokerVars, vars
<1>4. LastWord'
  <2>1. main = "gone" => main' = "gone" \/ wire = <<>>
    BY DEF IInv, Connection, LoopStop, Joined, Crash, Restart, Redial, DialFails, NetEnds,
           Alive, vars
  <2> QED
    BY <1>1, <2>1, WireFacts DEF IInv, LastWord, Connection
<1>5. Stopping'
  <2>1. main' \in {"loopStop", "join", "disconnect", "gone"} =>
          main \in {"loopStop", "join", "disconnect", "gone"}
    BY DEF LoopStop, Joined, Crash, Restart, Redial, DialFails, NetEnds, vars
  <2> QED
    BY <1>1, <2>1 DEF IInv, Stopping, Settled, QuietAfter
<1> QED
  BY <1>2, <1>3, <1>4, <1>5 DEF IInv

\* A socket is opened.
LEMMA Opens == ASSUME IInv, Connect \/ Dialed PROVE IInv'
<1>1. /\ ~sock /\ sock' /\ wire' = <<"connect">> /\ net' = "loop"
      /\ UNCHANGED <<session, will, retained>>
      /\ main' \notin {"new", "disconnect", "gone", "crashed"}
      /\ main' = main \/ main' = "started"
  BY DEF IInv, Threads, Connect, Dialed, brokerVars
<1>2. Connection' /\ Held' /\ Threads'
  BY <1>1, FreshWire DEF IInv, Connection, Held, Threads
<1>3. LastWord'
  BY <1>1, FreshWire DEF LastWord
<1>4. Stopping'
  BY <1>1, FreshWire DEF IInv, Connection, Held, Stopping, Settled, QuietAfter
<1> QED
  BY <1>2, <1>3, <1>4 DEF IInv

\* A socket is lost.
LEMMA Drops == ASSUME IInv, LinkDrops PROVE IInv'
<1>1. /\ ~sock' /\ wire' = <<>> /\ UNCHANGED <<main, net, will, retained>>
      /\ session' = IF session = "live" THEN "stale" ELSE session
  BY DEF LinkDrops
<1> QED
  BY <1>1, FreshWire DEF IInv, Connection, Held, Threads, LastWord, Stopping

\* A publish, or the DISCONNECT.
LEMMA Sends ==
  ASSUME IInv, FirstOnline \/ HotCycleOnline \/ StopOffline \/ Disconnect \/ HandleConnect
  PROVE  IInv'
<1>1. PICK p \in Packets \ {"connect"} : Publish(p)
                  /\ (p = "online" => main' \notin {"loopStop", "join", "disconnect", "gone"})
                  /\ (p = "disconnect" <=> main' = "gone")
                  /\ (main \notin {"loopStop", "join", "disconnect"} /\ main' = "loopStop"
                        => p = "offline")
  <2>1. CASE FirstOnline \/ HotCycleOnline
    BY <2>1 DEF FirstOnline, HotCycleOnline, Packets
  <2>2. CASE StopOffline \/ Disconnect
    BY <2>2 DEF StopOffline, Disconnect, Packets
  <2>3. CASE HandleConnect
    BY <2>3 DEF HandleConnect, Packets, IInv, Threads
  <2> QED
    BY <2>1, <2>2, <2>3
<1>2. /\ UNCHANGED <<sock, net, session, will, retained>>
      /\ main # "gone" /\ main' # "new"
      /\ main' \in {"disconnect", "gone", "crashed"} => main \in {"disconnect", "crashed"}
      /\ main' \in {"join", "disconnect", "gone"} => main \in {"join", "disconnect"}
  BY DEF FirstOnline, HotCycleOnline, StopOffline, Disconnect, HandleConnect, brokerVars,
         IInv, Threads
<1>3. \/ sock /\ wire' = Append(wire, p)
      \/ ~sock /\ wire' = wire /\ wire = <<>>
  BY <1>1 DEF Publish, IInv, Connection
<1>4. wire \in Seq(Packets)
  BY DEF IInv, Connection
<1>5. Connection' /\ Held' /\ Threads'
  BY <1>1, <1>2, <1>3, <1>4, WireFacts DEF IInv, Connection, Held, Threads
<1>6. LastWord'
  BY <1>1, <1>2, <1>3, <1>4, WireFacts DEF IInv, LastWord
<1>7. Stopping'
  <2> SUFFICES ASSUME sock, main' \in {"loopStop", "join", "disconnect", "gone"}
               PROVE  Settled'
    BY <1>2 DEF Stopping
  <2>1. CASE p \in {"offline", "late"}
    BY <1>3, <1>4, <2>1, WireFacts DEF Settled, QuietAfter
  <2>2. CASE p = "disconnect"
    <3>1. Settled
      BY <1>1, <1>2, <2>2 DEF IInv, Stopping
    <3> QED
      BY <1>2, <1>3, <1>4, <2>2, <3>1, WireFacts DEF Settled, QuietAfter
  <2> QED
    BY <1>1, <2>1, <2>2 DEF Packets
<1> QED
  BY <1>5, <1>6, <1>7 DEF IInv

\* The broker takes a CONNECT or an availability.
LEMMA Takes == ASSUME IInv, RecvConnect \/ RecvPublish PROVE IInv'
<1>1. /\ sock /\ sock' /\ wire # <<>> /\ wire' = Tail(wire) /\ session' = "live" /\ will'
      /\ UNCHANGED <<main, net>>
  <2>1. CASE RecvConnect
    BY <2>1 DEF RecvConnect, WillSet
  <2>2. CASE RecvPublish
    BY <2>2, WireFacts DEF RecvPublish, IInv, Connection
  <2> QED
    BY <2>1, <2>2
<1>2. wire \in Seq(Packets)
  BY DEF IInv, Connection
<1>3. Connection' /\ Held' /\ Threads'
  BY <1>1, <1>2, WireFacts DEF IInv, Connection, Held, Threads
<1>4. LastWord'
  BY <1>1, <1>2, WireFacts DEF IInv, LastWord
<1>5. \/ wire[1] = "connect" /\ retained' = IF session = "stale" THEN "offline" ELSE retained
      \/ wire[1] \in {"online", "late", "offline"} /\ retained' = wire[1]
  BY <1>1, <1>2, WireFacts DEF RecvConnect, RecvPublish, AfterWill, IInv, Connection
<1>6. Stopping'
  <2> SUFFICES ASSUME Settled PROVE Settled'
    BY <1>1 DEF IInv, Stopping
  <2>1. CASE \E i \in 1..Len(wire) : wire[i] \in {"offline", "late"} /\ QuietAfter(i)
    <3>1. PICK i \in 1..Len(wire) : wire[i] \in {"offline", "late"} /\ QuietAfter(i)
      BY <2>1
    <3>2. CASE i = 1
      BY <1>1, <1>2, <1>5, <3>1, <3>2, WireFacts DEF Settled, QuietAfter
    <3>3. CASE i > 1
      <4>1. i - 1 \in 1..Len(wire') /\ wire'[i - 1] = wire[i]
        BY <1>1, <1>2, <3>3, WireFacts
      <4>2. QuietAfter(i - 1)'
        BY <1>1, <1>2, <3>1, <3>3, WireFacts DEF QuietAfter
      <4> QED
        BY <3>1, <4>1, <4>2 DEF Settled
    <3> QED
      BY <1>2, <3>2, <3>3, WireFacts
  <2>2. CASE /\ QuietAfter(0)
             /\ retained # "online" \/ (wire # <<>> /\ wire[1] = "connect" /\ session = "stale")
    <3>1. QuietAfter(0)'
      BY <1>1, <1>2, <2>2, WireFacts DEF QuietAfter
    <3>2. retained' # "online"
      BY <1>1, <1>2, <1>5, <2>2, WireFacts DEF QuietAfter
    <3> QED
      BY <3>1, <3>2 DEF Settled
  <2> QED
    BY <2>1, <2>2 DEF Settled
<1> QED
  BY <1>3, <1>4, <1>6 DEF IInv

\* A session ends, with its will or, at a DISCONNECT, without.
LEMMA Ends == ASSUME IInv, RecvDisconnect \/ RecvClose \/ KeepaliveExpires PROVE IInv'
<1>1. CASE RecvDisconnect
  <2>1. wire \in Seq(Packets) /\ wire # <<>> /\ wire[1] = "disconnect" /\ sock
    BY <1>1, WireFacts DEF RecvDisconnect, IInv, Connection
  <2>2. Len(wire) = 1 /\ main = "gone"
    <3>1. 1 \in 1..Len(wire)
      BY <2>1, WireFacts
    <3> QED
      BY <2>1, <3>1 DEF IInv, LastWord
  <2>3. retained # "online"
    BY <2>1, <2>2 DEF IInv, Stopping, Settled
  <2> QED
    BY <1>1, <2>2, <2>3, FreshWire
    DEF RecvDisconnect, IInv, Connection, Held, Threads, LastWord, Stopping
<1>2. CASE RecvClose
  BY <1>2, FreshWire
  DEF RecvClose, AfterWill, IInv, Connection, Held, Threads, LastWord, Stopping
<1>3. CASE KeepaliveExpires
  <2>1. /\ session = "stale" /\ session' = "none" /\ retained' = "offline"
        /\ UNCHANGED <<main, net, sock, wire, will>>
    BY <1>3 DEF KeepaliveExpires, AfterWill, IInv, Connection
  <2>2. Connection' /\ Held' /\ Threads' /\ LastWord'
    BY <2>1 DEF IInv, Connection, Held, Threads, LastWord
  <2>3. Stopping'
    BY <2>1 DEF IInv, Stopping, Settled, QuietAfter
  <2> QED
    BY <2>2, <2>3 DEF IInv
<1> QED
  BY <1>1, <1>2, <1>3

\* The invariant holds at the start and every step keeps it.
LEMMA Inductive == (Init => IInv) /\ (IInv /\ [Next]_vars => IInv')
<1>1. Init => IInv
  BY FreshWire DEF Init, IInv, Connection, Threads, LastWord, Stopping, Held
<1> QED
  BY <1>1, SameWire, Opens, Drops, Sends, Takes, Ends
  DEF Next, MainNext, NetNext, BrokerNext

(***************************************************************************)
(* Availability: theorem.                                                  *)
(***************************************************************************)

\* A daemon that is gone is not retained online by anything it said before its
\* offline: neither the last will nor the orderly stop can be overtaken.
THEOREM GoneMeansOffline == Spec => []GoneIsOffline
<1>1. IInv => GoneIsOffline
  BY DEF IInv, Held, GoneIsOffline, Over
<1> QED
  BY <1>1, Inductive, PTL DEF Spec

(***************************************************************************)
(* Sums over finite sets.                                                  *)
(***************************************************************************)

\* Induction over the subsets of a finite set, for what a set Good can say.
LEMMA SetInduction ==
  ASSUME NEW S, IsFiniteSet(S), NEW Good,
         \A T \in SUBSET S : (\A U \in SUBSET T : U # T => U \in Good) => T \in Good
  PROVE  \A T \in SUBSET S : T \in Good
<1>1. IsWellFoundedOn(StrictSubsetOrdering(S), SUBSET S)
  BY FS_StrictSubsetOrderingWellFounded, FS_FiniteSubsetsOfFinite
<1> DEFINE Bad == {T \in SUBSET S : T \notin Good}
<1> SUFFICES ASSUME Bad # {} PROVE FALSE
  OBVIOUS
<1>2. PICK T \in Bad : \A U \in Bad : <<U, T>> \notin StrictSubsetOrdering(S)
  <2> HIDE DEF Bad
  <2>1. Bad \subseteq SUBSET S
    BY DEF Bad
  <2> QED
    BY <1>1, <2>1, WFMin
<1>3. \A U \in SUBSET T : U # T => U \in Good
  <2> TAKE U \in SUBSET T
  <2>1. U # T => <<U, T>> \in StrictSubsetOrdering(S)
    BY DEF StrictSubsetOrdering
  <2> QED
    BY <1>2, <2>1
<1> QED
  BY <1>2, <1>3

\* The function that SumFunctionOnSet iterates, and the element it takes next.
Pick(s) == CHOOSE x \in s : TRUE
Adds(g, f, S) ==
  g = [s \in SUBSET S |-> IF s = {} THEN 0 ELSE f[Pick(s)] + g[s \ {Pick(s)}]]
Iter(f, S) == CHOOSE g : Adds(g, f, S)

LEMMA SumIsIter == ASSUME NEW f, NEW S PROVE SumFunctionOnSet(f, S) = Iter(f, S)[S]
BY DEF SumFunctionOnSet, FoldFunctionOnSet, MapThenFoldSet, Iter, Adds, Pick

LEMMA PickIn == ASSUME NEW s, s # {} PROVE Pick(s) \in s
BY DEF Pick

LEMMA AddsAt ==
  ASSUME NEW g, NEW f, NEW S, Adds(g, f, S), NEW U \in SUBSET S
  PROVE  g[U] = IF U = {} THEN 0 ELSE f[Pick(U)] + g[U \ {Pick(U)}]
BY DEF Adds

\* Iterating over a larger set gives the same sums.
LEMMA Agree ==
  ASSUME NEW g, NEW h, NEW f, NEW S, NEW T, IsFiniteSet(T), T \subseteq S,
         Adds(g, f, S), Adds(h, f, T)
  PROVE  g[T] = h[T]
<1> DEFINE Good == {U \in SUBSET T : g[U] = h[U]}
<1>1. ASSUME NEW U \in SUBSET T, \A V \in SUBSET U : V # U => V \in Good
      PROVE  U \in Good
  <2>1. CASE U = {}
    BY <2>1, AddsAt
  <2>2. CASE U # {}
    <3>1. Pick(U) \in U
      BY <2>2, PickIn
    <3>2. U \ {Pick(U)} \in Good
      BY <1>1, <3>1
    <3>3. g[U] = f[Pick(U)] + g[U \ {Pick(U)}]
      <4>1. U \in SUBSET S
        OBVIOUS
      <4> QED
        BY <2>2, <4>1, AddsAt
    <3>4. h[U] = f[Pick(U)] + h[U \ {Pick(U)}]
      BY <2>2, AddsAt
    <3> QED
      BY <3>2, <3>3, <3>4
  <2> QED
    BY <2>1, <2>2
<1> HIDE DEF Good
<1>2. \A U \in SUBSET T : U \in Good
  BY <1>1, SetInduction
<1> QED
  BY <1>2 DEF Good

\* There is such a function.
LEMMA IterAdds == ASSUME NEW f, NEW S, IsFiniteSet(S) PROVE Adds(Iter(f, S), f, S)
<1> DEFINE Good == {T \in SUBSET S : Adds(Iter(f, T), f, T)}
<1>1. ASSUME NEW T \in SUBSET S, \A U \in SUBSET T : U # T => U \in Good
      PROVE  T \in Good
  <2> DEFINE Val(U) == Iter(f, U)[U]
             G == [U \in SUBSET T |->
                     IF U = T THEN (IF T = {} THEN 0 ELSE f[Pick(T)] + Val(T \ {Pick(T)}))
                     ELSE Val(U)]
  <2>1. ASSUME NEW U \in SUBSET T
        PROVE  G[U] = IF U = {} THEN 0 ELSE f[Pick(U)] + G[U \ {Pick(U)}]
    <3>1. CASE U = T
      <4>1. T # {} => T \ {Pick(T)} # T /\ T \ {Pick(T)} \in SUBSET T
        BY PickIn
      <4> QED
        BY <3>1, <4>1
    <3>2. CASE U # T
      <4>1. Adds(Iter(f, U), f, U)
        BY <1>1, <3>2
      <4>2. Val(U) = IF U = {} THEN 0 ELSE f[Pick(U)] + Iter(f, U)[U \ {Pick(U)}]
        BY <4>1, AddsAt
      <4>3. ASSUME U # {} PROVE Iter(f, U)[U \ {Pick(U)}] = Val(U \ {Pick(U)})
        <5>1. Pick(U) \in U
          BY <4>3, PickIn
        <5> DEFINE V == U \ {Pick(U)}
        <5>2. V \in SUBSET T /\ V # T /\ V \subseteq U
          BY <5>1
        <5>3. Adds(Iter(f, V), f, V)
          BY <1>1, <5>2
        <5>4. IsFiniteSet(V)
          BY <5>2, FS_Subset
        <5> QED
          BY <4>1, <5>2, <5>3, <5>4, Agree
      <4>4. U # {} => U \ {Pick(U)} # T /\ U \ {Pick(U)} \in SUBSET T /\ Pick(U) \in U
        BY PickIn
      <4> QED
        BY <3>2, <4>2, <4>3, <4>4
    <3> QED
      BY <3>1, <3>2
  <2>2. Adds(G, f, T)
    <3>1. G = [U \in SUBSET T |-> G[U]]
      OBVIOUS
    <3> HIDE DEF G
    <3> QED
      BY <2>1, <3>1 DEF Adds
  <2> HIDE DEF G
  <2>3. Adds(Iter(f, T), f, T)
    BY <2>2 DEF Iter
  <2> QED
    BY <2>3
<1> HIDE DEF Good
<1>2. \A T \in SUBSET S : T \in Good
  BY <1>1, SetInduction
<1> QED
  BY <1>2 DEF Good

\* The sum, one element at a time.
LEMMA SumStep ==
  ASSUME NEW f, NEW S, IsFiniteSet(S)
  PROVE  SumFunctionOnSet(f, S) =
           IF S = {} THEN 0 ELSE f[Pick(S)] + SumFunctionOnSet(f, S \ {Pick(S)})
<1>1. CASE S = {}
  BY <1>1, IterAdds, AddsAt, SumIsIter
<1>2. CASE S # {}
  <2> DEFINE T == S \ {Pick(S)}
  <2>1. IsFiniteSet(T) /\ T \subseteq S
    BY FS_RemoveElement
  <2>2. Iter(f, S)[T] = Iter(f, T)[T]
    BY <2>1, IterAdds, Agree
  <2>3. Iter(f, S)[S] = f[Pick(S)] + Iter(f, S)[T]
    BY <1>2, IterAdds, AddsAt
  <2> QED
    BY <1>2, <2>2, <2>3, SumIsIter
<1> QED
  BY <1>1, <1>2

\* A sum is of any kind that is closed under addition.
LEMMA SumClosed ==
  ASSUME NEW S, IsFiniteSet(S), NEW f, NEW R, 0 \in R, \A a, b \in R : a + b \in R,
         \A x \in S : f[x] \in R
  PROVE  SumFunctionOnSet(f, S) \in R
<1> DEFINE Good == {T \in SUBSET S : SumFunctionOnSet(f, T) \in R}
<1>1. ASSUME NEW T \in SUBSET S, \A U \in SUBSET T : U # T => U \in Good
      PROVE  T \in Good
  <2>1. SumFunctionOnSet(f, {}) = 0
    BY SumStep, FS_EmptySet
  <2>2. CASE T = {}
    BY <2>1, <2>2
  <2>3. CASE T # {}
    <3>1. Pick(T) \in T /\ IsFiniteSet(T)
      BY <2>3, PickIn, FS_Subset
    <3>2. T \ {Pick(T)} \in Good
      BY <1>1, <3>1
    <3>3. SumFunctionOnSet(f, T) = f[Pick(T)] + SumFunctionOnSet(f, T \ {Pick(T)})
      BY <2>3, <3>1, SumStep
    <3> QED
      BY <3>1, <3>2, <3>3
  <2> QED
    BY <2>2, <2>3
<1> HIDE DEF Good
<1>2. \A T \in SUBSET S : T \in Good
  BY <1>1, SetInduction
<1> QED
  BY <1>2 DEF Good

LEMMA SumType ==
  ASSUME NEW S, IsFiniteSet(S), NEW f, \A x \in S : f[x] \in Int
  PROVE  SumFunctionOnSet(f, S) \in Int
BY SumClosed

LEMMA SumNatural ==
  ASSUME NEW S, IsFiniteSet(S), NEW f, \A x \in S : f[x] \in Nat
  PROVE  SumFunctionOnSet(f, S) \in Nat
<1>1. 0 \in Nat /\ \A a, b \in Nat : a + b \in Nat
  OBVIOUS
<1> QED
  BY <1>1, SumClosed

LEMMA SumPositive ==
  ASSUME NEW S, IsFiniteSet(S), S # {}, NEW f, \A x \in S : f[x] \in Nat \ {0}
  PROVE  SumFunctionOnSet(f, S) \in Nat \ {0}
<1>1. Pick(S) \in S /\ IsFiniteSet(S \ {Pick(S)})
  BY PickIn, FS_RemoveElement
<1>2. SumFunctionOnSet(f, S \ {Pick(S)}) \in Nat
  BY <1>1, SumNatural
<1>3. SumFunctionOnSet(f, S) = f[Pick(S)] + SumFunctionOnSet(f, S \ {Pick(S)})
  BY SumStep
<1> QED
  BY <1>1, <1>2, <1>3

\* Any element can be taken first.
LEMMA SumRemove ==
  ASSUME NEW S, IsFiniteSet(S), NEW f, \A x \in S : f[x] \in Int, NEW a \in S
  PROVE  SumFunctionOnSet(f, S) = f[a] + SumFunctionOnSet(f, S \ {a})
<1> DEFINE Sm(T) == SumFunctionOnSet(f, T)
           Good == {T \in SUBSET S : \A x \in T : Sm(T) = f[x] + Sm(T \ {x})}
<1>1. ASSUME NEW T \in SUBSET S, \A U \in SUBSET T : U # T => U \in Good
      PROVE  T \in Good
  <2> SUFFICES ASSUME NEW x \in T PROVE Sm(T) = f[x] + Sm(T \ {x})
    OBVIOUS
  <2> DEFINE c == Pick(T)
  <2>1. c \in T
    BY PickIn
  <2>2. IsFiniteSet(T)
    BY FS_Subset
  <2>3. Sm(T) = f[c] + Sm(T \ {c})
    BY <2>2, SumStep
  <2>4. CASE x = c
    BY <2>3, <2>4
  <2>5. CASE x # c
    <3>1. Sm(T \ {c}) = f[x] + Sm((T \ {c}) \ {x})
      <4>1. T \ {c} \in Good
        BY <1>1, <2>1
      <4> QED
        BY <2>5, <4>1
    <3>2. Sm(T \ {x}) = f[c] + Sm((T \ {x}) \ {c})
      <4>1. T \ {x} \in Good
        BY <1>1
      <4> QED
        BY <2>1, <2>5, <4>1
    <3>3. (T \ {x}) \ {c} = (T \ {c}) \ {x}
      OBVIOUS
    <3>4. f[x] \in Int /\ f[c] \in Int /\ Sm((T \ {c}) \ {x}) \in Int
      <4>1. IsFiniteSet((T \ {c}) \ {x})
        BY <2>2, FS_RemoveElement
      <4> QED
        BY <2>1, <4>1, SumType
    <3> HIDE DEF Sm, c
    <3>5. Sm(T) = f[c] + (f[x] + Sm((T \ {c}) \ {x}))
      BY <2>3, <3>1
    <3>6. Sm(T \ {x}) = f[c] + Sm((T \ {c}) \ {x})
      BY <3>2, <3>3
    <3> QED
      BY <3>4, <3>5, <3>6
  <2> QED
    BY <2>4, <2>5
<1> HIDE DEF Good
<1>2. \A T \in SUBSET S : T \in Good
  BY <1>1, SetInduction
<1> QED
  BY <1>2 DEF Good

\* A sum is what its positive terms add less what its negative ones take away.
LEMMA SumSplit ==
  ASSUME NEW S, IsFiniteSet(S), NEW f, NEW g, \A x \in S : f[x] \in Int /\ g[x] = -f[x]
  PROVE  SumFunctionOnSet(f, S) = SumFunctionOnSet(f, {x \in S : f[x] > 0})
                                  - SumFunctionOnSet(g, {x \in S : f[x] < 0})
<1> DEFINE P(T) == {x \in T : f[x] > 0}
           M(T) == {x \in T : f[x] < 0}
           Sm(h, T) == SumFunctionOnSet(h, T)
           Good == {T \in SUBSET S : Sm(f, T) = Sm(f, P(T)) - Sm(g, M(T))}
<1>1. ASSUME NEW T \in SUBSET S, \A U \in SUBSET T : U # T => U \in Good
      PROVE  T \in Good
  <2>1. CASE T = {}
    <3>1. Sm(f, {}) = 0 /\ Sm(g, {}) = 0
      BY SumStep, FS_EmptySet
    <3>2. P(T) = {} /\ M(T) = {}
      BY <2>1
    <3> HIDE DEF Sm, P, M
    <3> QED
      BY <2>1, <3>1, <3>2
  <2>2. CASE T # {}
    <3> DEFINE c == Pick(T)
               U == T \ {c}
    <3>1. c \in T
      BY <2>2, PickIn
    <3>2. U \in Good
      BY <1>1, <3>1
    <3>3. IsFiniteSet(T) /\ IsFiniteSet(P(T)) /\ IsFiniteSet(M(T))
      BY FS_Subset
    <3>4. IsFiniteSet(U) /\ IsFiniteSet(P(U)) /\ IsFiniteSet(M(U))
      <4>1. U \in SUBSET S /\ P(U) \in SUBSET S /\ M(U) \in SUBSET S
        OBVIOUS
      <4> QED
        BY <4>1, FS_Subset
    <3>5. f[c] \in Int /\ g[c] = -f[c]
      BY <3>1
    <3>6. Sm(f, P(U)) \in Int /\ Sm(g, M(U)) \in Int
      BY <3>4, SumType
    <3>7. Sm(f, T) = f[c] + Sm(f, U)
      BY <3>1, <3>3, SumRemove
    <3>0. Sm(f, U) = Sm(f, P(U)) - Sm(g, M(U))
      BY <3>2
    <3> SUFFICES Sm(f, T) = Sm(f, P(T)) - Sm(g, M(T))
      OBVIOUS
    <3>8. CASE f[c] > 0
      <4>1. P(T) \ {c} = P(U) /\ M(T) = M(U) /\ c \in P(T)
        BY <3>1, <3>5, <3>8
      <4>2. Sm(f, P(T)) = f[c] + Sm(f, P(T) \ {c})
        BY <3>3, <4>1, SumRemove
      <4>3. Sm(f, P(T)) = f[c] + Sm(f, P(U)) /\ Sm(g, M(T)) = Sm(g, M(U))
        BY <4>1, <4>2
      <4> HIDE DEF Sm, P, M, c, U
      <4> QED
        BY <3>0, <3>5, <3>6, <3>7, <4>3
    <3>9. CASE f[c] < 0
      <4>1. M(T) \ {c} = M(U) /\ P(T) = P(U) /\ c \in M(T)
        BY <3>1, <3>5, <3>9
      <4>2. Sm(g, M(T)) = g[c] + Sm(g, M(T) \ {c})
        BY <3>3, <4>1, SumRemove
      <4>3. Sm(g, M(T)) = g[c] + Sm(g, M(U)) /\ Sm(f, P(T)) = Sm(f, P(U))
        BY <4>1, <4>2
      <4> HIDE DEF Sm, P, M, c, U
      <4> QED
        BY <3>0, <3>5, <3>6, <3>7, <4>3
    <3>10. CASE f[c] = 0
      <4>1. M(T) = M(U) /\ P(T) = P(U)
        BY <3>1, <3>10
      <4> HIDE DEF Sm, P, M, c, U
      <4> QED
        BY <3>0, <3>5, <3>6, <3>7, <3>10, <4>1
    <3> QED
      BY <3>5, <3>8, <3>9, <3>10
  <2> QED
    BY <2>1, <2>2
<1> HIDE DEF Good
<1>2. S \in Good
  BY <1>1, SetInduction
<1> QED
  BY <1>2 DEF Good

\* A sum of sums of two terms, each of which counts as zero outside of its own set.
LEMMA SumTwo ==
  ASSUME NEW S, IsFiniteSet(S), NEW h, NEW f, NEW A \in SUBSET S, NEW g, NEW B \in SUBSET S,
         \A x \in A : f[x] \in Int, \A x \in B : g[x] \in Int,
         \A x \in S : h[x] = (IF x \in A THEN f[x] ELSE 0) + (IF x \in B THEN g[x] ELSE 0)
  PROVE  SumFunctionOnSet(h, S) = SumFunctionOnSet(f, A) + SumFunctionOnSet(g, B)
<1> DEFINE Good == {T \in SUBSET S : SumFunctionOnSet(h, T)
                      = SumFunctionOnSet(f, A \intersect T) + SumFunctionOnSet(g, B \intersect T)}
<1>1. ASSUME NEW T \in SUBSET S, \A U \in SUBSET T : U # T => U \in Good
      PROVE  T \in Good
  <2>1. CASE T = {}
    <3>1. \A y : SumFunctionOnSet(y, {}) = 0
      BY SumStep, FS_EmptySet
    <3>2. A \intersect T = {} /\ B \intersect T = {}
      BY <2>1
    <3> QED
      BY <2>1, <3>1, <3>2
  <2>2. CASE T # {}
    <3> DEFINE c == Pick(T)
               U == T \ {c}
    <3>1. c \in T /\ IsFiniteSet(T)
      BY <2>2, PickIn, FS_Subset
    <3>2. U \in Good
      BY <1>1, <3>1
    <3>3. SumFunctionOnSet(h, T) = h[c] + SumFunctionOnSet(h, U)
      BY <2>2, <3>1, SumStep
    <3> HIDE DEF c
    <3>4. \A C, y : C \subseteq S /\ (\A x \in C : y[x] \in Int) =>
            /\ SumFunctionOnSet(y, C \intersect U) \in Int
            /\ SumFunctionOnSet(y, C \intersect T) =
                 (IF c \in C THEN y[c] ELSE 0) + SumFunctionOnSet(y, C \intersect U)
      <4> TAKE C, y
      <4> HAVE C \subseteq S /\ (\A x \in C : y[x] \in Int)
      <4>1. IsFiniteSet(C \intersect T) /\ IsFiniteSet(C \intersect U)
        BY <3>1, FS_Subset
      <4>2. SumFunctionOnSet(y, C \intersect U) \in Int
        BY <4>1, SumType
      <4>3. CASE c \in C
        <5>1. (C \intersect T) \ {c} = C \intersect U
          OBVIOUS
        <5>2. SumFunctionOnSet(y, C \intersect T)
                = y[c] + SumFunctionOnSet(y, (C \intersect T) \ {c})
          BY <3>1, <4>1, <4>3, SumRemove
        <5> QED
          BY <4>2, <4>3, <5>1, <5>2
      <4>4. CASE c \notin C
        <5>1. C \intersect T = C \intersect U
          BY <4>4
        <5>2. SumFunctionOnSet(y, C \intersect T) = SumFunctionOnSet(y, C \intersect U)
          BY <5>1
        <5> HIDE DEF U
        <5> QED
          BY <4>2, <4>4, <5>2
      <4> QED
        BY <4>3, <4>4
    <3>5. /\ SumFunctionOnSet(f, A \intersect U) \in Int
          /\ SumFunctionOnSet(f, A \intersect T) =
               (IF c \in A THEN f[c] ELSE 0) + SumFunctionOnSet(f, A \intersect U)
      BY <3>4
    <3>6. /\ SumFunctionOnSet(g, B \intersect U) \in Int
          /\ SumFunctionOnSet(g, B \intersect T) =
               (IF c \in B THEN g[c] ELSE 0) + SumFunctionOnSet(g, B \intersect U)
      BY <3>4
    <3>7. /\ (IF c \in A THEN f[c] ELSE 0) \in Int /\ (IF c \in B THEN g[c] ELSE 0) \in Int
          /\ h[c] = (IF c \in A THEN f[c] ELSE 0) + (IF c \in B THEN g[c] ELSE 0)
      BY <3>1
    <3>8. SumFunctionOnSet(h, U)
            = SumFunctionOnSet(f, A \intersect U) + SumFunctionOnSet(g, B \intersect U)
      BY <3>2
    <3> DEFINE sh == SumFunctionOnSet(h, U)
               sf == SumFunctionOnSet(f, A \intersect U)
               sg == SumFunctionOnSet(g, B \intersect U)
               cf == IF c \in A THEN f[c] ELSE 0
               cg == IF c \in B THEN g[c] ELSE 0
    <3> HIDE DEF sh, sf, sg, cf, cg
    <3>9. /\ sf \in Int /\ sg \in Int /\ cf \in Int /\ cg \in Int /\ sh = sf + sg
          /\ SumFunctionOnSet(h, T) = (cf + cg) + sh
          /\ SumFunctionOnSet(f, A \intersect T) = cf + sf
          /\ SumFunctionOnSet(g, B \intersect T) = cg + sg
      BY <3>3, <3>5, <3>6, <3>7, <3>8 DEF sh, sf, sg, cf, cg
    <3> QED
      BY <3>9
  <2> QED
    BY <2>1, <2>2
<1> HIDE DEF Good
<1>2. S \in Good
  BY <1>1, SetInduction
<1>3. A \intersect S = A /\ B \intersect S = B
  OBVIOUS
<1> QED
  BY <1>2, <1>3 DEF Good

(***************************************************************************)
(* Telemetry: the dictionaries.                                            *)
(***************************************************************************)

\* A key of a merged dictionary comes from the first part that has it.
LEMMA MergeAt ==
  ASSUME NEW f, NEW g, NEW k
  PROVE  /\ k \in DOMAIN (f ++ g) <=> k \in DOMAIN f \/ k \in DOMAIN g
         /\ k \in DOMAIN f => (f ++ g)[k] = f[k]
         /\ k \notin DOMAIN f /\ k \in DOMAIN g => (f ++ g)[k] = g[k]
BY DEF ++

\* The entries of a name.
LEMMA EachAt ==
  ASSUME NEW name, NEW value, NEW n, NEW x
  PROVE  /\ <<n, x>> \in DOMAIN Each(name, value) <=> n = name /\ x \in DOMAIN value
         /\ x \in DOMAIN value => Each(name, value)[<<name, x>>] = value[x]
BY DEF Each

\* The entry of the site.
LEMMA TotalAt ==
  \A name, I, value, x :
    /\ \A n : <<n, x>> \in DOMAIN Total(name, I, value) <=> n = name /\ x = Site /\ I # {}
    /\ x = Site /\ I # {} => Total(name, I, value)[<<name, x>>] = value
BY DEF Total, Nothing

\* The names each part of aggregate_inverters gives.
BatteryNames == {"battery_voltage", "battery_current", "battery_power"}
StateNames == {"load_power_l1", "load_power_l2", "load_power", "device_mode", "mode",
               "bus_voltage"}
PvNames == {"pv_power_mppt1", "pv_power_mppt2", "pv_power"}
ColdNames == {"pv_energy_today", "fault_bits"}

\* Dictionary d has the site's value of a name exactly if one of I contributed.
Shows(d, name, I, value) ==
  /\ <<name, Site>> \in DOMAIN d <=> I # {}
  /\ I # {} => d[<<name, Site>>] = value

\* A quantity of the inverters that have block b.
OfBlock(rs, b, f) == [i \in Having(rs, b) |-> rs[i][b][f]]

LEMMA HavingSome == \A rs, b : Site \notin Having(rs, b)
<1>1. Site \notin Inverters
  BY SizesAssumption DEF Inverters, Site
<1> QED
  BY <1>1 DEF Having

\* What the battery blocks give.
LEMMA BatteryAt ==
  ASSUME NEW rs, NEW n, NEW x
  PROVE  LET I == Having(rs, "battery")
             V == OfBlock(rs, "battery", "battery_voltage")
             A == OfBlock(rs, "battery", "battery_current")
         IN  /\ <<n, x>> \in DOMAIN BatteryKeys(rs) => n \in BatteryNames
             /\ x \in I => /\ <<"battery_current", x>> \in DOMAIN BatteryKeys(rs)
                           /\ BatteryKeys(rs)[<<"battery_current", x>>] = A[x]
             /\ x = Site => Shows(BatteryKeys(rs), "battery_voltage", I, SumFunction(V))
             /\ x = Site => Shows(BatteryKeys(rs), "battery_power", I, SumFunction(V) * SumFunction(A))
<1> DEFINE I == Having(rs, "battery")
           V == OfBlock(rs, "battery", "battery_voltage")
           A == OfBlock(rs, "battery", "battery_current")
           s == SumFunction(V)
           p == SumFunction(V) * SumFunction(A)
           E1 == Each("battery_voltage", V)
           E2 == Each("battery_current", A)
           T0 == Total("battery_voltage", I, s)
           T1 == Total("battery_power", I, p)
<1>1. BatteryKeys(rs) = E1 ++ E2 ++ T0 ++ T1
  BY DEF BatteryKeys, OfBlock
<1>2. DOMAIN V = I /\ DOMAIN A = I /\ Site \notin I
  BY HavingSome DEF OfBlock
<1> HIDE DEF V, A, s, p, I
<1>3. \A y : <<y, x>> \in DOMAIN E1 <=> y = "battery_voltage" /\ x \in I
  BY <1>2, EachAt
<1>4. /\ \A y : <<y, x>> \in DOMAIN E2 <=> y = "battery_current" /\ x \in I
      /\ x \in I => E2[<<"battery_current", x>>] = A[x]
  BY <1>2, EachAt
<1>5. /\ \A y : <<y, x>> \in DOMAIN T0 <=> y = "battery_voltage" /\ x = Site /\ I # {}
      /\ x = Site /\ I # {} => T0[<<"battery_voltage", x>>] = s
  BY TotalAt
<1>6. /\ \A y : <<y, x>> \in DOMAIN T1 <=> y = "battery_power" /\ x = Site /\ I # {}
      /\ x = Site /\ I # {} => T1[<<"battery_power", x>>] = p
  BY TotalAt
<1> HIDE DEF E1, E2, T0, T1
<1>7. <<n, x>> \in DOMAIN BatteryKeys(rs) => n \in BatteryNames
  BY <1>1, <1>3, <1>4, <1>5, <1>6, MergeAt DEF BatteryNames
<1>8. x \in I => /\ <<"battery_current", x>> \in DOMAIN BatteryKeys(rs)
                 /\ BatteryKeys(rs)[<<"battery_current", x>>] = A[x]
  BY <1>1, <1>3, <1>4, MergeAt
<1>9. x = Site => /\ <<"battery_voltage", x>> \in DOMAIN BatteryKeys(rs) <=> I # {}
                  /\ I # {} => BatteryKeys(rs)[<<"battery_voltage", x>>] = s
  BY <1>1, <1>2, <1>3, <1>4, <1>5, <1>6, MergeAt
<1>10. x = Site => /\ <<"battery_power", x>> \in DOMAIN BatteryKeys(rs) <=> I # {}
                   /\ I # {} => BatteryKeys(rs)[<<"battery_power", x>>] = p
  BY <1>1, <1>3, <1>4, <1>5, <1>6, MergeAt
<1> QED
  BY <1>7, <1>8, <1>9, <1>10 DEF Shows, I, V, A, s, p

\* What the state blocks give: the load, and what the site has of inverter 1.
LEMMA StateAt ==
  ASSUME NEW rs, NEW n, NEW x
  PROVE  LET I == Having(rs, "state")
             Mode == OfBlock(rs, "state", "inverter_state_code")
             Bus == OfBlock(rs, "state", "bus_voltage")
         IN  /\ <<n, x>> \in DOMAIN StateKeys(rs) => n \in StateNames
             /\ x \in I => /\ <<"load_power", x>> \in DOMAIN StateKeys(rs)
                           /\ StateKeys(rs)[<<"load_power", x>>] = Loads(rs)[x]
             /\ x = Site => Shows(StateKeys(rs), "load_power", I, SumFunction(Loads(rs)))
             /\ x = Site => Shows(StateKeys(rs), "mode", I \intersect {1}, Mode[1])
             /\ x = Site => Shows(StateKeys(rs), "bus_voltage", I \intersect {1}, Bus[1])
<1> DEFINE I == Having(rs, "state")
           J == I \intersect {1}
           L1 == [i \in I |-> rs[i]["state"]["load_active_phase_a"]]
           L2 == [i \in I |-> OrZero(rs[i], "phase_b", "load_active_phase_b")]
           L == Loads(rs)
           Mode == OfBlock(rs, "state", "inverter_state_code")
           Bus == OfBlock(rs, "state", "bus_voltage")
           all == SumFunction(L)
           E1 == Each("load_power_l1", L1)
           E2 == Each("load_power_l2", L2)
           E3 == Each("load_power", L)
           E4 == Each("device_mode", Mode)
           E5 == Each("bus_voltage", Bus)
           T1 == Total("load_power", I, all)
           T2 == Total("mode", J, Mode[1])
           T3 == Total("bus_voltage", J, Bus[1])
<1>1. StateKeys(rs) = E1 ++ E2 ++ E3 ++ E4 ++ E5 ++ T1 ++ T2 ++ T3
  BY DEF StateKeys, OfBlock
<1>2. /\ DOMAIN L1 = I /\ DOMAIN L2 = I /\ DOMAIN L = I /\ DOMAIN Mode = I /\ DOMAIN Bus = I
      /\ Site \notin I
  BY HavingSome DEF Loads, OfBlock
<1> HIDE DEF I, J, L1, L2, L, Mode, Bus, all
<1>3. /\ \A y : <<y, x>> \in DOMAIN E1 <=> y = "load_power_l1" /\ x \in I
      /\ \A y : <<y, x>> \in DOMAIN E2 <=> y = "load_power_l2" /\ x \in I
      /\ \A y : <<y, x>> \in DOMAIN E4 <=> y = "device_mode" /\ x \in I
      /\ \A y : <<y, x>> \in DOMAIN E5 <=> y = "bus_voltage" /\ x \in I
  <2>1. \A y : <<y, x>> \in DOMAIN E1 <=> y = "load_power_l1" /\ x \in I
    <3>1. \A y : <<y, x>> \in DOMAIN Each("load_power_l1", L1)
                   <=> y = "load_power_l1" /\ x \in DOMAIN L1
      BY EachAt
    <3> QED
      BY <1>2, <3>1
  <2>2. \A y : <<y, x>> \in DOMAIN E2 <=> y = "load_power_l2" /\ x \in I
    BY <1>2, EachAt
  <2>3. \A y : <<y, x>> \in DOMAIN E4 <=> y = "device_mode" /\ x \in I
    BY <1>2, EachAt
  <2>4. \A y : <<y, x>> \in DOMAIN E5 <=> y = "bus_voltage" /\ x \in I
    BY <1>2, EachAt
  <2> QED
    BY <2>1, <2>2, <2>3, <2>4
<1>4. /\ \A y : <<y, x>> \in DOMAIN E3 <=> y = "load_power" /\ x \in I
      /\ x \in I => E3[<<"load_power", x>>] = L[x]
  BY <1>2, EachAt
<1>5. /\ \A y : <<y, x>> \in DOMAIN T1 <=> y = "load_power" /\ x = Site /\ I # {}
      /\ x = Site /\ I # {} => T1[<<"load_power", x>>] = all
  BY TotalAt
<1>6. /\ \A y : <<y, x>> \in DOMAIN T2 <=> y = "mode" /\ x = Site /\ J # {}
      /\ x = Site /\ J # {} => T2[<<"mode", x>>] = Mode[1]
  BY TotalAt
<1>7. /\ \A y : <<y, x>> \in DOMAIN T3 <=> y = "bus_voltage" /\ x = Site /\ J # {}
      /\ x = Site /\ J # {} => T3[<<"bus_voltage", x>>] = Bus[1]
  BY TotalAt
<1> HIDE DEF E1, E2, E3, E4, E5, T1, T2, T3
<1>8. <<n, x>> \in DOMAIN StateKeys(rs) => n \in StateNames
  BY <1>1, <1>3, <1>4, <1>5, <1>6, <1>7, MergeAt DEF StateNames
<1>9. x \in I => /\ <<"load_power", x>> \in DOMAIN StateKeys(rs)
                 /\ StateKeys(rs)[<<"load_power", x>>] = L[x]
  BY <1>1, <1>3, <1>4, MergeAt
<1>10. x = Site => /\ <<"load_power", x>> \in DOMAIN StateKeys(rs) <=> I # {}
                   /\ I # {} => StateKeys(rs)[<<"load_power", x>>] = all
  BY <1>1, <1>2, <1>3, <1>4, <1>5, <1>6, <1>7, MergeAt
<1>11. x = Site => /\ <<"mode", x>> \in DOMAIN StateKeys(rs) <=> J # {}
                   /\ J # {} => StateKeys(rs)[<<"mode", x>>] = Mode[1]
  BY <1>1, <1>2, <1>3, <1>4, <1>5, <1>6, <1>7, MergeAt
<1>12. x = Site => /\ <<"bus_voltage", x>> \in DOMAIN StateKeys(rs) <=> J # {}
                   /\ J # {} => StateKeys(rs)[<<"bus_voltage", x>>] = Bus[1]
  BY <1>1, <1>2, <1>3, <1>4, <1>5, <1>6, <1>7, MergeAt
<1> QED
  BY <1>8, <1>9, <1>10, <1>11, <1>12 DEF Shows, I, J, L, Mode, Bus, all

\* The PV power of one inverter.
Pv(rs) == [i \in Inverters |-> Pv1(rs[i]) + Pv2(rs[i])]

\* What the battery and pv2 blocks give, of the PV power.
LEMMA PvAt ==
  ASSUME NEW rs, NEW n, NEW x
  PROVE  /\ <<n, x>> \in DOMAIN PvKeys(rs) => n \in PvNames
         /\ x = Site => Shows(PvKeys(rs), "pv_power", HavePv(rs), SumFunction(Pv(rs)))
<1> DEFINE P1 == [i \in Inverters |-> Pv1(rs[i])]
           P2 == [i \in Inverters |-> Pv2(rs[i])]
           E1 == Each("pv_power_mppt1", P1)
           E2 == Each("pv_power_mppt2", P2)
           E3 == Each("pv_power", Pv(rs))
           T1 == Total("pv_power", HavePv(rs), SumFunction(Pv(rs)))
<1>1. PvKeys(rs) = E1 ++ E2 ++ E3 ++ T1
  BY DEF PvKeys, Pv
<1>2. /\ DOMAIN P1 = Inverters /\ DOMAIN P2 = Inverters /\ DOMAIN Pv(rs) = Inverters
      /\ Site \notin Inverters
  BY SizesAssumption DEF Pv, Inverters, Site
<1> HIDE DEF P1, P2
<1>3. /\ \A y : <<y, x>> \in DOMAIN E1 <=> y = "pv_power_mppt1" /\ x \in Inverters
      /\ \A y : <<y, x>> \in DOMAIN E2 <=> y = "pv_power_mppt2" /\ x \in Inverters
      /\ \A y : <<y, x>> \in DOMAIN E3 <=> y = "pv_power" /\ x \in Inverters
  BY <1>2, EachAt
<1> DEFINE H == HavePv(rs)
           all == SumFunction(Pv(rs))
<1> HIDE DEF H, all
<1>4. /\ \A y : <<y, x>> \in DOMAIN T1 <=> y = "pv_power" /\ x = Site /\ H # {}
      /\ x = Site /\ H # {} => T1[<<"pv_power", x>>] = all
  BY TotalAt DEF H, all
<1> HIDE DEF E1, E2, E3, T1
<1>5. <<n, x>> \in DOMAIN PvKeys(rs) => n \in PvNames
  BY <1>1, <1>3, <1>4, MergeAt DEF PvNames
<1>6. x = Site => /\ <<"pv_power", x>> \in DOMAIN PvKeys(rs) <=> H # {}
                  /\ H # {} => PvKeys(rs)[<<"pv_power", x>>] = all
  BY <1>1, <1>2, <1>3, <1>4, MergeAt
<1> QED
  BY <1>5, <1>6 DEF Shows, H, all

\* What the cold blocks give.
LEMMA ColdAt ==
  ASSUME NEW rs, NEW n, NEW x
  PROVE  /\ <<n, x>> \in DOMAIN ColdKeys(rs) => n \in ColdNames
         /\ x = Site => Shows(ColdKeys(rs), "pv_energy_today", Having(rs, "daily_stats"),
                  SumFunction(OfBlock(rs, "daily_stats", "pv_energy_today")))
<1> DEFINE I == Having(rs, "daily_stats")
           Day == OfBlock(rs, "daily_stats", "pv_energy_today")
           all == SumFunction(Day)
           F == [i \in Having(rs, "faults") |-> rs[i]["faults"]["fault_bits"]]
           E1 == Each("pv_energy_today", Day)
           T1 == Total("pv_energy_today", I, all)
           E2 == Each("fault_bits", F)
<1>1. ColdKeys(rs) = E1 ++ T1 ++ E2
  BY DEF ColdKeys, OfBlock
<1>2. DOMAIN Day = I /\ Site \notin I
  BY HavingSome DEF OfBlock
<1> HIDE DEF F, I, Day, all
<1>3. \A y : <<y, x>> \in DOMAIN E1 <=> y = "pv_energy_today" /\ x \in I
  BY <1>2, EachAt
<1>4. /\ \A y : <<y, x>> \in DOMAIN T1 <=> y = "pv_energy_today" /\ x = Site /\ I # {}
      /\ x = Site /\ I # {} => T1[<<"pv_energy_today", x>>] = all
  BY TotalAt
<1>5. \A y : <<y, x>> \in DOMAIN E2 => y = "fault_bits"
  BY EachAt
<1> HIDE DEF E1, T1, E2
<1>6. <<n, x>> \in DOMAIN ColdKeys(rs) => n \in ColdNames
  BY <1>1, <1>3, <1>4, <1>5, MergeAt DEF ColdNames
<1>7. x = Site => /\ <<"pv_energy_today", x>> \in DOMAIN ColdKeys(rs) <=> I # {}
                  /\ I # {} => ColdKeys(rs)[<<"pv_energy_today", x>>] = all
  BY <1>1, <1>2, <1>3, <1>4, <1>5, MergeAt
<1> QED
  BY <1>6, <1>7 DEF Shows, I, Day, all

\* Two dictionaries that have the same value of a key, or both none.
SameAt(d, e, k) == (k \in DOMAIN d <=> k \in DOMAIN e) /\ (k \in DOMAIN e => d[k] = e[k])

\* Each name has one source.
LEMMA AggregateAt ==
  ASSUME NEW rs, NEW x
  PROVE  LET out0 == AggregateInverters(rs)
         IN  /\ \A n \in BatteryNames : SameAt(out0, BatteryKeys(rs), <<n, x>>)
             /\ \A n \in StateNames : SameAt(out0, StateKeys(rs), <<n, x>>)
             /\ \A n \in PvNames : SameAt(out0, PvKeys(rs), <<n, x>>)
             /\ \A n \in ColdNames : SameAt(out0, ColdKeys(rs), <<n, x>>)
<1> DEFINE B == BatteryKeys(rs)
           S == StateKeys(rs)
           P == PvKeys(rs)
           C == ColdKeys(rs)
<1>1. AggregateInverters(rs) = B ++ S ++ P ++ C
  BY DEF AggregateInverters
<1>2. \A n : /\ <<n, x>> \in DOMAIN B => n \in BatteryNames
             /\ <<n, x>> \in DOMAIN S => n \in StateNames
             /\ <<n, x>> \in DOMAIN P => n \in PvNames
             /\ <<n, x>> \in DOMAIN C => n \in ColdNames
  BY BatteryAt, StateAt, PvAt, ColdAt
<1>3. \A n : /\ n \in BatteryNames => n \notin StateNames \union PvNames \union ColdNames
             /\ n \in StateNames => n \notin PvNames \union ColdNames
             /\ n \in PvNames => n \notin ColdNames
  BY DEF BatteryNames, StateNames, PvNames, ColdNames
<1> HIDE DEF B, S, P, C
<1>4. \A n \in BatteryNames : SameAt(AggregateInverters(rs), B, <<n, x>>)
  BY <1>1, <1>2, <1>3, MergeAt DEF SameAt
<1>5. \A n \in StateNames : SameAt(AggregateInverters(rs), S, <<n, x>>)
  BY <1>1, <1>2, <1>3, MergeAt DEF SameAt
<1>6. \A n \in PvNames : SameAt(AggregateInverters(rs), P, <<n, x>>)
  BY <1>1, <1>2, <1>3, MergeAt DEF SameAt
<1>7. \A n \in ColdNames : SameAt(AggregateInverters(rs), C, <<n, x>>)
  BY <1>1, <1>2, <1>3, MergeAt DEF SameAt
<1> QED
  BY <1>4, <1>5, <1>6, <1>7 DEF B, S, P, C

(***************************************************************************)
(* Telemetry: from the registers to the readings.                          *)
(***************************************************************************)

\* Two's complement: what the firmware writes is what parse_block reads.
LEMMA DecodeRegister ==
  ASSUME NEW f, NEW x \in Int, Fits(f, x)
  PROVE  Decode(f, Register(f, x)) = x
<1>0. Half \in Nat \ {0}
  BY SizesAssumption
<1> DEFINE v == FirmwareSign(f) * x
<1>1. v \in Int /\ Sign(f) * v = x /\ (f \notin SignedFields => v = x)
  BY DEF Sign, FirmwareSign, SignedFields
<1>2. CASE f \in SignedFields
  <2>1. v \in (-Half)..(Half - 1)
    BY <1>2 DEF Fits
  <2> HIDE DEF v
  <2>2. S16(v % (2 * Half)) = v
    <3>1. CASE v >= 0
      <4>1. v % (2 * Half) = v
        BY <1>0, <2>1, <3>1
      <4> QED
        BY <1>0, <2>1, <4>1 DEF S16
    <3>2. CASE v < 0
      <4>1. v % (2 * Half) = v + 2 * Half
        BY <1>0, <2>1, <3>2
      <4> QED
        BY <1>0, <2>1, <4>1 DEF S16
    <3> QED
      BY <1>1, <3>1, <3>2
  <2> QED
    BY <1>1, <1>2, <2>2 DEF Decode, Register, v
<1>3. CASE f \notin SignedFields
  <2>1. v \in 0..(2 * Half - 1) /\ Sign(f) = 1
    BY <1>1, <1>3 DEF Fits, Sign, FirmwareSign, SignedFields
  <2> HIDE DEF v
  <2>2. v % (2 * Half) = v
    BY <1>0, <2>1
  <2> QED
    BY <1>1, <1>3, <2>1, <2>2 DEF Decode, Register, v
<1> QED
  BY <1>2, <1>3

\* The blocks an inverter may answer with.
Readings == HotReadings \union ColdReadings

\* parse_block gives back the quantities.
LEMMA ParsedIsMeasured ==
  ASSUME NEW r \in Readings
  PROVE  /\ DOMAIN Parsed(r) = DOMAIN r
         /\ \A b \in DOMAIN r : DOMAIN Parsed(r)[b] = Fields[b]
         /\ \A b \in DOMAIN r : \A f \in Fields[b] :
              Parsed(r)[b][f] = r[b][f] /\ r[b][f] \in Int /\ Fits(f, r[b][f])
<1>1. \A b \in DOMAIN r : \A f \in Fields[b] : r[b][f] \in Int /\ Fits(f, r[b][f])
  BY ReadingsAssumption DEF Readings
<1>2. \A b \in DOMAIN r : \A f \in Fields[b] : Decode(f, Register(f, r[b][f])) = r[b][f]
  BY <1>1, DecodeRegister
<1> QED
  BY <1>1, <1>2 DEF Parsed

(***************************************************************************)
(* Telemetry: the invariant.                                               *)
(***************************************************************************)
AllParsed(m) == [i \in Inverters |-> Parsed(m[i])]

\* What is published comes from what was measured in the same cycle.
OfOneCycle ==
  /\ tier \in {"hot", "cold"} => /\ meter \in [Inverters -> Readings]
                                 /\ out = AggregateInverters(AllParsed(meter))
  /\ tier = "hot" => meter \in [Inverters -> HotReadings]
  /\ tier \notin {"hot", "cold"} => out = Nothing

\* What Home Assistant will show of the bank once this cycle's keys have arrived.
View == pending ++ bank

\* It adds up, but for the keys that were lost and are not sent again by this cycle.
ViewAddsUp == (lost \ DOMAIN pending) \intersect FlowKeys = {} => AddsUp(View)

TInv == OfOneCycle /\ ViewAddsUp

LEMMA TelemetryStart == TelemetryInit => TInv
BY DEF TelemetryInit, TInv, OfOneCycle, ViewAddsUp, View, AddsUp, ++, Nothing

\* A cycle of the daemon.
LEMMA CycleStep ==
  ASSUME TInv, RunOneHotCycle \/ RunOneColdCycle
  PROVE  TInv'
<1>1. CASE RunOneHotCycle
  <2>1. PICK answers \in [Inverters -> HotReadings] : Cycle("hot", answers)
    BY <1>1 DEF RunOneHotCycle
  <2>2. /\ tier' = "hot" /\ meter' = answers /\ UNCHANGED <<pending, bank, lost>>
        /\ out' = AggregateInverters(AllParsed(answers))
    BY <2>1 DEF Cycle, AllParsed
  <2>3. answers \in [Inverters -> Readings]
    BY DEF Readings
  <2> QED
    BY <2>2, <2>3 DEF TInv, OfOneCycle, ViewAddsUp, View
<1>2. CASE RunOneColdCycle
  <2>1. PICK answers \in [Inverters -> ColdReadings] : Cycle("cold", answers)
    BY <1>2 DEF RunOneColdCycle
  <2>2. /\ tier' = "cold" /\ meter' = answers /\ UNCHANGED <<pending, bank, lost>>
        /\ out' = AggregateInverters(AllParsed(answers))
    BY <2>1 DEF Cycle, AllParsed
  <2>3. answers \in [Inverters -> Readings]
    BY DEF Readings
  <2> QED
    BY <2>2, <2>3 DEF TInv, OfOneCycle, ViewAddsUp, View
<1> QED
  BY <1>1, <1>2

\* One key.
LEMMA KeyAt == \A name, value : DOMAIN Key(name, value) = {name} /\ Key(name, value)[name] = value
BY DEF Key

\* The fresh packs give all of the current and power keys, and these add up.
LEMMA FreshAddsUp ==
  ASSUME NEW fresh \in SUBSET Packs, NEW pia \in [fresh -> PackReadings], fresh # {}, NEW pib
  PROVE  LET b == AggregateBank(pia, pib) IN FlowKeys \subseteq DOMAIN b /\ AddsUp(b)
<1> DEFINE f == Currents(pia)
           g == Negated(pia)
           v == [p \in DOMAIN pia |-> pia[p].voltage]
           all == SumFunction(f)
           up == SumFunctionOnSet(f, Up(pia))
           down == SumFunctionOnSet(g, Down(pia))
           pw == Power(pia)
<1>1. IsFiniteSet(fresh)
  <2>1. 1 \in Int /\ PackCount \in Int
    BY SizesAssumption
  <2>2. IsFiniteSet(Packs)
    BY <2>1, FS_Interval DEF Packs
  <2> QED
    BY <2>2, FS_Subset
<1>2. DOMAIN pia = fresh /\ \A p \in fresh : pia[p].voltage \in Int /\ pia[p].current \in Int
  BY PackAssumption
<1>3. /\ DOMAIN f = fresh /\ DOMAIN v = fresh
      /\ \A p \in fresh : /\ f[p] \in Int /\ g[p] = -f[p] /\ v[p] \in Int
                          /\ f[p] = pia[p].current
  BY <1>2 DEF Currents, Negated
<1>4. Up(pia) = {p \in fresh : f[p] > 0} /\ Down(pia) = {p \in fresh : f[p] < 0}
  BY <1>2, <1>3 DEF Up, Down
<1> HIDE DEF f, g, v
<1>5. all = up - down
  BY <1>1, <1>3, <1>4, SumSplit DEF SumFunction
<1>6. up \in Nat /\ down \in Nat
  <2>1. IsFiniteSet(Up(pia)) /\ IsFiniteSet(Down(pia))
    BY <1>1, <1>4, FS_Subset
  <2>2. /\ \A p \in Up(pia) : f[p] \in Nat
        /\ \A p \in Down(pia) : g[p] \in Nat
    BY <1>3, <1>4
  <2> QED
    BY <2>1, <2>2, SumNatural
<1>7. pw \in Int
  <2>1. SumFunction(v) \in Int /\ SumFunction(f) \in Int
    BY <1>1, <1>3, SumType DEF SumFunction
  <2>2. pw = SumFunction(v) * SumFunction(f)
    BY DEF Power, v, f
  <2> QED
    BY <2>1, <2>2
<1> DEFINE C == Key("current_total", all)
           K1 == Key("power", pw)
           K2 == Key("power_charging", IF pw > 0 THEN pw ELSE 0)
           K3 == Key("power_discharging", IF pw < 0 THEN -pw ELSE 0)
           K4 == Key("charge_current_total", up)
           K5 == Key("discharge_current_total", down)
           b == AggregateBank(pia, pib)
<1>8. b = (C ++ (K1 ++ K2 ++ K3) ++ (K4 ++ K5)) ++ TempKeys(pib)
  BY <1>2 DEF AggregateBank, PowerKeys, SplitKeys, f, g
<1> HIDE DEF all, up, down, pw, b
<1>9. /\ DOMAIN C = {"current_total"} /\ C["current_total"] = all
      /\ DOMAIN K1 = {"power"} /\ K1["power"] = pw
      /\ DOMAIN K2 = {"power_charging"} /\ K2["power_charging"] = IF pw > 0 THEN pw ELSE 0
      /\ DOMAIN K3 = {"power_discharging"}
      /\ K3["power_discharging"] = IF pw < 0 THEN -pw ELSE 0
      /\ DOMAIN K4 = {"charge_current_total"} /\ K4["charge_current_total"] = up
      /\ DOMAIN K5 = {"discharge_current_total"} /\ K5["discharge_current_total"] = down
  BY KeyAt
<1> HIDE DEF C, K1, K2, K3, K4, K5
<1> DEFINE Has(k, x) == k \in DOMAIN b /\ b[k] = x
<1>10. Has("current_total", all)
  BY <1>8, <1>9, MergeAt
<1>11. Has("power", pw)
  BY <1>8, <1>9, MergeAt
<1>12. Has("power_charging", IF pw > 0 THEN pw ELSE 0)
  BY <1>8, <1>9, MergeAt
<1>13. Has("power_discharging", IF pw < 0 THEN -pw ELSE 0)
  BY <1>8, <1>9, MergeAt
<1>14. Has("charge_current_total", up)
  BY <1>8, <1>9, MergeAt
<1>15. Has("discharge_current_total", down)
  BY <1>8, <1>9, MergeAt
<1> QED
  BY <1>5, <1>6, <1>7, <1>10, <1>11, <1>12, <1>13, <1>14, <1>15 DEF FlowKeys, AddsUp, b

\* Whether a dictionary adds up depends on its keys of the current and power only.
LEMMA AddsUpSame ==
  ASSUME NEW d, NEW e, \A k \in FlowKeys : SameAt(d, e, k), AddsUp(e)
  PROVE  AddsUp(d)
BY DEF SameAt, AddsUp, FlowKeys

\* A cycle of the BMS thread: it sends all of the keys of the current and power, or
\* none of them.
LEMMA BankStep ==
  ASSUME TInv, BankCycle
  PROVE  TInv'
<1>1. PICK fresh \in SUBSET Packs, warm \in SUBSET Packs :
        \E pia \in [fresh -> PackReadings], pib \in [warm -> TempReadings] :
          pending' = AggregateBank(pia, pib)
  BY DEF BankCycle
<1>2. PICK pia \in [fresh -> PackReadings], pib \in [warm -> TempReadings] :
        pending' = AggregateBank(pia, pib)
  BY <1>1
<1>3. DOMAIN pending = {} /\ UNCHANGED <<tier, meter, out, bank, lost>>
  BY DEF BankCycle
<1>4. OfOneCycle'
  BY <1>3 DEF TInv, OfOneCycle
<1> DEFINE b == AggregateBank(pia, pib)
<1>5. View' = b ++ bank
  BY <1>2, <1>3 DEF View
<1>6. CASE fresh # {}
  <2> HIDE DEF b
  <2>1. FlowKeys \subseteq DOMAIN b /\ AddsUp(b)
    BY <1>6, FreshAddsUp DEF b
  <2>2. \A k \in FlowKeys : SameAt(b ++ bank, b, k)
    BY <2>1, MergeAt DEF SameAt
  <2>3. AddsUp(b ++ bank)
    BY <2>1, <2>2, AddsUpSame
  <2> QED
    BY <1>4, <1>5, <2>3 DEF TInv, ViewAddsUp, AddsUp
<1>7. CASE fresh = {}
  <2>1. \A k \in DOMAIN b : k = "max_cell_temp"
    <3>1. DOMAIN pia = {}
      BY <1>7
    <3>2. b = Nothing ++ TempKeys(pib)
      BY <3>1 DEF AggregateBank
    <3>3. \A k \in DOMAIN TempKeys(pib) : k = "max_cell_temp"
      BY DEF TempKeys, Key, Nothing
    <3>4. DOMAIN Nothing = {}
      BY DEF Nothing
    <3> HIDE DEF b
    <3> QED
      BY <3>2, <3>3, <3>4, MergeAt
  <2>2. pending' = b
    BY <1>2
  <2> HIDE DEF b
  <2>3. \A k \in FlowKeys : k \notin DOMAIN b
    BY <2>1 DEF FlowKeys
  <2>4. \A k \in FlowKeys : SameAt(b ++ bank, View, k)
    BY <1>3, <2>3, MergeAt DEF SameAt, View
  <2>5. ASSUME (lost' \ DOMAIN pending') \intersect FlowKeys = {}
        PROVE  AddsUp(b ++ bank)
    <3>1. (lost \ DOMAIN pending) \intersect FlowKeys = {}
      BY <1>3, <2>2, <2>3, <2>5
    <3> QED
      BY <2>4, <3>1, AddsUpSame DEF TInv, ViewAddsUp
  <2> QED
    BY <1>4, <1>5, <2>5 DEF TInv, ViewAddsUp, AddsUp
<1> QED
  BY <1>6, <1>7

\* One key leaves: it arrives, or it counts as lost.
LEMMA PubStep ==
  ASSUME TInv, PubArrives \/ PubLost
  PROVE  TInv'
<1>1. OfOneCycle'
  BY DEF PubArrives, PubLost, TInv, OfOneCycle
<1>2. CASE PubArrives
  <2>1. PICK k \in DOMAIN pending :
          /\ Dequeue(k) /\ bank' = Key(k, pending[k]) ++ bank /\ lost' = lost \ {k}
    BY <1>2 DEF PubArrives
  <2>2. /\ DOMAIN pending' = DOMAIN pending \ {k}
        /\ \A j \in DOMAIN pending' : pending'[j] = pending[j]
    BY <2>1 DEF Dequeue
  <2>3. /\ \A j : j \in DOMAIN bank' <=> j = k \/ j \in DOMAIN bank
        /\ bank'[k] = pending[k]
        /\ \A j \in DOMAIN bank : j # k => bank'[j] = bank[j]
    <3> DEFINE one == Key(k, pending[k])
    <3>1. DOMAIN one = {k} /\ one[k] = pending[k]
      BY KeyAt
    <3>2. bank' = one ++ bank
      BY <2>1
    <3> HIDE DEF one
    <3> QED
      BY <3>1, <3>2, MergeAt
  <2>4. \A j \in FlowKeys : SameAt(pending' ++ bank', pending ++ bank, j)
    BY <2>2, <2>3, MergeAt DEF SameAt
  <2>5. (lost' \ DOMAIN pending') \intersect FlowKeys = (lost \ DOMAIN pending) \intersect FlowKeys
    BY <2>1, <2>2
  <2>6. AddsUp(pending ++ bank) => AddsUp(pending' ++ bank')
    BY <2>4, AddsUpSame
  <2> QED
    BY <1>1, <2>5, <2>6 DEF TInv, ViewAddsUp, View, AddsUp
<1>3. CASE PubLost
  <2>1. PICK k \in DOMAIN pending :
          Dequeue(k) /\ lost' = lost \union {k} /\ bank' = bank
    BY <1>3 DEF PubLost
  <2>2. /\ DOMAIN pending' = DOMAIN pending \ {k}
        /\ \A j \in DOMAIN pending' : pending'[j] = pending[j]
    BY <2>1 DEF Dequeue
  <2>3. ASSUME (lost' \ DOMAIN pending') \intersect FlowKeys = {}
        PROVE  AddsUp(pending' ++ bank')
    <3>1. k \notin FlowKeys /\ (lost \ DOMAIN pending) \intersect FlowKeys = {}
      BY <2>1, <2>2, <2>3
    <3>2. \A j \in FlowKeys : SameAt(pending' ++ bank', pending ++ bank, j)
      BY <2>1, <2>2, <3>1, MergeAt DEF SameAt
    <3> QED
      BY <3>1, <3>2, AddsUpSame DEF TInv, ViewAddsUp, View
  <2> QED
    BY <1>1, <2>3 DEF TInv, ViewAddsUp, View, AddsUp
<1> QED
  BY <1>2, <1>3

LEMMA TelemetryInductive == TInv /\ [TelemetryNext]_telemetryVars => TInv'
<1>1. TInv /\ UNCHANGED telemetryVars => TInv'
  BY DEF telemetryVars, TInv, OfOneCycle, ViewAddsUp, View
<1> QED
  BY <1>1, CycleStep, BankStep, PubStep DEF TelemetryNext

(***************************************************************************)
(* Telemetry: theorem on the bank.                                         *)
(***************************************************************************)

\* BankAddsUp for any bank, any packs missing and any publishes lost: once a cycle has
\* sent its keys and the last message of each of them has arrived, what Home Assistant
\* shows of the bank's current and power adds up, whichever cycle each value is of.
THEOREM BankIsConsistent == TelemetrySpec => []BankAddsUp
<1>1. TInv => BankAddsUp
  <2> SUFFICES ASSUME TInv, DOMAIN pending = {}, lost \intersect FlowKeys = {}
               PROVE  AddsUp(bank)
    BY DEF BankAddsUp
  <2>1. AddsUp(pending ++ bank)
    BY DEF TInv, ViewAddsUp, View
  <2>2. \A k \in FlowKeys : SameAt(bank, pending ++ bank, k)
    BY MergeAt DEF SameAt
  <2> QED
    BY <2>1, <2>2, AddsUpSame
<1> QED
  BY <1>1, TelemetryStart, TelemetryInductive, PTL DEF TelemetrySpec

(***************************************************************************)
(* Telemetry: the sums of the site.                                        *)
(***************************************************************************)

\* There are finitely many inverters, at least one, and the site is none of them.
LEMMA SomeInverters == IsFiniteSet(Inverters) /\ Inverters # {} /\ Site \notin Inverters
<1>1. 1 \in Int /\ N \in Int /\ 1 \in Inverters
  BY SizesAssumption DEF Inverters
<1>2. IsFiniteSet(Inverters)
  BY <1>1, FS_Interval DEF Inverters
<1>3. Site \notin Inverters
  BY <1>1 DEF Inverters, Site
<1> QED
  BY <1>1, <1>2, <1>3

\* SiteAgrees of what aggregate_inverters makes of any answers.
LEMMA AggregateSite ==
  ASSUME meter \in [Inverters -> Readings], out = AggregateInverters(AllParsed(meter))
  PROVE  SiteAgrees
<1> DEFINE rs == AllParsed(meter)
<1>1. /\ \A i \in Inverters : DOMAIN rs[i] = DOMAIN meter[i]
      /\ \A i \in Inverters : \A b \in DOMAIN meter[i] : \A f \in Fields[b] :
           rs[i][b][f] = meter[i][b][f] /\ meter[i][b][f] \in Int /\ Fits(f, meter[i][b][f])
  <2>1. \A i \in Inverters : meter[i] \in Readings /\ rs[i] = Parsed(meter[i])
    BY DEF AllParsed
  <2> QED
    BY <2>1, ParsedIsMeasured
<1>2. out = AggregateInverters(rs)
  OBVIOUS
<1> HIDE DEF rs
<1>3. \A b : {j \in Inverters : b \in DOMAIN meter[j]} = Having(rs, b)
  BY <1>1 DEF Having
<1>4. ASSUME NEW b, NEW f \in Fields[b]
      PROVE  /\ Measured(b, f) = OfBlock(rs, b, f)
             /\ DOMAIN Measured(b, f) = Having(rs, b)
             /\ \A i \in Having(rs, b) : /\ Measured(b, f)[i] = rs[i][b][f]
                                          /\ Measured(b, f)[i] \in Int
                                          /\ Fits(f, Measured(b, f)[i])
  <2>1. \A i \in Having(rs, b) : /\ meter[i][b][f] = rs[i][b][f] /\ meter[i][b][f] \in Int
                                 /\ Fits(f, meter[i][b][f])
    BY <1>1 DEF Having
  <2> QED
    BY <1>3, <2>1 DEF Measured, OfBlock
<1>5. \A b : IsFiniteSet(Having(rs, b)) /\ Having(rs, b) \subseteq Inverters
  BY SomeInverters, FS_Subset DEF Having
<1>6. /\ \A n \in BatteryNames : SameAt(out, BatteryKeys(rs), <<n, Site>>)
      /\ \A n \in StateNames : SameAt(out, StateKeys(rs), <<n, Site>>)
      /\ \A n \in PvNames : SameAt(out, PvKeys(rs), <<n, Site>>)
      /\ \A n \in ColdNames : SameAt(out, ColdKeys(rs), <<n, Site>>)
  BY <1>2, AggregateAt
<1>7. \A d, n, I, v : SameAt(out, d, <<n, Site>>) /\ Shows(d, n, I, v) => SiteShows(n, I, v)
  BY DEF SameAt, Shows, SiteShows
<1> DEFINE V == Measured("battery", "battery_voltage")
           A == Measured("battery", "battery_current")
           L1 == Measured("state", "load_active_phase_a")
           L2 == Measured("phase_b", "load_active_phase_b")
           P1 == Measured("battery", "pv1_power")
           P2 == Measured("pv2", "pv2_power")
           Day == Measured("daily_stats", "pv_energy_today")
           Mode == Measured("state", "inverter_state_code")
           Bus == Measured("state", "bus_voltage")
<1>8. /\ SiteShows("battery_voltage", DOMAIN V, SumFunction(V))
      /\ SiteShows("battery_power", DOMAIN V, SumFunction(V) * SumFunction(A))
  <2> DEFINE I == Having(rs, "battery")
  <2>1. /\ V = OfBlock(rs, "battery", "battery_voltage") /\ DOMAIN V = I
        /\ A = OfBlock(rs, "battery", "battery_current")
    BY <1>4 DEF Fields
  <2>2. /\ Shows(BatteryKeys(rs), "battery_voltage", I, SumFunction(V))
        /\ Shows(BatteryKeys(rs), "battery_power", I, SumFunction(V) * SumFunction(A))
    BY <2>1, BatteryAt
  <2>3. "battery_voltage" \in BatteryNames /\ "battery_power" \in BatteryNames
    BY DEF BatteryNames
  <2> HIDE DEF I, V, A
  <2> QED
    BY <1>6, <1>7, <2>1, <2>2, <2>3
<1>9. /\ SiteShows("mode", DOMAIN Mode \intersect {1}, Mode[1])
      /\ SiteShows("bus_voltage", DOMAIN Bus \intersect {1}, Bus[1])
  <2> DEFINE I == Having(rs, "state")
  <2>1. /\ Mode = OfBlock(rs, "state", "inverter_state_code") /\ DOMAIN Mode = I
        /\ Bus = OfBlock(rs, "state", "bus_voltage") /\ DOMAIN Bus = I
    BY <1>4 DEF Fields
  <2>2. /\ Shows(StateKeys(rs), "mode", I \intersect {1}, Mode[1])
        /\ Shows(StateKeys(rs), "bus_voltage", I \intersect {1}, Bus[1])
    BY <2>1, StateAt
  <2>3. "mode" \in StateNames /\ "bus_voltage" \in StateNames
    BY DEF StateNames
  <2> HIDE DEF I, Mode, Bus
  <2> QED
    BY <1>6, <1>7, <2>1, <2>2, <2>3
<1>10. SiteShows("pv_energy_today", DOMAIN Day, SumFunction(Day))
  <2>1. Day = OfBlock(rs, "daily_stats", "pv_energy_today") /\ DOMAIN Day = Having(rs, "daily_stats")
    BY <1>4 DEF Fields
  <2>2. Shows(ColdKeys(rs), "pv_energy_today", Having(rs, "daily_stats"), SumFunction(Day))
    BY <2>1, ColdAt
  <2>3. "pv_energy_today" \in ColdNames
    BY DEF ColdNames
  <2> HIDE DEF Day
  <2> QED
    BY <1>6, <1>7, <2>1, <2>2, <2>3
<1>11. SiteShows("load_power", DOMAIN L1,
         SumFunction(L1) + SumFunctionOnSet(L2, DOMAIN L1 \intersect DOMAIN L2))
  <2> DEFINE I == Having(rs, "state")
             J == Having(rs, "phase_b")
             B == I \intersect J
  <2>1. /\ DOMAIN L1 = I
        /\ \A i \in I : L1[i] = rs[i]["state"]["load_active_phase_a"] /\ L1[i] \in Int
    BY <1>4 DEF Fields
  <2>2. /\ DOMAIN L2 = J
        /\ \A i \in J : L2[i] = rs[i]["phase_b"]["load_active_phase_b"] /\ L2[i] \in Int
    BY <1>4 DEF Fields
  <2>3. \A i \in I : OrZero(rs[i], "phase_b", "load_active_phase_b")
                       = IF i \in B THEN L2[i] ELSE 0
    BY <1>5, <2>2 DEF OrZero, Having
  <2>4. \A i \in I : Loads(rs)[i] = (IF i \in I THEN L1[i] ELSE 0) + (IF i \in B THEN L2[i] ELSE 0)
    <3> HIDE DEF L1, L2, B
    <3> QED
      BY <2>1, <2>3 DEF Loads
  <2>5. DOMAIN Loads(rs) = I /\ IsFiniteSet(I) /\ B \in SUBSET I /\ I \in SUBSET I
    BY <1>5 DEF Loads
  <2>6. \A i \in B : L2[i] \in Int
    BY <2>2
  <2> HIDE DEF I, J, B, L1, L2
  <2>7. SumFunctionOnSet(Loads(rs), I) = SumFunctionOnSet(L1, I) + SumFunctionOnSet(L2, B)
    BY <2>1, <2>4, <2>5, <2>6, SumTwo
  <2>8. SumFunction(Loads(rs)) = SumFunction(L1) + SumFunctionOnSet(L2, B)
    BY <2>1, <2>5, <2>7 DEF SumFunction
  <2>9. Shows(StateKeys(rs), "load_power", I, SumFunction(Loads(rs)))
    BY StateAt DEF I
  <2>10. "load_power" \in StateNames
    BY DEF StateNames
  <2>11. DOMAIN L1 \intersect DOMAIN L2 = B
    BY <2>1, <2>2 DEF B
  <2> QED
    BY <1>6, <1>7, <2>1, <2>8, <2>9, <2>10, <2>11
<1>12. SiteShows("pv_power", DOMAIN P1 \union DOMAIN P2,
         SumFunction(P1) + SumFunctionOnSet(P2, {i \in DOMAIN P2 : P2[i] >= 0}))
  <2> DEFINE I == Having(rs, "battery")
             J == Having(rs, "pv2")
             B == {i \in DOMAIN P2 : P2[i] >= 0}
  <2>1. /\ DOMAIN P1 = I
        /\ \A i \in I : P1[i] = rs[i]["battery"]["pv1_power"] /\ P1[i] \in Int
    BY <1>4 DEF Fields
  <2>2. /\ DOMAIN P2 = J
        /\ \A i \in J : P2[i] = rs[i]["pv2"]["pv2_power"] /\ P2[i] \in Int
    BY <1>4 DEF Fields
  <2> HIDE DEF P1, P2
  <2>3. \A i \in Inverters : Pv1(rs[i]) = IF i \in I THEN P1[i] ELSE 0
    BY <2>1 DEF Pv1, OrZero, Having
  <2>4. \A i \in Inverters : Pv2(rs[i]) = IF i \in B THEN P2[i] ELSE 0
    <3> TAKE i \in Inverters
    <3>1. OrZero(rs[i], "pv2", "pv2_power") = IF i \in J THEN P2[i] ELSE 0
      BY <2>2 DEF OrZero, Having
    <3> HIDE DEF J
    <3>2. i \in B <=> i \in J /\ P2[i] >= 0
      BY <2>2
    <3> HIDE DEF B
    <3> QED
      BY <2>2, <3>1, <3>2 DEF Pv2
  <2>5. DOMAIN Pv(rs) = Inverters /\ I \in SUBSET Inverters /\ B \in SUBSET Inverters
    BY <1>5, <2>2 DEF Pv
  <2>6. \A i \in B : P2[i] \in Int
    BY <2>2
  <2> HIDE DEF I, J, B
  <2>7. \A i \in Inverters : Pv(rs)[i] = (IF i \in I THEN P1[i] ELSE 0) + (IF i \in B THEN P2[i] ELSE 0)
    BY <2>3, <2>4 DEF Pv
  <2>8. SumFunctionOnSet(Pv(rs), Inverters) = SumFunctionOnSet(P1, I) + SumFunctionOnSet(P2, B)
    BY <2>1, <2>5, <2>6, <2>7, SomeInverters, SumTwo
  <2>9. SumFunction(Pv(rs)) = SumFunction(P1) + SumFunctionOnSet(P2, B)
    BY <2>1, <2>5, <2>8 DEF SumFunction
  <2>10. Shows(PvKeys(rs), "pv_power", DOMAIN P1 \union DOMAIN P2, SumFunction(Pv(rs)))
    BY <2>1, <2>2, PvAt DEF HavePv, I, J
  <2>11. "pv_power" \in PvNames
    BY DEF PvNames
  <2> QED
    BY <1>6, <1>7, <2>9, <2>10, <2>11 DEF B
<1> HIDE DEF V, A, L1, L2, P1, P2, Day, Mode, Bus
<1> QED
  BY <1>8, <1>9, <1>10, <1>11, <1>12 DEF SiteAgrees, V, A, L1, L2, P1, P2, Day, Mode, Bus

(***************************************************************************)
(* Telemetry: what is measured is what is published.                       *)
(***************************************************************************)

\* The sign of a product with a positive factor.
LEMMA SignOfProduct ==
  ASSUME NEW v \in Nat \ {0}, NEW a \in Int
  PROVE  (a > 0 => v * a > 0) /\ (a < 0 => v * a < 0)
OBVIOUS

\* OutIsMeasured of what aggregate_inverters makes of full answers.
LEMMA AggregateMeasured ==
  ASSUME meter \in [Inverters -> HotReadings], out = AggregateInverters(AllParsed(meter)),
         \A i \in Inverters : DOMAIN meter[i] = HotBlocks
  PROVE  OutIsMeasured
<1> DEFINE rs == AllParsed(meter)
           A == [i \in Inverters |-> meter[i]["battery"]["battery_current"]]
           V == [i \in Inverters |-> meter[i]["battery"]["battery_voltage"]]
           L == [i \in Inverters |-> meter[i]["state"]["load_active_phase_a"]
                                     + meter[i]["phase_b"]["load_active_phase_b"]]
<1>1. \A i \in Inverters : meter[i] \in Readings /\ rs[i] = Parsed(meter[i])
  BY DEF Readings, AllParsed
<1>2. /\ \A i \in Inverters : DOMAIN rs[i] = HotBlocks
      /\ \A i \in Inverters : \A b \in HotBlocks : \A f \in Fields[b] :
           rs[i][b][f] = meter[i][b][f] /\ meter[i][b][f] \in Int
  BY <1>1, ParsedIsMeasured
<1>3. \A i \in Inverters :
        /\ rs[i]["battery"]["battery_current"] = A[i] /\ A[i] \in Int
        /\ rs[i]["battery"]["battery_voltage"] = V[i] /\ V[i] \in Int
        /\ rs[i]["state"]["load_active_phase_a"] = meter[i]["state"]["load_active_phase_a"]
        /\ rs[i]["phase_b"]["load_active_phase_b"] = meter[i]["phase_b"]["load_active_phase_b"]
  BY <1>2 DEF HotBlocks, Fields
<1>4. \A i \in Inverters : V[i] \in Nat \ {0}
  <2>1. \A i \in Inverters : meter[i]["battery"]["battery_voltage"] > 0
    BY ReadingsAssumption DEF HotBlocks
  <2> QED
    BY <1>3, <2>1
<1>5. Having(rs, "battery") = Inverters /\ Having(rs, "state") = Inverters
  BY <1>2 DEF Having, HotBlocks
<1>6. Loads(rs) = L
  <2>1. \A i \in Inverters : OrZero(rs[i], "phase_b", "load_active_phase_b")
                               = meter[i]["phase_b"]["load_active_phase_b"]
    BY <1>2, <1>3 DEF OrZero, HotBlocks
  <2> HIDE DEF rs
  <2> QED
    BY <1>3, <1>5, <2>1 DEF Loads
<1>7. /\ [i \in Inverters |-> rs[i]["battery"]["battery_current"]] = A
      /\ [i \in Inverters |-> rs[i]["battery"]["battery_voltage"]] = V
  BY <1>3
<1>8. /\ \A i \in Inverters : out[<<"battery_current", i>>] = A[i]
      /\ out[<<"battery_power", Site>>] = SumFunction(V) * SumFunction(A)
  <2>1. \A x : /\ x \in Inverters => /\ <<"battery_current", x>> \in DOMAIN BatteryKeys(rs)
                                     /\ BatteryKeys(rs)[<<"battery_current", x>>] = A[x]
               /\ x = Site => /\ <<"battery_power", x>> \in DOMAIN BatteryKeys(rs)
                              /\ BatteryKeys(rs)[<<"battery_power", x>>]
                                   = SumFunction(V) * SumFunction(A)
    <3> TAKE x
    <3> DEFINE I == Having(rs, "battery")
               V0 == OfBlock(rs, "battery", "battery_voltage")
               A0 == OfBlock(rs, "battery", "battery_current")
    <3>1. V0 = V /\ A0 = A
      BY <1>5, <1>7 DEF OfBlock
    <3>2. /\ x \in I => /\ <<"battery_current", x>> \in DOMAIN BatteryKeys(rs)
                        /\ BatteryKeys(rs)[<<"battery_current", x>>] = A0[x]
          /\ x = Site /\ I # {} => /\ <<"battery_power", x>> \in DOMAIN BatteryKeys(rs)
                                   /\ BatteryKeys(rs)[<<"battery_power", x>>]
                                        = SumFunction(V0) * SumFunction(A0)
      BY BatteryAt DEF Shows
    <3>3. I # {} /\ I = Inverters
      BY <1>5, SomeInverters
    <3> HIDE DEF I, rs, A, V, V0, A0
    <3> QED
      BY <3>1, <3>2, <3>3
  <2>2. \A x : \A n \in {"battery_current", "battery_power"} :
          <<n, x>> \in DOMAIN BatteryKeys(rs) => out[<<n, x>>] = BatteryKeys(rs)[<<n, x>>]
    <3>1. \A x : \A n \in BatteryNames : SameAt(out, BatteryKeys(rs), <<n, x>>)
      BY AggregateAt
    <3> QED
      BY <3>1 DEF SameAt, BatteryNames
  <2> HIDE DEF A, V, rs
  <2> QED
    BY <2>1, <2>2
<1>9. /\ \A i \in Inverters : out[<<"load_power", i>>] = L[i]
      /\ out[<<"load_power", Site>>] = SumFunction(L)
  <2> HIDE DEF L
  <2>1. \A x : /\ x \in Inverters => /\ <<"load_power", x>> \in DOMAIN StateKeys(rs)
                                     /\ StateKeys(rs)[<<"load_power", x>>] = L[x]
               /\ x = Site => /\ <<"load_power", x>> \in DOMAIN StateKeys(rs)
                              /\ StateKeys(rs)[<<"load_power", x>>] = SumFunction(L)
    <3> HIDE DEF rs
    <3> QED
      BY <1>5, <1>6, SomeInverters, StateAt DEF Shows
  <2>2. \A x : <<"load_power", x>> \in DOMAIN StateKeys(rs) =>
                 out[<<"load_power", x>>] = StateKeys(rs)[<<"load_power", x>>]
    BY AggregateAt DEF SameAt, StateNames
  <2> HIDE DEF rs
  <2> QED
    BY <2>1, <2>2
<1>10. SumFunction(V) \in Nat \ {0} /\ SumFunction(A) \in Int
  <2>1. DOMAIN V = Inverters /\ DOMAIN A = Inverters
    OBVIOUS
  <2> HIDE DEF V, A
  <2> QED
    BY <1>3, <1>4, <2>1, SomeInverters, SumPositive, SumType DEF SumFunction
<1>11. /\ SumFunction(A) > 0 => out[<<"battery_power", Site>>] > 0
       /\ SumFunction(A) < 0 => out[<<"battery_power", Site>>] < 0
  <2> HIDE DEF V, A
  <2> QED
    BY <1>8, <1>10, SignOfProduct
<1> QED
  BY <1>8, <1>9, <1>11 DEF OutIsMeasured

(***************************************************************************)
(* Telemetry: theorems on the inverters.                                   *)
(***************************************************************************)

\* SiteAgrees for any number of inverters and any blocks missing: each value that
\* aggregate_inverters gives for the site is the sum, mean, product or inverter 1's
\* value of what was measured, and is there exactly if it was.
THEOREM SiteIsRight == TelemetrySpec => []SiteAgrees
<1>1. TInv => SiteAgrees
  <2> SUFFICES ASSUME TInv, tier \in {"hot", "cold"} PROVE SiteAgrees
    BY DEF SiteAgrees
  <2> QED
    BY AggregateSite DEF TInv, OfOneCycle
<1> QED
  BY <1>1, TelemetryStart, TelemetryInductive, PTL DEF TelemetrySpec

\* OutIsMeasured for registers of any width and any readings that fit in them: from
\* the register words through parse_block and aggregate_inverters no sign is lost.
THEOREM OutIsTrue == TelemetrySpec => []OutIsMeasured
<1>1. TInv => OutIsMeasured
  BY AggregateMeasured DEF TInv, OfOneCycle, OutIsMeasured
<1> QED
  BY <1>1, TelemetryStart, TelemetryInductive, PTL DEF TelemetrySpec
=============================================================================
