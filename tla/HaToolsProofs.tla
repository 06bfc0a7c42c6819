---------------------------- MODULE HaToolsProofs ----------------------------
(***************************************************************************)
(* The safety of the three Home Assistant tools: the registry tools purge  *)
(* and rename for any registry, plan and changes by others, the discovery  *)
(* cleanup for any topics, payloads, spec and publishes by others.         *)
(***************************************************************************)
EXTENDS HaRegistry, HaDiscovery, SequenceTheorems, FiniteSetTheorems, TLAPS

(***************************************************************************)
(* The registry tools: the inductive invariant.                            *)
(***************************************************************************)
Item == [old : Entities, new : Entities \cup {NoOne}, nth : Nat]

RegTypes ==
  /\ tool \in {"purge", "rename"}
  /\ reg \in [Entities -> Uids \cup {NoOne}] /\ listed \in [Entities -> Uids \cup {NoOne}]
  /\ plan \subseteq Item /\ sent \in Seq(plan)
  /\ inbox \in Seq([id : Nat, item : Item]) /\ outbox \in Seq([id : Nat, ok : BOOLEAN])

\* Nothing is planned before the listing and nothing sent before the user's yes,
\* and no item is sent twice.
Asked ==
  /\ pc \in {"states", "list", "plan"} => plan = {}
  /\ pc \notin {"apply", "exited"} =>
       sent = <<>> /\ inbox = <<>> /\ outbox = <<>> /\ executed = {} /\ refused = {}
  /\ \A j, k \in 1..Len(sent) : sent[j] = sent[k] => j = k

\* A request in the inbox is one that was sent and not yet carried out, once; a
\* reply is about a request that was sent, and a good one about a thing done.
Underway ==
  /\ \A k \in 1..Len(inbox) :
       /\ inbox[k].id \in (1..Len(sent)) \ executed
       /\ inbox[k].item = sent[inbox[k].id]
  /\ \A j, k \in 1..Len(inbox) : inbox[j].id = inbox[k].id => j = k
  /\ executed \subseteq 1..Len(sent)
  /\ \A k \in 1..Len(outbox) : /\ outbox[k].id \in 1..Len(sent)
                               /\ outbox[k].ok => outbox[k].id \in executed

\* Every request but the one that waits has been counted, one way or another.
Answered ==
  /\ waiting => sent # <<>>
  /\ oks \subseteq executed
  /\ pc = "apply" => \A k \in 1..Len(sent) : \/ k \in oks \/ sent[k] \in refused \cup late
                                             \/ waiting /\ k = Len(sent)
  /\ pc = "exited" /\ code = 0 /\ sent # <<>> =>
       executed = 1..Len(sent) /\ plan = Range(sent)

\* What the plan was made of.
Planned ==
  \A i \in plan :
    /\ listed[i.old] # NoOne /\ (i.new # NoOne => listed[i.new] = NoOne)
    /\ tool = "purge" => /\ i.new = NoOne /\ i.old \in InScope
                         /\ net => listed[i.old] \notin Canonical
                         /\ seen[i.old] \notin {"live", "young"}

\* An entity_id that neither others nor an executed item have named is as listed,
\* and purge by itself leaves no entity_id with another owner.
AsListed ==
  /\ \A e \in Entities \ touched :
       (\A k \in executed : e \notin Names(sent[k])) => reg[e] = listed[e]
  /\ tool = "purge" => \A e \in Entities \ touched : reg[e] \in {listed[e], NoOne}

\* Why an item that was valid in the listing may be refused all the same.
Excused(i) ==
  \/ Names(i) \cap touched # {}
  \/ \E j \in plan \ {i} : Names(i) \cap Names(j) # {}

Excuses ==
  /\ \A i \in refused : Excused(i)
  /\ \A k \in 1..Len(outbox) : ~outbox[k].ok => Excused(sent[outbox[k].id])

RInv == RegTypes /\ Asked /\ Underway /\ Answered /\ Planned /\ AsListed /\ Excuses

(***************************************************************************)
(* The registry tools: lemmas.                                             *)
(***************************************************************************)

\* What Append, Head, Tail and the empty sequence are, position by position.
LEMMA AppendAt ==
  ASSUME NEW S, NEW s \in Seq(S), NEW x \in S
  PROVE  /\ Append(s, x) \in Seq(S) /\ Len(s) \in Nat /\ Len(Append(s, x)) = Len(s) + 1
         /\ \A k \in 1..Len(s) : Append(s, x)[k] = s[k] /\ s[k] \in S
         /\ Append(s, x)[Len(s) + 1] = x
BY AppendProperties, LenProperties, ElementOfSeq

LEMMA TailAt ==
  ASSUME NEW S, NEW s \in Seq(S), s # <<>>
  PROVE  /\ Tail(s) \in Seq(S) /\ Len(s) \in Nat \ {0} /\ Len(Tail(s)) = Len(s) - 1
         /\ \A k \in 1..Len(Tail(s)) : Tail(s)[k] = s[k + 1] /\ k + 1 \in 1..Len(s)
         /\ Head(s) = s[1] /\ s[1] \in S /\ 1 \in 1..Len(s)
<1>1. /\ Tail(s) \in Seq(S) /\ Len(Tail(s)) = Len(s) - 1
      /\ \A k \in 1..Len(Tail(s)) : Tail(s)[k] = s[k + 1]
  BY HeadTailProperties
<1>2. Len(s) \in Nat \ {0}
  BY EmptySeq, LenProperties
<1>3. Head(s) = s[1] /\ s[1] \in S
  BY <1>2, ElementOfSeq
<1> QED
  BY <1>1, <1>2, <1>3

LEMMA EmptyAt == Len(<<>>) = 0 /\ \A S : <<>> \in Seq(S)
BY EmptySeq

\* The plan is made of items; entity_ids are entity_ids.
LEMMA AuditItems == AuditF7Renames \subseteq [old : Entities, new : Entities, nth : Nat]
BY EntitiesAssumption DEF AuditF7Renames

LEMMA RequestedItems ==
  \A rs \in RequestedRenames : rs \subseteq [old : Entities, new : Entities, nth : Nat]
<1>1. \A rs \in RequestedRenames : rs \subseteq Rename
  BY DEF RequestedRenames, kSubset
<1>2. Rename \subseteq [old : Entities, new : Entities, nth : Nat]
  BY DEF Rename
<1> QED
  BY <1>1, <1>2

\* The invariant holds at the start.
LEMMA RegAtStart == RegInit => RInv
<1> SUFFICES ASSUME RegInit PROVE RInv
  OBVIOUS
<1>1. PICK r \in [Entities -> Uids \cup {NoOne}] : RegIdle(r)
  BY DEF RegInit
<1>2. RegTypes
  BY <1>1, EmptyAt DEF RegInit, RegIdle, RegTypes
<1>3. Asked /\ Underway /\ Answered
  BY <1>1, EmptyAt DEF RegInit, RegIdle, Asked, Underway, Answered
<1>4. Planned /\ AsListed /\ Excuses
  BY <1>1, EmptyAt DEF RegIdle, Planned, AsListed, Excuses
<1> QED
  BY <1>2, <1>3, <1>4 DEF RInv

\* The frame of the tool's steps up to the user's yes: nothing has been sent.
Prelude ==
  FetchStates \/ FetchFails \/ ListRegistry \/ ListFails \/ PurgePlan \/ RenamePlan
  \/ RenameUnreadable \/ NotApplied \/ Confirmed

\* What a plan made from the listing is.
LEMMA PlanMade ==
  ASSUME RegTypes, PurgePlan \/ RenamePlan
  PROVE  plan' \subseteq Item /\ Planned'
<1>1. CASE PurgePlan
  <2>1. PICK stale \in BOOLEAN, safe \in BOOLEAN :
          /\ plan' = {[old |-> e, new |-> NoOne, nth |-> 1] :
                      e \in SelectCandidates(stale, safe)}
          /\ net' = safe
    BY <1>1 DEF PurgePlan
  <2>2. tool' = tool /\ listed' = listed /\ seen' = seen /\ tool = "purge"
    BY <1>1 DEF PurgePlan
  <2>3. \A e \in SelectCandidates(stale, safe) :
          /\ e \in InScope /\ e \in Entities /\ listed[e] # NoOne
          /\ safe => listed[e] \notin Canonical
          /\ seen[e] \notin {"live", "young"}
    BY EntitiesAssumption DEF SelectCandidates
  <2>4. \A i \in plan' : \E e \in SelectCandidates(stale, safe) :
          i = [old |-> e, new |-> NoOne, nth |-> 1]
    BY <2>1
  <2>5. \A i \in plan' : i.new = NoOne /\ i.old \in SelectCandidates(stale, safe) /\ i \in Item
    BY <2>3, <2>4 DEF Item
  <2> QED
    BY <2>1, <2>2, <2>3, <2>5 DEF Planned
<1>2. CASE RenamePlan
  <2>1. PICK rs \in RequestedRenames \cup {AuditF7Renames} : plan' = {r \in rs : ValidRename(r)}
    BY <1>2 DEF RenamePlan
  <2>2. rs \subseteq [old : Entities, new : Entities, nth : Nat]
    BY <2>1, AuditItems, RequestedItems
  <2>3. tool' = "rename" /\ listed' = listed
    BY <1>2 DEF RenamePlan
  <2>4. plan' \subseteq Item
    BY <2>1, <2>2 DEF Item
  <2>5. \A i \in plan' : listed[i.old] # NoOne /\ listed[i.new] = NoOne
    BY <2>1 DEF ValidRename
  <2> QED
    BY <2>3, <2>4, <2>5 DEF Planned
<1> QED
  BY <1>1, <1>2

\* The steps up to the user's yes.
LEMMA PreludeStep ==
  ASSUME RInv, Prelude
  PROVE  RInv'
<1>1. /\ pc \in {"states", "list", "plan", "ask"}
      /\ UNCHANGED <<tool, reg, sent, inbox, oks, refused, late, executed, touched>>
      /\ outbox' \in {outbox, <<>>} /\ listed' \in {listed, reg}
      /\ waiting' => waiting
      /\ listed' = listed \/ (pc = "list" /\ pc' = "plan" /\ plan' = plan)
      /\ seen' = seen \/ (pc = "states" /\ plan' = plan)
      /\ (plan' = plan /\ net' = net) \/ PurgePlan \/ RenamePlan
      /\ pc' \in {"list", "plan", "ask", "apply", "exited"}
      /\ pc' \in {"list", "plan"} => pc \in {"states", "list"} /\ plan' = plan
  BY DEF Prelude, FetchStates, FetchFails, ListRegistry, ListFails, PurgePlan, RenamePlan,
         RenameUnreadable, NotApplied, Confirmed, Exit, haVars
<1>2. /\ sent = <<>> /\ inbox = <<>> /\ outbox = <<>> /\ executed = {} /\ refused = {}
      /\ RegTypes
  BY <1>1 DEF RInv, Asked
<1>3. plan' \subseteq Item /\ Planned'
  <2>1. CASE PurgePlan \/ RenamePlan
    BY <1>2, <2>1, PlanMade
  <2>2. CASE plan' = plan /\ net' = net
    BY <1>1, <1>2, <2>2 DEF RInv, RegTypes, Asked, Planned
  <2> QED
    BY <1>1, <2>1, <2>2
<1>4. RegTypes'
  BY <1>1, <1>2, <1>3, EmptyAt DEF RegTypes
<1>5. Asked' /\ Underway' /\ Excuses'
  BY <1>1, <1>2, EmptyAt DEF RInv, Asked, Underway, Excuses
<1>6. Answered'
  <2>1. ~waiting' /\ oks' \subseteq executed' /\ sent' = <<>>
    BY <1>1, <1>2 DEF RInv, Answered
  <2>2. 1..Len(sent') = {}
    BY <2>1, EmptyAt
  <2> QED
    BY <2>1, <2>2 DEF Answered
<1>7. AsListed'
  BY <1>1, <1>2 DEF RInv, AsListed
<1> QED
  BY <1>3, <1>4, <1>5, <1>6, <1>7 DEF RInv

\* A request is sent: its id is new, and so is its item.
LEMMA SendStep ==
  ASSUME RInv, SendRequest
  PROVE  RInv'
<1>1. PICK r \in plan \ Range(sent) :
        /\ sent' = Append(sent, r)
        /\ inbox' = Append(inbox, [id |-> Len(sent) + 1, item |-> r])
  BY DEF SendRequest
<1>2. /\ pc = "apply" /\ ~waiting /\ waiting'
      /\ UNCHANGED <<reg, outbox, executed, touched, tool, pc, seen, listed, plan, oks,
                     refused, late, code, net>>
  BY DEF SendRequest
<1>3. /\ sent' \in Seq(plan) /\ Len(sent) \in Nat /\ Len(sent') = Len(sent) + 1
      /\ \A k \in 1..Len(sent) : sent'[k] = sent[k] /\ sent[k] \in plan
      /\ sent'[Len(sent) + 1] = r
  BY <1>1, AppendAt DEF RInv, RegTypes
<1>4. \A k \in 1..Len(sent) : sent[k] # r
  <2>1. DOMAIN sent = 1..Len(sent)
    BY LenProperties DEF RInv, RegTypes
  <2> QED
    BY <1>1, <2>1 DEF Range
<1> DEFINE m == [id |-> Len(sent) + 1, item |-> r]
<1>5. m \in [id : Nat, item : Item] /\ m.id = Len(sent) + 1 /\ m.item = r
  BY <1>3 DEF RInv, RegTypes
<1> HIDE DEF m
<1>6. /\ inbox' \in Seq([id : Nat, item : Item]) /\ Len(inbox) \in Nat
      /\ Len(inbox') = Len(inbox) + 1
      /\ \A k \in 1..Len(inbox) : inbox'[k] = inbox[k]
      /\ inbox'[Len(inbox) + 1] = m
  BY <1>1, <1>5, AppendAt DEF RInv, RegTypes, m
<1>7. RegTypes'
  BY <1>2, <1>3, <1>6 DEF RInv, RegTypes
<1>8. Asked'
  BY <1>2, <1>3, <1>4 DEF RInv, Asked
<1>9. Underway'
  <2>1. /\ executed \subseteq 1..Len(sent) /\ Len(sent) + 1 \notin 1..Len(sent)
        /\ 1..Len(sent') = 1..Len(sent) \cup {Len(sent) + 1}
        /\ 1..Len(inbox') = 1..Len(inbox) \cup {Len(inbox) + 1}
    BY <1>3, <1>6 DEF RInv, Underway
  <2>2. \A k \in 1..Len(inbox) :
          /\ inbox[k].id \in (1..Len(sent)) \ executed
          /\ inbox[k].item = sent[inbox[k].id]
    BY DEF RInv, Underway
  <2>3. \A k \in 1..Len(inbox') :
          /\ inbox'[k].id \in (1..Len(sent')) \ executed
          /\ inbox'[k].item = sent'[inbox'[k].id]
    BY <1>3, <1>5, <1>6, <2>1, <2>2
  <2>4. \A j, k \in 1..Len(inbox') : inbox'[j].id = inbox'[k].id => j = k
    <3>1. \A j, k \in 1..Len(inbox) : inbox[j].id = inbox[k].id => j = k
      BY DEF RInv, Underway
    <3>2. \A k \in 1..Len(inbox) : inbox[k].id # m.id
      BY <1>5, <2>1, <2>2
    <3> QED
      BY <1>6, <2>1, <3>1, <3>2
  <2>5. \A k \in 1..Len(outbox) : /\ outbox[k].id \in 1..Len(sent')
                                  /\ outbox[k].ok => outbox[k].id \in executed
    BY <2>1 DEF RInv, Underway
  <2> QED
    BY <1>2, <2>1, <2>3, <2>4, <2>5 DEF Underway
<1>10. Answered'
  <2>1. sent' # <<>>
    BY <1>3, EmptyAt
  <2>2. oks' \subseteq executed' /\ pc' # "exited"
    BY <1>2 DEF RInv, Answered
  <2>3. \A k \in 1..Len(sent') : k \in oks \/ sent'[k] \in refused \cup late \/ k = Len(sent')
    <3>1. \A k \in 1..Len(sent) : k \in oks \/ sent[k] \in refused \cup late
      BY <1>2 DEF RInv, Answered
    <3>2. 1..Len(sent') = 1..Len(sent) \cup {Len(sent')}
      BY <1>3
    <3> QED
      BY <1>3, <3>1, <3>2
  <2> QED
    BY <1>2, <2>1, <2>2, <2>3 DEF Answered
<1>11. Planned'
  BY <1>2 DEF RInv, Planned
<1>12. AsListed'
  <2>1. \A k \in executed : sent'[k] = sent[k]
    BY <1>3 DEF RInv, Underway
  <2> QED
    BY <1>2, <2>1 DEF RInv, AsListed, Names
<1>13. Excuses'
  <2>1. \A k \in 1..Len(outbox) : sent'[outbox[k].id] = sent[outbox[k].id]
    BY <1>3 DEF RInv, Underway
  <2>2. \A i : Excused(i)' <=> Excused(i)
    BY <1>2 DEF Excused, Names
  <2> QED
    BY <1>2, <2>1, <2>2 DEF RInv, Excuses
<1> QED
  BY <1>7, <1>8, <1>9, <1>10, <1>11, <1>12, <1>13 DEF RInv

\* A reply is read, or the wait for it ends, or the tool ends: what was sent and
\* what Home Assistant did stay, and replies are only taken away.
Reading ==
  /\ UNCHANGED <<tool, reg, seen, listed, plan, sent, inbox, executed, touched, net>>
  /\ \/ outbox' = outbox
     \/ outbox' = <<>>
     \/ outbox # <<>> /\ outbox' = Tail(outbox)

LEMMA ReadingStep ==
  ASSUME RInv, Reading, pc' \in {"apply", "exited"}
  PROVE  RegTypes' /\ Asked' /\ Underway' /\ Planned' /\ AsListed'
<1>0. UNCHANGED <<tool, reg, seen, listed, plan, sent, inbox, executed, touched, net>>
  BY DEF Reading
<1>1. /\ outbox' \in Seq([id : Nat, ok : BOOLEAN])
      /\ \A k \in 1..Len(outbox') : \E j \in 1..Len(outbox) : outbox'[k] = outbox[j]
      /\ outbox = <<>> => outbox' = <<>>
  <2>1. outbox \in Seq([id : Nat, ok : BOOLEAN])
    BY DEF RInv, RegTypes
  <2>2. CASE outbox' = outbox
    BY <2>1, <2>2
  <2>3. CASE outbox' = <<>>
    BY <2>3, EmptyAt
  <2>4. CASE outbox # <<>> /\ outbox' = Tail(outbox)
    BY <2>1, <2>4, TailAt
  <2> QED
    BY <2>2, <2>3, <2>4 DEF Reading
<1>2. RegTypes'
  BY <1>0, <1>1 DEF RInv, RegTypes
<1>3. Asked'
  BY <1>0, <1>1 DEF RInv, Asked
<1>4. Underway'
  BY <1>0, <1>1 DEF RInv, Underway
<1>5. Planned' /\ AsListed'
  BY <1>0 DEF RInv, Planned, AsListed, Names
<1> QED
  BY <1>2, <1>3, <1>4, <1>5

\* Replies taken away need no excuse, and an excuse stays one.
LEMMA ReadingExcuses ==
  ASSUME RInv, Reading, \A i \in refused' : Excused(i)
  PROVE  Excuses'
<1>0. UNCHANGED <<plan, sent, touched>>
  BY DEF Reading
<1>1. \A i : Excused(i)' <=> Excused(i)
  BY <1>0 DEF Excused, Names
<1>2. \A k \in 1..Len(outbox') : \E j \in 1..Len(outbox) : outbox'[k] = outbox[j]
  <2>1. outbox \in Seq([id : Nat, ok : BOOLEAN])
    BY DEF RInv, RegTypes
  <2>2. CASE outbox' = <<>>
    BY <2>2, EmptyAt
  <2>3. CASE outbox # <<>> /\ outbox' = Tail(outbox)
    BY <2>1, <2>3, TailAt
  <2> QED
    BY <2>2, <2>3 DEF Reading
<1> QED
  BY <1>0, <1>1, <1>2 DEF RInv, Excuses

\* A reply is read.
LEMMA ReceiveStep ==
  ASSUME RInv, ReceiveReply
  PROVE  RInv'
<1>0. Reading /\ pc = "apply" /\ pc' = pc /\ waiting /\ UNCHANGED <<late, code>>
  BY DEF ReceiveReply, Reading
<1>1. RegTypes' /\ Asked' /\ Underway' /\ Planned' /\ AsListed'
  BY <1>0, ReadingStep
<1> DEFINE f == outbox[1]
<1>2. /\ 1 \in 1..Len(outbox) /\ Head(outbox) = f /\ f.ok \in BOOLEAN
      /\ f.ok => f.id \in executed
      /\ ~f.ok => Excused(sent[f.id])
  <2>1. outbox \in Seq([id : Nat, ok : BOOLEAN]) /\ outbox # <<>>
    BY DEF RInv, RegTypes, ReceiveReply
  <2>2. 1 \in 1..Len(outbox) /\ Head(outbox) = f /\ f \in [id : Nat, ok : BOOLEAN]
    BY <2>1, TailAt
  <2> QED
    BY <2>2 DEF RInv, Underway, Excuses
<1> HIDE DEF f
<1>3. \/ /\ f.id = Len(sent) /\ f.ok /\ waiting' = FALSE
         /\ oks' = oks \cup {Len(sent)} /\ UNCHANGED refused
      \/ /\ f.id = Len(sent) /\ ~f.ok /\ waiting' = FALSE
         /\ refused' = refused \cup {sent[Len(sent)]} /\ UNCHANGED oks
      \/ UNCHANGED <<waiting, oks, refused>>
  BY <1>2 DEF ReceiveReply, IsReply, Last
<1>4. Excuses'
  BY <1>0, <1>2, <1>3, ReadingExcuses DEF RInv, Excuses
<1>5. Answered'
  <2>1. UNCHANGED <<sent, executed, plan>>
    BY <1>0 DEF Reading
  <2> QED
    BY <1>0, <1>2, <1>3, <2>1 DEF RInv, Answered
<1> QED
  BY <1>1, <1>4, <1>5 DEF RInv

\* The wait for a reply ends without it.
LEMMA TimeoutStep ==
  ASSUME RInv, RequestTimesOut
  PROVE  RInv'
<1>0. /\ Reading /\ pc = "apply" /\ waiting' = FALSE /\ late' = late \cup {sent[Len(sent)]}
      /\ UNCHANGED <<pc, oks, refused, code>>
  BY DEF RequestTimesOut, Reading, haVars, Last
<1>1. RegTypes' /\ Asked' /\ Underway' /\ Planned' /\ AsListed'
  BY <1>0, ReadingStep
<1>2. Excuses'
  BY <1>0, ReadingExcuses DEF RInv, Excuses
<1>3. Answered'
  <2>1. UNCHANGED <<sent, executed, plan>>
    BY <1>0 DEF Reading
  <2> QED
    BY <1>0, <2>1 DEF RInv, Answered
<1> QED
  BY <1>1, <1>2, <1>3 DEF RInv

\* The tool ends, with all done or before.
LEMMA ExitStep ==
  ASSUME RInv, ApplyEnds \/ ToolDies
  PROVE  RInv'
<1>0. /\ Reading /\ pc' = "exited" /\ waiting' = FALSE /\ UNCHANGED <<oks, refused, late>>
      /\ pc \in {"list", "plan", "ask", "apply"}
  BY DEF ApplyEnds, ToolDies, Exit, Reading
<1>1. RegTypes' /\ Asked' /\ Underway' /\ Planned' /\ AsListed'
  BY <1>0, ReadingStep
<1>2. Excuses'
  BY <1>0, ReadingExcuses DEF RInv, Excuses
<1>3. Answered'
  <2>1. UNCHANGED <<sent, executed, plan>>
    BY <1>0 DEF Reading
  <2>2. code' = 0 => executed = 1..Len(sent) /\ plan = Range(sent)
    <3>1. CASE ToolDies
      BY <3>1 DEF ToolDies, Exit
    <3>2. CASE ApplyEnds
      <4>1. /\ pc = "apply" /\ ~waiting /\ plan = Range(sent)
            /\ code' = 0 => refused \cup late = {}
        BY <3>2 DEF ApplyEnds, Exit
      <4>2. refused \cup late = {} => 1..Len(sent) \subseteq oks
        BY <4>1 DEF RInv, Answered
      <4> QED
        BY <4>1, <4>2 DEF RInv, Answered, Underway
    <3> QED
      BY <3>1, <3>2
  <2> QED
    BY <1>0, <2>1, <2>2 DEF RInv, Answered
<1> QED
  BY <1>1, <1>2, <1>3 DEF RInv

\* What carrying out an item leaves alone, and what a removal does.
LEMMA ExecuteFacts ==
  ASSUME RegTypes, NEW i \in Item
  PROVE  /\ Execute(i) \in [Entities -> Uids \cup {NoOne}]
         /\ \A e \in Entities \ Names(i) : Execute(i)[e] = reg[e]
         /\ i.new = NoOne => \A e \in Entities : Execute(i)[e] \in {reg[e], NoOne}
<1>1. i.old \in Entities /\ i.new \in Entities \cup {NoOne}
  BY DEF Item
<1>2. \A e \in Entities :
        /\ e = i.old => Execute(i)[e] = NoOne
        /\ e # i.old /\ e = i.new => Execute(i)[e] = reg[i.old]
        /\ e # i.old /\ e # i.new => Execute(i)[e] = reg[e]
  BY DEF Execute
<1>3. Execute(i) \in [Entities -> Uids \cup {NoOne}]
  <2>1. \A e \in Entities : Execute(i)[e] \in Uids \cup {NoOne}
    BY <1>1, <1>2 DEF RegTypes
  <2>2. Execute(i) = [e \in Entities |-> Execute(i)[e]]
    BY DEF Execute
  <2> QED
    BY <2>1, <2>2
<1>4. \A e \in Entities : e # NoOne
  BY NoOneAssumption
<1> QED
  BY <1>2, <1>3, <1>4 DEF Names

\* A request that is refused has an excuse: otherwise its entity_ids are as they
\* were listed, and the plan was valid then.
LEMMA RefusedIsExcused ==
  ASSUME RInv, NEW k \in 1..Len(sent), k \notin executed, ~Executable(sent[k])
  PROVE  Excused(sent[k])
<1> SUFFICES ASSUME ~Excused(sent[k]) PROVE FALSE
  OBVIOUS
<1> DEFINE i == sent[k]
<1>1. i \in plan /\ i \in Item
  BY ElementOfSeq DEF RInv, RegTypes
<1>2. \A n \in executed : Names(i) \cap Names(sent[n]) = {}
  <2>1. ASSUME NEW n \in executed PROVE sent[n] \in plan \ {i}
    <3>1. n \in 1..Len(sent)
      BY DEF RInv, Underway
    <3>2. sent[n] \in plan
      BY <3>1, ElementOfSeq DEF RInv, RegTypes
    <3> QED
      BY <3>1, <3>2 DEF RInv, Asked
  <2> QED
    BY <2>1 DEF Excused
<1> HIDE DEF i
<1>3. \A e \in Names(i) : e \in Entities \ touched /\ reg[e] = listed[e]
  <2>1. \A e \in Names(i) : e \in Entities
    BY <1>1 DEF Names, Item
  <2>2. \A e \in Names(i) : e \notin touched
    BY DEF Excused, i
  <2>3. \A e \in Names(i), n \in executed : e \notin Names(sent[n])
    BY <1>2
  <2> QED
    BY <2>1, <2>2, <2>3 DEF RInv, AsListed
<1>4. i.old \in Names(i) /\ (i.new # NoOne => i.new \in Names(i))
  BY <1>1, NoOneAssumption DEF Item, Names
<1>5. listed[i.old] # NoOne /\ (i.new # NoOne => listed[i.new] = NoOne)
  BY <1>1 DEF RInv, Planned
<1>6. Executable(i)
  BY <1>3, <1>4, <1>5 DEF Executable
<1> QED
  BY <1>6 DEF i

\* Home Assistant handles the request at the head of its inbox.
LEMMA HandleStep ==
  ASSUME RInv, HandleRequest
  PROVE  RInv'
<1> DEFINE r == inbox[1]
           ok == Executable(r.item)
<1>1. /\ inbox \in Seq([id : Nat, item : Item]) /\ inbox # <<>>
      /\ outbox \in Seq([id : Nat, ok : BOOLEAN]) /\ inbox' = Tail(inbox)
  BY DEF RInv, RegTypes, HandleRequest
<1>2. /\ Head(inbox) = r /\ r \in [id : Nat, item : Item] /\ 1 \in 1..Len(inbox)
      /\ inbox' \in Seq([id : Nat, item : Item])
      /\ \A k \in 1..Len(inbox') : /\ inbox'[k] = inbox[k + 1] /\ k + 1 \in 1..Len(inbox)
                                   /\ k \in Nat \ {0} /\ k + 1 # 1
  <2>1. /\ Head(inbox) = inbox[1] /\ inbox[1] \in [id : Nat, item : Item] /\ 1 \in 1..Len(inbox)
        /\ inbox' \in Seq([id : Nat, item : Item])
        /\ \A k \in 1..Len(inbox') : inbox'[k] = inbox[k + 1] /\ k + 1 \in 1..Len(inbox)
    BY <1>1, TailAt
  <2>2. \A k \in 1..Len(inbox') : k \in Nat \ {0} /\ k + 1 # 1
    BY <2>1, LenProperties
  <2> QED
    BY <2>1, <2>2
<1>3. /\ r.id \in (1..Len(sent)) \ executed /\ r.item = sent[r.id] /\ r.item \in Item
  BY <1>2 DEF RInv, Underway
<1>4. /\ reg' = IF ok THEN Execute(r.item) ELSE reg
      /\ executed' = IF ok THEN executed \cup {r.id} ELSE executed
      /\ outbox' = IF pc = "exited" THEN outbox ELSE Append(outbox, [id |-> r.id, ok |-> ok])
      /\ UNCHANGED <<tool, pc, seen, listed, plan, sent, waiting, oks, refused, late, code,
                     net, touched>>
  BY <1>2 DEF HandleRequest, toolVars
<1>5. ok \in BOOLEAN
  BY DEF Executable
<1> HIDE DEF r, ok
<1>6. /\ outbox' \in Seq([id : Nat, ok : BOOLEAN])
      /\ \A k \in 1..Len(outbox') :
           \/ k \in 1..Len(outbox) /\ outbox'[k] = outbox[k]
           \/ outbox'[k].id = r.id /\ outbox'[k].ok = ok
  <2>1. CASE pc = "exited"
    BY <1>1, <1>4, <2>1
  <2>2. CASE pc # "exited"
    <3> DEFINE a == [id |-> r.id, ok |-> ok]
    <3>1. a \in [id : Nat, ok : BOOLEAN] /\ a.id = r.id /\ a.ok = ok
      BY <1>2, <1>5
    <3>2. outbox' = Append(outbox, a)
      BY <1>4, <2>2
    <3> HIDE DEF a
    <3>3. /\ outbox' \in Seq([id : Nat, ok : BOOLEAN]) /\ Len(outbox) \in Nat
          /\ Len(outbox') = Len(outbox) + 1 /\ outbox'[Len(outbox) + 1] = a
          /\ \A k \in 1..Len(outbox) : outbox'[k] = outbox[k]
      BY <1>1, <3>1, <3>2, AppendAt
    <3> QED
      BY <3>1, <3>3
  <2> QED
    BY <2>1, <2>2
<1>7. /\ executed \subseteq executed' /\ executed' \subseteq executed \cup {r.id}
      /\ ok => r.id \in executed'
  BY <1>4, <1>5
<1>8. pc \in {"apply", "exited"}
  BY <1>1 DEF RInv, Asked
<1>9. RegTypes'
  <2>1. reg' \in [Entities -> Uids \cup {NoOne}]
    BY <1>3, <1>4, ExecuteFacts DEF RInv, RegTypes
  <2> QED
    BY <1>2, <1>4, <1>6, <2>1 DEF RInv, RegTypes
<1>10. Asked'
  BY <1>4, <1>8 DEF RInv, Asked
<1>11. Underway'
  <2>1. \A k \in 1..Len(inbox') :
          /\ inbox'[k].id \in (1..Len(sent)) \ executed'
          /\ inbox'[k].item = sent[inbox'[k].id]
    <3>1. \A k \in 1..Len(inbox) : k # 1 => inbox[k].id # r.id
      BY <1>2 DEF RInv, Underway, r
    <3>2. \A k \in 1..Len(inbox) : /\ inbox[k].id \in (1..Len(sent)) \ executed
                                   /\ inbox[k].item = sent[inbox[k].id]
      BY DEF RInv, Underway
    <3> QED
      BY <1>2, <1>7, <3>1, <3>2
  <2>2. \A j, k \in 1..Len(inbox') : inbox'[j].id = inbox'[k].id => j = k
    <3>1. \A j, k \in 1..Len(inbox) : inbox[j].id = inbox[k].id => j = k
      BY DEF RInv, Underway
    <3>2. ASSUME NEW j \in 1..Len(inbox'), NEW k \in 1..Len(inbox'), inbox'[j].id = inbox'[k].id
          PROVE  j = k
      <4>1. j + 1 = k + 1
        BY <1>2, <3>1, <3>2
      <4> QED
        BY <1>2, <4>1
    <3> QED
      BY <3>2
  <2>3. executed' \subseteq 1..Len(sent)
    BY <1>3, <1>7 DEF RInv, Underway
  <2>4. \A k \in 1..Len(outbox') : /\ outbox'[k].id \in 1..Len(sent)
                                   /\ outbox'[k].ok => outbox'[k].id \in executed'
    <3>1. \A k \in 1..Len(outbox) : /\ outbox[k].id \in 1..Len(sent)
                                    /\ outbox[k].ok => outbox[k].id \in executed
      BY DEF RInv, Underway
    <3> QED
      BY <1>3, <1>6, <1>7, <3>1
  <2> QED
    BY <1>4, <2>1, <2>2, <2>3, <2>4 DEF Underway
<1>12. Answered'
  <2>1. executed = 1..Len(sent) => executed' = executed
    BY <1>3, <1>7
  <2> QED
    BY <1>4, <1>7, <2>1 DEF RInv, Answered
<1>13. Planned'
  BY <1>4 DEF RInv, Planned
<1>14. AsListed'
  <2>1. CASE ~ok
    BY <1>4, <2>1 DEF RInv, AsListed, Names
  <2>2. CASE ok
    <3>1. reg' = Execute(r.item) /\ executed' = executed \cup {r.id}
      BY <1>4, <2>2
    <3>2. \A e \in Entities \ Names(r.item) : reg'[e] = reg[e]
      BY <1>3, <3>1, ExecuteFacts DEF RInv
    <3>3. ASSUME NEW e \in Entities \ touched,
                 \A k \in executed' : e \notin Names(sent[k])
          PROVE  reg'[e] = listed[e]
      <4>1. e \notin Names(r.item)
        BY <1>3, <3>1, <3>3
      <4>2. reg[e] = listed[e]
        BY <1>7, <3>3 DEF RInv, AsListed
      <4> QED
        BY <3>2, <4>1, <4>2
    <3>4. tool = "purge" => \A e \in Entities \ touched : reg'[e] \in {listed[e], NoOne}
      <4>1. tool = "purge" => r.item.new = NoOne
        <5>1. r.item \in plan
          BY <1>3, ElementOfSeq DEF RInv, RegTypes
        <5> QED
          BY <5>1 DEF RInv, Planned
      <4>2. tool = "purge" => \A e \in Entities : reg'[e] \in {reg[e], NoOne}
        BY <1>3, <3>1, <4>1, ExecuteFacts DEF RInv
      <4> QED
        BY <4>2 DEF RInv, AsListed
    <3>5. UNCHANGED <<tool, touched, listed, sent>>
      BY <1>4
    <3> QED
      BY <3>3, <3>4, <3>5 DEF AsListed, Names
  <2> QED
    BY <2>1, <2>2
<1>15. Excuses'
  <2>1. \A i : Excused(i)' <=> Excused(i)
    BY <1>4 DEF Excused, Names
  <2>2. ~ok => Excused(sent[r.id])
    BY <1>3, RefusedIsExcused DEF ok
  <2>3. \A k \in 1..Len(outbox') : ~outbox'[k].ok => Excused(sent[outbox'[k].id])
    BY <1>6, <2>2 DEF RInv, Excuses
  <2> QED
    BY <1>4, <2>1, <2>3 DEF RInv, Excuses
<1> QED
  BY <1>9, <1>10, <1>11, <1>12, <1>13, <1>14, <1>15 DEF RInv

\* The connection is gone with its requests.
LEMMA DroppedStep ==
  ASSUME RInv, RequestsDropped
  PROVE  RInv'
<1>1. /\ inbox' = <<>> /\ pc = "exited"
      /\ UNCHANGED <<reg, outbox, executed, touched, tool, pc, seen, listed, plan, sent, waiting,
                     oks, refused, late, code, net>>
  BY DEF RequestsDropped, toolVars
<1>2. RegTypes' /\ Asked' /\ Underway' /\ Answered'
  BY <1>1, EmptyAt DEF RInv, RegTypes, Asked, Underway, Answered
<1>3. Planned' /\ AsListed'
  BY <1>1 DEF RInv, Planned, AsListed, Names
<1>4. \A i : Excused(i)' <=> Excused(i)
  BY <1>1 DEF Excused, Names
<1> QED
  BY <1>1, <1>2, <1>3, <1>4 DEF RInv, Excuses

\* Others change one entity_id: it counts as touched from then on.
LEMMA OthersStep ==
  ASSUME RInv, OthersChange
  PROVE  RInv'
<1>1. PICK e \in Entities, u \in Uids \cup {NoOne} :
        reg' = [reg EXCEPT ![e] = u] /\ touched' = touched \cup {e}
  BY DEF OthersChange
<1>2. UNCHANGED <<inbox, outbox, executed, tool, pc, seen, listed, plan, sent, waiting,
                  oks, refused, late, code, net>>
  BY DEF OthersChange, toolVars
<1>3. RegTypes'
  BY <1>1, <1>2 DEF RInv, RegTypes
<1>4. Asked' /\ Underway' /\ Answered' /\ Planned'
  BY <1>2 DEF RInv, Asked, Underway, Answered, Planned
<1>5. AsListed'
  <2>1. \A f \in Entities \ touched' : f \in Entities \ touched /\ reg'[f] = reg[f]
    BY <1>1 DEF RInv, RegTypes
  <2> QED
    BY <1>2, <2>1 DEF RInv, AsListed, Names
<1>6. \A i : Excused(i) => Excused(i)'
  BY <1>1, <1>2 DEF Excused, Names
<1> QED
  BY <1>2, <1>3, <1>4, <1>5, <1>6 DEF RInv, Excuses

\* Every step keeps the invariant.
LEMMA RegInductive == RInv /\ [RegNext]_regVars => RInv'
<1> SUFFICES ASSUME RInv, [RegNext]_regVars PROVE RInv'
  OBVIOUS
<1>1. CASE UNCHANGED regVars
  <2>1. UNCHANGED <<reg, inbox, outbox, executed, touched, tool, pc, seen, listed, plan, sent,
                    waiting, oks, refused, late, code, net>>
    BY <1>1 DEF regVars, haVars, toolVars
  <2>2. RegTypes' /\ Asked' /\ Underway' /\ Answered'
    BY <2>1 DEF RInv, RegTypes, Asked, Underway, Answered
  <2>3. Planned' /\ AsListed'
    BY <2>1 DEF RInv, Planned, AsListed, Names
  <2>4. \A i : Excused(i)' <=> Excused(i)
    BY <2>1 DEF Excused, Names
  <2> QED
    BY <2>1, <2>2, <2>3, <2>4 DEF RInv, Excuses
<1>2. CASE RegNext
  BY <1>2, PreludeStep, SendStep, ReceiveStep, TimeoutStep, ExitStep, HandleStep, DroppedStep,
     OthersStep
  DEF RegNext, Prelude
<1> QED
  BY <1>1, <1>2

(***************************************************************************)
(* The registry tools: theorems.                                           *)
(***************************************************************************)

\* What purge and rename report as done was done, and exit code 0 after an apply
\* means that all of the plan was, for any plan and any delay of the replies.
THEOREM ReportIsTrue == RegSpec => []ReportTrue
<1>1. RInv => ReportTrue
  <2> SUFFICES ASSUME RInv PROVE ReportTrue
    OBVIOUS
  <2>1. oks \subseteq executed
    BY DEF RInv, Answered
  <2>2. ASSUME pc = "exited", code = 0, sent # <<>>
        PROVE  executed = 1..Cardinality(plan)
    <3>1. executed = 1..Len(sent) /\ plan = Range(sent)
      BY <2>2 DEF RInv, Answered
    <3>2. sent \in [1..Len(sent) -> plan] /\ Len(sent) \in Nat
      BY LenProperties DEF RInv, RegTypes
    <3>3. \A i \in plan : \E k \in 1..Len(sent) : sent[k] = i
      BY <3>1, <3>2 DEF Range
    <3>4. \A j, k \in 1..Len(sent) : sent[j] = sent[k] => j = k
      BY DEF RInv, Asked
    <3>5. sent \in Bijection(1..Len(sent), plan)
      <4>1. sent \in Injection(1..Len(sent), plan)
        BY <3>2, <3>4 DEF Injection, IsInjective
      <4>2. sent \in Surjection(1..Len(sent), plan)
        BY <3>2, <3>3 DEF Surjection
      <4> QED
        BY <4>1, <4>2 DEF Bijection
    <3>6. ExistsBijection(1..Len(sent), plan)
      BY <3>5 DEF ExistsBijection
    <3>7. IsFiniteSet(1..Len(sent)) /\ Cardinality(1..Len(sent)) = Len(sent)
      <4>1. 1 \in Int /\ Len(sent) \in Int
        BY <3>2
      <4>2. /\ IsFiniteSet(1..Len(sent))
            /\ Cardinality(1..Len(sent)) = IF 1 > Len(sent) THEN 0 ELSE Len(sent) - 1 + 1
        BY <4>1, FS_Interval
      <4> QED
        BY <3>2, <4>2
    <3>8. Cardinality(plan) = Len(sent)
      BY <3>6, <3>7, FS_Bijection
    <3> QED
      BY <3>1, <3>8
  <2> QED
    BY <2>1, <2>2 DEF ReportTrue
<1> QED
  BY <1>1, RegAtStart, RegInductive, PTL DEF RegSpec

\* An item the plan shows as ok is refused only when others or another item of the
\* plan changed one of its entity_ids.
THEOREM PlanIsGood == RegSpec => []PlanHolds
<1>1. RInv => PlanHolds
  BY DEF RInv, Excuses, Excused, PlanHolds
<1> QED
  BY <1>1, RegAtStart, RegInductive, PTL DEF RegSpec

\* What purge removes was in scope, not canonical and not in use when it looked,
\* unless the entity_id has changed hands since.
THEOREM PurgeIsSound == RegSpec => PurgeSound
<1>1. ASSUME RInv, [RegNext]_regVars, NEW e \in Entities, tool = "purge", inbox' # inbox,
             reg[e] # NoOne, reg'[e] = NoOne, e \notin touched
      PROVE  e \in InScope /\ (net => reg[e] \notin Canonical) /\ seen[e] \notin {"live", "young"}
  <2>1. CASE HandleRequest
    <3> DEFINE i == Head(inbox).item
    <3>1. reg' # reg /\ reg' = IF Executable(i) THEN Execute(i) ELSE reg
      BY <1>1, <2>1 DEF HandleRequest
    <3>2. i \in plan /\ i \in Item
      <4>1. /\ inbox \in Seq([id : Nat, item : Item]) /\ inbox # <<>>
            /\ sent \in Seq(plan) /\ plan \subseteq Item
        BY <1>1, <2>1 DEF HandleRequest, RInv, RegTypes
      <4>2. Head(inbox) = inbox[1] /\ 1 \in 1..Len(inbox)
        BY <4>1, TailAt
      <4>3. i = sent[inbox[1].id] /\ inbox[1].id \in 1..Len(sent)
        BY <1>1, <4>2 DEF RInv, Underway
      <4> QED
        BY <4>1, <4>3, ElementOfSeq
    <3> HIDE DEF i
    <3>3. i.new = NoOne /\ reg' = Execute(i)
      BY <1>1, <3>1, <3>2 DEF RInv, Planned
    <3>4. e \in Names(i)
      BY <1>1, <3>2, <3>3, ExecuteFacts DEF RInv
    <3>5. e = i.old
      BY <3>3, <3>4 DEF Names
    <3>6. reg[e] = listed[e]
      BY <1>1 DEF RInv, AsListed
    <3> QED
      BY <1>1, <3>2, <3>5, <3>6 DEF RInv, Planned
  <2>2. CASE ~HandleRequest
    <3>1. UNCHANGED reg \/ UNCHANGED inbox
      BY <1>1, <2>2
      DEF RegNext, regVars, haVars, FetchStates, FetchFails, ListRegistry, ListFails, PurgePlan,
          RenamePlan, RenameUnreadable, NotApplied, Confirmed, SendRequest, ReceiveReply,
          RequestTimesOut, ApplyEnds, ToolDies, RequestsDropped, OthersChange
    <3> QED
      BY <1>1, <3>1
  <2> QED
    BY <2>1, <2>2
<1>2. RInv /\ [RegNext]_regVars =>
        [\A e \in Entities :
           tool = "purge" /\ inbox' # inbox /\ reg[e] # NoOne /\ reg'[e] = NoOne
             => \/ e \in touched
                \/ e \in InScope /\ (net => reg[e] \notin Canonical)
                   /\ seen[e] \notin {"live", "young"}]_regVars
  BY <1>1
<1> QED
  BY <1>2, RegAtStart, RegInductive, PTL DEF RegSpec, PurgeSound

(***************************************************************************)
(* The discovery cleanup: the inductive invariant.                         *)
(***************************************************************************)

\* What was captured is still there, or cleared, unless others wrote since.
Current ==
  \A t \in Topics : captured[t] # NoPayload /\ t \notin rewritten
                      => ret[t] \in {captured[t], NoPayload}

\* The goal is chosen from what was captured, once, and only it is published.
Chosen ==
  /\ dpc \in {"start", "capture"} => goal = {}
  /\ \A t \in goal : captured[t] # NoPayload /\ captured[t].uid \notin KnownOn(t)
  /\ \A t \in Topics : pub[t] # "none" => t \in goal

\* Exit code 0 is given when nothing is left to acknowledge.
Told == dpc = "exited" /\ exit = 0 => \A t \in goal : pub[t] = "acked"

Shape == DOMAIN ret = Topics /\ DOMAIN pub = Topics /\ goal \subseteq Topics

DInv == Shape /\ Current /\ Chosen /\ Told

(***************************************************************************)
(* The discovery cleanup: lemmas.                                          *)
(***************************************************************************)

\* An orphan was captured, and the spec does not know it.
LEMMA OrphanFacts ==
  ASSUME NEW sa \in BOOLEAN, NEW t \in TopicsToClean(sa)
  PROVE  t \in Topics /\ captured[t] # NoPayload /\ captured[t].uid \notin KnownOn(t)
<1>1. t \in Topics /\ Categorize(t) \in {"ORPHAN_V1", "ORPHAN_COLLISION", "SA_STATIC"}
  BY DEF TopicsToClean
<1> QED
  BY <1>1 DEF Categorize

\* The invariant holds at the start.
LEMMA AtStart == DiscInit => DInv
BY DEF DiscInit, DiscIdle, Nothing, Silent, DInv, Shape, Current, Chosen, Told

\* From the spec to the publishes.
LEMMA ToolStep ==
  ASSUME DInv, LoadSpec \/ CaptureRetained \/ CaptureEnds \/ PublishEmpties \/ ClearEnds
  PROVE  DInv'
<1> USE DEF DInv
<1>1. CASE LoadSpec
  BY <1>1 DEF LoadSpec, Leave, Shape, Current, Chosen, Told, KnownOn
<1>2. CASE CaptureRetained
  <2>1. PICK ts \in SUBSET {t \in Topics : ret[t] # NoPayload} :
          /\ captured' = [t \in Topics |-> IF t \in ts THEN ret[t] ELSE captured[t]]
          /\ rewritten' = rewritten \ ts
    BY <1>2 DEF CaptureRetained
  <2>2. dpc = "capture" /\ UNCHANGED <<ret, dpc, known, goal, pub, exit, writes>>
    BY <1>2 DEF CaptureRetained
  <2>3. Current'
    BY <2>1, <2>2 DEF Current
  <2>4. Shape' /\ Chosen' /\ Told'
    BY <2>2 DEF Shape, Chosen, Told
  <2> QED
    BY <2>3, <2>4
<1>3. CASE CaptureEnds
  <2>1. /\ dpc = "capture" /\ UNCHANGED <<ret, known, captured, pub, rewritten, writes>>
        /\ dpc' \notin {"start", "capture"}
        /\ \/ goal' = goal
           \/ (\E sa \in BOOLEAN : goal' = TopicsToClean(sa)) /\ (dpc' = "exited" => exit' = 4)
    BY <1>3 DEF CaptureEnds, Leave
  <2>2. goal = {} /\ \A t \in Topics : pub[t] = "none"
    BY <2>1 DEF Chosen
  <2>3. \A t \in goal' : t \in Topics /\ captured[t] # NoPayload /\ captured[t].uid \notin KnownOn(t)
    BY <2>1, <2>2, OrphanFacts
  <2>4. Shape' /\ Current'
    BY <2>1, <2>3 DEF Shape, Current
  <2>5. Chosen'
    BY <2>1, <2>2, <2>3 DEF Chosen, KnownOn
  <2>6. Told'
    BY <2>1, <2>2 DEF Told
  <2> QED
    BY <2>4, <2>5, <2>6
<1>4. CASE PublishEmpties
  BY <1>4 DEF PublishEmpties, Shape, Current, Chosen, Told, KnownOn
<1>5. CASE ClearEnds
  BY <1>5 DEF ClearEnds, Leave, Acked, Shape, Current, Chosen, Told, KnownOn
<1> QED
  BY <1>1, <1>2, <1>3, <1>4, <1>5

\* The broker and the others.
LEMMA BrokerStep ==
  ASSUME DInv, NEW t,
         BrokerClears(t) \/ BrokerAcks(t) \/ Resend(t) \/ (\E p : Write(t, p))
  PROVE  DInv'
<1> USE DEF DInv
<1>1. CASE BrokerClears(t)
  BY <1>1 DEF BrokerClears, Shape, Current, Chosen, Told, KnownOn
<1>2. CASE BrokerAcks(t) \/ Resend(t)
  BY <1>2 DEF BrokerAcks, Resend, Shape, Current, Chosen, Told, KnownOn
<1>3. CASE \E p : Write(t, p)
  BY <1>3 DEF Write, Shape, Current, Chosen, Told, KnownOn
<1> QED
  BY <1>1, <1>2, <1>3

\* Every step keeps the invariant.
LEMMA Inductive == DInv /\ [DiscNext]_discVars => DInv'
<1> SUFFICES ASSUME DInv, [DiscNext]_discVars PROVE DInv'
  OBVIOUS
<1>1. CASE UNCHANGED discVars
  BY <1>1 DEF discVars, DInv, Shape, Current, Chosen, Told, KnownOn
<1>2. CASE PublishDiscovery \/ OthersPublish
  BY <1>2, BrokerStep DEF PublishDiscovery, OthersPublish
<1> QED
  BY <1>1, <1>2, ToolStep, BrokerStep DEF DiscNext

\* What the broker clears for the tool was an orphan when it was captured.
LEMMA ClearStep ==
  ASSUME DInv, [DiscNext]_discVars, NEW t \in Topics, pub'[t] # pub[t], ret'[t] # ret[t],
         ret[t].uid \in KnownOn(t)
  PROVE  t \in rewritten
<1>1. CASE \E u \in Topics : BrokerClears(u)
  <2>1. PICK u \in Topics : BrokerClears(u)
    BY <1>1
  <2>2. u = t /\ pub[t] = "queued" /\ ret'[t] = NoPayload
    BY <2>1 DEF BrokerClears, DInv, Shape
  <2> QED
    BY <2>2 DEF DInv, Current, Chosen
<1>2. CASE ~(\E u \in Topics : BrokerClears(u))
  BY <1>2 DEF DiscNext, LoadSpec, CaptureRetained, CaptureEnds, PublishEmpties, ClearEnds,
              PublishDiscovery, OthersPublish, Write, BrokerAcks, Resend, discVars
<1> QED
  BY <1>1, <1>2

(***************************************************************************)
(* The discovery cleanup: theorem.                                         *)
(***************************************************************************)

\* The cleanup never clears a payload its spec knows, unless others put it there
\* after the capture, and its exit code 0 is true.
THEOREM CleanupIsSound == DiscSpec => ClearedWasOrphan
<1>1. DInv /\ [DiscNext]_discVars =>
        [\A t \in Topics : pub'[t] # pub[t] /\ ret'[t] # ret[t] /\ ret[t].uid \in KnownOn(t)
                             => t \in rewritten]_discVars
  BY ClearStep
<1>2. DInv => (dpc = "exited" /\ exit = 0 => \A t \in goal : pub[t] = "acked")
  BY DEF DInv, Told
<1> QED
  BY <1>1, <1>2, AtStart, Inductive, PTL DEF DiscSpec, ClearedWasOrphan
=============================================================================
