----------------------------- MODULE HaRegistry -----------------------------
(***************************************************************************)
(* The two one-shot tools that work on Home Assistant's entity registry    *)
(* over its WebSocket: tools/purge_ha_zombies.py removes entities, and     *)
(* tools/rename_ha_entities.py gives them another entity_id.  Both list    *)
(* the registry, make a plan from the listing, ask the user, and send one  *)
(* request per item, waiting for the reply with the request's id.          *)
(*                                                                         *)
(* The registry is Home Assistant's, and others (the daemon's discovery,   *)
(* the user) change it while a tool runs: at most MaxOthers changes.       *)
(***************************************************************************)
EXTENDS Integers, Sequences, SequencesExt, FiniteSets, FiniteSetsExt

CONSTANTS
  Entities,   \* entity_ids
  InScope,    \* those that start with a --domain prefix
  DomainOf,   \* entity_id -> its domain, the part before the dot
  Stripped,   \* the F-7 entity_ids "..._3" -> the same without the suffix
  Expected,   \* the F-7 entity_ids -> the unique_id canonical for the name
  Uids,       \* unique_ids
  Canonical,  \* those of MQTT_CANONICAL.json
  NoOne,      \* in place of a unique_id: the entity_id is free
  MaxPairs,   \* renames a user asks for at once
  MaxOthers   \* registry changes by others during a run

ASSUME EntitiesAssumption ==
  /\ InScope \subseteq Entities
  /\ DOMAIN Stripped \subseteq Entities
  /\ \A e \in DOMAIN Stripped : Stripped[e] \in Entities
ASSUME NoOneAssumption == NoOne \notin Entities \cup Uids

\* What select_candidates tells apart in a StateRecord: a recent value (or one
\* without a timestamp), a value older than the minimum age, unavailable or unknown
\* for less than that age, for longer (or without a timestamp), or no record.
Health == {"live", "stuck", "young", "old", "missing"}

VARIABLES
  tool,      \* "purge" or "rename"
  pc,        \* where the tool is
  reg,       \* entity_id -> owner's unique_id
  seen,      \* purge: what /api/states said of each entity_id
  listed,    \* the registry as listed
  plan,      \* items to apply: [old, new, nth], for a removal with new = NoOne
  sent,      \* items sent, in order; the place of one is its request's id
  waiting,   \* a request waits for its reply
  inbox,     \* requests Home Assistant has not handled
  outbox,    \* replies the tool has not read
  oks,       \* ids of the requests the tool counts as done
  refused,   \* items Home Assistant refused, as reported
  late,      \* items without a reply in time, as reported
  code,      \* the exit code
  executed,  \* history: ids Home Assistant carried out
  touched,   \* history: entity_ids others changed since the first snapshot
  net,       \* history: purge had the canonical spec
  others     \* changes by others so far

haVars == <<reg, inbox, outbox, executed, touched, others>>
toolVars == <<tool, pc, seen, listed, plan, sent, waiting, oks, refused, late, code, net>>
regVars == <<haVars, toolVars>>

Unique(r) == \A e, f \in Entities : r[e] = r[f] /\ r[e] # NoOne => e = f

RegIdle(r) ==
  /\ reg = r /\ listed = r
  /\ seen = [e \in Entities |-> "missing"]
  /\ plan = {} /\ sent = <<>> /\ waiting = FALSE /\ inbox = <<>> /\ outbox = <<>>
  /\ oks = {} /\ refused = {} /\ late = {} /\ code = 0
  /\ executed = {} /\ touched = {} /\ net = FALSE /\ others = 0

RegInit ==
  /\ tool \in {"purge", "rename"}
  /\ pc = IF tool = "purge" THEN "states" ELSE "list"
  /\ \E r \in [Entities -> Uids \cup {NoOne}] : Unique(r) /\ RegIdle(r)

\* The tool ends and its connection is closed: replies are lost.
Exit(c) == pc' = "exited" /\ code' = c /\ waiting' = FALSE /\ outbox' = <<>>

(***************************************************************************)
(* From the snapshots to the plan.                                         *)
(***************************************************************************)

\* fetch_states, before the WebSocket is opened; entity_ids nobody owns have no record.
FetchStates ==
  /\ pc = "states" /\ pc' = "list"
  /\ seen' \in [Entities -> Health]
  /\ \A e \in Entities : reg[e] = NoOne => seen'[e] = "missing"
  /\ UNCHANGED <<haVars, tool, listed, plan, sent, waiting, oks, refused, late, code, net>>

\* An HTTP error or a body that is no list.
FetchFails ==
  /\ pc = "states" /\ Exit(3)
  /\ UNCHANGED <<reg, inbox, executed, touched, others, tool, seen, listed, plan, sent,
                 oks, refused, late, net>>

\* list_entity_registry: the listing is what Home Assistant had when it handled it.
ListRegistry ==
  /\ pc = "list" /\ pc' = "plan" /\ listed' = reg
  /\ UNCHANGED <<haVars, tool, seen, plan, sent, waiting, oks, refused, late, code, net>>

\* An error reply, a reply of another shape, or none in time.
ListFails ==
  /\ pc = "list" /\ Exit(4)
  /\ UNCHANGED <<reg, inbox, executed, touched, others, tool, seen, listed, plan, sent,
                 oks, refused, late, net>>

\* Mutant of SelectCandidates: the canonical unique_ids are not looked at.
SelectUnprotected(stale, safe) ==
  {e \in InScope : listed[e] # NoOne
                   /\ seen[e] \in {"missing", "old"} \cup (IF stale THEN {"stuck"} ELSE {})}

\* select_candidates, with --include-stale-values or not and the canonical spec or not.
SelectCandidates(stale, safe) ==
  {e \in InScope : /\ listed[e] # NoOne
                   /\ safe => listed[e] \notin Canonical
                   /\ seen[e] \in {"missing", "old"} \cup (IF stale THEN {"stuck"} ELSE {})}

\* build_audit_f7_renames
AuditF7Renames ==
  {[old |-> e, new |-> Stripped[e], nth |-> 1] :
     e \in {f \in DOMAIN Stripped : listed[f] = Expected[f] /\ listed[Stripped[f]] = NoOne}}

\* parse_pairs and load_mapping_file: any renames a user may write, in any order.
\* --pairs may repeat one: nth tells the copies apart.
Rename == [old : Entities, new : Entities, nth : 1..MaxPairs]

RequestedRenames ==
  {rs \in UNION {kSubset(n, Rename) : n \in 0..MaxPairs} :
     \A r \in rs : r.nth > 1 => [r EXCEPT !.nth = @ - 1] \in rs}

\* Mutant of ValidRename: would-collide is not looked for.
ValidUnlessTaken(r) ==
  /\ r.old # r.new
  /\ DomainOf[r.old] = DomainOf[r.new]
  /\ listed[r.old] # NoOne

\* validate_renames, status "ok": none of noop, domain-mismatch, not-found and
\* would-collide.  Each rename is validated by itself.
ValidRename(r) ==
  /\ r.old # r.new
  /\ DomainOf[r.old] = DomainOf[r.new]
  /\ listed[r.old] # NoOne
  /\ listed[r.new] = NoOne

\* A spec that cannot be read leaves purge without its safety net.
PurgePlan ==
  /\ pc = "plan" /\ tool = "purge"
  /\ \E stale, safe \in BOOLEAN :
       /\ plan' = {[old |-> e, new |-> NoOne, nth |-> 1] :
                    e \in SelectCandidates(stale, safe)}
       /\ net' = safe
  /\ pc' = "ask"
  /\ UNCHANGED <<haVars, tool, seen, listed, sent, waiting, oks, refused, late, code>>

RenamePlan ==
  /\ pc = "plan" /\ tool = "rename"
  /\ \E rs \in RequestedRenames \cup {AuditF7Renames} :
       plan' = {r \in rs : ValidRename(r)}
  /\ pc' = "ask"
  /\ UNCHANGED <<haVars, tool, seen, listed, sent, waiting, oks, refused, late, code, net>>

\* --mapping or --pairs cannot be read.
RenameUnreadable ==
  /\ pc = "plan" /\ tool = "rename" /\ Exit(1)
  /\ UNCHANGED <<reg, inbox, executed, touched, others, tool, seen, listed, plan, sent,
                 oks, refused, late, net>>

\* A dry run, nothing to do, or the user's no; 5 for blocked renames, if asked for.
NotApplied ==
  /\ pc = "ask"
  /\ \/ Exit(0)
     \/ tool = "rename" /\ Exit(5)
  /\ UNCHANGED <<reg, inbox, executed, touched, others, tool, seen, listed, plan, sent,
                 oks, refused, late, net>>

\* --apply, confirmed, however long the prompt has stood there.
Confirmed ==
  /\ pc = "ask" /\ plan # {} /\ pc' = "apply"
  /\ UNCHANGED <<haVars, tool, seen, listed, plan, sent, waiting, oks, refused, late, code, net>>

(***************************************************************************)
(* _apply: remove_entity or update_entity_id, one request at a time.       *)
(***************************************************************************)

SendRequest ==
  /\ pc = "apply" /\ ~waiting
  /\ \E r \in plan \ Range(sent) :
       /\ sent' = Append(sent, r)
       /\ inbox' = Append(inbox, [id |-> Len(sent) + 1, item |-> r])
  /\ waiting' = TRUE
  /\ UNCHANGED <<reg, outbox, executed, touched, others, tool, pc, seen, listed, plan, oks,
                 refused, late, code, net>>

\* Mutant of IsReply: the next result is the result.
IsAnyReply(f) == TRUE

\* A result with the id of the request that waits; other frames are ignored.
IsReply(f) == f.id = Len(sent)

ReceiveReply ==
  /\ pc = "apply" /\ waiting /\ outbox # <<>>
  /\ LET f == Head(outbox) IN
       \/ /\ IsReply(f) /\ f.ok /\ waiting' = FALSE
          /\ oks' = oks \cup {Len(sent)} /\ UNCHANGED refused
       \/ /\ IsReply(f) /\ ~f.ok /\ waiting' = FALSE
          /\ refused' = refused \cup {Last(sent)} /\ UNCHANGED oks
       \/ ~IsReply(f) /\ UNCHANGED <<waiting, oks, refused>>
  /\ outbox' = Tail(outbox)
  /\ UNCHANGED <<reg, inbox, executed, touched, others, tool, pc, seen, listed, plan, sent,
                 late, code, net>>

\* The tool goes on to the next item; the request may still be handled.
RequestTimesOut ==
  /\ pc = "apply" /\ waiting /\ waiting' = FALSE /\ late' = late \cup {Last(sent)}
  /\ UNCHANGED <<haVars, tool, pc, seen, listed, plan, sent, oks, refused, code, net>>

\* The summary and the exit code.
ApplyEnds ==
  /\ pc = "apply" /\ ~waiting /\ plan = Range(sent)
  /\ Exit(IF refused \cup late = {} THEN 0 ELSE 6)
  /\ UNCHANGED <<reg, inbox, executed, touched, others, tool, seen, listed, plan, sent,
                 oks, refused, late, net>>

\* The connection is refused, unauthorised or lost (2), or the user interrupts (130).
ToolDies ==
  /\ pc \in {"list", "plan", "ask", "apply"}
  /\ \E c \in {2, 130} : Exit(c)
  /\ UNCHANGED <<reg, inbox, executed, touched, others, tool, seen, listed, plan, sent,
                 oks, refused, late, net>>

(***************************************************************************)
(* Home Assistant, which handles the requests of a connection in order.    *)
(***************************************************************************)

\* A removal needs an owner; an update also a free new entity_id.
Executable(i) == reg[i.old] # NoOne /\ (i.new = NoOne \/ reg[i.new] = NoOne)

Execute(i) ==
  [e \in Entities |-> IF e = i.old THEN NoOne ELSE IF e = i.new THEN reg[i.old] ELSE reg[e]]

HandleRequest ==
  /\ inbox # <<>> /\ inbox' = Tail(inbox)
  /\ LET r == Head(inbox)
         ok == Executable(r.item)
     IN  /\ reg' = IF ok THEN Execute(r.item) ELSE reg
         /\ executed' = IF ok THEN executed \cup {r.id} ELSE executed
         /\ outbox' = IF pc = "exited" THEN outbox
                      ELSE Append(outbox, [id |-> r.id, ok |-> ok])
  /\ UNCHANGED <<toolVars, touched, others>>

\* Requests still unread when the connection closed.
RequestsDropped ==
  /\ pc = "exited" /\ inbox # <<>> /\ inbox' = <<>>
  /\ UNCHANGED <<reg, outbox, executed, touched, others, toolVars>>

\* An entity is registered (under a free entity_id) or removed by someone else.
OthersChange ==
  /\ others < MaxOthers /\ others' = others + 1
  /\ pc \notin {"states", "exited"} /\ (pc = "list" => tool = "purge")
  /\ \E e \in Entities, u \in Uids \cup {NoOne} :
       /\ reg[e] = NoOne \/ u = NoOne
       /\ reg' = [reg EXCEPT ![e] = u] /\ reg' # reg /\ Unique(reg')
       /\ touched' = touched \cup {e}
  /\ UNCHANGED <<inbox, outbox, executed, toolVars>>

RegNext ==
  \/ FetchStates \/ FetchFails \/ ListRegistry \/ ListFails
  \/ PurgePlan \/ RenamePlan \/ RenameUnreadable \/ NotApplied \/ Confirmed
  \/ SendRequest \/ ReceiveReply \/ RequestTimesOut \/ ApplyEnds \/ ToolDies
  \/ HandleRequest \/ RequestsDropped \/ OthersChange

RegSpec == RegInit /\ [][RegNext]_regVars

(***************************************************************************)
(* Properties.                                                             *)
(***************************************************************************)

\* What the tools report as done was done by Home Assistant, in spite of replies
\* that come after their request was given up; exit code 0 after an apply says all.
ReportTrue ==
  /\ oks \subseteq executed
  /\ pc = "exited" /\ code = 0 /\ sent # <<>> => executed = 1..Cardinality(plan)

\* purge removes by entity_id, some time after it decided by unique_id and state: what
\* it removes was in scope, not canonical and not in use when the states were
\* fetched, unless the entity_id changed hands since.
PurgeSound ==
  [][\A e \in Entities :
       tool = "purge" /\ inbox' # inbox /\ reg[e] # NoOne /\ reg'[e] = NoOne
         => \/ e \in touched
            \/ e \in InScope /\ (net => reg[e] \notin Canonical) /\ seen[e] \notin {"live", "young"}
    ]_regVars

\* The entity_ids an item names.
Names(i) == {i.old, i.new} \ {NoOne}

\* An item the plan shows as ok is refused only if others changed one of its
\* entity_ids since, or another item of the plan names one.
PlanHolds ==
  \A i \in refused :
    \/ Names(i) \cap touched # {}
    \/ \E j \in plan \ {i} : Names(i) \cap Names(j) # {}
=============================================================================
