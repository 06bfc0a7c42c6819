------------------------------ MODULE MCHaTools ------------------------------
(***************************************************************************)
(* Small instances of HaRegistry and HaDiscovery for TLC.  A user runs one *)
(* tool at a time, so a behaviour is one of either: what the other tool    *)
(* would look at is left empty and still.                                  *)
(***************************************************************************)
EXTENDS HaRegistry, HaDiscovery

MCDomainOf == [e \in Entities |-> IF e = "b.y" THEN "b" ELSE "s"]
MCStripped == [e \in {"s.x_3"} |-> "s.x"]
MCExpected == [e \in {"s.x_3"} |-> "c"]
MCBaseOf == [u \in PayloadUids |-> IF u = "c1_2" THEN "c1" ELSE u]
MCDaemonPayload ==
  [t \in Topics |-> [uid |-> IF t = "tb" THEN "on" ELSE "c1", sa |-> t # "tb"]]
MCSpecs == {{}, {"c1"}, {"c1", "c3", "on"}}

Init ==
  \/ RegInit /\ dpc = "off" /\ known = {} /\ DiscIdle(Nothing)
  \/ DiscInit /\ tool = "none" /\ pc = "off" /\ RegIdle([e \in Entities |-> NoOne])

Next ==
  \/ tool # "none" /\ RegNext /\ UNCHANGED discVars
  \/ dpc # "off" /\ DiscNext /\ UNCHANGED regVars

Spec == Init /\ [][Next]_<<regVars, discVars>>
=============================================================================
