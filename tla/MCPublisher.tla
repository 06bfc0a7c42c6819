---------------------------- MODULE MCPublisher -----------------------------
(***************************************************************************)
(* Small instances of Availability and Telemetry for TLC.  What the two    *)
(* say is published independently of each other, and so are the inverters' *)
(* values and the bank's: a behaviour is one of the three, the other two   *)
(* parts stay as they begin.                                               *)
(***************************************************************************)
EXTENDS Availability, Telemetry, TLC

\* Readings: full ones of either direction and partial ones.
Battery(v, i, p) ==
  "battery" :> [battery_voltage |-> v, battery_current |-> i, pv1_power |-> p]
State(l) ==
  "state" :> [load_active_phase_a |-> l, inverter_state_code |-> 3, bus_voltage |-> 10 + l]
PhaseB(l) == "phase_b" :> [load_active_phase_b |-> l]
PvTwo(p) == "pv2" :> [pv2_power |-> p]

MCHot == {
  Battery(2, 2, 3) @@ State(1) @@ PhaseB(2) @@ PvTwo(1),
  Battery(1, -3, 0) @@ State(2) @@ PhaseB(1) @@ PvTwo(-1),
  State(1) @@ PhaseB(2) @@ PvTwo(-2),
  Battery(2, 1, 1) @@ State(3),
  Battery(1, 1, 2) @@ PhaseB(2),
  Nothing}

MCCold == {
  ("daily_stats" :> [pv_energy_today |-> 2]) @@ ("faults" :> [fault_bits |-> 1]),
  "daily_stats" :> [pv_energy_today |-> 3],
  Nothing}

MCPacks == [voltage : {1}, current : {-1, 2}]
MCTemps == {{Sentinel}, {Sentinel, 2981}}

VARIABLE part

publisherVars == <<part, vars, telemetryVars>>

PublisherInit == part \in {"availability", "inverters", "bank"} /\ Init /\ TelemetryInit

PublisherNext ==
  /\ UNCHANGED part
  /\ \/ part = "availability" /\ Next /\ UNCHANGED telemetryVars
     \/ part = "inverters" /\ (RunOneHotCycle \/ RunOneColdCycle) /\ UNCHANGED vars
     \/ part = "bank" /\ (BankCycle \/ PubArrives \/ PubLost) /\ UNCHANGED vars

\* Availability's fairness is about the behaviours of that part.
PublisherSpec == PublisherInit /\ [][PublisherNext]_publisherVars /\ Fairness
=============================================================================
