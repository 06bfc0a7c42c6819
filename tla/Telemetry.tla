----------------------------- MODULE Telemetry ------------------------------
(***************************************************************************)
(* What Home Assistant gets to see: the way of a reading from the          *)
(* registers through parse_block (parsers.py with the table of             *)
(* srne_map.py) and aggregate_inverters (aggregator.py) in the hot and the *)
(* cold cycle, and of a pack's reading through octopus_protocol.py,        *)
(* aggregate_bank (bms/aggregator.py) and _publish_bank_state, with any    *)
(* block of any inverter and any pack missing.                             *)
(*                                                                         *)
(* A cycle publishes the keys it computed; a key it did not compute, or    *)
(* whose publish is lost, keeps its last value in Home Assistant, which    *)
(* the model keeps for the bank, published key by key at QoS 0.  Each      *)
(* block has one field for every way the code treats a field (bus_voltage  *)
(* stands for all the quantities the site takes from inverter 1); scale    *)
(* factors are 1 but for their sign, rounding is left out, and an average  *)
(* is kept times the number averaged over.                                 *)
(***************************************************************************)
EXTENDS Integers, FiniteSets, FiniteSetsExt

CONSTANTS
  N,             \* number of inverters
  Half,          \* half the values of a register, 2^15 in the program
  HotReadings,   \* what an inverter may answer in a hot cycle: block -> quantities
  ColdReadings,  \* and in a cold one
  PackCount,     \* packs of the bank
  PackReadings,  \* what a pack may report as PIA: voltage and current
  TempReadings,  \* and as PIB: the set of its cell temperatures, in 0.1 K
  MaxLost        \* bound: keys of the bank whose last publish is lost, at a time

Inverters == 1..N
Packs == 1..PackCount
Site == 0

HotBlocks == {"battery", "state", "phase_b", "pv2"}
ColdBlocks == {"daily_stats", "faults"}

\* The fields of each block.
Fields == [
  battery |-> {"battery_voltage", "battery_current", "pv1_power"},
  state |-> {"load_active_phase_a", "inverter_state_code", "bus_voltage"},
  phase_b |-> {"load_active_phase_b"},
  pv2 |-> {"pv2_power"},
  daily_stats |-> {"pv_energy_today"},
  faults |-> {"fault_bits"}]

\* Field.signed.
SignedFields == {"battery_current", "pv2_power"}

\* Mutant of Sign: the scale of the battery current is +0.1, as it once was.
SignNotFlipped(f) == 1

\* The sign of Field.scale.
Sign(f) == IF f = "battery_current" THEN -1 ELSE 1

\* The firmware's own convention: register 0x0102 counts the current that leaves the
\* battery as positive.  A quantity of the model is positive when charging.
FirmwareSign(f) == IF f = "battery_current" THEN -1 ELSE 1

\* What the firmware can put in a register.
Fits(f, x) ==
  IF f \in SignedFields THEN FirmwareSign(f) * x \in (-Half)..(Half - 1)
  ELSE x \in 0..(2 * Half - 1)

ASSUME SizesAssumption == N \in Nat \ {0} /\ PackCount \in 1..4 /\ Half \in Nat \ {0} /\ MaxLost \in Nat

\* An inverter answers with whole blocks, and a battery that is read has a voltage.
ASSUME ReadingsAssumption ==
  /\ \A r \in HotReadings : DOMAIN r \subseteq HotBlocks
  /\ \A r \in ColdReadings : DOMAIN r \subseteq ColdBlocks
  /\ \A r \in HotReadings \union ColdReadings : \A b \in DOMAIN r :
       DOMAIN r[b] = Fields[b] /\ \A f \in Fields[b] : r[b][f] \in Int /\ Fits(f, r[b][f])
  /\ \A r \in HotReadings : "battery" \in DOMAIN r => r["battery"]["battery_voltage"] > 0

ASSUME PackAssumption == PackReadings \subseteq [voltage : Int, current : Int]

VARIABLES
  tier,    \* the cycle that published last
  meter,   \* the quantities each inverter answered with in it
  out,     \* the keys that cycle published
  pending, \* the keys of the bank this cycle still has to publish, with their values
  bank,    \* the last value of each key of the bank in Home Assistant
  lost     \* history: the keys of the bank whose last publish did not arrive

telemetryVars == <<tier, meter, out, pending, bank, lost>>

Nothing == <<>>

\* f and g in one dictionary; where both have a key, f's value counts.
f ++ g == [k \in DOMAIN f \union DOMAIN g |-> IF k \in DOMAIN f THEN f[k] ELSE g[k]]

TelemetryInit ==
  /\ tier = "none" /\ meter = [i \in Inverters |-> Nothing]
  /\ out = Nothing /\ pending = Nothing /\ bank = Nothing /\ lost = {}

(***************************************************************************)
(* The registers and parse_block.                                          *)
(***************************************************************************)

\* The inverter's firmware: a quantity as an unsigned word, two's complement.
Register(f, x) == (FirmwareSign(f) * x) % (2 * Half)

\* _s16
S16(v) == IF v >= Half THEN v - 2 * Half ELSE v

\* round(val * f.scale, 4)
Decode(f, raw) == Sign(f) * (IF f \in SignedFields THEN S16(raw) ELSE raw)

\* The dictionary _poll_inverter returns: the blocks that were read, parsed.
Parsed(r) == [b \in DOMAIN r |-> [f \in Fields[b] |-> Decode(f, Register(f, r[b][f]))]]

(***************************************************************************)
(* aggregate_inverters.  rs is the list of parsed dictionaries; a key is   *)
(* <<name, inverter>>, with Site for the whole site.                       *)
(***************************************************************************)

\* The inverters whose answer has block b.
Having(rs, b) == {i \in Inverters : b \in DOMAIN rs[i]}

\* A quantity of a block that counts as zero where the block is missing.
OrZero(r, b, f) == IF b \in DOMAIN r THEN r[b][f] ELSE 0

\* The entries of one name, one for each inverter of value's domain.
Each(name, value) == [k \in {name} \X DOMAIN value |-> value[k[2]]]

\* The entry of the site, there if somebody contributed.
Total(name, I, value) == IF I = {} THEN Nothing ELSE [k \in {<<name, Site>>} |-> value]

\* The shared bank: mean voltage times the sum of the currents.
BatteryKeys(rs) ==
  LET I == Having(rs, "battery")
      V == [i \in I |-> rs[i]["battery"]["battery_voltage"]]
      A == [i \in I |-> rs[i]["battery"]["battery_current"]]
  IN  Each("battery_voltage", V) ++ Each("battery_current", A)
      ++ Total("battery_voltage", I, SumFunction(V))
      ++ Total("battery_power", I, SumFunction(V) * SumFunction(A))

\* The load of each inverter with a state block is the sum of both phases; a missing
\* phase B counts as zero.
Loads(rs) ==
  [i \in Having(rs, "state") |-> rs[i]["state"]["load_active_phase_a"]
                                 + OrZero(rs[i], "phase_b", "load_active_phase_b")]

\* The mode of the site, its grid and its bus voltage are those of inverter 1.
StateKeys(rs) ==
  LET I == Having(rs, "state")
      L1 == [i \in I |-> rs[i]["state"]["load_active_phase_a"]]
      L2 == [i \in I |-> OrZero(rs[i], "phase_b", "load_active_phase_b")]
      Mode == [i \in I |-> rs[i]["state"]["inverter_state_code"]]
      Bus == [i \in I |-> rs[i]["state"]["bus_voltage"]]
  IN  Each("load_power_l1", L1) ++ Each("load_power_l2", L2)
      ++ Each("load_power", Loads(rs)) ++ Each("device_mode", Mode)
      ++ Each("bus_voltage", Bus)
      ++ Total("load_power", I, SumFunction(Loads(rs)))
      ++ Total("mode", I \intersect {1}, Mode[1])
      ++ Total("bus_voltage", I \intersect {1}, Bus[1])

Pv1(r) == OrZero(r, "battery", "pv1_power")

\* An idle MPPT reports some watts below zero: clamped to zero.
Pv2(r) == LET p == OrZero(r, "pv2", "pv2_power") IN IF p < 0 THEN 0 ELSE p

\* PV1 is in the battery block.
HavePv(rs) == Having(rs, "battery") \union Having(rs, "pv2")

\* Mutant of PvKeys: the total is taken before an idle MPPT is clamped to zero.
PvKeysUnclamped(rs) ==
  LET Raw == [i \in Inverters |-> Pv1(rs[i]) + OrZero(rs[i], "pv2", "pv2_power")]
      Both == [i \in Inverters |-> Pv1(rs[i]) + Pv2(rs[i])]
  IN  Each("pv_power_mppt1", [i \in Inverters |-> Pv1(rs[i])])
      ++ Each("pv_power_mppt2", [i \in Inverters |-> Pv2(rs[i])])
      ++ Each("pv_power", Both)
      ++ Total("pv_power", HavePv(rs), SumFunction(Raw))

\* The per-inverter keys are there in any case.
PvKeys(rs) ==
  LET Both == [i \in Inverters |-> Pv1(rs[i]) + Pv2(rs[i])]
  IN  Each("pv_power_mppt1", [i \in Inverters |-> Pv1(rs[i])])
      ++ Each("pv_power_mppt2", [i \in Inverters |-> Pv2(rs[i])])
      ++ Each("pv_power", Both)
      ++ Total("pv_power", HavePv(rs), SumFunction(Both))

\* Daily statistics with their sums; fault words as they are.
ColdKeys(rs) ==
  LET I == Having(rs, "daily_stats")
      Today == [i \in I |-> rs[i]["daily_stats"]["pv_energy_today"]]
      Faults == [i \in Having(rs, "faults") |-> rs[i]["faults"]["fault_bits"]]
  IN  Each("pv_energy_today", Today)
      ++ Total("pv_energy_today", I, SumFunction(Today))
      ++ Each("fault_bits", Faults)

AggregateInverters(rs) == BatteryKeys(rs) ++ StateKeys(rs) ++ PvKeys(rs) ++ ColdKeys(rs)

\* poll, aggregate and publish_values.
Cycle(t, answers) ==
  /\ tier' = t /\ meter' = answers
  /\ out' = AggregateInverters([i \in Inverters |-> Parsed(answers[i])])
  /\ UNCHANGED <<pending, bank, lost>>

RunOneHotCycle == \E answers \in [Inverters -> HotReadings] : Cycle("hot", answers)
RunOneColdCycle == \E answers \in [Inverters -> ColdReadings] : Cycle("cold", answers)

(***************************************************************************)
(* The bank: _parse_pia and _parse_pib, aggregate_bank,                    *)
(* _publish_bank_state.                                                    *)
(***************************************************************************)

\* TEMP_K10_NA_SENTINEL: a temperature sensor that is not there.
Sentinel == 2731

\* _k10_to_c, in 0.01 degrees Celsius; the sentinel gives None.
CellTemps(raws) == {10 * t - 27315 : t \in raws \ {Sentinel}}

Key(name, value) == [k \in {name} |-> value]

Currents(pia) == [p \in DOMAIN pia |-> pia[p].current]
Negated(pia) == [p \in DOMAIN pia |-> -pia[p].current]
Up(pia) == {p \in DOMAIN pia : pia[p].current > 0}
Down(pia) == {p \in DOMAIN pia : pia[p].current < 0}

\* Mutant of SplitKeys: without a pack of that sign there is no value.
SplitKeysAbsent(pia) ==
  (IF Up(pia) = {} THEN Nothing
   ELSE Key("charge_current_total", SumFunctionOnSet(Currents(pia), Up(pia))))
  ++ (IF Down(pia) = {} THEN Nothing
      ELSE Key("discharge_current_total", SumFunctionOnSet(Negated(pia), Down(pia))))

\* The split by the sign of each pack's current, zero if no pack has that sign.
SplitKeys(pia) ==
  Key("charge_current_total", SumFunctionOnSet(Currents(pia), Up(pia)))
  ++ Key("discharge_current_total", SumFunctionOnSet(Negated(pia), Down(pia)))

\* Mean voltage times the sum of the currents.
Power(pia) ==
  SumFunction([p \in DOMAIN pia |-> pia[p].voltage]) * SumFunction(Currents(pia))

PowerKeys(pia) ==
  Key("power", Power(pia))
  ++ Key("power_charging", IF Power(pia) > 0 THEN Power(pia) ELSE 0)
  ++ Key("power_discharging", IF Power(pia) < 0 THEN -Power(pia) ELSE 0)

TempKeys(pib) ==
  LET temps == UNION {CellTemps(pib[p]) : p \in DOMAIN pib} IN
  IF temps = {} THEN Nothing ELSE Key("max_cell_temp", Max(temps))

\* aggregate_bank of the fresh PIA and PIB readings; None is not published.
AggregateBank(pia, pib) ==
  (IF DOMAIN pia = {} THEN Nothing
   ELSE Key("current_total", SumFunction(Currents(pia))) ++ PowerKeys(pia) ++ SplitKeys(pia))
  ++ TempKeys(pib)

\* The end of a cycle of _poll_loop, with the packs _fresh_states lets through.
BankCycle ==
  /\ DOMAIN pending = {}
  /\ \E fresh \in SUBSET Packs, warm \in SUBSET Packs :
       \E pia \in [fresh -> PackReadings], pib \in [warm -> TempReadings] :
         pending' = AggregateBank(pia, pib)
  /\ UNCHANGED <<tier, meter, out, bank, lost>>

\* The order of _publish_bank_state.
Turn == [current_total |-> 1, power |-> 2, power_charging |-> 3, power_discharging |-> 4,
         max_cell_temp |-> 5, charge_current_total |-> 6, discharge_current_total |-> 7]

FirstPending(k) == k \in DOMAIN pending /\ \A j \in DOMAIN pending : Turn[k] <= Turn[j]

Dequeue(k) == pending' = [j \in DOMAIN pending \ {k} |-> pending[j]]

\* _publish_state of one key: the message reaches Home Assistant ...
PubArrives ==
  \E k \in DOMAIN pending :
    /\ FirstPending(k) /\ Dequeue(k)
    /\ bank' = Key(k, pending[k]) ++ bank
    /\ lost' = lost \ {k}
    /\ UNCHANGED <<tier, meter, out>>

\* ... or is lost: the client is offline or the link breaks, and QoS 0 sends it once.
PubLost ==
  \E k \in DOMAIN pending :
    /\ FirstPending(k) /\ Dequeue(k)
    /\ Cardinality(lost \union {k}) <= MaxLost /\ lost' = lost \union {k}
    /\ UNCHANGED <<tier, meter, out, bank>>

TelemetryNext == RunOneHotCycle \/ RunOneColdCycle \/ BankCycle \/ PubArrives \/ PubLost

TelemetrySpec == TelemetryInit /\ [][TelemetryNext]_telemetryVars

(***************************************************************************)
(* Properties.                                                             *)
(***************************************************************************)

\* The quantity f of block b, of the inverters that answered with the block.
Measured(b, f) == [i \in {j \in Inverters : b \in DOMAIN meter[j]} |-> meter[i][b][f]]

\* The site's value of a name, there exactly when one of I answered.
SiteShows(name, I, value) ==
  /\ <<name, Site>> \in DOMAIN out <=> I # {}
  /\ I # {} => out[<<name, Site>>] = value

\* Every value published for the site is what the inverters measured, whatever blocks
\* are missing, and it is there exactly if one of them measured it: the load is the
\* sum of both phases (phase B only with its state block), PV of both strings with
\* an idle one as zero, energies are summed, the bank's power is the mean voltage
\* times all the currents, and mode and bus (as the grid's values) are inverter 1's.
SiteAgrees ==
  tier \in {"hot", "cold"} =>
    LET V == Measured("battery", "battery_voltage")
        A == Measured("battery", "battery_current")
        L1 == Measured("state", "load_active_phase_a")
        L2 == Measured("phase_b", "load_active_phase_b")
        P1 == Measured("battery", "pv1_power")
        P2 == Measured("pv2", "pv2_power")
        Today == Measured("daily_stats", "pv_energy_today")
        Mode == Measured("state", "inverter_state_code")
        Bus == Measured("state", "bus_voltage")
    IN  /\ SiteShows("battery_voltage", DOMAIN V, SumFunction(V))
        /\ SiteShows("battery_power", DOMAIN V, SumFunction(V) * SumFunction(A))
        /\ SiteShows("load_power", DOMAIN L1,
             SumFunction(L1) + SumFunctionOnSet(L2, DOMAIN L1 \intersect DOMAIN L2))
        /\ SiteShows("pv_power", DOMAIN P1 \union DOMAIN P2,
             SumFunction(P1) + SumFunctionOnSet(P2, {i \in DOMAIN P2 : P2[i] >= 0}))
        /\ SiteShows("pv_energy_today", DOMAIN Today, SumFunction(Today))
        /\ SiteShows("mode", DOMAIN Mode \intersect {1}, Mode[1])
        /\ SiteShows("bus_voltage", DOMAIN Bus \intersect {1}, Bus[1])

\* A hot cycle that every inverter answered in full publishes the quantities they
\* measured, signs included: through the two's complement words, the inverted
\* current and the sums a charging battery stays a charging one.
OutIsMeasured ==
  tier = "hot" /\ (\A i \in Inverters : DOMAIN meter[i] = HotBlocks) =>
    LET A == [i \in Inverters |-> meter[i]["battery"]["battery_current"]]
        L == [i \in Inverters |-> meter[i]["state"]["load_active_phase_a"]
                                  + meter[i]["phase_b"]["load_active_phase_b"]]
    IN  /\ \A i \in Inverters : out[<<"battery_current", i>>] = A[i]
        /\ \A i \in Inverters : out[<<"load_power", i>>] = L[i]
        /\ out[<<"load_power", Site>>] = SumFunction(L)
        /\ SumFunction(A) > 0 => out[<<"battery_power", Site>>] > 0
        /\ SumFunction(A) < 0 => out[<<"battery_power", Site>>] < 0

\* The keys of the bank's current and power.
FlowKeys == {"current_total", "charge_current_total", "discharge_current_total", "power",
             "power_charging", "power_discharging"}

\* The current is its charging less its discharging part, power flows one way only.
AddsUp(b) ==
  "current_total" \in DOMAIN b =>
    /\ FlowKeys \subseteq DOMAIN b
    /\ b["current_total"] = b["charge_current_total"] - b["discharge_current_total"]
    /\ b["power"] = b["power_charging"] - b["power_discharging"]
    /\ b["power_charging"] = 0 \/ b["power_discharging"] = 0
    /\ b["charge_current_total"] >= 0 /\ b["discharge_current_total"] >= 0

\* Once a cycle has sent its keys, what Home Assistant shows of the bank's current and
\* power adds up, over any cycles with no fresh pack and any messages lost, from the
\* moment the last publish of each of these keys has arrived.
BankAddsUp == DOMAIN pending = {} /\ lost \intersect FlowKeys = {} => AddsUp(bank)

\* run_one_cold_cycle: hot-block keys are absent from what a cold cycle publishes.
ColdIsCold == tier = "cold" => \A k \in DOMAIN out : k[1] \in {"pv_energy_today", "fault_bits"}
=============================================================================
