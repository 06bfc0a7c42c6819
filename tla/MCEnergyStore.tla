---------------------------- MODULE MCEnergyStore ----------------------------
(* A small instance of EnergyStore for TLC: one signed and one unsigned signal. *)
EXTENDS EnergyStore
CONSTANTS battery, pv
SignedSignals == {battery}
UnsignedSignals == {pv}
=============================================================================
