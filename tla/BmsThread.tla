----------------------------- MODULE BmsThread ------------------------------
(***************************************************************************)
(* What the rest of BmsService (inverter_bridge/bms/service.py) relies on  *)
(* in the coroutines of its thread: they integrate energy, save it now and *)
(* then, blocking the event loop meanwhile, and return once they have seen *)
(* the stop event, never without it.  BmsPolling implements this           *)
(* specification and BmsService uses it.                                   *)
(***************************************************************************)
VARIABLES
  phase,   \* "await" (anywhere but in a save), "save" or "returned"
  told,    \* _stop_event
  dirty,   \* energy is integrated that no file has
  missed   \* the last save failed

threadVars == <<phase, told, dirty, missed>>

ThreadInit == phase = "await" /\ told = FALSE /\ dirty = FALSE /\ missed = FALSE

\* call_soon_threadsafe(_stop_event.set)
Tell == ~told /\ told' = TRUE /\ UNCHANGED <<phase, dirty, missed>>

\* _integrate_energy; the save it may come to is a phase of its own.
Integrates ==
  /\ phase = "await" /\ phase' \in {"await", "save"} /\ dirty' \in {dirty, TRUE}
  /\ UNCHANGED <<told, missed>>

\* _save_energy_state returns; it logs an exception and goes on.
SaveReturns(ok) ==
  /\ phase = "save" /\ phase' = "await"
  /\ dirty' = (dirty /\ ~ok) /\ missed' = ~ok
  /\ UNCHANGED told

Returns == phase = "await" /\ told /\ phase' = "returned" /\ UNCHANGED <<told, dirty, missed>>

ThreadNext == Tell \/ Integrates \/ (\E ok \in BOOLEAN : SaveReturns(ok)) \/ Returns

ThreadSpec == ThreadInit /\ [][ThreadNext]_threadVars
=============================================================================
