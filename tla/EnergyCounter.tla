---------------------------- MODULE EnergyCounter ----------------------------
(***************************************************************************)
(* What the energy integrator promises, without files: counters in memory  *)
(* that only grow, a saved copy that is always one earlier state of all of *)
(* them, and a copy that survives a power cut.                             *)
(***************************************************************************)
EXTENDS Naturals

CONSTANT Keys     \* the accumulators

VARIABLES
  mem,    \* counters of the running process
  saved,  \* what the next start restores
  safe    \* what it restores after a power cut

cvars == <<mem, saved, safe>>

Counters == [Keys -> Nat]
Zero == [k \in Keys |-> 0]

CInit == mem = Zero /\ saved = Zero /\ safe = Zero

Accrue == /\ mem' \in Counters /\ \A k \in Keys : mem'[k] >= mem[k]
          /\ UNCHANGED <<saved, safe>>
Commit == saved' = mem /\ UNCHANGED <<mem, safe>>
Settle == safe' = saved /\ UNCHANGED <<mem, saved>>
PowerCut == saved' = safe /\ UNCHANGED <<mem, safe>>
Restore == mem' = saved /\ UNCHANGED <<saved, safe>>
Forget == mem' = Zero /\ UNCHANGED <<saved, safe>>

CNext == Accrue \/ Commit \/ Settle \/ PowerCut \/ Restore \/ Forget

CSpec == CInit /\ [][CNext]_cvars
=============================================================================
