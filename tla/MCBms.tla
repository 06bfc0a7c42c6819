------------------------------- MODULE MCBms --------------------------------
(***************************************************************************)
(* Small instances of BmsService and BleClient for TLC.  The two meet only *)
(* in the thread's coroutines, which are BmsPolling: a behaviour is one of *)
(* the service or one of the client, the other stays as it begins.         *)
(***************************************************************************)
EXTENDS BmsService, BleClient

VARIABLE part

bmsVars == <<part, vars, bleVars>>

BmsInit ==
  /\ Init /\ BleInit
  /\ \/ part = "service" /\ asked = CHOOSE b \in Blocks : TRUE
     \/ part = "client" /\ file = "absent"

BmsNext ==
  /\ UNCHANGED part
  /\ \/ part = "service" /\ Next /\ UNCHANGED bleVars
     \/ part = "client" /\ BleNext /\ UNCHANGED vars

BmsSpec ==
  /\ BmsInit /\ [][BmsNext]_bmsVars
  /\ part = "service" => Fairness
  /\ part = "client" => BleFairness
=============================================================================
