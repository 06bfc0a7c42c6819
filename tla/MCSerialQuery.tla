---------------------------- MODULE MCSerialQuery ----------------------------
(* Small instances of SerialQuery for TLC: the LCD reads one of our blocks, and *)
(* one of its own that has as many registers.                                   *)
EXTENDS SerialQuery

Ours == {1, 2}
Lcd == {1, 3}
SharedCounts == [a \in {1, 2, 3} |-> IF a = 2 THEN 8 ELSE 6]
=============================================================================
