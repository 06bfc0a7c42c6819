---------------------------- MODULE MCPollDaemon ----------------------------
(* Small instances of PollDaemon for TLC. *)
EXTENDS PollDaemon

OnlyFirst == {1}
Both == {1, 2}
=============================================================================
