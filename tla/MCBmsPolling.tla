---------------------------- MODULE MCBmsPolling ----------------------------
(* Small instances of BmsPolling for TLC; the cfg files give the numbers. *)
EXTENDS BmsPolling
=============================================================================
