---------------------------- MODULE MCSctpSession ----------------------------
(* Instances of SctpSession for TLC; timeouts in seconds. *)
EXTENDS SctpSession
=============================================================================
