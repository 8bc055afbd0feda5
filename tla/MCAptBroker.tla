---------------------------- MODULE MCAptBroker ----------------------------
(* The apt broker on a small instance. *)
EXTENDS AptBroker
=============================================================================
