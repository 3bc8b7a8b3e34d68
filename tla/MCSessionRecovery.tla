------------------------- MODULE MCSessionRecovery -------------------------
(* A small instance of SessionRecovery for TLC: a session of any kind. *)
EXTENDS SessionRecovery

MCKinds == AllKinds
=============================================================================
