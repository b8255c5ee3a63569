----------------------------- MODULE MCLifecycle -----------------------------
(***************************************************************************)
(* An instance of a service's life for TLC.                                *)
(***************************************************************************)
EXTENDS LifecycleProperties

CONSTANTS c1, c2, c3, r1, r2

ThreeConnections == {c1, c2, c3}
TwoCalls == {r1, r2}
=============================================================================
