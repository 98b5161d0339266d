---------------------------- MODULE MCLifecycle -----------------------------
(* TLC instances of Lifecycle.                                             *)
EXTENDS Lifecycle

MCWebPorts == <<80, 443>>
=============================================================================
