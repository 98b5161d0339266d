----------------------------- MODULE MCOutputs ------------------------------
(***************************************************************************)
(* An instance of Outputs for TLC: a host name that is lower-cased and     *)
(* stripped of its port, and one that is a dot segment once its port and   *)
(* its brackets are gone.                                                  *)
(***************************************************************************)
EXTENDS Outputs

MCHosts == {<<"A", ":", "a">>, <<"[", ".", ".", "]", ":", "a">>}
=============================================================================
