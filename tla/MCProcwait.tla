----------------------------- MODULE MCProcwait ------------------------------
(***************************************************************************)
(* Instances of Procwait for TLC: one command started by Run, one process  *)
(* of another parent that the init process may inherit (from then on it is *)
(* an ordinary child), and goroutines that call Wait for either of them,   *)
(* again and again.                                                        *)
(***************************************************************************)
EXTENDS Procwait
==============================================================================
