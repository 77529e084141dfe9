------------------------------- MODULE MCTracker -------------------------------
(* A forking service of one command, next to a process of another service.    *)
EXTENDS Tracker

MCPids   == {2, 3, 4}
MCCmds   == {2}
MCOthers == {4}
==============================================================================
