------------------------------ MODULE MCControl ------------------------------
(***************************************************************************)
(* Instances of Control for TLC: two clients, one of which may stop        *)
(* reading, with requests of every kind and size; and one that powers off. *)
(***************************************************************************)
EXTENDS Control, TLC

CONSTANTS c1, c2

Request(kind, size) == [kind |-> kind, size |-> size]

AllJobs ==
  c1 :> {Request(kind, "short") : kind \in {"service", "manager", "poweroff", "other"}}
         \cup {Request("service", "long"), Request("service", "wrapped")} @@
  c2 :> {Request("refused", "short")}
==============================================================================
