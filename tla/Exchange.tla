------------------------------ MODULE Exchange -------------------------------
(***************************************************************************)
(* What the control socket promises a user of systemctl, without sockets:  *)
(* the init process says what it has to say of a command, piece by piece,  *)
(* and ends it with an exit code.  The user sees the pieces in order and   *)
(* none twice, and is told the exit code only after the last of them; or   *)
(* is told that the exchange failed, at any moment.  Control.tla           *)
(* implements this.                                                        *)
(***************************************************************************)
EXTENDS Naturals

CONSTANTS
  Clients,
  Codes         \* exit codes of commands

VARIABLES
  said,         \* [Clients -> Nat], the pieces of output so far
  over,         \* [Clients -> Codes \cup {"none"}], how the command ended
  shown,        \* [Clients -> Nat], the pieces the user has seen
  told          \* [Clients -> Codes \cup {"none", "failed"}]

exchangeVars == <<said, over, shown, told>>

Init ==
  /\ said = [c \in Clients |-> 0] /\ over = [c \in Clients |-> "none"]
  /\ shown = [c \in Clients |-> 0] /\ told = [c \in Clients |-> "none"]

Say(c) ==
  /\ over[c] = "none"
  /\ said' = [said EXCEPT ![c] = @ + 1]
  /\ UNCHANGED <<over, shown, told>>

Finish(c, code) ==
  /\ over[c] = "none"
  /\ over' = [over EXCEPT ![c] = code]
  /\ UNCHANGED <<said, shown, told>>

Show(c, n) ==
  /\ told[c] = "none" /\ shown[c] + n <= said[c]
  /\ shown' = [shown EXCEPT ![c] = @ + n]
  /\ UNCHANGED <<said, over, told>>

Tell(c) ==
  /\ told[c] = "none" /\ over[c] # "none" /\ shown[c] = said[c]
  /\ told' = [told EXCEPT ![c] = over[c]]
  /\ UNCHANGED <<said, over, shown>>

Fail(c) ==
  /\ told[c] = "none"
  /\ told' = [told EXCEPT ![c] = "failed"]
  /\ UNCHANGED <<said, over, shown>>

Next ==
  \E c \in Clients :
    \/ Say(c) \/ Tell(c) \/ Fail(c)
    \/ \E code \in Codes : Finish(c, code)
    \/ \E n \in 1..said[c] : Show(c, n)

Spec == Init /\ [][Next]_exchangeVars
==============================================================================
