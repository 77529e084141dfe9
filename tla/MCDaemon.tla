------------------------------ MODULE MCDaemon -------------------------------
(***************************************************************************)
(* Instances of Daemon for TLC: services a and b, clients c1 and c2, and   *)
(* for each run the set of containers it looks at.                         *)
(***************************************************************************)
EXTENDS Daemon, TLC

CONSTANTS a, b, c1, c2

\* A simple service with one ExecStart line and nothing else.
Simple ==
  [Requisite |-> {}, Requires |-> {}, BindsTo |-> {}, Wants |-> {}, Upholds |-> {}, Conflicts |-> {},
   BoundBy |-> {}, ConsistsOf |-> {}, UpheldBy |-> {}, OnFailure |-> {}, OnSuccess |-> {},
   Condition |-> <<>>, StartPre |-> <<>>, Start |-> <<FALSE>>, StartPost |-> <<>>,
   StopLines |-> FALSE, StopPostLines |-> FALSE, ReloadLine |-> FALSE,
   Restart |-> "no", RemainAfterExit |-> FALSE, StopWhenUnneeded |-> FALSE,
   SuccessPoweroff |-> FALSE, FailurePoweroff |-> FALSE]

Oneshot == [Simple EXCEPT !.RemainAfterExit = TRUE]

Always   == [Simple EXCEPT !.Restart = "always"]
Unneeded == [Simple EXCEPT !.StopWhenUnneeded = TRUE]

Scripted == [Simple EXCEPT !.StopLines = TRUE]

\* One service of interest; the others, if there are any, are plain.
Alone(u) == [d \in Daemons |-> IF d = a THEN u ELSE Simple]

\* b needs a in the ways of start(), and has every kind of line.
Linked ==
  a :> [Simple EXCEPT !.BoundBy = {b}, !.UpheldBy = {b}, !.ConsistsOf = {b}] @@
  b :> [Simple EXCEPT !.Requires = {a}, !.BindsTo = {a}, !.Upholds = {a}, !.Condition = <<FALSE>>,
                      !.StartPre = <<TRUE>>, !.StartPost = <<FALSE>>,
                      !.StopLines = TRUE, !.StopPostLines = TRUE]

\* a is bound to b and a part of it: stopped when a restart of b fails.
Binding ==
  a :> [Simple EXCEPT !.ConsistsOf = {b}, !.BindsTo = {b}] @@
  b :> [Simple EXCEPT !.Restart = "on-success", !.BoundBy = {a}]

\* a starts b when it fails to start, and so b starts a when it has started.
Hooked ==
  a :> [Simple EXCEPT !.OnFailure = {b}, !.StartPre = <<FALSE>>] @@
  b :> [Oneshot EXCEPT !.OnSuccess = {a}, !.StartPost = <<FALSE>>, !.ReloadLine = TRUE]

\* The same and no more.
Handler ==
  a :> [Simple EXCEPT !.OnFailure = {b}, !.StartPre = <<FALSE>>] @@ b :> [Simple EXCEPT !.OnSuccess = {a}]

\* a comes up only after b, and stops it.
Picky ==
  Alone([Simple EXCEPT !.Requisite = {b}, !.Requires = {b}, !.Wants = {b}, !.Conflicts = {b}])

\* a has two ExecStart lines, the first with "-", and turns the power off.
Dashed ==
  Alone([Simple EXCEPT !.Start = <<TRUE, FALSE>>, !.FailurePoweroff = TRUE, !.Restart = "on-failure"])

\* b is bound to a, and starts it first.
Bound == a :> [Simple EXCEPT !.BoundBy = {b}] @@ b :> [Simple EXCEPT !.BindsTo = {a}]

\* Which commands a client gives.
Basic      == {"start", "stop", "restart"}
One(ops)   == [c \in Clients |-> IF c = c1 THEN ops ELSE {}]
Both(x, y) == c1 :> x @@ c2 :> y

\* A container in which nothing goes wrong and one service is started.
Quiet(units) ==
  [unit |-> units, ops |-> One({"start"} \X Daemons), maxOps |-> 1, canFail |-> {}, selfExit |-> {"fail"},
   mayShutdown |-> FALSE]

\* Two clients and a service that is restarted: commands that cannot be started,
\* a log that cannot be opened.
RaceMachines ==
  LET Race == [Quiet(Alone([Simple EXCEPT !.Restart = "on-failure"])) EXCEPT !.ops = Both(Basic \X {a}, Basic \X {a})]
  IN  {[Race EXCEPT !.canFail = {"spawn"}],
       [Race EXCEPT !.ops = Both({"start", "restart"} \X {a}, {"stop", "restart"} \X {a}), !.canFail = {"log"}]}

\* Everything start() does with other services, and every failure.
FaultMachines ==
  {Quiet(Alone(Unneeded)), [Quiet(Linked) EXCEPT !.canFail = {"line", "run"}],
   [Quiet(Binding) EXCEPT !.canFail = {"env"}, !.selfExit = {"ok"}],
   [Quiet(Hooked) EXCEPT !.ops = One({"start", "stop", "restart", "reload"} \X {b} \cup {<<"start", a>>}),
      !.maxOps = 2, !.canFail = {"line"}],
   [Quiet(Picky) EXCEPT !.maxOps = 2, !.selfExit = {}],
   [Quiet(Dashed) EXCEPT !.ops = One(OpNames \X {a}), !.maxOps = 2, !.canFail = {"spawn", "log", "run"},
      !.selfExit = {"ok", "fail"}, !.mayShutdown = TRUE]}

SafetyMachines == RaceMachines \cup FaultMachines

\* Small enough for liveness: two commands for a service, or a command and
\* SIGTERM, with processes that do not end by themselves; a service that starts
\* the one it is bound to; a service that is always restarted; hooks in a ring;
\* lines that do not return.
Still == [Quiet(Alone(Simple)) EXCEPT !.ops = One(Basic \X {a}), !.selfExit = {}]

LiveMachines ==
  {[Still EXCEPT !.maxOps = 2], [Still EXCEPT !.mayShutdown = TRUE],
   Quiet(Bound), [Quiet(Alone(Always)) EXCEPT !.ops = One({"start"} \X {a})],
   [Quiet(Handler) EXCEPT !.ops = One({<<"start", a>>}), !.canFail = {"line", "run"}, !.selfExit = {},
      !.mayShutdown = TRUE],
   [Still EXCEPT !.unit = Alone(Scripted), !.canFail = {"run"}, !.mayShutdown = TRUE]}

\* One question each.
TracksMachines      == {[Quiet(Alone(Simple)) EXCEPT !.ops = One({"start", "stop"} \X {a}), !.maxOps = 3]}
TwoStartersMachines == {[Quiet(Alone(Always)) EXCEPT !.ops = Both({"start"} \X {a}, {"start"} \X {a})]}
ShutdownMachines    == {[Quiet(Alone(Simple)) EXCEPT !.selfExit = {}, !.mayShutdown = TRUE]}

\* What a reload makes of the definitions of any services (Registry.tla, Agree;
\* daemons.go:299 resolves a Requisite into Requires).
Agreeing(m) ==
  \A d, i \in Daemons :
    /\ i \in m.unit[d].BindsTo <=> d \in m.unit[i].BoundBy
    /\ i \in m.unit[d].Upholds <=> d \in m.unit[i].UpheldBy
    /\ i \in m.unit[d].OnFailure <=> d \in m.unit[i].OnSuccess
    /\ i \in m.unit[d].Requisite => i \in m.unit[d].Requires

ASSUME ReloadAssumption == \A m \in Machines : Agreeing(m)

Symmetry == Permutations(Procs) \cup Permutations(Workers)
==============================================================================
