------------------------------- MODULE Daemon --------------------------------
(***************************************************************************)
(* src/systemd/daemons/daemon.go: the life of the services.  Every         *)
(* goroutine (a systemctl command, a monitorCmds or monitorNeeded, the     *)
(* shutdown) is a thread with a stack of calls: start, stop, Restart,      *)
(* Reload, monitorCmds, monitorNeeded, StopAll.  The source holds a        *)
(* service's lock only for short sections, and reads and writes its state  *)
(* between them; a section under the lock is one action, and so is what a  *)
(* goroutine does between two points where others can get in.  The lock    *)
(* itself shows only where it is held across calls, by the loops that      *)
(* start the OnFailure and OnSuccess services.                             *)
(*                                                                         *)
(* Commands run to completion (procwait.Run) are an outcome, or do not     *)
(* return.  Waiting for a process is the exit latch of ExitLatch.tla: a    *)
(* Wait that comes after the death learns nothing.  Service types with a foreground process      *)
(* (simple, exec, idle, oneshot) are modelled; the search for the children *)
(* of forking types (lines 190-265) is not.                                *)
(***************************************************************************)
EXTENDS Naturals, Sequences

CONSTANTS
  Daemons,      \* the services
  Procs,        \* processes
  NoProc,       \* the Process field of a command that was never started
  Clients,      \* goroutines that run a systemctl command
  Workers,      \* goroutines of monitorCmds and monitorNeeded
  Main,         \* the goroutine of shutdown
  None,         \* nobody
  MaxDepth,     \* bound: nested calls of a goroutine
  Machines      \* the containers looked at, see MachineType

Threads   == Clients \cup Workers \cup {Main}
OpNames   == {"start", "stop", "restart", "reload", "status", "mask", "unmask"}
FailNames == {"env", "log", "line", "spawn", "run"}
Policies  == {"no", "always", "on-failure", "on-success"}

DepNames  == {"Requisite", "Requires", "BindsTo", "Wants", "Upholds", "Conflicts"}
LineNames == {"Condition", "StartPre", "Start", "StartPost"}

\* daemondef after loading.  A line is TRUE if it begins with "-".  RemainAfterExit
\* is set for a oneshot service (line 499); StopLines and StopPostLines say
\* whether there are ExecStopPre or ExecStop, and ExecStopPost, lines.
UnitType ==
  [Requisite : SUBSET Daemons, Requires : SUBSET Daemons, BindsTo : SUBSET Daemons,
   Wants : SUBSET Daemons, Upholds : SUBSET Daemons, Conflicts : SUBSET Daemons,
   BoundBy : SUBSET Daemons, ConsistsOf : SUBSET Daemons, UpheldBy : SUBSET Daemons,
   OnFailure : SUBSET Daemons, OnSuccess : SUBSET Daemons,
   Condition : Seq(BOOLEAN), StartPre : Seq(BOOLEAN), Start : Seq(BOOLEAN), StartPost : Seq(BOOLEAN),
   StopLines : BOOLEAN, StopPostLines : BOOLEAN, ReloadLine : BOOLEAN,
   Restart : Policies, RemainAfterExit : BOOLEAN, StopWhenUnneeded : BOOLEAN,
   SuccessPoweroff : BOOLEAN, FailurePoweroff : BOOLEAN]

\* What is given from outside and stays: the loaded definitions, the commands of
\* each client and their number, what can go wrong, the statuses with which a
\* process may end by itself, and whether SIGTERM may arrive.
MachineType ==
  [unit : [Daemons -> UnitType], ops : [Clients -> SUBSET (OpNames \X Daemons)], maxOps : Nat,
   canFail : SUBSET FailNames, selfExit : SUBSET {"ok", "fail"}, mayShutdown : BOOLEAN]

ASSUME MachineAssumption == Machines \subseteq MachineType

ASSUME ThreadAssumption ==
  /\ None \notin Threads \X {"OnFailure", "OnSuccess"}
  /\ NoProc \notin Procs
  /\ Main \notin Clients \cup Workers
  /\ Clients \cap Workers = {}
  /\ Daemons # {}

ASSUME DepthAssumption == MaxDepth \in Nat

\* The steps of start() in the order of the source.  Each is repeated for its
\* lines or its services, behind a check for shutdown and for a stop.
Rank == [Clean |-> 1, Prepare |-> 2, Condition |-> 3, Requisite |-> 4, Requires |-> 5, BindsTo |-> 6,
         Wants |-> 7, Upholds |-> 8, Conflicts |-> 9, StartPre |-> 10, Start |-> 11, StartPost |-> 12,
         Finish |-> 13]
Steps == DOMAIN Rank

VARIABLES
  machine,    \* a member of Machines; never changes
  state,      \* DaemonState
  failed,     \* stateError # nil
  isMasked,
  isManual,
  cmds,       \* daemon.cmds: the processes of the service
  lock,       \* who holds the daemon's lock across calls, and for which hooks, or None
  proc,       \* kernel: "free", "alive", "termed" and "killed" (alive, signalled), or how it ended
  cur,        \* the innermost call of a thread
  callers,    \* the calls it is nested in, the nearest first
  left,       \* commands a client may still give
  linked,     \* the symbolic link that Mask makes exists
  shutdown,   \* daemons.shutdown
  power,      \* a poweroff command ran
  world       \* the init process: "up", "exited" or "panicked"

service == <<state, failed, isMasked, isManual, cmds, lock>>
stacks  == <<cur, callers>>
outside == <<machine, left, linked, shutdown, power, world>>
vars    == <<service, proc, stacks, outside>>

Unit    == machine.unit
CanFail == machine.canFail

States == {"Stopped", "Starting", "Running", "Stopping", "Restarting"}
Fns    == {"idle", "start", "stop", "restart", "reload", "monitor", "needed", "stopall"}
Pcs    == {"begin", "claim", "flag", "abort", "act", "after", "fail", "hooks", "lines", "term", "post",
           "poll", "end", "tail", "hup", "attach", "await", "clear", "decide", "uphold", "settle",
           "sleep", "restarted", "bound", "part", "next", "ask", "blocked"}

\* A call: the function, where it is, its service and argument, the step of
\* start() and what is left of it, the commands a start or a monitor holds,
\* and an error it carries.
Frame == [fn : Fns, pc : Pcs, d : Daemons, arg : BOOLEAN, ph : Steps, items : SUBSET Daemons,
          line : Nat, mine : Seq(Procs \cup {NoProc}), bad : BOOLEAN]

Frame0(fn, d, arg) ==
  [fn |-> fn, pc |-> "begin", d |-> d, arg |-> arg, ph |-> "Clean", items |-> {}, line |-> 1,
   mine |-> <<>>, bad |-> FALSE]

\* A thread that does nothing; a client keeps the error of its last command.
Idle(err) == [Frame0("idle", CHOOSE d \in Daemons : TRUE, FALSE) EXCEPT !.bad = err]

TypeOK ==
  /\ machine \in Machines
  /\ state \in [Daemons -> States]
  /\ failed \in [Daemons -> BOOLEAN]
  /\ isMasked \in [Daemons -> BOOLEAN]
  /\ isManual \in [Daemons -> BOOLEAN]
  /\ cmds \in [Daemons -> Seq(Procs \cup {NoProc})]
  /\ lock \in [Daemons -> (Threads \X {"OnFailure", "OnSuccess"}) \cup {None}]
  /\ proc \in [Procs -> {"free", "alive", "termed", "killed", "ok", "fail"}]
  /\ cur \in [Threads -> Frame]
  /\ callers \in [Threads -> Seq(Frame)]
  /\ left \in [Clients -> Nat]
  /\ linked \in BOOLEAN /\ shutdown \in BOOLEAN /\ power \in BOOLEAN
  /\ world \in {"up", "exited", "panicked"}

Init ==
  /\ machine \in Machines
  /\ state = [d \in Daemons |-> "Stopped"]
  /\ failed = [d \in Daemons |-> FALSE]
  /\ isMasked = [d \in Daemons |-> FALSE]
  /\ isManual = [d \in Daemons |-> FALSE]
  /\ cmds = [d \in Daemons |-> <<>>]
  /\ lock = [d \in Daemons |-> None]
  /\ proc = [p \in Procs |-> "free"]
  /\ cur = [t \in Threads |-> Idle(FALSE)]
  /\ callers = [t \in Threads |-> <<>>]
  /\ left = [c \in Clients |-> machine.maxOps]
  /\ linked = FALSE /\ shutdown = FALSE /\ power = FALSE
  /\ world = "up"

------------------------------------------------------------------------------
(* Calls and processes.                                                     *)

\* Thread t is at pc of fn, and the init process is up.
At(t, fn, pc) == world = "up" /\ cur[t].fn = fn /\ cur[t].pc = pc

Goto(t, f) == cur' = [cur EXCEPT ![t] = f] /\ UNCHANGED callers

\* f is the caller's frame, as it will go on; the callee's error goes to f.bad.
Call(t, f, callee) ==
  /\ Len(callers[t]) < MaxDepth
  /\ cur' = [cur EXCEPT ![t] = callee]
  /\ callers' = [callers EXCEPT ![t] = <<f>> \o @]

Below(t, err) ==
  IF callers[t] = <<>> THEN Idle(err /\ t \in Clients) ELSE [Head(callers[t]) EXCEPT !.bad = err]
Popped(t) == [callers EXCEPT ![t] = IF @ = <<>> THEN <<>> ELSE Tail(@)]

Return(t, err) == cur' = [cur EXCEPT ![t] = Below(t, err)] /\ callers' = Popped(t)

\* The lock of d can be taken: nobody holds it across a call, not even t itself.
Free(d) == lock[d] = None

ProcSet(s) == {s[i] : i \in DOMAIN s} \ {NoProc}

\* procwait.Is: the process is there.
Is(p) == p \in Procs /\ proc[p] \in {"alive", "termed", "killed"}

\* A nil Process is dereferenced: the init process is gone.
Panic ==
  /\ world' = "panicked"
  /\ UNCHANGED <<service, proc, stacks, left, linked, shutdown, power, machine>>

\* A process nobody waits for or knows has left its pid to others.
Forgotten(p) ==
  /\ \A d \in Daemons : p \notin ProcSet(cmds[d])
  /\ \A t \in Threads : /\ p \notin ProcSet(cur[t].mine)
                        /\ \A i \in DOMAIN callers[t] : p \notin ProcSet(callers[t][i].mine)

Signal(ps, from, to) == proc' = [p \in Procs |-> IF p \in ps /\ proc[p] \in from THEN to ELSE proc[p]]
------------------------------------------------------------------------------
(* start(isManual).                                                         *)

StartBegin(t) ==
  /\ At(t, "start", "begin")
  /\ IF shutdown THEN Return(t, TRUE) ELSE Goto(t, [cur[t] EXCEPT !.pc = "claim"])
  /\ UNCHANGED <<service, proc, outside>>

\* Lines 424-502, under the lock.
StartClaim(t) ==
  LET f == cur[t]
      d == f.d
  IN  /\ At(t, "start", "claim") /\ Free(d)
      /\ \/ /\ state[d] \in {"Starting", "Stopping"}
            /\ Return(t, FALSE)
            /\ UNCHANGED <<state, isManual>>
         \/ /\ state[d] \notin {"Starting", "Stopping"} /\ isMasked[d]
            /\ Return(t, TRUE)
            /\ UNCHANGED <<state, isManual>>
         \/ /\ state[d] = "Running" /\ ~isMasked[d]
            /\ isManual' = [isManual EXCEPT ![d] = @ \/ f.arg]
            /\ Return(t, FALSE)
            /\ UNCHANGED state
         \/ /\ state[d] \in {"Stopped", "Restarting"} /\ ~isMasked[d]
            /\ isManual' = [isManual EXCEPT ![d] = @ \/ f.arg]
            /\ state' = [state EXCEPT ![d] = IF @ = "Restarting" THEN @ ELSE "Starting"]
            /\ Goto(t, [f EXCEPT !.pc = "flag", !.ph = "Clean"])
      /\ UNCHANGED <<failed, isMasked, cmds, lock, proc, outside>>

\* startCheckAbortState: shutdown, then the state under the lock.
StartFlag(t) ==
  /\ At(t, "start", "flag")
  /\ IF shutdown THEN Return(t, TRUE) ELSE Goto(t, [cur[t] EXCEPT !.pc = "abort"])
  /\ UNCHANGED <<service, proc, outside>>

StartAbort(t) ==
  /\ At(t, "start", "abort") /\ Free(cur[t].d)
  /\ IF state[cur[t].d] = "Stopping"
     THEN Return(t, TRUE)
     ELSE Goto(t, [cur[t] EXCEPT !.pc = "act"])
  /\ UNCHANGED <<service, proc, outside>>

AtStep(t, step) == At(t, "start", "act") /\ cur[t].ph = step

\* A step has something to do for d.
HasWork(d, step) ==
  CASE step \in DepNames -> Unit[d][step] # {}
    [] step \in LineNames -> Unit[d][step] # <<>>
    [] OTHER -> TRUE

IsNext(d, step, next) ==
  /\ Rank[next] > Rank[step] /\ HasWork(d, next)
  /\ \A s \in Steps : Rank[step] < Rank[s] /\ Rank[s] < Rank[next] => ~HasWork(d, s)

Enter(f, step) ==
  [f EXCEPT !.ph = step, !.pc = IF step = "Finish" THEN "end" ELSE "flag", !.line = 1,
            !.items = IF step \in DepNames THEN Unit[f.d][step] ELSE {}]

\* The next line or service of the step of frame f, or the next step.
MoreLines(f) == f.ph \in LineNames /\ f.line < Len(Unit[f.d][f.ph])
Proceed(t, f) ==
  \/ f.items # {} /\ Goto(t, [f EXCEPT !.pc = "flag"])
  \/ MoreLines(f) /\ Goto(t, [f EXCEPT !.pc = "flag", !.line = @ + 1])
  \/ /\ f.items = {} /\ ~MoreLines(f)
     /\ \E step \in Steps : IsNext(f.d, f.ph, step) /\ Goto(t, Enter(f, step))

\* err := d.stop(false); the error is looked at in Prepare.
StartClean(t) ==
  /\ AtStep(t, "Clean")
  /\ Call(t, Enter(cur[t], "Prepare"), Frame0("stop", cur[t].d, FALSE))
  /\ UNCHANGED <<service, proc, outside>>

\* Lines 510-571: environment files, user, group, the log.
StartPrepare(t) ==
  LET d == cur[t].d
  IN  /\ AtStep(t, "Prepare") /\ Free(d)
      /\ \/ /\ cur[t].bad \/ "log" \in CanFail
            /\ state' = [state EXCEPT ![d] = "Stopped"]
            /\ failed' = [failed EXCEPT ![d] = TRUE]
            /\ Return(t, TRUE)
         \/ /\ ~cur[t].bad /\ "env" \in CanFail
            /\ failed' = [failed EXCEPT ![d] = FALSE]
            /\ Return(t, TRUE)
            /\ UNCHANGED state
         \/ /\ ~cur[t].bad
            /\ failed' = [failed EXCEPT ![d] = FALSE]
            /\ Proceed(t, cur[t])
            /\ UNCHANGED state
      /\ UNCHANGED <<isMasked, isManual, cmds, lock, proc, outside>>

StartCondition(t) ==
  LET d == cur[t].d
  IN  /\ AtStep(t, "Condition")
      /\ \/ Proceed(t, cur[t]) /\ UNCHANGED <<state, failed>>
         \/ /\ "line" \in CanFail /\ Free(d)
            /\ state' = [state EXCEPT ![d] = "Stopped"]
            /\ failed' = [failed EXCEPT ![d] = FALSE]
            /\ Return(t, FALSE)
      /\ UNCHANGED <<isMasked, isManual, cmds, lock, proc, outside>>

StartRequisite(t, i) ==
  /\ AtStep(t, "Requisite") /\ i \in cur[t].items /\ Free(i)
  /\ IF state[i] = "Running"
     THEN Proceed(t, [cur[t] EXCEPT !.items = @ \ {i}])
     ELSE Goto(t, [cur[t] EXCEPT !.pc = "fail"])
  /\ UNCHANGED <<service, proc, outside>>

\* Requires, BindsTo, Wants, Upholds start the other service; Conflicts stops it.
StartDependency(t, i) ==
  /\ At(t, "start", "act") /\ cur[t].ph \in DepNames \ {"Requisite"} /\ i \in cur[t].items
  /\ Call(t, [cur[t] EXCEPT !.items = @ \ {i}, !.pc = "after"],
          IF cur[t].ph = "Conflicts" THEN Frame0("stop", i, TRUE) ELSE Frame0("start", i, FALSE))
  /\ UNCHANGED <<service, proc, outside>>

StartAfterDependency(t) ==
  /\ At(t, "start", "after")
  /\ IF cur[t].bad /\ cur[t].ph \in {"Requires", "BindsTo", "Conflicts"}
     THEN Goto(t, [cur[t] EXCEPT !.pc = "fail"])
     ELSE Proceed(t, [cur[t] EXCEPT !.bad = FALSE])
  /\ UNCHANGED <<service, proc, outside>>

\* The current line begins with "-": its failure does not matter.
Dash(f) == Unit[f.d][f.ph][f.line]

\* ExecStartPre and ExecStartPost lines.
StartLine(t) ==
  LET f == cur[t]
  IN  /\ At(t, "start", "act") /\ f.ph \in {"StartPre", "StartPost"}
      /\ \/ Proceed(t, f)
         \/ /\ "line" \in CanFail /\ ~Dash(f)
            /\ Call(t, [f EXCEPT !.pc = "fail"], Frame0("stop", f.d, TRUE))
      /\ UNCHANGED <<service, proc, outside>>

\* Variant: a line without "-" that cannot be started does not end start().
StartExecGoesOn(t) ==
  /\ AtStep(t, "Start")
  /\ \/ \E p \in Procs :
          /\ ~Is(p) /\ Forgotten(p)
          /\ proc' = [proc EXCEPT ![p] = "alive"]
          /\ Proceed(t, [cur[t] EXCEPT !.mine = Append(@, p)])
     \/ /\ "spawn" \in CanFail
        /\ Proceed(t, [cur[t] EXCEPT !.mine = Append(@, NoProc)])
        /\ UNCHANGED proc
  /\ UNCHANGED <<service, outside>>

\* An ExecStart line: cmd.Start.
StartExec(t) ==
  LET f == cur[t]
  IN  /\ AtStep(t, "Start")
      /\ \/ \E p \in Procs :
              /\ ~Is(p) /\ Forgotten(p)
              /\ proc' = [proc EXCEPT ![p] = "alive"]
              /\ Proceed(t, [f EXCEPT !.mine = Append(@, p)])
         \/ /\ "spawn" \in CanFail /\ Dash(f)
            /\ Proceed(t, [f EXCEPT !.mine = Append(@, NoProc)])
            /\ UNCHANGED proc
         \/ /\ "spawn" \in CanFail /\ ~Dash(f)
            /\ Call(t, [f EXCEPT !.pc = "fail"], Frame0("stop", f.d, TRUE))
            /\ UNCHANGED proc
      /\ UNCHANGED <<service, outside>>

\* The fatal exits.  The Requisite exit returns the err of line 506: nil.
FailErr(f) == f.ph # "Requisite"

StartFail(t) ==
  LET f == cur[t]
      d == f.d
  IN  /\ At(t, "start", "fail") /\ Free(d)
      /\ state' = [state EXCEPT ![d] = "Stopped"]
      /\ failed' = [failed EXCEPT ![d] = TRUE]
      /\ \/ /\ Unit[d].OnFailure = {}
            /\ Return(t, FailErr(f))
            /\ UNCHANGED lock
         \/ /\ Unit[d].OnFailure # {}
            /\ lock' = [lock EXCEPT ![d] = <<t, "OnFailure">>]
            /\ Goto(t, [f EXCEPT !.pc = "hooks", !.items = Unit[d].OnFailure])
      /\ UNCHANGED <<isMasked, isManual, cmds, proc, outside>>

\* Lines 816-818: the commands are published and a goroutine watches them.
Publish(t) ==
  LET f == cur[t]
  IN  \E w \in Workers :
        /\ cur[w].fn = "idle"
        /\ cmds' = [cmds EXCEPT ![f.d] = f.mine]
        /\ cur' = [cur EXCEPT ![t] = Below(t, FALSE), ![w] = Frame0("monitor", f.d, FALSE)]
        /\ callers' = Popped(t)

\* Lines 808-819, under the lock.
StartFinish(t) ==
  LET f == cur[t]
      d == f.d
  IN  /\ At(t, "start", "end") /\ Free(d)
      /\ \/ /\ state[d] = "Stopping"
            /\ Return(t, TRUE)
            /\ UNCHANGED <<state, failed, cmds, lock>>
         \/ /\ state[d] # "Stopping"
            /\ state' = [state EXCEPT ![d] = "Running"]
            /\ failed' = [failed EXCEPT ![d] = FALSE]
            /\ \/ Unit[d].OnSuccess = {} /\ Publish(t) /\ UNCHANGED lock
               \/ /\ Unit[d].OnSuccess # {}
                  /\ lock' = [lock EXCEPT ![d] = <<t, "OnSuccess">>]
                  /\ Goto(t, [f EXCEPT !.pc = "hooks", !.items = Unit[d].OnSuccess])
                  /\ UNCHANGED cmds
      /\ UNCHANGED <<isMasked, isManual, proc, outside>>

\* runOnFailure and runOnSuccess, with the lock of the service held.
StartHook(t, i) ==
  /\ At(t, "start", "hooks") /\ i \in cur[t].items
  /\ Call(t, [cur[t] EXCEPT !.items = @ \ {i}], Frame0("start", i, FALSE))
  /\ UNCHANGED <<service, proc, outside>>

StartHooked(t) ==
  LET f == cur[t]
  IN  /\ At(t, "start", "hooks") /\ f.items = {}
      /\ lock' = [lock EXCEPT ![f.d] = None]
      /\ \/ f.ph = "Finish" /\ lock[f.d] = <<t, "OnSuccess">> /\ Publish(t)
         \/ /\ f.ph # "Finish" /\ lock[f.d] = <<t, "OnFailure">>
            /\ Return(t, FailErr(f)) /\ UNCHANGED cmds
      /\ UNCHANGED <<state, failed, isMasked, isManual, proc, outside>>

StartStep(t) ==
  \/ StartBegin(t) \/ StartClaim(t) \/ StartFlag(t) \/ StartAbort(t)
  \/ StartClean(t) \/ StartPrepare(t) \/ StartCondition(t)
  \/ StartAfterDependency(t) \/ StartLine(t) \/ StartExec(t)
  \/ StartFail(t) \/ StartFinish(t) \/ StartHooked(t)
  \/ \E i \in Daemons : StartRequisite(t, i) \/ StartDependency(t, i) \/ StartHook(t, i)

------------------------------------------------------------------------------
(* stop(printStopping).                                                     *)

StopBegin(t) ==
  LET f == cur[t]
      d == f.d
  IN  /\ At(t, "stop", "begin") /\ Free(d)
      /\ \/ isMasked[d] /\ Return(t, TRUE) /\ UNCHANGED <<state, failed>>
         \/ /\ ~isMasked[d]
            /\ state' = [state EXCEPT ![d] = IF @ = "Restarting" /\ ~f.arg THEN @ ELSE "Stopping"]
            /\ \/ Goto(t, [f EXCEPT !.pc = "lines"]) /\ UNCHANGED failed
               \/ /\ "log" \in CanFail
                  /\ failed' = [failed EXCEPT ![d] = TRUE]
                  /\ Return(t, TRUE)
      /\ UNCHANGED <<isMasked, isManual, cmds, lock, proc, outside>>

\* A group of stop lines runs; a line that fails is recorded, no more.
StopLines(t, pc, some, next) ==
  LET d == cur[t].d
  IN  /\ At(t, "stop", pc)
      /\ \/ UNCHANGED failed
         \/ some /\ "line" \in CanFail /\ Free(d) /\ failed' = [failed EXCEPT ![d] = TRUE]
      /\ Goto(t, [cur[t] EXCEPT !.pc = next])
      /\ UNCHANGED <<state, isMasked, isManual, cmds, lock, proc, outside>>

StopPreLines(t)  == StopLines(t, "lines", Unit[cur[t].d].StopLines, "term")
StopPostLines(t) == StopLines(t, "post", Unit[cur[t].d].StopPostLines, "poll")

StopTerm(t) ==
  /\ At(t, "stop", "term") /\ Free(cur[t].d)
  /\ Signal(ProcSet(cmds[cur[t].d]), {"alive"}, "termed")
  /\ Goto(t, [cur[t] EXCEPT !.pc = "post"])
  /\ UNCHANGED <<service, outside>>

\* The poll of lines 919-925 stops at the first process that is there; a nil
\* Process before it is dereferenced.
Blocking(s)   == \E i \in DOMAIN s : Is(s[i]) /\ \A j \in 1..i : s[j] # NoProc
NilReached(s) == \E i \in DOMAIN s : s[i] = NoProc /\ \A j \in 1..(i - 1) : s[j] # NoProc /\ ~Is(s[j])

\* Variant: the poll has no timeout.
StopPollForever(t) ==
  LET d == cur[t].d
  IN  /\ At(t, "stop", "poll") /\ Free(d)
      /\ ~Blocking(cmds[d])
      /\ Goto(t, [cur[t] EXCEPT !.pc = "end"])
      /\ UNCHANGED <<service, proc, outside>>

\* Variant: a stop whose time is over returns, and kills nothing.
StopPollGivesUp(t) ==
  LET d == cur[t].d
  IN  /\ At(t, "stop", "poll") /\ Free(d)
      /\ IF Blocking(cmds[d]) THEN Return(t, TRUE) ELSE Goto(t, [cur[t] EXCEPT !.pc = "end"])
      /\ UNCHANGED <<service, proc, outside>>

\* Lines 914-933: all gone, or the timeout is over.
StopPoll(t) ==
  LET d == cur[t].d
  IN  /\ At(t, "stop", "poll") /\ Free(d)
      /\ \/ NilReached(cmds[d]) /\ Panic
         \/ /\ ~NilReached(cmds[d])
            /\ Goto(t, [cur[t] EXCEPT !.pc = "end", !.bad = Blocking(cmds[d])])
            /\ UNCHANGED <<service, proc, outside>>

\* Variant: a restart keeps its state through the stop of the old run.
StopEndKeeps(t) ==
  LET d == cur[t].d
  IN  /\ At(t, "stop", "end") /\ Free(d)
      /\ state' = [state EXCEPT ![d] = IF @ = "Restarting" THEN @ ELSE "Stopped"]
      /\ failed' = [failed EXCEPT ![d] = @ \/ cur[t].bad]
      /\ Signal(IF cur[t].bad THEN ProcSet(cmds[d]) ELSE {}, {"alive", "termed"}, "killed")
      /\ Return(t, FALSE)
      /\ UNCHANGED <<isMasked, isManual, cmds, lock, outside>>

\* Variant: a stop that needed SIGKILL leaves a state of its own.
StopEndKilled(t) ==
  LET d == cur[t].d
  IN  /\ At(t, "stop", "end") /\ Free(d)
      /\ state' = [state EXCEPT ![d] = IF cur[t].bad THEN "Killed" ELSE "Stopped"]
      /\ failed' = [failed EXCEPT ![d] = @ \/ cur[t].bad]
      /\ Signal(IF cur[t].bad THEN ProcSet(cmds[d]) ELSE {}, {"alive", "termed"}, "killed")
      /\ Return(t, FALSE)
      /\ UNCHANGED <<isMasked, isManual, cmds, lock, outside>>

\* Variant: SIGTERM again, for as long as it takes, and no SIGKILL.
StopEndAgain(t) ==
  LET d == cur[t].d
  IN  /\ At(t, "stop", "end") /\ Free(d)
      /\ IF cur[t].bad
         THEN Goto(t, [cur[t] EXCEPT !.pc = "term", !.bad = FALSE]) /\ UNCHANGED state
         ELSE Return(t, FALSE) /\ state' = [state EXCEPT ![d] = "Stopped"]
      /\ UNCHANGED <<failed, isMasked, isManual, cmds, lock, proc, outside>>

StopEnd(t) ==
  LET d == cur[t].d
  IN  /\ At(t, "stop", "end") /\ Free(d)
      /\ state' = [state EXCEPT ![d] = "Stopped"]
      /\ failed' = [failed EXCEPT ![d] = @ \/ cur[t].bad]
      /\ Signal(IF cur[t].bad THEN ProcSet(cmds[d]) ELSE {}, {"alive", "termed"}, "killed")
      /\ Return(t, FALSE)
      /\ UNCHANGED <<isMasked, isManual, cmds, lock, outside>>

StopStep(t) ==
  \/ StopBegin(t) \/ StopPreLines(t) \/ StopTerm(t) \/ StopPostLines(t) \/ StopPoll(t) \/ StopEnd(t)
------------------------------------------------------------------------------
(* monitorCmds.  It takes no lock: states are read and written as they are. *)

\* Line 183 reads d.cmds; "go d.monitorNeeded()" matters only to a service with
\* StopWhenUnneeded.
MonitorBegin(t) ==
  LET f == [cur[t] EXCEPT !.pc = "attach", !.mine = cmds[cur[t].d]]
  IN  /\ At(t, "monitor", "begin")
      /\ \/ /\ ~Unit[f.d].StopWhenUnneeded
            /\ Goto(t, f)
         \/ /\ Unit[f.d].StopWhenUnneeded
            /\ \E w \in Workers :
                 /\ cur[w].fn = "idle"
                 /\ cur' = [cur EXCEPT ![t] = f, ![w] = Frame0("needed", f.d, FALSE)]
            /\ UNCHANGED callers
      /\ UNCHANGED <<service, proc, outside>>

\* The line-th command: Wait hooks onto the process or, too late, learns nothing.
MonitorAttach(t) ==
  LET f == cur[t]
      p == f.mine[f.line]
  IN  /\ At(t, "monitor", "attach")
      /\ \/ /\ f.line > Len(f.mine)
            /\ Goto(t, [f EXCEPT !.pc = "clear"])
            /\ UNCHANGED <<service, proc, outside>>
         \/ f.line <= Len(f.mine) /\ p = NoProc /\ Panic
         \/ /\ f.line <= Len(f.mine) /\ p # NoProc
            /\ Goto(t, IF Is(p) THEN [f EXCEPT !.pc = "await"] ELSE [f EXCEPT !.line = @ + 1])
            /\ UNCHANGED <<service, proc, outside>>

MonitorAwait(t) ==
  LET f == cur[t]
      p == f.mine[f.line]
  IN  /\ At(t, "monitor", "await") /\ ~Is(p)
      /\ Goto(t, [f EXCEPT !.pc = "attach", !.line = @ + 1, !.bad = @ \/ proc[p] = "fail"])
      /\ UNCHANGED <<service, proc, outside>>

\* d.cmds = []*exec.Cmd{}
MonitorClear(t) ==
  /\ At(t, "monitor", "clear")
  /\ cmds' = [cmds EXCEPT ![cur[t].d] = <<>>]
  /\ Goto(t, [cur[t] EXCEPT !.pc = "decide", !.mine = <<>>])
  /\ UNCHANGED <<state, failed, isMasked, isManual, lock, proc, outside>>

\* Lines 267-287.  arg: the restart policy is overruled by an upholder.
MonitorDecide(t) ==
  LET f == cur[t]
      poweroff == IF f.bad THEN Unit[f.d].FailurePoweroff ELSE Unit[f.d].SuccessPoweroff
  IN  /\ At(t, "monitor", "decide")
      /\ \/ /\ poweroff
            /\ power' = TRUE
            /\ Return(t, FALSE)
         \/ /\ ~poweroff /\ state[f.d] \in {"Stopped", "Stopping", "Restarting"}
            /\ Goto(t, [f EXCEPT !.pc = "settle"])
            /\ UNCHANGED power
         \/ /\ ~poweroff /\ state[f.d] \in {"Starting", "Running"}
            /\ Goto(t, [f EXCEPT !.pc = "uphold", !.items = Unit[f.d].UpheldBy])
            /\ UNCHANGED power
      /\ UNCHANGED <<service, proc, left, linked, shutdown, world, machine>>

MonitorUphold(t, i) ==
  /\ At(t, "monitor", "uphold") /\ i \in cur[t].items /\ Free(i)
  /\ Goto(t, [cur[t] EXCEPT !.items = @ \ {i}, !.arg = @ \/ state[i] = "Running"])
  /\ UNCHANGED <<service, proc, outside>>

\* Variant: the dependents are stopped before the state is written.
DownUnmarked(t) ==
  /\ UNCHANGED state
  /\ isManual' = [isManual EXCEPT ![cur[t].d] = FALSE]
  /\ Goto(t, [cur[t] EXCEPT !.pc = "bound", !.items = Unit[cur[t].d].BoundBy])

\* Variant: the services bound to this one are passed over.
DownPartsOnly(t) ==
  /\ state' = [state EXCEPT ![cur[t].d] = "Stopped"]
  /\ isManual' = [isManual EXCEPT ![cur[t].d] = FALSE]
  /\ Goto(t, [cur[t] EXCEPT !.pc = "part", !.items = Unit[cur[t].d].ConsistsOf])

\* The service is down for good: state, isManual, and then handleStopDeps.
Down(t) ==
  /\ state' = [state EXCEPT ![cur[t].d] = "Stopped"]
  /\ isManual' = [isManual EXCEPT ![cur[t].d] = FALSE]
  /\ Goto(t, [cur[t] EXCEPT !.pc = "bound", !.items = Unit[cur[t].d].BoundBy])

\* Variant: the state is not written before the sleep.
AgainUnmarked(t) ==
  /\ UNCHANGED <<state, isManual>>
  /\ Goto(t, [cur[t] EXCEPT !.pc = "sleep"])

Again(t) ==
  /\ state' = [state EXCEPT ![cur[t].d] = "Restarting"]
  /\ Goto(t, [cur[t] EXCEPT !.pc = "sleep"])
  /\ UNCHANGED isManual

Leave(t) == Return(t, FALSE) /\ UNCHANGED <<state, isManual>>

\* The switch of lines 291-375, up to the sleep.
MonitorApply(t, policy) ==
  LET f == cur[t]
      d == f.d
      stays == Unit[d].RemainAfterExit
  IN  /\ \/ /\ policy = "always"
            /\ Again(t) /\ UNCHANGED failed
         \/ /\ policy = "on-failure"
            /\ failed' = [failed EXCEPT ![d] = f.bad]
            /\ \/ f.bad /\ Again(t)
               \/ ~f.bad /\ ~stays /\ Down(t)
               \/ ~f.bad /\ stays /\ Leave(t)
         \/ /\ policy = "on-success"
            /\ failed' = [failed EXCEPT ![d] = f.bad]
            /\ \/ ~f.bad /\ ~stays /\ Again(t)
               \/ f.bad /\ Down(t)
               \/ ~f.bad /\ stays /\ Leave(t)
         \/ /\ policy = "no"
            /\ failed' = [failed EXCEPT ![d] = @ \/ f.bad]
            /\ \/ (~stays \/ failed'[d]) /\ Down(t)
               \/ stays /\ ~failed'[d] /\ Leave(t)
      /\ UNCHANGED <<isMasked, cmds, lock, proc, outside>>

MonitorSettle(t) ==
  \/ At(t, "monitor", "settle") /\ MonitorApply(t, "no")
  \/ /\ At(t, "monitor", "uphold") /\ cur[t].items = {}
     /\ MonitorApply(t, IF cur[t].arg THEN "always" ELSE Unit[cur[t].d].Restart)

\* Variant: the sleeper goes on only with a service that is still Running.
MonitorWakeRunning(t) ==
  LET f == cur[t]
      d == f.d
  IN  /\ At(t, "monitor", "sleep")
      /\ IF shutdown \/ state[d] # "Running"
         THEN Return(t, FALSE)
         ELSE Call(t, [f EXCEPT !.pc = "restarted"], Frame0("start", d, isManual[d]))
      /\ UNCHANGED <<service, proc, outside>>

\* RestartSleep is over.  Only the "always" branch clears stateError.
MonitorWake(t) ==
  LET f == cur[t]
      d == f.d
      always == f.arg \/ Unit[d].Restart = "always"
  IN  /\ At(t, "monitor", "sleep")
      /\ IF shutdown \/ state[d] = "Stopped"
         THEN Return(t, FALSE) /\ UNCHANGED failed
         ELSE /\ Call(t, [f EXCEPT !.pc = "restarted"], Frame0("start", d, isManual[d]))
              /\ failed' = [failed EXCEPT ![d] = @ /\ ~always]
      /\ UNCHANGED <<state, isMasked, isManual, cmds, lock, proc, outside>>

\* A failed restart stops the dependents under "on-success" only.
MonitorRestarted(t) ==
  LET f == cur[t]
  IN  /\ At(t, "monitor", "restarted")
      /\ IF f.bad /\ ~f.arg /\ Unit[f.d].Restart = "on-success"
         THEN Goto(t, [f EXCEPT !.pc = "bound", !.items = Unit[f.d].BoundBy])
         ELSE Return(t, FALSE)
      /\ UNCHANGED <<service, proc, outside>>

\* handleStopDeps: BoundBy, then ConsistsOf.
MonitorStopDep(t, i) ==
  /\ At(t, "monitor", "bound") \/ At(t, "monitor", "part")
  /\ i \in cur[t].items
  /\ Call(t, [cur[t] EXCEPT !.items = @ \ {i}], Frame0("stop", i, TRUE))
  /\ UNCHANGED <<service, proc, outside>>

MonitorStopDepsDone(t) ==
  LET f == cur[t]
  IN  /\ f.items = {}
      /\ \/ At(t, "monitor", "bound") /\ Goto(t, [f EXCEPT !.pc = "part", !.items = Unit[f.d].ConsistsOf])
         \/ At(t, "monitor", "part") /\ Return(t, FALSE)
      /\ UNCHANGED <<service, proc, outside>>

MonitorStep(t) ==
  \/ MonitorBegin(t) \/ MonitorAttach(t) \/ MonitorAwait(t) \/ MonitorClear(t) \/ MonitorDecide(t)
  \/ MonitorSettle(t) \/ MonitorWake(t) \/ MonitorRestarted(t) \/ MonitorStopDepsDone(t)
  \/ \E i \in Daemons : MonitorUphold(t, i) \/ MonitorStopDep(t, i)

------------------------------------------------------------------------------
(* monitorNeeded, for a service with StopWhenUnneeded: the loops over those *)
(* that need it have no effect (their "continue" is the inner loop's).      *)

NeededTick(t) ==
  LET d == cur[t].d
  IN  /\ At(t, "needed", "begin") /\ Free(d)
      /\ IF state[d] = "Stopped"
         THEN Return(t, FALSE)
         ELSE Call(t, [cur[t] EXCEPT !.pc = "end"], Frame0("stop", d, TRUE))
      /\ UNCHANGED <<service, proc, outside>>

NeededEnd(t) ==
  /\ At(t, "needed", "end")
  /\ Return(t, FALSE)
  /\ UNCHANGED <<service, proc, outside>>

NeededStep(t) == NeededTick(t) \/ NeededEnd(t)

------------------------------------------------------------------------------
(* Restart, Reload.                                                         *)

RestartBegin(t) ==
  LET d == cur[t].d
  IN  /\ At(t, "restart", "begin") /\ Free(d)
      /\ IF isMasked[d] \/ state[d] \in {"Restarting", "Stopping", "Starting"}
         THEN Return(t, TRUE) /\ UNCHANGED state
         ELSE /\ state' = [state EXCEPT ![d] = "Restarting"]
              /\ Call(t, [cur[t] EXCEPT !.pc = "tail"], Frame0("stop", d, TRUE))
      /\ UNCHANGED <<failed, isMasked, isManual, cmds, lock, proc, outside>>

\* The last call of Restart is d.Start(): its frame takes Restart's place.
RestartTail(t) ==
  LET d == cur[t].d
  IN  /\ At(t, "restart", "tail")
      /\ \/ cur[t].bad /\ Return(t, TRUE)
         \/ ~cur[t].bad /\ Free(d) /\ state[d] = "Stopping" /\ Return(t, TRUE)
         \/ ~cur[t].bad /\ Free(d) /\ state[d] # "Stopping" /\ Goto(t, Frame0("start", d, TRUE))
      /\ UNCHANGED <<service, proc, outside>>

ReloadBegin(t) ==
  LET d == cur[t].d
  IN  /\ At(t, "reload", "begin") /\ Free(d)
      /\ \/ (isMasked[d] \/ state[d] # "Running") /\ Return(t, TRUE)
         \/ /\ ~isMasked[d] /\ state[d] = "Running"
            /\ Goto(t, [cur[t] EXCEPT !.pc = "hup"])
      /\ UNCHANGED <<service, proc, outside>>

\* ExecReload, or SIGHUP to the processes, which may end them.
ReloadHup(t) ==
  LET d == cur[t].d
  IN  /\ At(t, "reload", "hup")
      /\ \/ /\ Unit[d].ReloadLine
            /\ \E err \in {FALSE, "line" \in CanFail} : Return(t, err)
            /\ UNCHANGED <<service, proc, outside>>
         \/ /\ ~Unit[d].ReloadLine /\ Free(d)
            /\ \E i \in DOMAIN cmds[d] : cmds[d][i] = NoProc
            /\ Panic
         \/ /\ ~Unit[d].ReloadLine /\ Free(d)
            /\ \A i \in DOMAIN cmds[d] : cmds[d][i] # NoProc
            /\ \E ps \in SUBSET ProcSet(cmds[d]) : Signal(ps, {"alive"}, "termed")
            /\ Return(t, FALSE)
            /\ UNCHANGED <<service, outside>>

------------------------------------------------------------------------------
(* Shutdown: StopAll, FinalReap and os.Exit.                                *)

StopAllBegin(t) ==
  /\ At(t, "stopall", "begin")
  /\ shutdown' = TRUE
  /\ Goto(t, [cur[t] EXCEPT !.pc = "next", !.items = Daemons])
  /\ UNCHANGED <<service, proc, left, linked, power, world, machine>>

\* The loop over the list, and item.State() with the lock of the item.
StopAllNext(t, i) ==
  /\ At(t, "stopall", "next") /\ i \in cur[t].items
  /\ Goto(t, [cur[t] EXCEPT !.pc = "ask", !.d = i, !.items = @ \ {i}])
  /\ UNCHANGED <<service, proc, outside>>

StopAllAsk(t) ==
  LET f == [cur[t] EXCEPT !.pc = "next"]
  IN  /\ At(t, "stopall", "ask") /\ Free(f.d)
      /\ IF state[f.d] \in {"Stopped", "Stopping"} THEN Goto(t, f) ELSE Call(t, f, Frame0("stop", f.d, TRUE))
      /\ UNCHANGED <<service, proc, outside>>

StopAllEnd(t) ==
  /\ At(t, "stopall", "next") /\ cur[t].items = {}
  /\ world' = "exited"
  /\ UNCHANGED <<service, proc, stacks, left, linked, shutdown, power, machine>>

StopAllStep(t) == StopAllBegin(t) \/ StopAllAsk(t) \/ StopAllEnd(t) \/ \E i \in Daemons : StopAllNext(t, i)

------------------------------------------------------------------------------
(* The outside: commands of clients, SIGTERM, processes.                    *)

May(c, op, d) == world = "up" /\ cur[c].fn = "idle" /\ left[c] > 0 /\ <<op, d>> \in machine.ops[c]
Spend(c)      == left' = [left EXCEPT ![c] = @ - 1]

\* systemctl start, stop, restart and reload.
Command(c, d, op) ==
  /\ May(c, op, d) /\ op \in {"start", "stop", "restart", "reload"}
  /\ Spend(c)
  /\ Goto(c, Frame0(op, d, TRUE))
  /\ UNCHANGED <<service, proc, linked, shutdown, power, world, machine>>

\* Status reads Pid of every command of a running service.
StatusCommand(c, d) ==
  /\ May(c, "status", d) /\ Free(d)
  /\ Spend(c)
  /\ world' = IF state[d] = "Running" /\ \E i \in DOMAIN cmds[d] : cmds[d][i] = NoProc
              THEN "panicked" ELSE world
  /\ UNCHANGED <<service, proc, stacks, linked, shutdown, power, machine>>

\* Mask gives up if the service has a file in /etc/systemd/system; the link it
\* makes has one fixed name, so that there can be no second.
MaskCommand(c, d) ==
  /\ May(c, "mask", d) /\ Free(d)
  /\ Spend(c)
  /\ \E hasFile \in BOOLEAN :
       /\ isMasked' = [isMasked EXCEPT ![d] = @ \/ ~(hasFile \/ linked)]
       /\ linked' = (linked \/ ~hasFile)
       /\ Goto(c, Idle(hasFile \/ linked))
  /\ UNCHANGED <<state, failed, isManual, cmds, lock, proc, shutdown, power, world, machine>>

UnmaskCommand(c, d) ==
  /\ May(c, "unmask", d) /\ Free(d)
  /\ Spend(c)
  /\ isMasked' = [isMasked EXCEPT ![d] = FALSE]
  /\ Goto(c, Idle(FALSE))
  /\ UNCHANGED <<state, failed, isManual, cmds, lock, proc, linked, shutdown, power, world, machine>>

Terminate ==
  /\ world = "up"
  /\ machine.mayShutdown \/ power
  /\ cur[Main].fn = "idle"
  /\ Goto(Main, Frame0("stopall", cur[Main].d, FALSE))
  /\ UNCHANGED <<service, proc, outside>>

\* A process ends by itself, obeys a signal, or is killed.
Exit(p, s) ==
  /\ world = "up"
  /\ \/ proc[p] = "alive" /\ s \in machine.selfExit
     \/ proc[p] = "termed"
     \/ proc[p] = "killed" /\ s = "fail"
  /\ proc' = [proc EXCEPT ![p] = s]
  /\ UNCHANGED <<service, stacks, outside>>

------------------------------------------------------------------------------

Step(t) ==
  \/ StartStep(t) \/ StopStep(t) \/ MonitorStep(t) \/ NeededStep(t)
  \/ RestartBegin(t) \/ RestartTail(t) \/ ReloadBegin(t) \/ ReloadHup(t)
  \/ StopAllStep(t)

\* t is about to run a command to its end: a line of start, stop or reload, or
\* the poweroff of an action.
InRun(t) ==
  LET f == cur[t]
  IN  \/ At(t, "start", "act") /\ f.ph \in {"Condition", "StartPre", "StartPost"}
      \/ At(t, "stop", "lines") /\ Unit[f.d].StopLines
      \/ At(t, "stop", "post") /\ Unit[f.d].StopPostLines
      \/ At(t, "reload", "hup") /\ Unit[f.d].ReloadLine
      \/ At(t, "monitor", "decide") /\ IF f.bad THEN Unit[f.d].FailurePoweroff ELSE Unit[f.d].SuccessPoweroff

\* procwait.Run does not return: the command does not end, or it ended before
\* cmd.Process was set (procwait.go:176; RunStarted in Procwait.tla).
RunBlocks(t) ==
  /\ "run" \in CanFail /\ InRun(t)
  /\ power' = (power \/ cur[t].fn = "monitor")
  /\ Goto(t, [cur[t] EXCEPT !.pc = "blocked"])
  /\ UNCHANGED <<service, proc, left, linked, shutdown, world, machine>>

Outside ==
  \/ \E c \in Clients, d \in Daemons :
       \/ \E op \in OpNames : Command(c, d, op)
       \/ StatusCommand(c, d) \/ MaskCommand(c, d) \/ UnmaskCommand(c, d)
  \/ Terminate
  \/ \E p \in Procs, s \in {"ok", "fail"} : Exit(p, s)

Next == Outside \/ \E t \in Threads : Step(t) \/ RunBlocks(t)

Spec == Init /\ [][Next]_vars

(***************************************************************************)
(* Goroutines are scheduled and sleeps end: WF of every thread's step; a   *)
(* command line may block instead, RunBlocks, and then has no step.  A     *)
(* process dies of SIGKILL, and `poweroff' does bring the SIGTERM.  No     *)
(* client has to give a command and no process has to end by itself.       *)
(***************************************************************************)
Fairness ==
  /\ \A t \in Threads : WF_vars(Step(t))
  /\ \A p \in Procs : WF_vars(proc[p] = "killed" /\ Exit(p, "fail"))
  /\ WF_vars(power /\ Terminate)

FairSpec == Spec /\ Fairness
------------------------------------------------------------------------------
(* Properties.                                                              *)

\* A monitorCmds that has still to settle what becomes of the service.
Watching(t, d) ==
  /\ cur[t].fn = "monitor" /\ cur[t].d = d
  /\ cur[t].pc \in {"begin", "attach", "await", "clear", "decide", "uphold", "settle"}

\* A service that is Running, and should not stay so without a process, is
\* watched: a monitor will settle its state when its processes end, or start()
\* still holds its lock and is about to spawn one.  However starts, stops,
\* restarts and old monitors interleave, no Running service is forgotten.
Watched ==
  \A d \in Daemons :
    /\ state[d] = "Running"
    /\ ~Unit[d].RemainAfterExit /\ ~Unit[d].SuccessPoweroff /\ ~Unit[d].FailurePoweroff
    => lock[d] # None \/ \E w \in Workers : Watching(w, d)

\* t will move d out of the transient state it is in.
Owns(t, d) ==
  /\ cur[t].d = d
  /\ LET starting == cur[t].fn = "start" /\ cur[t].pc \in {"flag", "abort", "act"}
         claiming == starting /\ cur[t].ph = "Clean"
         giving   == starting /\ cur[t].ph = "Prepare" /\ cur[t].bad
     IN  CASE state[d] = "Starting"   -> claiming \/ At(t, "stop", "begin")
           [] state[d] = "Stopping"   -> cur[t].fn = "stop" /\ cur[t].pc # "begin"
           [] state[d] = "Restarting" -> \/ claiming \/ giving \/ cur[t].fn = "stop"
                                         \/ At(t, "start", "begin") \/ At(t, "start", "claim")
                                         \/ At(t, "monitor", "sleep")
           [] OTHER                   -> FALSE

\* A service in a transient state has a goroutine that will end it: start()
\* refuses a service that is Starting or Stopping and Restart() one that is
\* Restarting, so an ownerless one could never be started again.  Shutdown and
\* masking in the middle do leave such states, and a stop that cannot open its
\* log leaves the service Stopping, but never Starting or Restarting.  The owner
\* of a service that is Stopping may be in a line that does not return.
TransientOwned ==
  (world = "up" /\ ~shutdown /\ ~linked) =>
    \A d \in Daemons :
      state[d] \in {"Starting", "Restarting"} \/ (state[d] = "Stopping" /\ "log" \notin CanFail) =>
        \E t \in Threads : Owns(t, d)

\* t can only go on with the lock of d, which is held over hooks.
WaitsForLock(t, d) ==
  LET f == cur[t]
  IN  /\ ~Free(d)
      /\ \/ /\ f.d = d
            /\ \/ f.fn = "start" /\ f.pc \in {"claim", "abort", "fail", "end"}
               \/ AtStep(t, "Prepare")
               \/ f.fn = "stop" /\ f.pc \in {"begin", "term", "poll", "end"}
               \/ At(t, "needed", "begin") \/ At(t, "restart", "begin") \/ At(t, "reload", "begin")
               \/ At(t, "restart", "tail") /\ ~f.bad
               \/ At(t, "reload", "hup") /\ ~Unit[d].ReloadLine
               \/ At(t, "stopall", "ask")
         \/ /\ AtStep(t, "Requisite") \/ At(t, "monitor", "uphold")
            /\ d \in f.items /\ \A i \in f.items : ~Free(i)

\* t will never go on: it is in a command that does not return, or waits for the
\* lock of one that is, or in a ring of such waits.
Stalled(t) ==
  \E T \in SUBSET Threads :
    /\ t \in T
    /\ \A x \in T : cur[x].pc = "blocked" \/ \E d \in Daemons : WaitsForLock(x, d) /\ lock[d][1] \in T

\* Every command of a client comes back, whatever start, stop and monitors of
\* earlier commands do.  What can hold it is a command line that does not return
\* (procwait.go:66), in its own goroutine or in one that has the lock it needs, and
\* hooks that lead back to a service whose lock is held for them (daemon.go:815).
CommandsReturn ==
  \A c \in Clients : (cur[c].fn # "idle") ~> (cur[c].fn = "idle" \/ world # "up" \/ Stalled(c))

\* SIGTERM, or poweroff, ends in the exit of the init process, though processes
\* ignore SIGTERM and commands are under way; the same two things can hold it, in
\* a stop of its own or in item.State() (daemons.go:77).  The lock of the list
\* (daemons.go:75) is Registry.tla's.
ShutdownEnds == (cur[Main].fn = "stopall") ~> (world # "up" \/ Stalled(Main))

\* A nil Process brings the init process down only if a line of ExecStart may
\* fail ("-", failOnErr = false): no other command without a process gets into
\* cmds, or into the hands of a monitor.
PanicNeedsDash == world = "panicked" => \E d \in Daemons : \E i \in DOMAIN Unit[d].Start : Unit[d].Start[i]

Dead(d) == \A p \in ProcSet(cmds[d]) : ~Is(p)

\* d has a process, or a start() of it holds one it is about to publish.
HasProcess(d) ==
  \/ ~Dead(d)
  \/ \E t \in Threads : cur[t].fn = "start" /\ cur[t].d = d /\ \E p \in ProcSet(cur[t].mine) : Is(p)

\* Restart=always (unit.go:409): a service that was Running and has lost its
\* processes is given one again, whatever starts by hand get in between.
Supervised ==
  \A d \in Daemons :
    (Unit[d].Restart = "always" /\ state[d] = "Running" /\ Dead(d)) ~> (HasProcess(d) \/ world # "up")

\* BindsTo (unit.go:155): when a running service ends, the ones bound to it
\* that were running do not stay so.
DeathPropagates ==
  \A d, i \in Daemons :
    (i \in Unit[d].BoundBy /\ state[d] = "Running" /\ state[i] = "Running" /\ cmds[d] # <<>> /\ Dead(d)) ~>
      (state[i] # "Running" \/ world # "up")

------------------------------------------------------------------------------
(* What docs and comments say of the code and the model refutes.            *)

\* "Set shutdown flag FIRST to prevent new restarts" (daemons.go:74): the init
\* process does not exit with a service it has just brought to Running.
ExitLeavesNoService == world = "exited" => \A d \in Daemons : state[d] # "Running"

\* "properly tracks pids" (CHANGELOG.md:45): a service's process is known to
\* its service, to the start that made it or to the monitor that waits for it.
TracksProcesses == \A p \in Procs : proc[p] = "alive" => ~Forgotten(p)
==============================================================================
