------------------------------ MODULE Procwait -------------------------------
(***************************************************************************)
(* src/procwait/procwait.go: the one reaper of an init process.  One       *)
(* goroutine loops in wait4(-1); every other goroutine that wants to know  *)
(* how a child ended hooks onto a lock that the reaper opens.  Run(cmd)    *)
(* registers the command before starting it, Wait(pid) registers the pid   *)
(* if the process is still there; FinalReap polls with WNOHANG at          *)
(* shutdown, next to the reaper, until nothing is left to collect.         *)
(*                                                                         *)
(* One action per section of code that runs under waits.Lock or between    *)
(* two points where another goroutine (or the kernel) can get in.  A       *)
(* RWMutex of type proc is used as a latch: made locked, unlocked once by  *)
(* the reaper.  A map entry is deleted in the critical section that opens  *)
(* its latch, so "is in the map" and "is locked" coincide.  Process ids    *)
(* are not reused.                                                         *)
(*                                                                         *)
(* Cmds and Kids are the processes somebody waits for, and die once each.  *)
(* stray says that another child is dead, one that nobody waits for, and   *)
(* there is no end of such: only FinalReap's count of polls notices them.  *)
(***************************************************************************)
EXTENDS Naturals

CONSTANTS
  Cmds,       \* commands given to Run; a command also names its process
  Kids,       \* the other processes, started with cmd.Start or inherited
  Foreign,    \* the Kids born to another parent than the init process
  Waiters,    \* goroutines that call Wait
  Strays,     \* bound: whether FinalReap lasts: for children nobody waits for, up to its deadline
  None        \* no process

ASSUME ProcsDisjoint ==
  /\ Cmds \cap Kids = {}
  /\ Foreign \subseteq Kids
  /\ None \notin Cmds \cup Kids

Procs   == Cmds \cup Kids
Status  == {"ok", "fail"}
Reapers == {"init", "final"}    \* the goroutine of Init; FinalReap
MaxIdle == 3                    \* FinalReap's maxConsecutiveNoProcess

VARIABLES
  proc,       \* kernel: "none", "running", "zombie", "reaped" by init, "gone" (reaped by another parent)
  code,       \* kernel: the exit status of a dead process
  parent,     \* kernel: "init" or "other"
  latch,      \* waits.w: the latch of a pid, "absent", "locked" or "open"
  latchWs,    \* the ws field behind latch
  runLatch,   \* waits.run: the latch of a command
  runWs,      \* the ws field behind runLatch
  rpc,        \* where Run(cmd) is
  runRet,     \* what Run(cmd) returned: a status, or "error"
  wpc,        \* where a waiter is: "idle", "blocked", "returned"
  wpid,       \* the pid it waits on
  wret,       \* what Wait returned: a status, "nil", or "none" so far
  hand,       \* the process a reaper took from wait4 and has not dispatched
  final,      \* FinalReap: "off", "polling", "done"
  idle,       \* FinalReap's consecutiveNoProcess
  stray,      \* there is a dead child that nobody waits for
  late        \* maxDuration has passed since FinalReap began

kernel  == <<proc, code, parent>>
latches == <<latch, latchWs, runLatch, runWs>>
runners == <<rpc, runRet>>
waiters == <<wpc, wpid, wret>>
aside   == <<stray, late>>
reapers == <<hand, final, idle, aside>>
vars    == <<kernel, latches, runners, waiters, reapers>>

RunPc == {"idle", "registered", "forked", "started", "blocked", "returned"}

TypeOK ==
  /\ proc \in [Procs -> {"none", "running", "zombie", "reaped", "gone"}]
  /\ code \in [Procs -> Status \cup {"none"}]
  /\ parent \in [Procs -> {"init", "other"}]
  /\ latch \in [Procs -> {"absent", "locked", "open"}]
  /\ latchWs \in [Procs -> Status \cup {"none"}]
  /\ runLatch \in [Cmds -> {"absent", "locked", "open"}]
  /\ runWs \in [Cmds -> Status \cup {"none"}]
  /\ rpc \in [Cmds -> RunPc]
  /\ runRet \in [Cmds -> Status \cup {"none", "error"}]
  /\ wpc \in [Waiters -> {"idle", "blocked", "returned"}]
  /\ wpid \in [Waiters -> Procs]
  /\ wret \in [Waiters -> Status \cup {"none", "nil"}]
  /\ hand \in [Reapers -> Procs \cup {None}]
  /\ final \in {"off", "polling", "done"}
  /\ idle \in 0..(MaxIdle - 1)
  /\ stray \in BOOLEAN /\ late \in BOOLEAN

Init ==
  /\ proc = [p \in Procs |-> "none"]
  /\ code = [p \in Procs |-> "none"]
  /\ parent = [p \in Procs |-> IF p \in Foreign THEN "other" ELSE "init"]
  /\ latch = [p \in Procs |-> "absent"]
  /\ latchWs = [p \in Procs |-> "none"]
  /\ runLatch = [c \in Cmds |-> "absent"]
  /\ runWs = [c \in Cmds |-> "none"]
  /\ rpc = [c \in Cmds |-> "idle"]
  /\ runRet = [c \in Cmds |-> "none"]
  /\ wpc = [v \in Waiters |-> "idle"]
  /\ \E p \in Procs : wpid = [v \in Waiters |-> p]
  /\ wret = [v \in Waiters |-> "none"]
  /\ hand = [r \in Reapers |-> None]
  /\ final = "off"
  /\ idle = 0
  /\ stray = FALSE /\ late = FALSE

------------------------------------------------------------------------------
(* The kernel: processes start, die, change parents.                        *)

Dead(p) == proc[p] \in {"zombie", "reaped", "gone"}

Spawn(p) ==
  /\ p \in Kids /\ proc[p] = "none"
  /\ proc' = [proc EXCEPT ![p] = "running"]
  /\ UNCHANGED <<code, parent, latches, runners, waiters, reapers>>

Exit(p, s) ==
  /\ proc[p] = "running"
  /\ proc' = [proc EXCEPT ![p] = "zombie"]
  /\ code' = [code EXCEPT ![p] = s]
  /\ UNCHANGED <<parent, latches, runners, waiters, reapers>>

\* The other parent dies: the init process inherits the child, zombie or not.
Adopt(p) ==
  /\ parent[p] = "other" /\ proc[p] \in {"running", "zombie"}
  /\ parent' = [parent EXCEPT ![p] = "init"]
  /\ UNCHANGED <<proc, code, latches, runners, waiters, reapers>>

\* The other parent reaps its child: wait4 of the init process never sees it.
ForeignReap(p) ==
  /\ parent[p] = "other" /\ proc[p] = "zombie"
  /\ proc' = [proc EXCEPT ![p] = "gone"]
  /\ UNCHANGED <<code, parent, latches, runners, waiters, reapers>>

\* One more has died, of the container's other processes.  Bound: one at a
\* time, and only just before FinalReap would give up.
StrayDies ==
  /\ Strays /\ final = "polling" /\ ~stray /\ idle = MaxIdle - 1
  /\ stray' = TRUE
  /\ UNCHANGED <<kernel, latches, runners, waiters, hand, final, idle, late>>

\* The clock, at 10 seconds after FinalReap's startTime.  Bound: when the
\* count stands at 0.
Deadline ==
  /\ Strays /\ final = "polling" /\ hand["final"] = None /\ idle = 0 /\ ~late
  /\ late' = TRUE
  /\ UNCHANGED <<kernel, latches, runners, waiters, hand, final, idle, stray>>

------------------------------------------------------------------------------
(* Run(cmd), in place of cmd.Run().                                         *)

RunRegister(c) ==
  /\ rpc[c] = "idle"
  /\ runLatch' = [runLatch EXCEPT ![c] = "locked"]
  /\ rpc' = [rpc EXCEPT ![c] = "registered"]
  /\ UNCHANGED <<kernel, latch, latchWs, runWs, runRet, waiters, reapers>>

\* cmd.Start fails: the error is returned, the map entry stays.
RunStartFails(c) ==
  /\ rpc[c] = "registered"
  /\ rpc' = [rpc EXCEPT ![c] = "returned"]
  /\ runRet' = [runRet EXCEPT ![c] = "error"]
  /\ UNCHANGED <<kernel, latches, waiters, reapers>>

\* Inside cmd.Start: the child runs, cmd.Process is still nil.
RunFork(c) ==
  /\ rpc[c] = "registered"
  /\ proc' = [proc EXCEPT ![c] = "running"]
  /\ rpc' = [rpc EXCEPT ![c] = "forked"]
  /\ UNCHANGED <<code, parent, latches, runRet, waiters, reapers>>

RunStarted(c) ==
  /\ rpc[c] = "forked"
  /\ rpc' = [rpc EXCEPT ![c] = "started"]
  /\ UNCHANGED <<kernel, latches, runRet, waiters, reapers>>

\* waitCmd: an entry the reaper has already opened is no longer in the map.
RunLookup(c) ==
  /\ rpc[c] = "started"
  /\ IF runLatch[c] = "locked"
     THEN /\ rpc' = [rpc EXCEPT ![c] = "blocked"]
          /\ UNCHANGED runRet
     ELSE /\ rpc' = [rpc EXCEPT ![c] = "returned"]
          /\ runRet' = [runRet EXCEPT ![c] = "error"]   \* ErrNotFound
  /\ UNCHANGED <<kernel, latches, waiters, reapers>>

RunReturn(c) ==
  /\ rpc[c] = "blocked" /\ runLatch[c] = "open"
  /\ rpc' = [rpc EXCEPT ![c] = "returned"]
  /\ runRet' = [runRet EXCEPT ![c] = runWs[c]]
  /\ UNCHANGED <<kernel, latches, waiters, reapers>>

------------------------------------------------------------------------------
(* Wait(pid).                                                               *)

\* kill(pid, 0) succeeds for a running process and for a zombie.
Is(p) == proc[p] \in {"running", "zombie"}

\* Variant: Wait makes its entry without asking whether the process is there.
WaitCallNoCheck(v, p) ==
  /\ wpc[v] # "blocked"
  /\ wpid' = [wpid EXCEPT ![v] = p]
  /\ latch' = [latch EXCEPT ![p] = "locked"]
  /\ wpc' = [wpc EXCEPT ![v] = "blocked"]
  /\ wret' = [wret EXCEPT ![v] = "none"]
  /\ UNCHANGED <<kernel, latchWs, runLatch, runWs, runners, reapers>>

WaitCall(v, p) ==
  /\ wpc[v] # "blocked"
  /\ wpid' = [wpid EXCEPT ![v] = p]
  /\ \/ /\ latch[p] = "locked"
        /\ wpc' = [wpc EXCEPT ![v] = "blocked"]
        /\ wret' = [wret EXCEPT ![v] = "none"]
        /\ UNCHANGED latch
     \/ /\ latch[p] # "locked" /\ ~Is(p)
        /\ wpc' = [wpc EXCEPT ![v] = "returned"]
        /\ wret' = [wret EXCEPT ![v] = "nil"]
        /\ UNCHANGED latch
     \/ /\ latch[p] # "locked" /\ Is(p)
        /\ latch' = [latch EXCEPT ![p] = "locked"]
        /\ wpc' = [wpc EXCEPT ![v] = "blocked"]
        /\ wret' = [wret EXCEPT ![v] = "none"]
  /\ UNCHANGED <<kernel, latchWs, runLatch, runWs, runners, reapers>>

\* Variant: a Wait that does not block on the latch.
WaitReturnEarly(v) ==
  /\ wpc[v] = "blocked"
  /\ wpc' = [wpc EXCEPT ![v] = "returned"]
  /\ wret' = [wret EXCEPT ![v] = latchWs[wpid[v]]]
  /\ UNCHANGED <<kernel, latches, runners, wpid, reapers>>

WaitReturn(v) ==
  /\ wpc[v] = "blocked" /\ latch[wpid[v]] = "open"
  /\ wpc' = [wpc EXCEPT ![v] = "returned"]
  /\ wret' = [wret EXCEPT ![v] = latchWs[wpid[v]]]
  /\ UNCHANGED <<kernel, latches, runners, wpid, reapers>>

------------------------------------------------------------------------------
(* The reaper and FinalReap.                                                *)

Child(p) == parent[p] = "init" /\ proc[p] \in {"running", "zombie"}

\* At wait4: the reaper of Init always is, but for what it has in hand;
\* FinalReap looks at the clock first.
Asks(r) == hand[r] = None /\ (r = "final" => final = "polling" /\ ~late)

\* Variant: the reaper asks only for the pids somebody registered.
Wait4Known(r, p) ==
  /\ Asks(r)
  /\ Child(p) /\ proc[p] = "zombie"
  /\ p \in Cmds \/ latch[p] = "locked"
  /\ proc' = [proc EXCEPT ![p] = "reaped"]
  /\ hand' = [hand EXCEPT ![r] = p]
  /\ UNCHANGED <<code, parent, latches, runners, waiters, final, idle, aside>>

\* wait4(-1) hands over a zombie child, which is gone for the kernel then.
Wait4(r, p) ==
  /\ Asks(r)
  /\ Child(p) /\ proc[p] = "zombie"
  /\ proc' = [proc EXCEPT ![p] = "reaped"]
  /\ hand' = [hand EXCEPT ![r] = p]
  /\ UNCHANGED <<code, parent, latches, runners, waiters, final, idle, aside>>

\* cmd.Process is set: the reaper can match the pid it holds to the command.
HasProcess(c) == rpc[c] \in {"started", "blocked", "returned"}

\* Variant: the latch is opened before ws is stored in it.
DispatchNoStatus(r) ==
  LET p == hand[r]
  IN  /\ p # None
      /\ latch' = [latch EXCEPT ![p] = IF @ = "locked" THEN "open" ELSE @]
      /\ IF p \in Cmds /\ runLatch[p] = "locked" /\ HasProcess(p)
         THEN /\ runLatch' = [runLatch EXCEPT ![p] = "open"]
              /\ runWs' = [runWs EXCEPT ![p] = code[p]]
         ELSE UNCHANGED <<runLatch, runWs>>
      /\ hand' = [hand EXCEPT ![r] = None]
      /\ idle' = IF r = "final" THEN 0 ELSE idle
      /\ UNCHANGED <<kernel, latchWs, runners, waiters, final, aside>>

\* Variant: only the reaper of Init opens latches, FinalReap just collects.
DispatchInitOnly(r) ==
  LET p == hand[r]
  IN  /\ p # None
      /\ IF latch[p] = "locked" /\ r = "init"
         THEN /\ latch' = [latch EXCEPT ![p] = "open"]
              /\ latchWs' = [latchWs EXCEPT ![p] = code[p]]
         ELSE UNCHANGED <<latch, latchWs>>
      /\ IF p \in Cmds /\ runLatch[p] = "locked" /\ HasProcess(p)
         THEN /\ runLatch' = [runLatch EXCEPT ![p] = "open"]
              /\ runWs' = [runWs EXCEPT ![p] = code[p]]
         ELSE UNCHANGED <<runLatch, runWs>>
      /\ hand' = [hand EXCEPT ![r] = None]
      /\ idle' = IF r = "final" THEN 0 ELSE idle
      /\ UNCHANGED <<kernel, runners, waiters, final, aside>>

\* waitWithPid after wait4: open the latch of the pid and of its command.
Dispatch(r) ==
  LET p == hand[r]
  IN  /\ p # None
      /\ IF latch[p] = "locked"
         THEN /\ latch' = [latch EXCEPT ![p] = "open"]
              /\ latchWs' = [latchWs EXCEPT ![p] = code[p]]
         ELSE UNCHANGED <<latch, latchWs>>
      /\ IF p \in Cmds /\ runLatch[p] = "locked" /\ HasProcess(p)
         THEN /\ runLatch' = [runLatch EXCEPT ![p] = "open"]
              /\ runWs' = [runWs EXCEPT ![p] = code[p]]
         ELSE UNCHANGED <<runLatch, runWs>>
      /\ hand' = [hand EXCEPT ![r] = None]
      /\ idle' = IF r = "final" THEN 0 ELSE idle
      /\ UNCHANGED <<kernel, runners, waiters, final, aside>>

\* A stray is reaped, and no latch is for it.
ReapStray(r) ==
  /\ Asks(r) /\ stray
  /\ stray' = FALSE
  /\ idle' = IF r = "final" THEN 0 ELSE idle
  /\ UNCHANGED <<kernel, latches, runners, waiters, hand, final, late>>

FinalBegin ==
  /\ final = "off"
  /\ final' = "polling"
  /\ UNCHANGED <<kernel, latches, runners, waiters, hand, idle, aside>>

Children == {p \in Procs : Child(p)}
Running  == ~stray /\ \A p \in Children : proc[p] = "running"

\* FinalReap returns: its variables are no more, and strays have no one left
\* to disturb.
FinalEnds == final' = "done" /\ idle' = 0 /\ stray' = FALSE /\ late' = FALSE

\* Variant: FinalReap gives up one empty poll too late.
FinalIdleLate ==
  /\ Asks("final") /\ Running /\ Children # {}
  /\ IF idle + 1 > MaxIdle
     THEN FinalEnds
     ELSE idle' = idle + 1 /\ UNCHANGED <<final, aside>>
  /\ UNCHANGED <<kernel, latches, runners, waiters, hand>>

\* wpid = 0: children exist, none is a zombie.  The third time in a row ends it.
FinalIdle ==
  /\ Asks("final") /\ Running /\ Children # {}
  /\ IF idle + 1 >= MaxIdle
     THEN FinalEnds
     ELSE idle' = idle + 1 /\ UNCHANGED <<final, aside>>
  /\ UNCHANGED <<kernel, latches, runners, waiters, hand>>

\* ECHILD.
FinalNoChild ==
  /\ Asks("final") /\ ~stray /\ Children = {}
  /\ FinalEnds
  /\ UNCHANGED <<kernel, latches, runners, waiters, hand>>

\* Variant: the deadline is looked at when nothing was reaped.
FinalTimeoutIdle ==
  /\ final = "polling" /\ hand["final"] = None /\ late /\ idle > 0
  /\ FinalEnds
  /\ UNCHANGED <<kernel, latches, runners, waiters, hand>>

\* maxDuration has passed.
FinalTimeout ==
  /\ final = "polling" /\ hand["final"] = None /\ late
  /\ FinalEnds
  /\ UNCHANGED <<kernel, latches, runners, waiters, hand>>

------------------------------------------------------------------------------

Kernel(p) == Spawn(p) \/ Adopt(p) \/ ForeignReap(p) \/ \E s \in Status : Exit(p, s)

Run(c) ==
  \/ RunRegister(c) \/ RunStartFails(c) \/ RunFork(c)
  \/ RunStarted(c) \/ RunLookup(c) \/ RunReturn(c)

Reap(r) == Dispatch(r) \/ ReapStray(r) \/ \E p \in Procs : Wait4(r, p)

Final == FinalBegin \/ FinalIdle \/ FinalNoChild \/ FinalTimeout

\* One turn of FinalReap's loop.
FinalTurn == FinalIdle \/ FinalNoChild \/ FinalTimeout \/ ReapStray("final") \/ \E p \in Procs : Wait4("final", p)

Next ==
  \/ \E p \in Procs : Kernel(p)
  \/ \E c \in Cmds : Run(c)
  \/ \E v \in Waiters : WaitReturn(v) \/ \E p \in Procs : WaitCall(v, p)
  \/ \E r \in Reapers : Reap(r)
  \/ Final \/ StrayDies \/ Deadline

Spec == Init /\ [][Next]_vars

(***************************************************************************)
(* The goroutines are scheduled: the reaper, a Run past its registration,  *)
(* a Wait whose latch is open and a FinalReap that has begun all go on.    *)
(* Strong fairness for each zombie: wait4(-1) does not starve a child.     *)
(* Nothing obliges a process to exit, a goroutine to call Wait or Run,     *)
(* another parent to reap, or the deadline to come.                        *)
(***************************************************************************)
Fairness ==
  /\ \A p \in Procs : SF_vars(Wait4("init", p))
  /\ \A r \in Reapers : WF_vars(Dispatch(r))
  /\ \A c \in Cmds : WF_vars(RunStarted(c)) /\ WF_vars(RunLookup(c)) /\ WF_vars(RunReturn(c))
  /\ \A v \in Waiters : WF_vars(WaitReturn(v))
  /\ WF_vars(FinalTurn)

FairSpec == Spec /\ Fairness

------------------------------------------------------------------------------
(* Properties.                                                              *)

InHand(p) == \E r \in Reapers : hand[r] = p

\* Whatever Wait or Run reports as an exit status is the status the process
\* really ended with, and it is reported only once the process was reaped:
\* a.ws = ws in waitWithPid is written before the latch is opened.
StatusTruth ==
  /\ \A v \in Waiters : (wpc[v] = "returned" /\ wret[v] # "nil") =>
       proc[wpid[v]] = "reaped" /\ wret[v] = code[wpid[v]]
  /\ \A c \in Cmds : (rpc[c] = "returned" /\ runRet[c] # "error") =>
       proc[c] = "reaped" /\ runRet[c] = code[c]

\* No lost wake-up in Wait: a caller blocked on a process that the init
\* process has reaped is either free to go, or the reaper that took the
\* process still holds it and has yet to look at the latch.  The check
\* kill(pid, 0) and the new entry are under the lock the reaper needs.
NoLostWaiter ==
  \A v \in Waiters : (wpc[v] = "blocked" /\ proc[wpid[v]] = "reaped") =>
     latch[wpid[v]] = "open" \/ InHand(wpid[v])

\* A caller blocked in Wait on a child of the init process returns after the
\* child's death.
WaitReturns ==
  \A v \in Waiters, p \in Procs :
    (wpc[v] = "blocked" /\ wpid[v] = p /\ parent[p] = "init" /\ Dead(p)) ~>
      (wpc[v] = "returned")

\* No zombies: every child that dies is reaped (README: "correctly reaps
\* processes (no zombies)").
NoZombies ==
  \A p \in Procs : (Child(p) /\ proc[p] = "zombie") ~> (proc[p] = "reaped")

\* FinalReap ends.  Before its deadline if children stop dying: one that keeps
\* running cannot hold the shutdown up (maxConsecutiveNoProcess).  At the
\* deadline whatever they do: each one that is reaped starts the count again
\* (procwait.go:141), and there may be always another.
FinalReapEnds == (<>late \/ <>[]~stray) => ((final = "polling") ~> (final = "done"))

\* Wait implements the abstract latch: what the latch sees of the processes
\* and of the waiters.
Life == [p \in Procs |-> IF proc[p] = "none" THEN "unborn"
                         ELSE IF proc[p] = "running" THEN "alive" ELSE "dead"]

Answer == [v \in Waiters |-> IF wpc[v] = "idle" THEN "idle"
                             ELSE IF wpc[v] = "blocked" THEN "waiting" ELSE wret[v]]

Latch == INSTANCE ExitLatch WITH
  life <- Life, status <- code, asked <- wpid, answer <- Answer

\* Every step of procwait is a step of ExitLatch or changes nothing there: a
\* waiter is answered nil only for a process that is not alive, and otherwise
\* with the status of the process it asked about (comment of Wait: "wait on
\* pid to exit; if pid is already exited, return nil").
ImplementsLatch == Latch!Spec

\* The contract of the call Run stands in for ("replaces cmd.Run()",
\* procwait.go:36): a command that ended well is not reported as an error.
RunReportsExit ==
  \A c \in Cmds : (rpc[c] = "returned" /\ runRet[c] = "error") =>
     ~(Dead(c) /\ code[c] = "ok")
==============================================================================
