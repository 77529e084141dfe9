----------------------------- MODULE DaemonProofs -----------------------------
(***************************************************************************)
(* Proofs about Daemon for any services, processes, goroutines and         *)
(* containers: type correctness, and that a nil Process is met only where  *)
(* an ExecStart line may fail.  One inductive invariant carries both.      *)
(***************************************************************************)
EXTENDS Daemon, TLAPS

\* Some ExecStart line begins with "-".
Dashed == \E d \in Daemons : \E i \in DOMAIN Unit[d].Start : Unit[d].Start[i]

\* What can be among the commands of a service.
Pool == Procs \cup {p \in {NoProc} : Dashed}

\* A call that holds commands out of Pool, counts lines from 1 and, at the ExecStart lines, is a
\* start() at one of them.
GoodFrame ==
  {f \in Frame : /\ f.mine \in Seq(Pool)
                 /\ f.line # 0
                 /\ f.ph = "Start" => f.fn = "start" /\ f.line \in 1..Len(Unit[f.d].Start)}

Stacks ==
  /\ cur \in [Threads -> GoodFrame]
  /\ callers \in [Threads -> Seq(GoodFrame)]

Store ==
  /\ state \in [Daemons -> States]
  /\ failed \in [Daemons -> BOOLEAN]
  /\ isMasked \in [Daemons -> BOOLEAN]
  /\ isManual \in [Daemons -> BOOLEAN]
  /\ cmds \in [Daemons -> Seq(Pool)]
  /\ lock \in [Daemons -> (Threads \X {"OnFailure", "OnSuccess"}) \cup {None}]

Around ==
  /\ machine \in Machines
  /\ proc \in [Procs -> {"free", "alive", "termed", "killed", "ok", "fail"}]
  /\ left \in [Clients -> Nat]
  /\ linked \in BOOLEAN /\ shutdown \in BOOLEAN /\ power \in BOOLEAN
  /\ world \in {"up", "exited", "panicked"}
  /\ world = "panicked" => Dashed

IInv == Around /\ Store /\ Stacks

------------------------------------------------------------------------------
(* Operators.                                                               *)

LEMMA StepsAre ==
  Steps = {"Clean", "Prepare", "Condition", "Requisite", "Requires", "BindsTo", "Wants", "Upholds", "Conflicts",
           "StartPre", "Start", "StartPost", "Finish"}
  BY DEF Steps, Rank

LEMMA UnitTyped ==
  ASSUME machine \in Machines, NEW d \in Daemons
  PROVE  /\ Unit[d] \in UnitType
         /\ \A s \in DepNames : Unit[d][s] \in SUBSET Daemons
         /\ Unit[d].Start \in Seq(BOOLEAN)
<1>1. machine \in MachineType
      BY MachineAssumption
<1>2. Unit[d] \in UnitType
      BY <1>1 DEF MachineType, Unit
<1>3. ASSUME NEW s \in DepNames PROVE Unit[d][s] \in SUBSET Daemons
      BY <1>2, <1>3 DEF DepNames, UnitType
<1> QED
  BY <1>2, <1>3 DEF UnitType

LEMMA Fixed ==
  ASSUME machine' = machine
  PROVE  GoodFrame' = GoodFrame /\ Pool' = Pool /\ Dashed' = Dashed
  BY DEF GoodFrame, Pool, Dashed, Unit

LEMMA Frame0Good ==
  ASSUME NEW fn \in Fns, NEW d \in Daemons, NEW arg \in BOOLEAN
  PROVE  Frame0(fn, d, arg) \in GoodFrame
<1>1. << >> \in Seq(Pool) /\ << >> \in Seq(Procs \cup {NoProc})
      OBVIOUS
<1> DEFINE g == Frame0(fn, d, arg)
<1>2. g \in Frame
      BY <1>1, StepsAre DEF Frame0, Frame, Pcs
<1>3. g.mine \in Seq(Pool) /\ g.line # 0 /\ g.ph # "Start"
      BY <1>1 DEF Frame0
<1> HIDE DEF g
<1>4. g \in GoodFrame
      BY <1>2, <1>3 DEF GoodFrame
<1> QED
  BY <1>4 DEF g

LEMMA IdleGood == ASSUME NEW err \in BOOLEAN PROVE Idle(err) \in GoodFrame
<1>1. (CHOOSE d \in Daemons : TRUE) \in Daemons
      BY ThreadAssumption
<1>2. Frame0("idle", CHOOSE d \in Daemons : TRUE, FALSE) \in GoodFrame
      BY <1>1, Frame0Good DEF Fns
<1> QED
  BY <1>2 DEF Idle, GoodFrame, Frame

------------------------------------------------------------------------------
(* Stacks.                                                                  *)

LEMMA GotoGood ==
  ASSUME Stacks, machine' = machine, NEW t \in Threads, NEW f \in GoodFrame, Goto(t, f)
  PROVE  Stacks'
  BY Fixed DEF Stacks, Goto

LEMMA CallGood ==
  ASSUME Stacks, machine' = machine, NEW t \in Threads, NEW f \in GoodFrame, NEW g \in GoodFrame,
         Call(t, f, g)
  PROVE  Stacks'
<1>1. <<f>> \o callers[t] \in Seq(GoodFrame)
      BY DEF Stacks
<1> QED
  BY <1>1, Fixed DEF Stacks, Call

LEMMA BelowGood ==
  ASSUME Stacks, NEW t \in Threads, NEW err \in BOOLEAN
  PROVE  Below(t, err) \in GoodFrame /\ Popped(t) \in [Threads -> Seq(GoodFrame)]
<1>1. callers[t] \in Seq(GoodFrame)
      BY DEF Stacks
<1>2. callers[t] # <<>> => Head(callers[t]) \in GoodFrame /\ Tail(callers[t]) \in Seq(GoodFrame)
      BY <1>1
<1>3. Idle(err /\ t \in Clients) \in GoodFrame
      BY IdleGood
<1>4. ASSUME NEW f \in GoodFrame PROVE [f EXCEPT !.bad = err] \in GoodFrame
      BY DEF GoodFrame, Frame
<1>5. Below(t, err) \in GoodFrame
      BY <1>2, <1>3, <1>4 DEF Below
<1>6. Popped(t) \in [Threads -> Seq(GoodFrame)]
      BY <1>2 DEF Popped, Stacks
<1> QED
  BY <1>5, <1>6

LEMMA ReturnGood ==
  ASSUME Stacks, machine' = machine, NEW t \in Threads, NEW err \in BOOLEAN, Return(t, err)
  PROVE  Stacks'
  BY BelowGood, Fixed DEF Stacks, Return

\* A frame goes to another line.
LEMMA LineGood ==
  ASSUME NEW f \in GoodFrame, NEW n \in Nat \ {0}, NEW pc \in Pcs,
         f.ph = "Start" => n \in 1..Len(Unit[f.d].Start)
  PROVE  [f EXCEPT !.pc = pc, !.line = n] \in GoodFrame
<1> DEFINE g == [f EXCEPT !.pc = pc, !.line = n]
<1>1. f \in Frame
      BY DEF GoodFrame
<1>2. g \in Frame
      BY <1>1 DEF Frame
<1>3. g.ph = f.ph /\ g.fn = f.fn /\ g.d = f.d /\ g.mine = f.mine /\ g.line = n
      BY <1>1 DEF Frame
<1> QED
  BY <1>2, <1>3 DEF GoodFrame

LEMMA EnterGood ==
  ASSUME machine \in Machines, NEW f \in GoodFrame, NEW step \in Steps,
         step = "Start" => f.fn = "start" /\ Unit[f.d].Start # <<>>
  PROVE  Enter(f, step) \in GoodFrame
<1>1. f.d \in Daemons
      BY DEF GoodFrame, Frame
<1>2. step \in DepNames => Unit[f.d][step] \in SUBSET Daemons
      BY <1>1, UnitTyped
<1>3. step = "Start" => 1 \in 1..Len(Unit[f.d].Start)
      BY <1>1, UnitTyped
<1> DEFINE g == Enter(f, step)
<1>4. f \in Frame
      BY DEF GoodFrame
<1>5. g.ph = step /\ g.fn = f.fn /\ g.d = f.d /\ g.mine = f.mine /\ g.line = 1
      BY <1>4 DEF Frame, Enter
<1>6. g \in Frame
      BY <1>2, <1>4 DEF Frame, Enter, Pcs
<1> HIDE DEF g
<1>7. g \in GoodFrame
      BY <1>3, <1>5, <1>6 DEF GoodFrame
<1> QED
  BY <1>7 DEF g

LEMMA ProceedGood ==
  ASSUME Stacks, machine \in Machines, machine' = machine, NEW t \in Threads, NEW f \in GoodFrame,
         f.fn = "start", Proceed(t, f)
  PROVE  Stacks'
<1>1. CASE Goto(t, [f EXCEPT !.pc = "flag"])
  <2>1. [f EXCEPT !.pc = "flag"] \in GoodFrame
        BY DEF GoodFrame, Frame, Pcs
  <2> QED
    BY <1>1, <2>1, GotoGood
<1>2. CASE MoreLines(f) /\ Goto(t, [f EXCEPT !.pc = "flag", !.line = @ + 1])
  <2>1. f.d \in Daemons /\ f.line \in Nat
        BY DEF GoodFrame, Frame
  <2>2. Len(Unit[f.d].Start) \in Nat
        BY <2>1, UnitTyped
  <2>3. f.ph = "Start" => f.fn = "start" /\ f.line + 1 \in 1..Len(Unit[f.d].Start)
        BY <1>2, <2>1, <2>2 DEF MoreLines
  <2>4. [f EXCEPT !.pc = "flag", !.line = @ + 1] \in GoodFrame
    <3>1. f.line + 1 \in Nat \ {0} /\ "flag" \in Pcs
          BY <2>1 DEF Pcs
    <3>2. [f EXCEPT !.pc = "flag", !.line = f.line + 1] \in GoodFrame
          BY <2>3, <3>1, LineGood
    <3> QED
      BY <3>2
  <2> QED
    BY <1>2, <2>4, GotoGood
<1>3. ASSUME NEW step \in Steps, IsNext(f.d, f.ph, step), Goto(t, Enter(f, step)) PROVE Stacks'
  <2>1. step = "Start" => Unit[f.d].Start # <<>>
        BY <1>3 DEF IsNext, HasWork, DepNames, LineNames
  <2>2. Enter(f, step) \in GoodFrame
        BY <2>1, EnterGood
  <2> QED
    BY <1>3, <2>2, GotoGood
<1> QED
  BY <1>1, <1>2, <1>3 DEF Proceed

LEMMA PublishGood ==
  ASSUME Stacks, Store, machine' = machine, NEW t \in Threads, Publish(t)
  PROVE  Stacks' /\ cmds' \in [Daemons -> Seq(Pool)]
<1>1. PICK w \in Workers :
         /\ cmds' = [cmds EXCEPT ![cur[t].d] = cur[t].mine]
         /\ cur' = [cur EXCEPT ![t] = Below(t, FALSE), ![w] = Frame0("monitor", cur[t].d, FALSE)]
         /\ callers' = Popped(t)
      BY DEF Publish
<1>2. cur[t].d \in Daemons /\ cur[t].mine \in Seq(Pool)
      BY DEF Stacks, GoodFrame, Frame
<1>3. Frame0("monitor", cur[t].d, FALSE) \in GoodFrame
      BY <1>2, Frame0Good DEF Fns
<1>4. Below(t, FALSE) \in GoodFrame /\ Popped(t) \in [Threads -> Seq(GoodFrame)]
      BY BelowGood
<1>5. cmds' \in [Daemons -> Seq(Pool)]
      BY <1>1, <1>2 DEF Store
<1>6. Stacks'
      BY <1>1, <1>3, <1>4, Fixed DEF Stacks, Threads
<1> QED
  BY <1>5, <1>6

LEMMA RestSame ==
  ASSUME Around, Store, UNCHANGED <<service, proc, outside>>
  PROVE  Around' /\ Store'
  BY Fixed DEF Around, Store, service, outside

------------------------------------------------------------------------------
(* start().                                                                 *)

LEMMA StartGood == ASSUME IInv, NEW t \in Threads, StartStep(t) PROVE IInv'
<1> DEFINE f == cur[t]
<1>a. Around /\ Store /\ Stacks /\ f \in GoodFrame
      BY DEF IInv, Stacks
<1>b. f.d \in Daemons /\ f.bad \in BOOLEAN /\ f.arg \in BOOLEAN /\ f.items \subseteq Daemons
      BY <1>a DEF GoodFrame, Frame
<1>u. Unit[f.d] \in UnitType
      BY <1>a, <1>b, UnitTyped DEF Around
<1>1. CASE StartBegin(t)
  <2>1. [f EXCEPT !.pc = "claim"] \in GoodFrame
        BY <1>a DEF GoodFrame, Frame, Pcs
  <2>2. Stacks'
        BY <1>1, <1>a, <2>1, GotoGood, ReturnGood DEF StartBegin, outside
  <2> QED
    BY <1>1, <1>a, <2>2, RestSame DEF StartBegin, IInv
<1>2. CASE StartClaim(t)
  <2>1. [f EXCEPT !.pc = "flag", !.ph = "Clean"] \in GoodFrame
    <3>1. "Clean" \in Steps /\ "flag" \in Pcs
          BY StepsAre DEF Pcs
    <3> QED
      BY <1>a, <3>1 DEF GoodFrame, Frame
  <2>2. Stacks'
        BY <1>2, <1>a, <2>1, GotoGood, ReturnGood DEF StartClaim, outside
  <2>3. Around' /\ Store'
        BY <1>2, <1>a, <1>b, Fixed DEF StartClaim, Around, Store, States, outside
  <2> QED
    BY <2>2, <2>3 DEF IInv
<1>3. CASE StartFlag(t)
  <2>1. [f EXCEPT !.pc = "abort"] \in GoodFrame
        BY <1>a DEF GoodFrame, Frame, Pcs
  <2>2. Stacks'
        BY <1>3, <1>a, <2>1, GotoGood, ReturnGood DEF StartFlag, outside
  <2> QED
    BY <1>3, <1>a, <2>2, RestSame DEF StartFlag, IInv
<1>4. CASE StartAbort(t)
  <2>1. [f EXCEPT !.pc = "act"] \in GoodFrame
        BY <1>a DEF GoodFrame, Frame, Pcs
  <2>2. Stacks'
        BY <1>4, <1>a, <2>1, GotoGood, ReturnGood DEF StartAbort, outside
  <2> QED
    BY <1>4, <1>a, <2>2, RestSame DEF StartAbort, IInv
<1>5. CASE StartClean(t)
  <2>1. Enter(f, "Prepare") \in GoodFrame
    <3>1. "Prepare" \in Steps \ DepNames
          BY StepsAre DEF DepNames
    <3> QED
      BY <1>a, <1>b, <3>1, EnterGood DEF Around
  <2>2. Frame0("stop", f.d, FALSE) \in GoodFrame
        BY <1>b, Frame0Good DEF Fns
  <2>3. Stacks'
        BY <1>5, <1>a, <2>1, <2>2, CallGood DEF StartClean, outside
  <2> QED
    BY <1>5, <1>a, <2>3, RestSame DEF StartClean, IInv
<1>6. CASE StartPrepare(t)
  <2>1. Stacks'
        BY <1>6, <1>a, ReturnGood, ProceedGood DEF StartPrepare, AtStep, At, Around, outside
  <2>2. Around' /\ Store'
        BY <1>6, <1>a, <1>b, Fixed DEF StartPrepare, Around, Store, States, outside
  <2> QED
    BY <2>1, <2>2 DEF IInv
<1>7. CASE StartCondition(t)
  <2>1. Stacks'
        BY <1>7, <1>a, ReturnGood, ProceedGood DEF StartCondition, AtStep, At, Around, outside
  <2>2. Around' /\ Store'
        BY <1>7, <1>a, <1>b, Fixed DEF StartCondition, Around, Store, States, outside
  <2> QED
    BY <2>1, <2>2 DEF IInv
<1>8. ASSUME NEW i \in Daemons, StartRequisite(t, i) PROVE IInv'
  <2>1. [f EXCEPT !.items = @ \ {i}] \in GoodFrame /\ [f EXCEPT !.pc = "fail"] \in GoodFrame
        BY <1>a DEF GoodFrame, Frame, Pcs
  <2>2. [f EXCEPT !.items = @ \ {i}].fn = f.fn
        BY <1>a DEF GoodFrame, Frame
  <2>3. Stacks'
        BY <1>8, <1>a, <2>1, <2>2, GotoGood, ProceedGood DEF StartRequisite, AtStep, At, Around, outside
  <2> QED
    BY <1>8, <1>a, <2>3, RestSame DEF StartRequisite, IInv
<1>9. ASSUME NEW i \in Daemons, StartDependency(t, i) PROVE IInv'
  <2>1. [f EXCEPT !.items = @ \ {i}, !.pc = "after"] \in GoodFrame
        BY <1>a DEF GoodFrame, Frame, Pcs
  <2>2. Frame0("stop", i, TRUE) \in GoodFrame /\ Frame0("start", i, FALSE) \in GoodFrame
        BY Frame0Good DEF Fns
  <2>3. Stacks'
        BY <1>9, <1>a, <2>1, <2>2, CallGood DEF StartDependency, outside
  <2> QED
    BY <1>9, <1>a, <2>3, RestSame DEF StartDependency, IInv
<1>10. CASE StartAfterDependency(t)
  <2>1. [f EXCEPT !.pc = "fail"] \in GoodFrame /\ [f EXCEPT !.bad = FALSE] \in GoodFrame
    <3>1. [f EXCEPT !.pc = "fail"] \in GoodFrame
          BY <1>a DEF GoodFrame, Frame, Pcs
    <3>2. [f EXCEPT !.bad = FALSE] \in GoodFrame
          BY <1>a DEF GoodFrame, Frame
    <3> QED
      BY <3>1, <3>2
  <2>2. [f EXCEPT !.bad = FALSE].fn = f.fn
        BY <1>a DEF GoodFrame, Frame
  <2>3. Stacks'
        BY <1>10, <1>a, <2>1, <2>2, GotoGood, ProceedGood DEF StartAfterDependency, At, Around, outside
  <2> QED
    BY <1>10, <1>a, <2>3, RestSame DEF StartAfterDependency, IInv
<1>11. CASE StartLine(t)
  <2>1. [f EXCEPT !.pc = "fail"] \in GoodFrame
        BY <1>a DEF GoodFrame, Frame, Pcs
  <2>2. Frame0("stop", f.d, TRUE) \in GoodFrame
        BY <1>b, Frame0Good DEF Fns
  <2>3. Stacks'
        BY <1>11, <1>a, <2>1, <2>2, CallGood, ProceedGood DEF StartLine, At, Around, outside
  <2> QED
    BY <1>11, <1>a, <2>3, RestSame DEF StartLine, IInv
<1>12. CASE StartExec(t)
  <2>1. [f EXCEPT !.pc = "fail"] \in GoodFrame
        BY <1>a DEF GoodFrame, Frame, Pcs
  <2>2. Frame0("stop", f.d, TRUE) \in GoodFrame
        BY <1>b, Frame0Good DEF Fns
  <2>3. ASSUME NEW p \in Pool
        PROVE  [f EXCEPT !.mine = Append(@, p)] \in GoodFrame /\ [f EXCEPT !.mine = Append(@, p)].fn = f.fn
    <3>1. Append(f.mine, p) \in Seq(Pool) /\ Append(f.mine, p) \in Seq(Procs \cup {NoProc})
          BY <1>a DEF GoodFrame, Frame, Pool
    <3> QED
      BY <1>a, <3>1 DEF GoodFrame, Frame
  <2>4. f.fn = "start" /\ f.ph = "Start" /\ machine' = machine
        BY <1>12 DEF StartExec, AtStep, At, outside
  <2>5. Dash(f) => NoProc \in Pool
        BY <1>a, <1>b, <1>u, <2>4 DEF Dash, Pool, Dashed, GoodFrame, UnitType
  <2>6. Stacks'
    <3>1. ASSUME NEW p \in Pool, Proceed(t, [f EXCEPT !.mine = Append(@, p)]) PROVE Stacks'
          BY <1>a, <2>3, <2>4, <3>1, ProceedGood DEF Around
    <3>2. ASSUME Call(t, [f EXCEPT !.pc = "fail"], Frame0("stop", f.d, TRUE)) PROVE Stacks'
          BY <1>a, <2>1, <2>2, <2>4, <3>2, CallGood
    <3> QED
      BY <1>12, <2>5, <3>1, <3>2 DEF StartExec, Pool
  <2>7. Around' /\ Store'
        BY <1>12, <1>a, Fixed DEF StartExec, Around, Store, service, outside
  <2> QED
    BY <2>6, <2>7 DEF IInv
<1>13. CASE StartFail(t)
  <2>1. [f EXCEPT !.pc = "hooks", !.items = Unit[f.d].OnFailure] \in GoodFrame
        BY <1>a, <1>u DEF GoodFrame, Frame, Pcs, UnitType
  <2>2. Stacks'
        BY <1>13, <1>a, <2>1, GotoGood, ReturnGood DEF StartFail, FailErr, outside
  <2>3. lock' \in [Daemons -> (Threads \X {"OnFailure", "OnSuccess"}) \cup {None}]
    <3>1. lock' = [lock EXCEPT ![f.d] = <<t, "OnFailure">>] \/ lock' = lock
          BY <1>13 DEF StartFail
    <3>2. <<t, "OnFailure">> \in Threads \X {"OnFailure", "OnSuccess"}
          OBVIOUS
    <3> QED
      BY <1>a, <3>1, <3>2 DEF Store
  <2>4. Around' /\ Store'
        BY <1>13, <1>a, <1>b, <2>3, Fixed DEF StartFail, Around, Store, States, outside
  <2> QED
    BY <2>2, <2>4 DEF IInv
<1>14. CASE StartFinish(t)
  <2>1. [f EXCEPT !.pc = "hooks", !.items = Unit[f.d].OnSuccess] \in GoodFrame
        BY <1>a, <1>u DEF GoodFrame, Frame, Pcs, UnitType
  <2>2. machine' = machine
        BY <1>14 DEF StartFinish, outside
  <2>3. Stacks' /\ cmds' \in [Daemons -> Seq(Pool)]
    <3>1. CASE Publish(t)
          BY <1>a, <2>2, <3>1, PublishGood
    <3>2. CASE Goto(t, [f EXCEPT !.pc = "hooks", !.items = Unit[f.d].OnSuccess]) /\ UNCHANGED cmds
          BY <1>a, <2>1, <2>2, <3>2, GotoGood DEF Store
    <3>3. CASE Return(t, TRUE) /\ UNCHANGED cmds
          BY <1>a, <2>2, <3>3, ReturnGood DEF Store
    <3> QED
      BY <1>14, <3>1, <3>2, <3>3 DEF StartFinish
  <2>4. lock' \in [Daemons -> (Threads \X {"OnFailure", "OnSuccess"}) \cup {None}]
    <3>1. lock' = [lock EXCEPT ![f.d] = <<t, "OnSuccess">>] \/ lock' = lock
          BY <1>14 DEF StartFinish
    <3>2. <<t, "OnSuccess">> \in Threads \X {"OnFailure", "OnSuccess"}
          OBVIOUS
    <3> QED
      BY <1>a, <3>1, <3>2 DEF Store
  <2>5. Around' /\ Store'
        BY <1>14, <1>a, <1>b, <2>2, <2>3, <2>4, Fixed DEF StartFinish, Around, Store, States, outside
  <2> QED
    BY <2>3, <2>5 DEF IInv
<1>15. ASSUME NEW i \in Daemons, StartHook(t, i) PROVE IInv'
  <2>1. [f EXCEPT !.items = @ \ {i}] \in GoodFrame
        BY <1>a DEF GoodFrame, Frame
  <2>2. Frame0("start", i, FALSE) \in GoodFrame
        BY Frame0Good DEF Fns
  <2>3. Stacks'
        BY <1>15, <1>a, <2>1, <2>2, CallGood DEF StartHook, outside
  <2> QED
    BY <1>15, <1>a, <2>3, RestSame DEF StartHook, IInv
<1>16. CASE StartHooked(t)
  <2>1. machine' = machine
        BY <1>16 DEF StartHooked, outside
  <2>2. Stacks' /\ cmds' \in [Daemons -> Seq(Pool)]
    <3>1. CASE Publish(t)
          BY <1>a, <2>1, <3>1, PublishGood
    <3>2. CASE Return(t, FailErr(f)) /\ UNCHANGED cmds
          BY <1>a, <2>1, <3>2, ReturnGood DEF Store, FailErr
    <3> QED
      BY <1>16, <3>1, <3>2 DEF StartHooked
  <2>3. Around' /\ Store'
        BY <1>16, <1>a, <2>1, <2>2, Fixed DEF StartHooked, Around, Store, outside
  <2> QED
    BY <2>2, <2>3 DEF IInv
<1> QED
  BY <1>1, <1>2, <1>3, <1>4, <1>5, <1>6, <1>7, <1>8, <1>9, <1>10, <1>11, <1>12, <1>13, <1>14, <1>15, <1>16
     DEF StartStep

------------------------------------------------------------------------------
(* stop().                                                                  *)

\* Where a nil Process is met, some line begins with "-".
LEMMA PanicGood ==
  ASSUME IInv, NEW s \in Seq(Pool), NEW i \in DOMAIN s, s[i] = NoProc, Panic
  PROVE  IInv'
<1>1. s[i] \in Pool
      OBVIOUS
<1>2. Dashed
      BY <1>1, ThreadAssumption DEF Pool
<1> QED
  BY <1>2, Fixed DEF Panic, IInv, Around, Store, Stacks, service, stacks

Life == {"free", "alive", "termed", "killed", "ok", "fail"}

LEMMA SignalGood ==
  ASSUME proc \in [Procs -> Life], NEW ps, NEW from, NEW to \in Life, Signal(ps, from, to)
  PROVE  proc' \in [Procs -> Life]
  BY DEF Signal

LEMMA StopGood == ASSUME IInv, NEW t \in Threads, StopStep(t) PROVE IInv'
<1> DEFINE f == cur[t]
<1>a. Around /\ Store /\ Stacks /\ f \in GoodFrame
      BY DEF IInv, Stacks
<1>b. f.d \in Daemons /\ f.bad \in BOOLEAN /\ f.arg \in BOOLEAN
      BY <1>a DEF GoodFrame, Frame
<1>1. CASE StopBegin(t)
  <2>1. [f EXCEPT !.pc = "lines"] \in GoodFrame
        BY <1>a DEF GoodFrame, Frame, Pcs
  <2>2. Stacks'
        BY <1>1, <1>a, <2>1, GotoGood, ReturnGood DEF StopBegin, outside
  <2>3. Around' /\ Store'
        BY <1>1, <1>a, <1>b, Fixed DEF StopBegin, Around, Store, States, outside
  <2> QED
    BY <2>2, <2>3 DEF IInv
<1>2. ASSUME NEW pc, NEW some, NEW next \in Pcs, StopLines(t, pc, some, next) PROVE IInv'
  <2>1. [f EXCEPT !.pc = next] \in GoodFrame
        BY <1>a DEF GoodFrame, Frame
  <2>2. Stacks'
        BY <1>2, <1>a, <2>1, GotoGood DEF StopLines, outside
  <2>3. Around' /\ Store'
        BY <1>2, <1>a, <1>b, Fixed DEF StopLines, Around, Store, outside
  <2> QED
    BY <2>2, <2>3 DEF IInv
<1>3. CASE StopTerm(t)
  <2>1. [f EXCEPT !.pc = "post"] \in GoodFrame
        BY <1>a DEF GoodFrame, Frame, Pcs
  <2>2. Stacks'
        BY <1>3, <1>a, <2>1, GotoGood DEF StopTerm, outside
  <2>3. proc' \in [Procs -> Life]
        BY <1>3, <1>a, SignalGood DEF StopTerm, Around, Life
  <2>4. Around' /\ Store'
        BY <1>3, <1>a, <2>3, Fixed DEF StopTerm, Around, Store, Life, service, outside
  <2> QED
    BY <2>2, <2>4 DEF IInv
<1>4. CASE StopPoll(t)
  <2>1. CASE NilReached(cmds[f.d]) /\ Panic
    <3>1. cmds[f.d] \in Seq(Pool)
          BY <1>a, <1>b DEF Store
    <3> QED
      BY <2>1, <3>1, PanicGood DEF NilReached
  <2>2. CASE /\ Goto(t, [f EXCEPT !.pc = "end", !.bad = Blocking(cmds[f.d])])
             /\ UNCHANGED <<service, proc, outside>>
    <3>1. Blocking(cmds[f.d]) \in BOOLEAN
          BY DEF Blocking
    <3>2. [f EXCEPT !.pc = "end", !.bad = Blocking(cmds[f.d])] \in GoodFrame
          BY <1>a, <3>1 DEF GoodFrame, Frame, Pcs
    <3>3. Stacks'
          BY <1>a, <2>2, <3>2, GotoGood DEF outside
    <3> QED
      BY <1>a, <2>2, <3>3, RestSame DEF IInv
  <2> QED
    BY <1>4, <2>1, <2>2 DEF StopPoll
<1>5. CASE StopEnd(t)
  <2>1. Stacks'
        BY <1>5, <1>a, ReturnGood DEF StopEnd, outside
  <2>2. proc' \in [Procs -> Life]
        BY <1>5, <1>a, SignalGood DEF StopEnd, Around, Life
  <2>3. Around' /\ Store'
        BY <1>5, <1>a, <1>b, <2>2, Fixed DEF StopEnd, Around, Store, States, Life, outside
  <2> QED
    BY <2>1, <2>3 DEF IInv
<1> QED
  BY <1>1, <1>2, <1>3, <1>4, <1>5 DEF StopStep, StopPreLines, StopPostLines, Pcs

------------------------------------------------------------------------------
(* monitorCmds.                                                             *)

\* What MonitorApply does to the state, isManual and its own call.
Settled(t) == Again(t) \/ Down(t) \/ Leave(t)

LEMMA SettledGood ==
  ASSUME IInv, machine' = machine, NEW t \in Threads, Settled(t)
  PROVE  /\ Stacks'
         /\ state' \in [Daemons -> States]
         /\ isManual' \in [Daemons -> BOOLEAN]
<1> DEFINE f == cur[t]
<1>a. Around /\ Store /\ Stacks /\ f \in GoodFrame /\ f.d \in Daemons
      BY DEF IInv, Stacks, GoodFrame, Frame
<1>b. Unit[f.d] \in UnitType
      BY <1>a, UnitTyped DEF Around
<1>1. CASE Again(t)
  <2>1. [f EXCEPT !.pc = "sleep"] \in GoodFrame
        BY <1>a DEF GoodFrame, Frame, Pcs
  <2>2. Stacks'
        BY <1>1, <1>a, <2>1, GotoGood DEF Again
  <2> QED
    BY <1>1, <1>a, <2>2 DEF Again, Store, States
<1>2. CASE Down(t)
  <2>1. [f EXCEPT !.pc = "bound", !.items = Unit[f.d].BoundBy] \in GoodFrame
        BY <1>a, <1>b DEF GoodFrame, Frame, Pcs, UnitType
  <2>2. Stacks'
        BY <1>2, <1>a, <2>1, GotoGood DEF Down
  <2> QED
    BY <1>2, <1>a, <2>2 DEF Down, Store, States
<1>3. CASE Leave(t)
      BY <1>3, <1>a, ReturnGood DEF Leave, Store
<1> QED
  BY <1>1, <1>2, <1>3 DEF Settled

LEMMA ApplyGood ==
  ASSUME IInv, NEW t \in Threads, NEW policy, MonitorApply(t, policy)
  PROVE  IInv'
<1>a. Around /\ Store /\ Stacks /\ cur[t].d \in Daemons /\ cur[t].bad \in BOOLEAN
      BY DEF IInv, Stacks, GoodFrame, Frame
<1>1. machine' = machine /\ UNCHANGED <<isMasked, cmds, lock, proc, left, linked, shutdown, power, world>>
      BY DEF MonitorApply, outside
<1>2. Settled(t)
      BY DEF MonitorApply, Settled
<1>3. failed' \in [Daemons -> BOOLEAN]
      BY <1>a DEF MonitorApply, Store
<1>4. Stacks' /\ state' \in [Daemons -> States] /\ isManual' \in [Daemons -> BOOLEAN]
      BY <1>1, <1>2, SettledGood
<1>5. Around' /\ Store'
      BY <1>a, <1>1, <1>3, <1>4, Fixed DEF Around, Store
<1> QED
  BY <1>4, <1>5 DEF IInv

LEMMA MonitorGood == ASSUME IInv, NEW t \in Threads, MonitorStep(t) PROVE IInv'
<1> DEFINE f == cur[t]
<1>a. Around /\ Store /\ Stacks /\ f \in GoodFrame
      BY DEF IInv, Stacks
<1>b. f.d \in Daemons /\ f.bad \in BOOLEAN /\ f.arg \in BOOLEAN /\ f.line \in Nat /\ f.mine \in Seq(Pool)
      BY <1>a DEF GoodFrame, Frame
<1>c. /\ f.fn = "monitor" => f.ph # "Start"
      /\ \A p \in Procs \cup {NoProc} : Is(p) \in BOOLEAN
      BY <1>a DEF GoodFrame, Is
<1>u. Unit[f.d] \in UnitType
      BY <1>a, <1>b, UnitTyped DEF Around
<1>1. CASE MonitorBegin(t)
  <2> DEFINE g == [f EXCEPT !.pc = "attach", !.mine = cmds[f.d]]
  <2>1. g \in GoodFrame
    <3>1. cmds[f.d] \in Seq(Pool) /\ cmds[f.d] \in Seq(Procs \cup {NoProc})
          BY <1>a, <1>b DEF Store, Pool
    <3> QED
      BY <1>a, <3>1 DEF GoodFrame, Frame, Pcs
  <2>2. g.d = f.d /\ Frame0("needed", f.d, FALSE) \in GoodFrame
        BY <1>a, <1>b, Frame0Good DEF GoodFrame, Frame, Fns
  <2> HIDE DEF g
  <2>3. machine' = machine
        BY <1>1 DEF MonitorBegin, outside
  <2>4. CASE Goto(t, g)
        BY <1>1, <1>a, <2>1, <2>3, <2>4, GotoGood, RestSame DEF MonitorBegin, IInv
  <2>5. ASSUME NEW w \in Workers, UNCHANGED callers,
               cur' = [cur EXCEPT ![t] = g, ![w] = Frame0("needed", f.d, FALSE)]
        PROVE  IInv'
    <3>1. Stacks'
          BY <1>a, <2>1, <2>2, <2>3, <2>5, Fixed DEF Stacks, Threads
    <3> QED
      BY <1>1, <1>a, <3>1, RestSame DEF MonitorBegin, IInv
  <2> QED
    BY <1>1, <2>2, <2>4, <2>5 DEF MonitorBegin, g
<1>2. CASE MonitorAttach(t)
  <2>1. [f EXCEPT !.pc = "clear"] \in GoodFrame /\ [f EXCEPT !.pc = "await"] \in GoodFrame
        BY <1>a DEF GoodFrame, Frame, Pcs
  <2>2. [f EXCEPT !.line = @ + 1] \in GoodFrame
    <3>1. f.line + 1 \in Nat \ {0} /\ f.ph # "Start" /\ f.pc \in Pcs
          BY <1>2, <1>a, <1>b, <1>c DEF MonitorAttach, At, GoodFrame, Frame
    <3>2. [f EXCEPT !.pc = f.pc, !.line = f.line + 1] \in GoodFrame
          BY <1>a, <3>1, LineGood
    <3>3. [f EXCEPT !.pc = f.pc, !.line = f.line + 1] = [f EXCEPT !.line = f.line + 1]
          BY <1>a DEF GoodFrame, Frame
    <3> QED
      BY <3>2, <3>3
  <2>3. CASE f.line <= Len(f.mine) /\ f.mine[f.line] = NoProc /\ Panic
    <3>1. f.line \in DOMAIN f.mine
          BY <1>a, <1>b, <2>3 DEF GoodFrame
    <3> QED
      BY <1>b, <2>3, <3>1, PanicGood
  <2>4. ASSUME NEW g \in GoodFrame, Goto(t, g), UNCHANGED <<service, proc, outside>> PROVE IInv'
        BY <1>a, <2>4, GotoGood, RestSame DEF IInv, outside
  <2> QED
    BY <1>2, <2>1, <2>2, <2>3, <2>4 DEF MonitorAttach
<1>3. CASE MonitorAwait(t)
  <2> DEFINE g == [f EXCEPT !.pc = "attach", !.line = @ + 1, !.bad = @ \/ proc[f.mine[f.line]] = "fail"]
  <2>1. f.line + 1 \in Nat \ {0} /\ f.ph # "Start" /\ "attach" \in Pcs
        BY <1>3, <1>b, <1>c DEF MonitorAwait, At, Pcs
  <2>2. [f EXCEPT !.pc = "attach", !.line = f.line + 1] \in GoodFrame
        BY <1>a, <2>1, LineGood
  <2>3. (f.bad \/ proc[f.mine[f.line]] = "fail") \in BOOLEAN
        BY <1>b
  <2>4. ASSUME NEW h \in GoodFrame, NEW x \in BOOLEAN PROVE [h EXCEPT !.bad = x] \in GoodFrame
        BY DEF GoodFrame, Frame
  <2>5. g = [[f EXCEPT !.pc = "attach", !.line = f.line + 1] EXCEPT
                !.bad = f.bad \/ proc[f.mine[f.line]] = "fail"]
        BY <1>a DEF GoodFrame, Frame
  <2>6. g \in GoodFrame
        BY <2>2, <2>3, <2>4, <2>5
  <2>7. Stacks'
        BY <1>3, <1>a, <2>6, GotoGood DEF MonitorAwait, outside
  <2> QED
    BY <1>3, <1>a, <2>7, RestSame DEF MonitorAwait, IInv
<1>4. CASE MonitorClear(t)
  <2>1. [f EXCEPT !.pc = "decide", !.mine = << >>] \in GoodFrame
    <3>1. << >> \in Seq(Pool) /\ << >> \in Seq(Procs \cup {NoProc})
          OBVIOUS
    <3> QED
      BY <1>a, <3>1 DEF GoodFrame, Frame, Pcs
  <2>2. Stacks'
        BY <1>4, <1>a, <2>1, GotoGood DEF MonitorClear, outside
  <2>3. Around' /\ Store'
        BY <1>4, <1>a, <1>b, Fixed DEF MonitorClear, Around, Store, outside
  <2> QED
    BY <2>2, <2>3 DEF IInv
<1>5. CASE MonitorDecide(t)
  <2>1. /\ [f EXCEPT !.pc = "settle"] \in GoodFrame
        /\ [f EXCEPT !.pc = "uphold", !.items = Unit[f.d].UpheldBy] \in GoodFrame
        BY <1>a, <1>u DEF GoodFrame, Frame, Pcs, UnitType
  <2>2. Stacks'
        BY <1>5, <1>a, <2>1, GotoGood, ReturnGood DEF MonitorDecide
  <2>3. Around' /\ Store'
        BY <1>5, <1>a, Fixed DEF MonitorDecide, Around, Store, service
  <2> QED
    BY <2>2, <2>3 DEF IInv
<1>6. ASSUME NEW i \in Daemons, MonitorUphold(t, i) PROVE IInv'
  <2>1. [f EXCEPT !.items = @ \ {i}, !.arg = @ \/ state[i] = "Running"] \in GoodFrame
        BY <1>a, <1>b DEF GoodFrame, Frame
  <2>2. Stacks'
        BY <1>6, <1>a, <2>1, GotoGood DEF MonitorUphold, outside
  <2> QED
    BY <1>6, <1>a, <2>2, RestSame DEF MonitorUphold, IInv
<1>7. CASE MonitorSettle(t)
      BY <1>7, ApplyGood DEF MonitorSettle
<1>8. CASE MonitorWake(t)
  <2>1. [f EXCEPT !.pc = "restarted"] \in GoodFrame
        BY <1>a DEF GoodFrame, Frame, Pcs
  <2>2. Frame0("start", f.d, isManual[f.d]) \in GoodFrame
        BY <1>a, <1>b, Frame0Good DEF Store, Fns
  <2>3. Stacks'
        BY <1>8, <1>a, <2>1, <2>2, CallGood, ReturnGood DEF MonitorWake, outside
  <2>4. Around' /\ Store'
        BY <1>8, <1>a, <1>b, Fixed DEF MonitorWake, Around, Store, outside
  <2> QED
    BY <2>3, <2>4 DEF IInv
<1>9. CASE MonitorRestarted(t)
  <2>1. [f EXCEPT !.pc = "bound", !.items = Unit[f.d].BoundBy] \in GoodFrame
        BY <1>a, <1>u DEF GoodFrame, Frame, Pcs, UnitType
  <2>2. Stacks'
        BY <1>9, <1>a, <2>1, GotoGood, ReturnGood DEF MonitorRestarted, outside
  <2> QED
    BY <1>9, <1>a, <2>2, RestSame DEF MonitorRestarted, IInv
<1>10. ASSUME NEW i \in Daemons, MonitorStopDep(t, i) PROVE IInv'
  <2>1. [f EXCEPT !.items = @ \ {i}] \in GoodFrame
        BY <1>a DEF GoodFrame, Frame
  <2>2. Frame0("stop", i, TRUE) \in GoodFrame
        BY Frame0Good DEF Fns
  <2>3. Stacks'
        BY <1>10, <1>a, <2>1, <2>2, CallGood DEF MonitorStopDep, outside
  <2> QED
    BY <1>10, <1>a, <2>3, RestSame DEF MonitorStopDep, IInv
<1>11. CASE MonitorStopDepsDone(t)
  <2>1. [f EXCEPT !.pc = "part", !.items = Unit[f.d].ConsistsOf] \in GoodFrame
        BY <1>a, <1>u DEF GoodFrame, Frame, Pcs, UnitType
  <2>2. Stacks'
        BY <1>11, <1>a, <2>1, GotoGood, ReturnGood DEF MonitorStopDepsDone, outside
  <2> QED
    BY <1>11, <1>a, <2>2, RestSame DEF MonitorStopDepsDone, IInv
<1> QED
  BY <1>1, <1>2, <1>3, <1>4, <1>5, <1>6, <1>7, <1>8, <1>9, <1>10, <1>11 DEF MonitorStep

------------------------------------------------------------------------------
(* monitorNeeded, Restart, Reload and StopAll.                              *)

LEMMA NeededGood == ASSUME IInv, NEW t \in Threads, NeededStep(t) PROVE IInv'
<1> DEFINE f == cur[t]
<1>a. Around /\ Store /\ Stacks /\ f \in GoodFrame
      BY DEF IInv, Stacks
<1>1. [f EXCEPT !.pc = "end"] \in GoodFrame
      BY <1>a DEF GoodFrame, Frame, Pcs
<1>2. Frame0("stop", f.d, TRUE) \in GoodFrame
      BY <1>a, Frame0Good DEF GoodFrame, Frame, Fns
<1>3. Stacks'
      BY <1>a, <1>1, <1>2, CallGood, ReturnGood DEF NeededStep, NeededTick, NeededEnd, outside
<1> QED
  BY <1>a, <1>3, RestSame DEF NeededStep, NeededTick, NeededEnd, IInv

LEMMA RestartGood ==
  ASSUME IInv, NEW t \in Threads, RestartBegin(t) \/ RestartTail(t)
  PROVE  IInv'
<1> DEFINE f == cur[t]
<1>a. Around /\ Store /\ Stacks /\ f \in GoodFrame
      BY DEF IInv, Stacks
<1>b. f.d \in Daemons
      BY <1>a DEF GoodFrame, Frame
<1>c. Frame0("stop", f.d, TRUE) \in GoodFrame /\ Frame0("start", f.d, TRUE) \in GoodFrame
      BY <1>b, Frame0Good DEF Fns
<1>1. CASE RestartBegin(t)
  <2>1. [f EXCEPT !.pc = "tail"] \in GoodFrame
        BY <1>a DEF GoodFrame, Frame, Pcs
  <2>2. Stacks'
        BY <1>1, <1>a, <1>c, <2>1, CallGood, ReturnGood DEF RestartBegin, outside
  <2>3. Around' /\ Store'
        BY <1>1, <1>a, <1>b, Fixed DEF RestartBegin, Around, Store, States, outside
  <2> QED
    BY <2>2, <2>3 DEF IInv
<1>2. CASE RestartTail(t)
  <2>1. Stacks'
        BY <1>2, <1>a, <1>c, GotoGood, ReturnGood DEF RestartTail, outside
  <2> QED
    BY <1>2, <1>a, <2>1, RestSame DEF RestartTail, IInv
<1> QED
  BY <1>1, <1>2

LEMMA ReloadGood ==
  ASSUME IInv, NEW t \in Threads, ReloadBegin(t) \/ ReloadHup(t)
  PROVE  IInv'
<1> DEFINE f == cur[t]
<1>a. Around /\ Store /\ Stacks /\ f \in GoodFrame
      BY DEF IInv, Stacks
<1>b. f.d \in Daemons
      BY <1>a DEF GoodFrame, Frame
<1>1. CASE ReloadBegin(t)
  <2>1. [f EXCEPT !.pc = "hup"] \in GoodFrame
        BY <1>a DEF GoodFrame, Frame, Pcs
  <2>2. Stacks'
        BY <1>1, <1>a, <2>1, GotoGood, ReturnGood DEF ReloadBegin, outside
  <2> QED
    BY <1>1, <1>a, <2>2, RestSame DEF ReloadBegin, IInv
<1>2. CASE ReloadHup(t)
  <2>1. ASSUME NEW err \in BOOLEAN, Return(t, err), UNCHANGED <<service, proc, outside>> PROVE IInv'
        BY <1>a, <2>1, ReturnGood, RestSame DEF IInv, outside
  <2>2. ASSUME NEW i \in DOMAIN cmds[f.d], cmds[f.d][i] = NoProc, Panic PROVE IInv'
    <3>1. cmds[f.d] \in Seq(Pool)
          BY <1>a, <1>b DEF Store
    <3> QED
      BY <2>2, <3>1, PanicGood
  <2>3. ASSUME NEW ps, Signal(ps, {"alive"}, "termed"), Return(t, FALSE), UNCHANGED <<service, outside>>
        PROVE  IInv'
    <3>1. proc' \in [Procs -> Life]
          BY <1>a, <2>3, SignalGood DEF Around, Life
    <3>2. Stacks'
          BY <1>a, <2>3, ReturnGood DEF outside
    <3>3. Around' /\ Store'
          BY <1>a, <2>3, <3>1, Fixed DEF Around, Store, Life, service, outside
    <3> QED
      BY <3>2, <3>3 DEF IInv
  <2>4. CASE Unit[f.d].ReloadLine
    <3>1. PICK err \in {FALSE, "line" \in CanFail} : Return(t, err) /\ UNCHANGED <<service, proc, outside>>
          BY <1>2, <2>4 DEF ReloadHup
    <3>2. ("line" \in CanFail) \in BOOLEAN
          OBVIOUS
    <3>3. err \in BOOLEAN
          BY <3>2
    <3> QED
      BY <2>1, <3>1, <3>3
  <2>5. CASE ~Unit[f.d].ReloadLine
        BY <1>2, <2>2, <2>3, <2>5 DEF ReloadHup
  <2> QED
    BY <2>4, <2>5
<1> QED
  BY <1>1, <1>2

LEMMA StopAllGood == ASSUME IInv, NEW t \in Threads, StopAllStep(t) PROVE IInv'
<1> DEFINE f == cur[t]
<1>a. Around /\ Store /\ Stacks /\ f \in GoodFrame
      BY DEF IInv, Stacks
<1>1. CASE StopAllBegin(t)
  <2>1. [f EXCEPT !.pc = "next", !.items = Daemons] \in GoodFrame
        BY <1>a DEF GoodFrame, Frame, Pcs
  <2>2. Stacks'
        BY <1>1, <1>a, <2>1, GotoGood DEF StopAllBegin
  <2>3. Around' /\ Store'
        BY <1>1, <1>a, Fixed DEF StopAllBegin, Around, Store, service
  <2> QED
    BY <2>2, <2>3 DEF IInv
<1>2. ASSUME NEW i \in Daemons, StopAllNext(t, i) PROVE IInv'
  <2>1. [f EXCEPT !.pc = "ask", !.d = i, !.items = @ \ {i}] \in GoodFrame
    <3>1. f.ph # "Start"
          BY <1>2, <1>a DEF StopAllNext, At, GoodFrame
    <3> QED
      BY <1>a, <3>1 DEF GoodFrame, Frame, Pcs
  <2>2. Stacks'
        BY <1>2, <1>a, <2>1, GotoGood DEF StopAllNext, outside
  <2> QED
    BY <1>2, <1>a, <2>2, RestSame DEF StopAllNext, IInv
<1>4. CASE StopAllAsk(t)
  <2> DEFINE g == [f EXCEPT !.pc = "next"]
  <2>1. g \in GoodFrame /\ g.d \in Daemons
        BY <1>a DEF GoodFrame, Frame, Pcs
  <2>2. Frame0("stop", g.d, TRUE) \in GoodFrame
        BY <2>1, Frame0Good DEF Fns
  <2>3. machine' = machine /\ (Goto(t, g) \/ Call(t, g, Frame0("stop", g.d, TRUE)))
        BY <1>4 DEF StopAllAsk, outside
  <2> HIDE DEF g
  <2>4. Stacks'
        BY <1>a, <2>1, <2>2, <2>3, GotoGood, CallGood
  <2> QED
    BY <1>4, <1>a, <2>4, RestSame DEF StopAllAsk, IInv
<1>3. CASE StopAllEnd(t)
      BY <1>3, <1>a, Fixed DEF StopAllEnd, IInv, Around, Store, Stacks, service, stacks
<1> QED
  BY <1>1, <1>2, <1>3, <1>4 DEF StopAllStep

LEMMA BlocksGood == ASSUME IInv, NEW t \in Threads, RunBlocks(t) PROVE IInv'
<1>a. Around /\ Store /\ Stacks /\ cur[t] \in GoodFrame
      BY DEF IInv, Stacks
<1>1. [cur[t] EXCEPT !.pc = "blocked"] \in GoodFrame
      BY <1>a DEF GoodFrame, Frame, Pcs
<1>2. Stacks'
      BY <1>a, <1>1, GotoGood DEF RunBlocks
<1>3. Around' /\ Store'
      BY <1>a, Fixed DEF RunBlocks, Around, Store, service
<1> QED
  BY <1>2, <1>3 DEF IInv

------------------------------------------------------------------------------
(* Commands, SIGTERM and processes.                                         *)

LEMMA CommandGood ==
  ASSUME IInv, NEW c \in Clients, NEW d \in Daemons,
         \/ \E op \in OpNames : Command(c, d, op)
         \/ StatusCommand(c, d) \/ MaskCommand(c, d) \/ UnmaskCommand(c, d)
  PROVE  IInv'
<1>a. Around /\ Store /\ Stacks /\ c \in Threads
      BY DEF IInv, Threads
<1>b. left[c] > 0 /\ left' = [left EXCEPT ![c] = @ - 1] => left' \in [Clients -> Nat]
      BY <1>a DEF Around
<1>1. ASSUME NEW op \in OpNames, Command(c, d, op) PROVE IInv'
  <2>1. Frame0(op, d, TRUE) \in GoodFrame
        BY <1>1, Frame0Good DEF Command, Fns
  <2>2. Stacks'
        BY <1>1, <1>a, <2>1, GotoGood DEF Command
  <2>3. Around' /\ Store'
        BY <1>1, <1>a, <1>b, Fixed DEF Command, May, Spend, Around, Store, service
  <2> QED
    BY <2>2, <2>3 DEF IInv
<1>2. CASE StatusCommand(c, d)
  <2>1. machine' = machine /\ UNCHANGED <<service, proc, stacks, linked, shutdown, power>>
        BY <1>2 DEF StatusCommand
  <2>2. ASSUME NEW i \in DOMAIN cmds[d], cmds[d][i] = NoProc PROVE Dashed
    <3>1. cmds[d][i] \in Pool
          BY <1>a, <2>2 DEF Store
    <3> QED
      BY <2>2, <3>1, ThreadAssumption DEF Pool
  <2>3. world' \in {"up", "exited", "panicked"} /\ (world' = "panicked" => Dashed)
        BY <1>2, <1>a, <2>2 DEF StatusCommand, May, Around
  <2> QED
    BY <1>2, <1>a, <1>b, <2>1, <2>3, Fixed DEF StatusCommand, May, Spend, IInv, Around, Store, Stacks, service, stacks
<1>3. CASE MaskCommand(c, d)
  <2>1. PICK hasFile \in BOOLEAN :
          /\ isMasked' = [isMasked EXCEPT ![d] = @ \/ ~(hasFile \/ linked)]
          /\ linked' = (linked \/ ~hasFile)
          /\ Goto(c, Idle(hasFile \/ linked))
        BY <1>3 DEF MaskCommand
  <2>2. Idle(hasFile \/ linked) \in GoodFrame
        BY <1>a, IdleGood DEF Around
  <2>3. Stacks'
        BY <1>3, <1>a, <2>1, <2>2, GotoGood DEF MaskCommand
  <2>4. isMasked' \in [Daemons -> BOOLEAN] /\ linked' \in BOOLEAN
        BY <1>a, <2>1 DEF Store, Around
  <2>5. Around' /\ Store'
        BY <1>3, <1>a, <1>b, <2>4, Fixed DEF MaskCommand, May, Spend, Around, Store
  <2> QED
    BY <2>3, <2>5 DEF IInv
<1>4. CASE UnmaskCommand(c, d)
  <2>1. Stacks'
        BY <1>4, <1>a, IdleGood, GotoGood DEF UnmaskCommand
  <2>2. Around' /\ Store'
        BY <1>4, <1>a, <1>b, Fixed DEF UnmaskCommand, May, Spend, Around, Store
  <2> QED
    BY <2>1, <2>2 DEF IInv
<1> QED
  BY <1>1, <1>2, <1>3, <1>4

LEMMA OutsideGood == ASSUME IInv, Outside PROVE IInv'
<1>a. Around /\ Store /\ Stacks
      BY DEF IInv
<1>1. ASSUME NEW c \in Clients, NEW d \in Daemons,
             \/ \E op \in OpNames : Command(c, d, op)
             \/ StatusCommand(c, d) \/ MaskCommand(c, d) \/ UnmaskCommand(c, d)
      PROVE  IInv'
      BY <1>1, CommandGood
<1>2. CASE Terminate
  <2>1. Main \in Threads /\ cur[Main].d \in Daemons
        BY <1>a DEF Threads, Stacks, GoodFrame, Frame
  <2>2. Frame0("stopall", cur[Main].d, FALSE) \in GoodFrame
        BY <2>1, Frame0Good DEF Fns
  <2>3. Stacks'
        BY <1>2, <1>a, <2>1, <2>2, GotoGood DEF Terminate, outside
  <2> QED
    BY <1>2, <1>a, <2>3, RestSame DEF Terminate, IInv
<1>3. ASSUME NEW p \in Procs, NEW s \in {"ok", "fail"}, Exit(p, s) PROVE IInv'
      BY <1>3, <1>a, Fixed DEF Exit, IInv, Around, Store, Stacks, service, stacks, outside
<1> QED
  BY <1>1, <1>2, <1>3 DEF Outside

------------------------------------------------------------------------------

LEMMA InitIInv == Init => IInv
<1> SUFFICES ASSUME Init PROVE IInv
    OBVIOUS
<1>1. machine.maxOps \in Nat
      BY MachineAssumption DEF Init, MachineType
<1>2. Around
      BY <1>1 DEF Init, Around
<1>3. Store
  <2>1. << >> \in Seq(Pool)
        OBVIOUS
  <2> QED
    BY <2>1 DEF Init, Store, States
<1>4. Stacks
  <2>1. << >> \in Seq(GoodFrame)
        OBVIOUS
  <2>2. Idle(FALSE) \in GoodFrame
        BY IdleGood
  <2> QED
    BY <2>1, <2>2 DEF Init, Stacks
<1> QED
  BY <1>2, <1>3, <1>4 DEF IInv

LEMMA StepIInv == IInv /\ [Next]_vars => IInv'
<1> SUFFICES ASSUME IInv, [Next]_vars PROVE IInv'
    OBVIOUS
<1>1. CASE Outside
      BY <1>1, OutsideGood
<1>2. ASSUME NEW t \in Threads, Step(t) PROVE IInv'
      BY <1>2, StartGood, StopGood, MonitorGood, NeededGood, RestartGood, ReloadGood, StopAllGood DEF Step
<1>4. ASSUME NEW t \in Threads, RunBlocks(t) PROVE IInv'
      BY <1>4, BlocksGood
<1>3. CASE UNCHANGED vars
      BY <1>3, Fixed DEF vars, stacks, outside, service, IInv, Around, Store, Stacks
<1> QED
  BY <1>1, <1>2, <1>3, <1>4 DEF Next

LEMMA IInvTypeOK == IInv => TypeOK
<1> SUFFICES ASSUME IInv PROVE TypeOK
    OBVIOUS
<1>1. GoodFrame \subseteq Frame /\ Pool \subseteq Procs \cup {NoProc}
      BY DEF GoodFrame, Pool
<1>2. Seq(GoodFrame) \subseteq Seq(Frame) /\ Seq(Pool) \subseteq Seq(Procs \cup {NoProc})
      BY <1>1
<1>3. cur \in [Threads -> Frame] /\ callers \in [Threads -> Seq(Frame)]
      BY <1>1, <1>2 DEF IInv, Stacks
<1>4. cmds \in [Daemons -> Seq(Procs \cup {NoProc})]
      BY <1>2 DEF IInv, Store
<1> QED
  BY <1>3, <1>4 DEF IInv, Around, Store, TypeOK

\* Every reachable state satisfies the invariant.
THEOREM DaemonIInv == Spec => []IInv
  BY InitIInv, StepIInv, PTL DEF Spec

\* Type correctness, for any number of services, goroutines and nested calls:
\* no sequence of commands, deaths and failures makes start(), stop() or
\* monitorCmds leave a service in a state that is none of the five.
THEOREM DaemonTypeOK == Spec => []TypeOK
  BY DaemonIInv, IInvTypeOK, PTL

\* A nil Process (daemon.go:769 and its users) brings the init process down
\* only if some service has an ExecStart line that begins with "-".
THEOREM DaemonPanicNeedsDash == Spec => []PanicNeedsDash
<1>1. IInv => PanicNeedsDash
      BY DEF IInv, Around, Dashed, PanicNeedsDash
<1> QED
  BY <1>1, DaemonIInv, PTL
==============================================================================
