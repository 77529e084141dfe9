--------------------------- MODULE DaemonWatchProofs --------------------------
(***************************************************************************)
(* Proofs that every service is looked after, for any services, processes, *)
(* goroutines and containers: one that is Running is not forgotten by its  *)
(* monitors, and one in a transient state has a goroutine that will end it.*)
(***************************************************************************)
EXTENDS DaemonProofs

\* While start() runs the OnFailure services the service is not Running: it
\* set Stopped with the lock, and only start(), with the lock, sets Running.
HookInv == \A d \in Daemons : \A t \in Threads : lock[d] = <<t, "OnFailure">> => state[d] # "Running"

WInv == IInv /\ HookInv /\ Watched

\* A step that no service becomes Running by, and that no monitor stops
\* watching by; a lock is at most taken, and by runOnFailure.
Keeps ==
  /\ machine' = machine
  /\ \A d \in Daemons : state'[d] = "Running" => state[d] = "Running"
  /\ \A d \in Daemons : lock'[d] = lock[d] \/ (lock'[d] # None /\ state'[d] # "Running")
  /\ \A w \in Workers, d \in Daemons : Watching(w, d) => Watching(w, d)'

LEMMA KeepsGood == ASSUME HookInv, Watched, Keeps PROVE HookInv' /\ Watched'
<1>1. HookInv'
      BY DEF HookInv, Keeps
<1>2. ASSUME NEW d \in Daemons, state'[d] = "Running",
             ~Unit[d].RemainAfterExit, ~Unit[d].SuccessPoweroff, ~Unit[d].FailurePoweroff
      PROVE  lock'[d] # None \/ \E w \in Workers : Watching(w, d)'
      BY <1>2 DEF Watched, Keeps
<1> QED
  BY <1>1, <1>2 DEF Watched, Keeps, Unit

\* Only t goes on, and it watches nothing.
Moves(t) == \E f : cur' = [cur EXCEPT ![t] = f]

LEMMA MovesKeep ==
  ASSUME Stacks, NEW t \in Threads, Moves(t), \A d \in Daemons : ~Watching(t, d)
  PROVE  \A w \in Workers, d \in Daemons : Watching(w, d) => Watching(w, d)'
  BY DEF Moves, Stacks, Threads, Watching

\* Steps that leave the services alone.
LEMMA QuietKeeps ==
  ASSUME IInv, NEW t \in Threads, Moves(t), \A d \in Daemons : ~Watching(t, d),
         UNCHANGED <<state, lock, machine>>
  PROVE  Keeps
  BY MovesKeep DEF IInv, Keeps

LEMMA PanicKeeps == ASSUME Panic PROVE Keeps
  BY DEF Panic, Keeps, Watching, service, stacks

LEMMA MovesBy ==
  ASSUME NEW t, NEW f, NEW g, NEW err, Goto(t, f) \/ Call(t, f, g) \/ Return(t, err) \/ Proceed(t, f)
  PROVE  Moves(t)
  BY DEF Goto, Call, Return, Proceed, Moves

\* No hook's lock is None.
LEMMA HookLock == \A t \in Threads : <<t, "OnFailure">> # None /\ <<t, "OnSuccess">> # None
  BY ThreadAssumption

\* The publication of commands leaves a monitor that watches the service.
LEMMA PublishWatches ==
  ASSUME Stacks, NEW t \in Threads, NEW d \in Daemons, cur[t].fn = "start", cur[t].d = d, Publish(t)
  PROVE  /\ \E w \in Workers : Watching(w, d)'
         /\ \A w \in Workers, e \in Daemons : Watching(w, e) => Watching(w, e)'
<1>1. PICK w \in Workers :
         /\ cur[w].fn = "idle"
         /\ cur' = [cur EXCEPT ![t] = Below(t, FALSE), ![w] = Frame0("monitor", d, FALSE)]
      BY DEF Publish
<1>2. cur'[w] = Frame0("monitor", d, FALSE)
      BY <1>1 DEF Stacks, Threads
<1>3. \A v \in Workers : cur[v].fn = "monitor" => cur'[v] = cur[v]
      BY <1>1 DEF Stacks, Threads
<1>4. Watching(w, d)'
      BY <1>2 DEF Watching, Frame0
<1>5. \A v \in Workers, e \in Daemons : Watching(v, e) => Watching(v, e)'
      BY <1>3 DEF Watching
<1> QED
  BY <1>4, <1>5

------------------------------------------------------------------------------

LEMMA StartKeeps ==
  ASSUME WInv, NEW t \in Threads, StartStep(t)
  PROVE  HookInv' /\ Watched'
<1> DEFINE f == cur[t]
<1>a. IInv /\ HookInv /\ Watched /\ Around /\ Store /\ Stacks /\ f.d \in Daemons
      BY DEF WInv, IInv, Stacks, GoodFrame, Frame
<1>1. CASE \/ StartBegin(t) \/ StartFlag(t) \/ StartAbort(t) \/ StartClean(t)
           \/ StartAfterDependency(t) \/ StartLine(t)
           \/ \E i \in Daemons : StartRequisite(t, i) \/ StartDependency(t, i) \/ StartHook(t, i)
  <2>1. Moves(t)
        BY <1>1, MovesBy DEF StartBegin, StartFlag, StartAbort, StartClean, StartAfterDependency, StartLine,
           StartRequisite, StartDependency, StartHook
  <2>2. \A d \in Daemons : ~Watching(t, d)
        BY <1>1 DEF StartBegin, StartFlag, StartAbort, StartClean, StartAfterDependency, StartLine,
           StartRequisite, StartDependency, StartHook, AtStep, At, Watching
  <2>3. UNCHANGED <<state, lock, machine>>
        BY <1>1 DEF StartBegin, StartFlag, StartAbort, StartClean, StartAfterDependency, StartLine,
           StartRequisite, StartDependency, StartHook, service, outside
  <2> QED
    BY <1>a, <2>1, <2>2, <2>3, QuietKeeps, KeepsGood
<1>2. CASE StartExec(t)
  <2>1. Moves(t)
        BY <1>2, MovesBy DEF StartExec
  <2>2. \A d \in Daemons : ~Watching(t, d)
        BY <1>2 DEF StartExec, AtStep, At, Watching
  <2>3. UNCHANGED <<state, lock, machine>>
        BY <1>2 DEF StartExec, service, outside
  <2> QED
    BY <1>a, <2>1, <2>2, <2>3, QuietKeeps, KeepsGood
<1>3. CASE StartClaim(t) \/ StartPrepare(t) \/ StartCondition(t) \/ StartFail(t)
  <2>1. Moves(t)
        BY <1>3, MovesBy DEF StartClaim, StartPrepare, StartCondition, StartFail
  <2>2. \A d \in Daemons : ~Watching(t, d)
        BY <1>3 DEF StartClaim, StartPrepare, StartCondition, StartFail, AtStep, At, Watching
  <2>3. machine' = machine /\ \A d \in Daemons : state'[d] = "Running" => state[d] = "Running"
        BY <1>3, <1>a DEF StartClaim, StartPrepare, StartCondition, StartFail, Store, outside
  <2>4. \A d \in Daemons : lock'[d] = lock[d] \/ (lock'[d] # None /\ state'[d] # "Running")
    <3>1. <<t, "OnFailure">> # None
          BY HookLock
    <3>2. CASE StartClaim(t) \/ StartPrepare(t) \/ StartCondition(t)
          BY <3>2 DEF StartClaim, StartPrepare, StartCondition
    <3>3. CASE StartFail(t)
          BY <1>a, <3>1, <3>3 DEF StartFail, Store
    <3> QED
      BY <1>3, <3>2, <3>3
  <2>5. \A w \in Workers, d \in Daemons : Watching(w, d) => Watching(w, d)'
        BY <1>a, <2>1, <2>2, MovesKeep
  <2>6. Keeps
        BY <2>3, <2>4, <2>5 DEF Keeps
  <2> QED
    BY <1>a, <2>6, KeepsGood
<1>4. CASE StartFinish(t)
  <2>d. PICK d \in Daemons : d = f.d
        BY <1>a
  <2>1. f.fn = "start" /\ machine' = machine /\ lock[d] = None
        BY <1>4, <2>d DEF StartFinish, At, Free, outside
  <2>2. CASE Return(t, TRUE) /\ UNCHANGED <<state, failed, cmds, lock>>
    <3>1. Moves(t)
          BY <2>2, MovesBy
    <3> QED
      BY <1>a, <2>1, <2>2, <3>1, QuietKeeps, KeepsGood DEF Watching
  <2>3. CASE state' = [state EXCEPT ![d] = "Running"] /\ Publish(t) /\ UNCHANGED lock
    <3>1. /\ \E w \in Workers : Watching(w, d)'
          /\ \A w \in Workers, e \in Daemons : Watching(w, e) => Watching(w, e)'
          BY <1>a, <2>1, <2>3, <2>d, PublishWatches
    <3>2. HookInv'
          BY <1>a, <2>1, <2>3, HookLock DEF HookInv, Store
    <3>3. Watched'
          BY <1>a, <2>1, <2>3, <3>1 DEF Watched, Store, Unit
    <3> QED
      BY <3>2, <3>3
  <2>4. CASE /\ state' = [state EXCEPT ![d] = "Running"]
             /\ lock' = [lock EXCEPT ![d] = <<t, "OnSuccess">>]
             /\ Goto(t, [f EXCEPT !.pc = "hooks", !.items = Unit[d].OnSuccess])
    <3>1. \A w \in Workers, e \in Daemons : Watching(w, e) => Watching(w, e)'
      <4>1. Moves(t)
            BY <2>4 DEF Moves, Goto
      <4> QED
        BY <1>a, <2>1, <4>1, MovesKeep DEF Watching
    <3>2. <<t, "OnSuccess">> # None
          BY HookLock
    <3>3. HookInv'
          BY <1>a, <2>4 DEF HookInv, Store
    <3>4. Watched'
          BY <1>a, <2>1, <2>4, <3>1, <3>2 DEF Watched, Store, Unit
    <3> QED
      BY <3>3, <3>4
  <2> QED
    BY <1>4, <2>d, <2>2, <2>3, <2>4 DEF StartFinish
<1>5. CASE StartHooked(t)
  <2>d. PICK d \in Daemons : d = f.d
        BY <1>a
  <2>1. f.fn = "start" /\ machine' = machine /\ UNCHANGED state /\ lock' = [lock EXCEPT ![d] = None]
        BY <1>5, <2>d DEF StartHooked, At, outside
  <2>2. HookInv'
        BY <1>a, <2>1, HookLock DEF HookInv, Store
  <2>3. CASE Publish(t)
    <3>1. /\ \E w \in Workers : Watching(w, d)'
          /\ \A w \in Workers, e \in Daemons : Watching(w, e) => Watching(w, e)'
          BY <1>a, <2>1, <2>3, <2>d, PublishWatches
    <3> QED
      BY <1>a, <2>1, <2>2, <3>1 DEF Watched, Store, Unit
  <2>4. CASE lock[d] = <<t, "OnFailure">> /\ Return(t, FailErr(f))
    <3>1. \A w \in Workers, e \in Daemons : Watching(w, e) => Watching(w, e)'
      <4>1. Moves(t)
            BY <2>4, MovesBy
      <4> QED
        BY <1>a, <2>1, <4>1, MovesKeep DEF Watching
    <3>2. state[d] # "Running"
          BY <1>a, <2>4 DEF HookInv
    <3> QED
      BY <1>a, <2>1, <2>2, <3>1, <3>2 DEF Watched, Store, Unit
  <2> QED
    BY <1>5, <2>d, <2>3, <2>4 DEF StartHooked
<1> QED
  BY <1>1, <1>2, <1>3, <1>4, <1>5 DEF StartStep

LEMMA StopKeeps ==
  ASSUME WInv, NEW t \in Threads, StopStep(t)
  PROVE  HookInv' /\ Watched'
<1>a. IInv /\ HookInv /\ Watched /\ Around /\ Store /\ Stacks /\ cur[t].d \in Daemons
      BY DEF WInv, IInv, Stacks, GoodFrame, Frame
<1>1. cur[t].fn = "stop"
      BY DEF StopStep, StopBegin, StopPreLines, StopPostLines, StopLines, StopTerm, StopPoll, StopEnd, At
<1>2. CASE Panic
      BY <1>a, <1>2, PanicKeeps, KeepsGood
<1>3. CASE Moves(t)
  <2>1. \A w \in Workers, d \in Daemons : Watching(w, d) => Watching(w, d)'
        BY <1>a, <1>1, <1>3, MovesKeep DEF Watching
  <2>2. machine' = machine /\ UNCHANGED lock
        BY DEF StopStep, StopBegin, StopPreLines, StopPostLines, StopLines, StopTerm, StopPoll, StopEnd,
           Panic, service, outside
  <2>3. \A d \in Daemons : state'[d] = "Running" => state[d] = "Running"
        BY <1>a DEF StopStep, StopBegin, StopPreLines, StopPostLines, StopLines, StopTerm, StopPoll, StopEnd,
           Panic, service, Store
  <2>4. Keeps
        BY <2>1, <2>2, <2>3 DEF Keeps
  <2> QED
    BY <1>a, <2>4, KeepsGood
<1>4. Moves(t) \/ Panic
      BY MovesBy DEF StopStep, StopBegin, StopPreLines, StopPostLines, StopLines, StopTerm, StopPoll, StopEnd
<1> QED
  BY <1>2, <1>3, <1>4

------------------------------------------------------------------------------
(* monitorCmds.                                                             *)

\* A monitor that goes on to a place where it still watches.
LEMMA StaysKeep ==
  ASSUME IInv, NEW t \in Threads, NEW g, Goto(t, g), g.fn = "monitor", g.d = cur[t].d,
         g.pc \in {"attach", "await", "clear", "decide", "uphold", "settle"},
         UNCHANGED <<state, lock, machine>>
  PROVE  Keeps
<1>1. cur'[t] = g /\ \A w \in Workers : w # t => cur'[w] = cur[w]
      BY DEF Goto, IInv, Stacks, Threads
<1>2. \A w \in Workers, d \in Daemons : Watching(w, d) => Watching(w, d)'
      BY <1>1 DEF Watching
<1> QED
  BY <1>2 DEF Keeps

\* A monitor that is done with d: either d is not Running any more, or its
\* definition lets it stay so.
LEMMA DoneGood ==
  ASSUME WInv, NEW t \in Threads, NEW d \in Daemons, cur[t].d = d, Moves(t),
         UNCHANGED <<lock, machine>>, \A e \in Daemons \ {d} : state'[e] = state[e],
         state'[d] = "Running" =>
           /\ state[d] = "Running"
           /\ Unit[d].RemainAfterExit \/ Unit[d].SuccessPoweroff \/ Unit[d].FailurePoweroff
  PROVE  HookInv' /\ Watched'
<1>1. \A w \in Workers : w # t => cur'[w] = cur[w]
      BY DEF Moves, WInv, IInv, Stacks, Threads
<1>2. \A w \in Workers, e \in Daemons \ {d} : Watching(w, e) => Watching(w, e)'
      BY <1>1 DEF Watching
<1>3. HookInv'
      BY DEF WInv, HookInv
<1>4. ASSUME NEW e \in Daemons, state'[e] = "Running",
             ~Unit[e].RemainAfterExit, ~Unit[e].SuccessPoweroff, ~Unit[e].FailurePoweroff
      PROVE  lock'[e] # None \/ \E w \in Workers : Watching(w, e)'
      BY <1>2, <1>4 DEF WInv, Watched
<1> QED
  BY <1>3, <1>4 DEF Watched, Unit

LEMMA MonitorKeeps ==
  ASSUME WInv, NEW t \in Threads, MonitorStep(t)
  PROVE  HookInv' /\ Watched'
<1> DEFINE f == cur[t]
<1>a. IInv /\ HookInv /\ Watched /\ Around /\ Store /\ Stacks /\ f \in Frame /\ f.d \in Daemons
      BY DEF WInv, IInv, Stacks, GoodFrame, Frame
<1>d. PICK d \in Daemons : f.d = d
      BY <1>a
<1>u. Unit[d] \in UnitType
      BY <1>a, UnitTyped DEF Around
<1>1. CASE MonitorBegin(t)
  <2> DEFINE g == [f EXCEPT !.pc = "attach", !.mine = cmds[f.d]]
  <2>1. g.fn = "monitor" /\ g.d = f.d /\ g.pc = "attach" /\ UNCHANGED <<state, lock, machine>>
        BY <1>1, <1>a DEF MonitorBegin, At, Frame, service, outside
  <2> HIDE DEF g
  <2>2. CASE Goto(t, g)
        BY <1>a, <2>1, <2>2, StaysKeep, KeepsGood
  <2>3. ASSUME NEW w \in Workers, cur[w].fn = "idle",
               cur' = [cur EXCEPT ![t] = g, ![w] = Frame0("needed", f.d, FALSE)]
        PROVE  HookInv' /\ Watched'
    <3>1. t # w
          BY <1>1, <2>3 DEF MonitorBegin, At
    <3>2. cur'[t] = g /\ \A v \in Workers \ {t} : cur[v].fn = "monitor" => cur'[v] = cur[v]
          BY <1>a, <2>3, <3>1 DEF Stacks, Threads
    <3>3. \A v \in Workers, e \in Daemons : Watching(v, e) => Watching(v, e)'
          BY <2>1, <3>2 DEF Watching
    <3>4. Keeps
          BY <2>1, <3>3 DEF Keeps
    <3> QED
      BY <1>a, <3>4, KeepsGood
  <2>4. g.d = f.d
        BY <2>1
  <2> QED
    BY <1>1, <2>2, <2>3, <2>4 DEF MonitorBegin, g
<1>2. CASE MonitorAttach(t)
  <2>1. CASE Panic
        BY <1>a, <2>1, PanicKeeps, KeepsGood
  <2>2. ASSUME NEW g, Goto(t, g), g.fn = "monitor", g.d = f.d, g.pc \in {"clear", "await", "attach"},
               UNCHANGED <<service, proc, outside>>
        PROVE  HookInv' /\ Watched'
        BY <1>a, <2>2, StaysKeep, KeepsGood DEF service, outside
  <2>3. /\ [f EXCEPT !.pc = "clear"].fn = "monitor" /\ [f EXCEPT !.pc = "clear"].d = f.d
        /\ [f EXCEPT !.pc = "clear"].pc = "clear"
        /\ [f EXCEPT !.pc = "await"].fn = "monitor" /\ [f EXCEPT !.pc = "await"].d = f.d
        /\ [f EXCEPT !.pc = "await"].pc = "await"
        /\ [f EXCEPT !.line = @ + 1].fn = "monitor" /\ [f EXCEPT !.line = @ + 1].d = f.d
        /\ [f EXCEPT !.line = @ + 1].pc = "attach"
        BY <1>2, <1>a DEF MonitorAttach, At, Frame
  <2> QED
    BY <1>2, <2>1, <2>2, <2>3 DEF MonitorAttach
<1>3. CASE MonitorAwait(t) \/ MonitorClear(t) \/ \E i \in Daemons : MonitorUphold(t, i)
  <2>1. UNCHANGED <<state, lock, machine>>
        BY <1>3 DEF MonitorAwait, MonitorClear, MonitorUphold, service, outside
  <2>2. ASSUME NEW g, Goto(t, g), g.fn = "monitor", g.d = f.d, g.pc \in {"attach", "decide", "uphold"}
        PROVE  HookInv' /\ Watched'
        BY <1>a, <2>1, <2>2, StaysKeep, KeepsGood
  <2>3. CASE MonitorAwait(t)
    <3> DEFINE g == [f EXCEPT !.pc = "attach", !.line = @ + 1,
                              !.bad = @ \/ proc[f.mine[f.line]] = "fail"]
    <3>1. g.fn = "monitor" /\ g.d = f.d /\ g.pc = "attach"
          BY <2>3, <1>a DEF MonitorAwait, At, Frame
    <3> QED
      BY <2>2, <2>3, <3>1 DEF MonitorAwait
  <2>4. CASE MonitorClear(t)
    <3> DEFINE g == [f EXCEPT !.pc = "decide", !.mine = << >>]
    <3>1. g.fn = "monitor" /\ g.d = f.d /\ g.pc = "decide"
          BY <2>4, <1>a DEF MonitorClear, At, Frame
    <3> QED
      BY <2>2, <2>4, <3>1 DEF MonitorClear
  <2>5. ASSUME NEW i \in Daemons, MonitorUphold(t, i) PROVE HookInv' /\ Watched'
    <3> DEFINE g == [f EXCEPT !.items = @ \ {i}, !.arg = @ \/ state[i] = "Running"]
    <3>1. g.fn = "monitor" /\ g.d = f.d /\ g.pc = "uphold"
          BY <2>5, <1>a DEF MonitorUphold, At, Frame
    <3> QED
      BY <2>2, <2>5, <3>1 DEF MonitorUphold
  <2> QED
    BY <1>3, <2>3, <2>4, <2>5
<1>4. CASE MonitorDecide(t)
  <2>1. UNCHANGED <<state, lock, machine>>
        BY <1>4 DEF MonitorDecide, service
  <2>2. CASE Return(t, FALSE) /\ (Unit[d].FailurePoweroff \/ Unit[d].SuccessPoweroff)
    <3>1. Moves(t)
          BY <2>2, MovesBy
    <3> QED
      BY <1>d, <2>1, <2>2, <3>1, DoneGood
  <2>3. ASSUME NEW g, Goto(t, g), g.fn = "monitor", g.d = f.d, g.pc \in {"settle", "uphold"}
        PROVE  HookInv' /\ Watched'
        BY <1>a, <2>1, <2>3, StaysKeep, KeepsGood
  <2>4. /\ [f EXCEPT !.pc = "settle"].fn = "monitor" /\ [f EXCEPT !.pc = "settle"].d = f.d
        /\ [f EXCEPT !.pc = "settle"].pc = "settle"
        /\ [f EXCEPT !.pc = "uphold", !.items = Unit[f.d].UpheldBy].fn = "monitor"
        /\ [f EXCEPT !.pc = "uphold", !.items = Unit[f.d].UpheldBy].d = f.d
        /\ [f EXCEPT !.pc = "uphold", !.items = Unit[f.d].UpheldBy].pc = "uphold"
        BY <1>4, <1>a DEF MonitorDecide, At, Frame
  <2> QED
    BY <1>4, <1>d, <2>2, <2>3, <2>4 DEF MonitorDecide
<1>5. ASSUME NEW policy \in Policies, MonitorApply(t, policy) PROVE HookInv' /\ Watched'
  <2>1. UNCHANGED <<lock, machine>> /\ Moves(t)
        BY <1>5, MovesBy DEF MonitorApply, Again, Down, Leave, outside
  <2>2. /\ \A e \in Daemons \ {d} : state'[e] = state[e]
        /\ state'[d] = "Running" => state[d] = "Running" /\ Unit[d].RemainAfterExit
    <3>1. CASE Again(t) \/ Down(t)
          BY <1>a, <1>d, <3>1 DEF Again, Down, Store
    <3>2. CASE Leave(t) /\ Unit[d].RemainAfterExit
          BY <3>2 DEF Leave
    <3> QED
      BY <1>5, <1>d, <3>1, <3>2 DEF MonitorApply
  <2> QED
    BY <1>d, <2>1, <2>2, DoneGood
<1>6. CASE MonitorSettle(t)
  <2>1. (IF f.arg THEN "always" ELSE Unit[f.d].Restart) \in Policies /\ "no" \in Policies
        BY <1>d, <1>u DEF UnitType, Policies
  <2> QED
    BY <1>5, <1>6, <2>1 DEF MonitorSettle
<1>7. CASE \/ MonitorWake(t) \/ MonitorRestarted(t) \/ MonitorStopDepsDone(t)
           \/ \E i \in Daemons : MonitorStopDep(t, i)
  <2>1. Moves(t)
        BY <1>7, MovesBy DEF MonitorWake, MonitorRestarted, MonitorStopDepsDone, MonitorStopDep
  <2>2. \A e \in Daemons : ~Watching(t, e)
        BY <1>7 DEF MonitorWake, MonitorRestarted, MonitorStopDepsDone, MonitorStopDep, At, Watching
  <2>3. UNCHANGED <<state, lock, machine>>
        BY <1>7 DEF MonitorWake, MonitorRestarted, MonitorStopDepsDone, MonitorStopDep, service, outside
  <2> QED
    BY <1>a, <2>1, <2>2, <2>3, QuietKeeps, KeepsGood
<1> QED
  BY <1>1, <1>2, <1>3, <1>4, <1>6, <1>7 DEF MonitorStep

------------------------------------------------------------------------------
(* The other goroutines, and the outside.                                   *)

LEMMA OthersKeep ==
  ASSUME WInv, NEW t \in Threads,
         \/ NeededStep(t) \/ RestartBegin(t) \/ RestartTail(t) \/ ReloadBegin(t) \/ ReloadHup(t)
         \/ StopAllStep(t)
  PROVE  HookInv' /\ Watched'
<1>a. IInv /\ HookInv /\ Watched /\ Store /\ Stacks /\ cur[t].d \in Daemons
      BY DEF WInv, IInv, Stacks, GoodFrame, Frame
<1>1. CASE Panic
      BY <1>a, <1>1, PanicKeeps, KeepsGood
<1>2. CASE UNCHANGED <<state, lock, machine, cur>>
  <2>1. Keeps
        BY <1>2 DEF Keeps, Watching
  <2> QED
    BY <1>a, <2>1, KeepsGood
<1>3. CASE Moves(t)
  <2>1. machine' = machine /\ UNCHANGED lock
        BY DEF NeededStep, NeededTick, NeededEnd, RestartBegin, RestartTail, ReloadBegin, ReloadHup, Panic,
           StopAllStep, StopAllBegin, StopAllNext, StopAllAsk, StopAllEnd, service, outside
  <2>2. \A d \in Daemons : state'[d] = "Running" => state[d] = "Running"
        BY <1>a DEF NeededStep, NeededTick, NeededEnd, RestartBegin, RestartTail, ReloadBegin, ReloadHup,
           Panic, StopAllStep, StopAllBegin, StopAllNext, StopAllAsk, StopAllEnd, service, Store
  <2>3. cur[t].fn # "monitor"
        BY DEF NeededStep, NeededTick, NeededEnd, RestartBegin, RestartTail, ReloadBegin, ReloadHup,
           StopAllStep, StopAllBegin, StopAllNext, StopAllAsk, StopAllEnd, At
  <2>4. \A w \in Workers, d \in Daemons : Watching(w, d) => Watching(w, d)'
        BY <1>a, <1>3, <2>3, MovesKeep DEF Watching
  <2>5. Keeps
        BY <2>1, <2>2, <2>4 DEF Keeps
  <2> QED
    BY <1>a, <2>5, KeepsGood
<1>4. Panic \/ UNCHANGED <<state, lock, machine, cur>> \/ Moves(t)
  <2>1. CASE NeededStep(t) \/ RestartBegin(t) \/ RestartTail(t) \/ ReloadBegin(t)
        BY <2>1, MovesBy DEF NeededStep, NeededTick, NeededEnd, RestartBegin, RestartTail, ReloadBegin
  <2>2. CASE ReloadHup(t)
        BY <2>2, MovesBy DEF ReloadHup
  <2>3. CASE StopAllStep(t)
        BY <2>3, MovesBy DEF StopAllStep, StopAllBegin, StopAllNext, StopAllAsk, StopAllEnd, service, stacks
  <2> QED
    BY <2>1, <2>2, <2>3
<1> QED
  BY <1>1, <1>2, <1>3, <1>4

\* A monitor that blocks in its poweroff has nothing left to settle.
LEMMA BlocksKeeps == ASSUME WInv, NEW t \in Threads, RunBlocks(t) PROVE HookInv' /\ Watched'
<1>a. IInv /\ HookInv /\ Watched /\ Stacks
      BY DEF WInv, IInv
<1>1. UNCHANGED <<state, lock, machine, world>> /\ \A u \in Threads \ {t} : cur'[u] = cur[u]
      BY <1>a DEF RunBlocks, Goto, Stacks, service
<1>2. ASSUME NEW d \in Daemons, Watching(t, d) PROVE Unit[d].SuccessPoweroff \/ Unit[d].FailurePoweroff
      BY <1>2 DEF RunBlocks, InRun, At, Watching
<1>3. ASSUME NEW d \in Daemons, state'[d] = "Running", lock'[d] = None,
             ~Unit[d].RemainAfterExit, ~Unit[d].SuccessPoweroff, ~Unit[d].FailurePoweroff
      PROVE  \E w \in Workers : Watching(w, d)'
  <2>1. PICK w \in Workers : Watching(w, d)
        BY <1>a, <1>1, <1>3 DEF Watched
  <2>2. w # t /\ w \in Threads
        BY <1>2, <1>3, <2>1 DEF Threads
  <2> QED
    BY <1>1, <2>1, <2>2 DEF Watching
<1> QED
  BY <1>a, <1>1, <1>3 DEF HookInv, Watched, Unit

LEMMA OutsideKeeps == ASSUME WInv, Outside PROVE HookInv' /\ Watched'
<1>a. IInv /\ HookInv /\ Watched /\ Stacks
      BY DEF WInv, IInv
<1>1. ASSUME NEW c \in Clients, NEW d \in Daemons,
             (\E op \in OpNames : Command(c, d, op)) \/ MaskCommand(c, d) \/ UnmaskCommand(c, d)
      PROVE  HookInv' /\ Watched'
  <2>1. c \in Threads /\ cur[c].fn = "idle" /\ Moves(c) /\ UNCHANGED <<state, lock, machine>>
        BY <1>1, MovesBy DEF Command, MaskCommand, UnmaskCommand, May, service, Threads
  <2> QED
    BY <1>a, <2>1, QuietKeeps, KeepsGood DEF Watching
<1>2. ASSUME NEW c \in Clients, NEW d \in Daemons, StatusCommand(c, d) PROVE HookInv' /\ Watched'
  <2>1. Keeps
        BY <1>2 DEF StatusCommand, Keeps, Watching, service, stacks
  <2> QED
    BY <1>a, <2>1, KeepsGood
<1>3. CASE Terminate
  <2>1. Main \in Threads /\ cur[Main].fn = "idle" /\ Moves(Main) /\ UNCHANGED <<state, lock, machine>>
        BY <1>3, MovesBy DEF Terminate, service, outside, Threads
  <2> QED
    BY <1>a, <2>1, QuietKeeps, KeepsGood DEF Watching
<1>4. ASSUME NEW p \in Procs, NEW s \in {"ok", "fail"}, Exit(p, s) PROVE HookInv' /\ Watched'
  <2>1. Keeps
        BY <1>4 DEF Exit, Keeps, Watching, service, stacks, outside
  <2> QED
    BY <1>a, <2>1, KeepsGood
<1> QED
  BY <1>1, <1>2, <1>3, <1>4 DEF Outside

LEMMA InitWInv == ASSUME Init PROVE WInv
<1>1. \A d \in Daemons : state[d] = "Stopped"
      BY DEF Init
<1>2. HookInv /\ Watched
      BY <1>1 DEF HookInv, Watched
<1> QED
  BY <1>2, InitIInv DEF WInv

LEMMA StepWInv == ASSUME WInv, [Next]_vars PROVE WInv'
<1>1. IInv'
      BY StepIInv DEF WInv
<1>2. CASE UNCHANGED vars
  <2>1. Keeps
        BY <1>2 DEF Keeps, Watching, vars, service, stacks, outside
  <2> QED
    BY <1>1, <2>1, KeepsGood DEF WInv
<1>3. CASE Outside
      BY <1>1, <1>3, OutsideKeeps DEF WInv
<1>4. ASSUME NEW t \in Threads, Step(t) PROVE WInv'
      BY <1>1, <1>4, StartKeeps, StopKeeps, MonitorKeeps, OthersKeep DEF Step, WInv
<1>5. ASSUME NEW t \in Threads, RunBlocks(t) PROVE WInv'
      BY <1>1, <1>5, BlocksKeeps DEF WInv
<1> QED
  BY <1>2, <1>3, <1>4, <1>5 DEF Next

\* However starts, stops, restarts, monitors and shutdown interleave, and
\* whatever of them fails, a service that daemon.go leaves Running without
\* RemainAfterExit has a monitorCmds that will settle its state, or start()
\* holds its lock and is about to spawn one (daemon.go 802-835, 291-375).
THEOREM DaemonWatched == Spec => []Watched
<1>1. Init => WInv
      BY InitWInv
<1>2. WInv /\ [Next]_vars => WInv'
      BY StepWInv
<1>3. WInv => Watched
      BY DEF WInv
<1> QED
  BY <1>1, <1>2, <1>3, PTL DEF Spec

------------------------------------------------------------------------------
(* Who will end a transient state.                                          *)

\* A start() whose stop of the old run is over: it looks at the error next.
Resumes(f, d) == f.fn = "start" /\ f.d = d /\ f.ph = "Prepare" /\ f.pc = "flag"

\* stop() calls nothing, and only start() calls it with printStopping FALSE.
Lean(s)       == \A i \in DOMAIN s : s[i].fn # "stop"
Planned(f, s) == f.fn = "stop" /\ ~f.arg => s # <<>> /\ Resumes(s[1], f.d)
StackInv      == \A t \in Threads : Lean(callers[t]) /\ Planned(cur[t], callers[t])

\* Mask leaves its link behind.
MaskInv == \A d \in Daemons : isMasked[d] => linked

OInv == IInv /\ StackInv /\ MaskInv /\ TransientOwned

------------------------------------------------------------------------------
(* What the calls do to the stacks.                                         *)

\* The others stay where they are, but an idle worker may become a monitor.
Others(t) ==
  \A u \in Threads \ {t} :
    /\ callers'[u] = callers[u]
    /\ cur'[u] = cur[u] \/ (cur[u].fn = "idle" /\ cur'[u].fn # "stop")

LEMMA OthersStacks ==
  ASSUME StackInv, NEW t \in Threads, Others(t), Lean(callers'[t]), Planned(cur'[t], callers'[t])
  PROVE  StackInv'
<1>1. ASSUME NEW u \in Threads \ {t} PROVE Lean(callers'[u]) /\ Planned(cur'[u], callers'[u])
      BY <1>1 DEF Others, StackInv, Planned
<1> QED
  BY <1>1 DEF StackInv

LEMMA GotoStacks ==
  ASSUME StackInv, Stacks, NEW t \in Threads, NEW f, Goto(t, f),
         \/ f.fn # "stop"
         \/ cur[t].fn = "stop" /\ f.arg = cur[t].arg /\ f.d = cur[t].d
  PROVE  StackInv' /\ Others(t) /\ cur'[t] = f
<1>1. cur'[t] = f /\ callers' = callers /\ \A u \in Threads \ {t} : cur'[u] = cur[u]
      BY DEF Goto, Stacks
<1>2. Others(t) /\ Lean(callers'[t]) /\ Planned(cur'[t], callers'[t])
      BY <1>1 DEF Others, StackInv, Planned
<1> QED
  BY <1>1, <1>2, OthersStacks

LEMMA CallStacks ==
  ASSUME StackInv, Stacks, NEW t \in Threads, NEW f \in GoodFrame, NEW g, Call(t, f, g),
         f.fn # "stop", g.fn = "stop" => g.arg \/ Resumes(f, g.d)
  PROVE  StackInv' /\ Others(t) /\ cur'[t] = g
<1>1. /\ cur'[t] = g /\ callers'[t] = <<f>> \o callers[t]
      /\ \A u \in Threads \ {t} : cur'[u] = cur[u] /\ callers'[u] = callers[u]
      BY DEF Call, Stacks
<1>2. callers[t] \in Seq(GoodFrame)
      BY DEF Stacks
<1>3. callers'[t] # <<>> /\ callers'[t][1] = f
      BY <1>1, <1>2
<1>4. Lean(callers'[t])
  <2>1. \A i \in DOMAIN callers'[t] : i = 1 \/ (i - 1 \in DOMAIN callers[t] /\ callers'[t][i] = callers[t][i - 1])
        BY <1>1, <1>2
  <2> QED
    BY <1>3, <2>1 DEF Lean, StackInv
<1>5. Planned(cur'[t], callers'[t])
      BY <1>1, <1>3 DEF Planned
<1> QED
  BY <1>1, <1>4, <1>5, OthersStacks DEF Others

\* What is below a call goes on, with the error if it is told of one.
LEMMA BelowStacks ==
  ASSUME StackInv, Stacks, NEW t \in Threads, NEW err
  PROVE  /\ Below(t, err).fn # "stop" /\ Lean(Popped(t)[t])
         /\ \A u \in Threads \ {t} : Popped(t)[u] = callers[u]
         /\ (cur[t].fn = "stop" /\ ~cur[t].arg) =>
              /\ Resumes(Below(t, err), cur[t].d)
              /\ Below(t, err).bad = err
<1>1. callers[t] \in Seq(GoodFrame)
      BY DEF Stacks
<1>2. callers[t] # <<>> => /\ Head(callers[t]) = callers[t][1] /\ 1 \in DOMAIN callers[t]
                           /\ callers[t][1] \in Frame
      BY <1>1 DEF GoodFrame
<1>3. Lean(Popped(t)[t])
  <2>1. Popped(t)[t] = IF callers[t] = <<>> THEN <<>> ELSE Tail(callers[t])
        BY DEF Popped, Stacks
  <2>2. CASE callers[t] # <<>>
    <3>1. \A i \in DOMAIN Tail(callers[t]) : i + 1 \in DOMAIN callers[t] /\ Tail(callers[t])[i] = callers[t][i + 1]
          BY <1>1, <2>2
    <3> QED
      BY <2>1, <2>2, <3>1 DEF Lean, StackInv
  <2> QED
    BY <2>1, <2>2 DEF Lean
<1>4. \A u \in Threads \ {t} : Popped(t)[u] = callers[u]
      BY DEF Popped, Stacks
<1>5. CASE callers[t] = <<>>
  <2>1. ~(cur[t].fn = "stop" /\ ~cur[t].arg)
        BY <1>5 DEF StackInv, Planned
  <2>2. Below(t, err).fn = "idle"
        BY <1>5 DEF Below, Idle, Frame0
  <2> QED
    BY <1>3, <1>4, <2>1, <2>2
<1>6. CASE callers[t] # <<>>
  <2> DEFINE g == [callers[t][1] EXCEPT !.bad = err]
  <2>1. Below(t, err) = g
        BY <1>2, <1>6 DEF Below
  <2>2. g.fn = callers[t][1].fn /\ g.d = callers[t][1].d /\ g.ph = callers[t][1].ph /\ g.pc = callers[t][1].pc
        /\ g.bad = err
        BY <1>2, <1>6 DEF Frame
  <2>3. callers[t][1].fn # "stop"
        BY <1>2, <1>6 DEF StackInv, Lean
  <2>4. (cur[t].fn = "stop" /\ ~cur[t].arg) => Resumes(callers[t][1], cur[t].d)
        BY DEF StackInv, Planned
  <2> QED
    BY <1>3, <1>4, <2>1, <2>2, <2>3, <2>4 DEF Resumes
<1> QED
  BY <1>5, <1>6

LEMMA ReturnStacks ==
  ASSUME StackInv, Stacks, NEW t \in Threads, NEW err, Return(t, err)
  PROVE  StackInv' /\ Others(t) /\ cur'[t] = Below(t, err)
<1>1. cur'[t] = Below(t, err) /\ callers' = Popped(t) /\ \A u \in Threads \ {t} : cur'[u] = cur[u]
      BY DEF Return, Stacks
<1>2. Others(t) /\ Lean(callers'[t]) /\ Planned(cur'[t], callers'[t])
      BY <1>1, BelowStacks DEF Others, Planned
<1> QED
  BY <1>1, <1>2, OthersStacks

LEMMA ProceedStacks ==
  ASSUME StackInv, Stacks, NEW t \in Threads, NEW f \in Frame, f.fn = "start", Proceed(t, f)
  PROVE  StackInv' /\ Others(t)
<1>1. ASSUME NEW g, g.fn = "start", Goto(t, g) PROVE StackInv' /\ Others(t)
      BY <1>1, GotoStacks
<1>2. /\ [f EXCEPT !.pc = "flag"].fn = "start"
      /\ [f EXCEPT !.pc = "flag", !.line = @ + 1].fn = "start"
      BY DEF Frame
<1>3. \A step \in Steps : Enter(f, step).fn = "start"
      BY DEF Frame, Enter
<1> QED
  BY <1>1, <1>2, <1>3 DEF Proceed

\* A call that starts a goroutine of the worker w.
LEMMA SpawnStacks ==
  ASSUME StackInv, Stacks, NEW t \in Threads, NEW w \in Workers, cur[w].fn = "idle", cur[t].fn # "idle",
         NEW f, NEW g, f.fn # "stop", g.fn # "stop",
         cur' = [cur EXCEPT ![t] = f, ![w] = g], callers' = callers \/ callers' = Popped(t)
  PROVE  StackInv' /\ Others(t)
<1>1. w \in Threads \ {t}
      BY DEF Threads
<1>2. cur'[t] = f /\ cur'[w] = g /\ \A u \in Threads \ {t, w} : cur'[u] = cur[u]
      BY <1>1 DEF Stacks
<1>3. Lean(callers'[t]) /\ \A u \in Threads \ {t} : callers'[u] = callers[u]
      BY BelowStacks DEF StackInv
<1>4. Others(t) /\ Planned(cur'[t], callers'[t])
      BY <1>1, <1>2, <1>3 DEF Others, Planned
<1> QED
  BY <1>3, <1>4, OthersStacks

LEMMA PublishStacks ==
  ASSUME StackInv, Stacks, NEW t \in Threads, cur[t].fn = "start", Publish(t)
  PROVE  StackInv' /\ Others(t)
<1>1. PICK w \in Workers :
         /\ cur[w].fn = "idle"
         /\ cur' = [cur EXCEPT ![t] = Below(t, FALSE), ![w] = Frame0("monitor", cur[t].d, FALSE)]
         /\ callers' = Popped(t)
      BY DEF Publish
<1>2. Below(t, FALSE).fn # "stop" /\ Frame0("monitor", cur[t].d, FALSE).fn # "stop"
      BY BelowStacks DEF Frame0
<1> QED
  BY <1>1, <1>2, SpawnStacks

LEMMA StartStacks == ASSUME IInv, StackInv, NEW t \in Threads, StartStep(t) PROVE StackInv' /\ Others(t)
<1> DEFINE f == cur[t]
<1>a. Stacks /\ f \in GoodFrame /\ f \in Frame
      BY DEF IInv, Stacks, GoodFrame
<1>b. ASSUME NEW g, Goto(t, g), g.fn = "start" PROVE StackInv' /\ Others(t)
      BY <1>a, <1>b, GotoStacks
<1>c. ASSUME NEW err, Return(t, err) PROVE StackInv' /\ Others(t)
      BY <1>a, <1>c, ReturnStacks
<1>d. ASSUME NEW g \in GoodFrame, NEW h, Call(t, g, h), g.fn = "start", h.fn = "start" \/ h.arg
      PROVE  StackInv' /\ Others(t)
      BY <1>a, <1>d, CallStacks
<1>e. ASSUME NEW g \in Frame, g.fn = "start", Proceed(t, g) PROVE StackInv' /\ Others(t)
      BY <1>a, <1>e, ProceedStacks
<1>1. CASE StartBegin(t) \/ StartClaim(t) \/ StartFlag(t) \/ StartAbort(t)
  <2>1. /\ [f EXCEPT !.pc = "claim"].fn = f.fn /\ [f EXCEPT !.pc = "flag", !.ph = "Clean"].fn = f.fn
        /\ [f EXCEPT !.pc = "abort"].fn = f.fn /\ [f EXCEPT !.pc = "act"].fn = f.fn
        BY <1>a DEF Frame
  <2> QED
    BY <1>1, <1>b, <1>c, <2>1 DEF StartBegin, StartClaim, StartFlag, StartAbort, At
<1>2. CASE StartClean(t)
  <2> DEFINE g == Enter(f, "Prepare")
  <2>1. g \in GoodFrame
    <3>1. "Prepare" \in Steps \ DepNames
          BY StepsAre DEF DepNames
    <3> QED
      BY <1>a, <3>1, EnterGood DEF IInv, Around
  <2>2. g.fn = "start" /\ g.d = f.d /\ g.ph = "Prepare" /\ g.pc = "flag"
        BY <1>2, <1>a DEF StartClean, AtStep, At, Enter, Frame
  <2>3. Frame0("stop", f.d, FALSE).d = f.d
        BY DEF Frame0
  <2>4. Call(t, g, Frame0("stop", f.d, FALSE))
        BY <1>2 DEF StartClean
  <2> QED
    BY <1>a, <2>1, <2>2, <2>3, <2>4, CallStacks DEF Resumes
<1>3. CASE StartPrepare(t) \/ StartCondition(t)
      BY <1>3, <1>a, <1>c, <1>e DEF StartPrepare, StartCondition, AtStep, At
<1>4. ASSUME NEW i \in Daemons, StartRequisite(t, i) PROVE StackInv' /\ Others(t)
  <2>1. [f EXCEPT !.items = @ \ {i}] \in Frame /\ [f EXCEPT !.items = @ \ {i}].fn = f.fn
        /\ [f EXCEPT !.pc = "fail"].fn = f.fn
        BY <1>a DEF Frame
  <2> QED
    BY <1>4, <1>b, <1>e, <2>1 DEF StartRequisite, AtStep, At
<1>5. ASSUME NEW i \in Daemons, StartDependency(t, i) PROVE StackInv' /\ Others(t)
  <2> DEFINE g == [f EXCEPT !.items = @ \ {i}, !.pc = "after"]
  <2>1. g \in GoodFrame /\ g.fn = f.fn
        BY <1>a DEF GoodFrame, Frame, Pcs
  <2>2. Frame0("stop", i, TRUE).arg /\ Frame0("start", i, FALSE).fn = "start"
        BY DEF Frame0
  <2> QED
    BY <1>5, <1>d, <2>1, <2>2 DEF StartDependency, At
<1>6. CASE StartAfterDependency(t)
  <2>1. /\ [f EXCEPT !.bad = FALSE] \in Frame /\ [f EXCEPT !.bad = FALSE].fn = f.fn
        /\ [f EXCEPT !.pc = "fail"].fn = f.fn
        BY <1>a DEF Frame
  <2> QED
    BY <1>6, <1>b, <1>e, <2>1 DEF StartAfterDependency, At
<1>7. CASE StartLine(t)
  <2> DEFINE g == [f EXCEPT !.pc = "fail"]
  <2>1. g \in GoodFrame /\ g.fn = f.fn
        BY <1>a DEF GoodFrame, Frame, Pcs
  <2>2. Frame0("stop", f.d, TRUE).arg
        BY DEF Frame0
  <2> QED
    BY <1>7, <1>a, <1>d, <1>e, <2>1, <2>2 DEF StartLine, At
<1>8. CASE StartExec(t)
  <2> DEFINE g == [f EXCEPT !.pc = "fail"]
  <2>1. g \in GoodFrame /\ g.fn = f.fn
        BY <1>a DEF GoodFrame, Frame, Pcs
  <2>2. Frame0("stop", f.d, TRUE).arg
        BY DEF Frame0
  <2>3. ASSUME NEW p \in Procs \cup {NoProc}
        PROVE  [f EXCEPT !.mine = Append(@, p)] \in Frame /\ [f EXCEPT !.mine = Append(@, p)].fn = f.fn
    <3>1. Append(f.mine, p) \in Seq(Procs \cup {NoProc})
          BY <1>a DEF Frame
    <3> QED
      BY <1>a, <3>1 DEF Frame
  <2>4. f.fn = "start"
        BY <1>8 DEF StartExec, AtStep, At
  <2> QED
    BY <1>8, <1>d, <1>e, <2>1, <2>2, <2>3, <2>4 DEF StartExec
<1>9. CASE StartFail(t)
  <2>1. \A s : [f EXCEPT !.pc = "hooks", !.items = s].fn = f.fn
        BY <1>a DEF Frame
  <2> QED
    BY <1>9, <1>b, <1>c, <2>1 DEF StartFail, At
<1>10. CASE StartFinish(t) \/ StartHooked(t)
  <2>1. \A s : [f EXCEPT !.pc = "hooks", !.items = s].fn = f.fn
        BY <1>a DEF Frame
  <2>2. CASE Publish(t)
        BY <1>10, <1>a, <2>2, PublishStacks DEF StartFinish, StartHooked, At
  <2> QED
    BY <1>10, <1>b, <1>c, <2>1, <2>2 DEF StartFinish, StartHooked, At
<1>11. ASSUME NEW i \in Daemons, StartHook(t, i) PROVE StackInv' /\ Others(t)
  <2> DEFINE g == [f EXCEPT !.items = @ \ {i}]
  <2>1. g \in GoodFrame /\ g.fn = f.fn
        BY <1>a DEF GoodFrame, Frame
  <2>2. Frame0("start", i, FALSE).fn = "start"
        BY DEF Frame0
  <2> QED
    BY <1>11, <1>d, <2>1, <2>2 DEF StartHook, At
<1> QED
  BY <1>1, <1>2, <1>3, <1>4, <1>5, <1>6, <1>7, <1>8, <1>9, <1>10, <1>11 DEF StartStep

LEMMA StopStacks == ASSUME IInv, StackInv, NEW t \in Threads, StopStep(t) PROVE StackInv' /\ Others(t)
<1> DEFINE f == cur[t]
<1>a. Stacks /\ f \in Frame
      BY DEF IInv, Stacks, GoodFrame
<1>b. f.fn = "stop"
      BY DEF StopStep, StopBegin, StopPreLines, StopPostLines, StopLines, StopTerm, StopPoll, StopEnd, At
<1>c. ASSUME NEW g, Goto(t, g), g.arg = f.arg, g.d = f.d PROVE StackInv' /\ Others(t)
      BY <1>a, <1>b, <1>c, GotoStacks
<1>d. ASSUME NEW err, Return(t, err) PROVE StackInv' /\ Others(t)
      BY <1>a, <1>d, ReturnStacks
<1>e. CASE Panic
      BY <1>e DEF Panic, stacks, Others, StackInv
<1>1. /\ \A pc : [f EXCEPT !.pc = pc].arg = f.arg /\ [f EXCEPT !.pc = pc].d = f.d
      /\ \A bad : [f EXCEPT !.pc = "end", !.bad = bad].arg = f.arg /\ [f EXCEPT !.pc = "end", !.bad = bad].d = f.d
      BY <1>a DEF Frame
<1> QED
  BY <1>c, <1>d, <1>e, <1>1
  DEF StopStep, StopBegin, StopPreLines, StopPostLines, StopLines, StopTerm, StopPoll, StopEnd

LEMMA MonitorStacks == ASSUME IInv, StackInv, NEW t \in Threads, MonitorStep(t) PROVE StackInv' /\ Others(t)
<1> DEFINE f == cur[t]
<1>a. Stacks /\ f \in GoodFrame /\ f \in Frame
      BY DEF IInv, Stacks, GoodFrame
<1>m. f.fn = "monitor"
      BY DEF MonitorStep, MonitorBegin, MonitorAttach, MonitorAwait, MonitorClear, MonitorDecide, MonitorSettle,
         MonitorWake, MonitorRestarted, MonitorStopDepsDone, MonitorUphold, MonitorStopDep, At
<1>b. ASSUME NEW g, Goto(t, g), g.fn = "monitor" PROVE StackInv' /\ Others(t)
      BY <1>a, <1>b, GotoStacks
<1>c. ASSUME NEW err, Return(t, err) PROVE StackInv' /\ Others(t)
      BY <1>a, <1>c, ReturnStacks
<1>d. ASSUME NEW g \in GoodFrame, NEW h, Call(t, g, h), g.fn = "monitor", h.fn = "start" \/ h.arg
      PROVE  StackInv' /\ Others(t)
      BY <1>a, <1>d, CallStacks
<1>1. CASE MonitorBegin(t)
  <2> DEFINE g == [f EXCEPT !.pc = "attach", !.mine = cmds[f.d]]
  <2>1. g.fn = "monitor" /\ g.d = f.d
        BY <1>a, <1>m DEF Frame
  <2>2. Frame0("needed", g.d, FALSE).fn # "stop"
        BY DEF Frame0
  <2> HIDE DEF g
  <2>3. ASSUME NEW w \in Workers, cur[w].fn = "idle", callers' = callers,
               cur' = [cur EXCEPT ![t] = g, ![w] = Frame0("needed", g.d, FALSE)]
        PROVE  StackInv' /\ Others(t)
        BY <1>a, <1>m, <2>1, <2>2, <2>3, SpawnStacks
  <2> QED
    BY <1>1, <1>b, <2>1, <2>3 DEF MonitorBegin, g
<1>2. CASE MonitorAttach(t)
  <2>1. CASE Panic
        BY <2>1 DEF Panic, stacks, Others, StackInv
  <2>2. /\ [f EXCEPT !.pc = "clear"].fn = "monitor" /\ [f EXCEPT !.pc = "await"].fn = "monitor"
        /\ [f EXCEPT !.line = @ + 1].fn = "monitor"
        BY <1>a, <1>m DEF Frame
  <2> QED
    BY <1>2, <1>b, <2>1, <2>2 DEF MonitorAttach
<1>3. CASE MonitorAwait(t)
  <2> DEFINE g == [f EXCEPT !.pc = "attach", !.line = @ + 1, !.bad = @ \/ proc[f.mine[f.line]] = "fail"]
  <2>1. Goto(t, g)
        BY <1>3 DEF MonitorAwait
  <2>2. g.fn = "monitor"
        BY <1>a, <1>m DEF Frame
  <2> QED
    BY <1>b, <2>1, <2>2
<1>4. CASE MonitorClear(t) \/ MonitorDecide(t)
  <2>1. /\ [f EXCEPT !.pc = "decide", !.mine = <<>>].fn = "monitor" /\ [f EXCEPT !.pc = "settle"].fn = "monitor"
        /\ \A s : [f EXCEPT !.pc = "uphold", !.items = s].fn = "monitor"
        BY <1>a, <1>m DEF Frame
  <2> QED
    BY <1>4, <1>b, <1>c, <2>1 DEF MonitorClear, MonitorDecide
<1>5. ASSUME NEW i \in Daemons, MonitorUphold(t, i) PROVE StackInv' /\ Others(t)
  <2>1. \A s, arg : [f EXCEPT !.items = s, !.arg = arg].fn = "monitor"
        BY <1>a, <1>m DEF Frame
  <2> QED
    BY <1>5, <1>b, <2>1 DEF MonitorUphold
<1>6. CASE MonitorSettle(t)
  <2>1. /\ [f EXCEPT !.pc = "sleep"].fn = "monitor"
        /\ \A s : [f EXCEPT !.pc = "bound", !.items = s].fn = "monitor"
        BY <1>a, <1>m DEF Frame
  <2>2. ASSUME NEW policy, MonitorApply(t, policy) PROVE StackInv' /\ Others(t)
        BY <1>b, <1>c, <2>1, <2>2 DEF MonitorApply, Again, Down, Leave
  <2> QED
    BY <1>6, <2>2 DEF MonitorSettle
<1>7. CASE MonitorWake(t)
  <2>1. [f EXCEPT !.pc = "restarted"] \in GoodFrame /\ [f EXCEPT !.pc = "restarted"].fn = "monitor"
        BY <1>a, <1>m DEF GoodFrame, Frame, Pcs
  <2>2. Frame0("start", f.d, isManual[f.d]).fn = "start"
        BY DEF Frame0
  <2> QED
    BY <1>7, <1>c, <1>d, <2>1, <2>2 DEF MonitorWake
<1>8. CASE MonitorRestarted(t) \/ MonitorStopDepsDone(t)
  <2>1. \A pc, s : [f EXCEPT !.pc = pc, !.items = s].fn = "monitor"
        BY <1>a, <1>m DEF Frame
  <2> QED
    BY <1>8, <1>b, <1>c, <2>1 DEF MonitorRestarted, MonitorStopDepsDone
<1>9. ASSUME NEW i \in Daemons, MonitorStopDep(t, i) PROVE StackInv' /\ Others(t)
  <2>1. [f EXCEPT !.items = @ \ {i}] \in GoodFrame /\ [f EXCEPT !.items = @ \ {i}].fn = "monitor"
        BY <1>a, <1>m DEF GoodFrame, Frame
  <2>2. Frame0("stop", i, TRUE).arg
        BY DEF Frame0
  <2> QED
    BY <1>9, <1>d, <2>1, <2>2 DEF MonitorStopDep
<1> QED
  BY <1>1, <1>2, <1>3, <1>4, <1>5, <1>6, <1>7, <1>8, <1>9 DEF MonitorStep

LEMMA OtherStacks ==
  ASSUME IInv, StackInv, NEW t \in Threads,
         \/ NeededStep(t) \/ RestartBegin(t) \/ RestartTail(t) \/ ReloadBegin(t) \/ ReloadHup(t)
         \/ StopAllStep(t)
  PROVE  StackInv' /\ Others(t)
<1> DEFINE f == cur[t]
<1>a. Stacks /\ f \in GoodFrame /\ f \in Frame
      BY DEF IInv, Stacks, GoodFrame
<1>m. f.fn # "stop"
      BY DEF NeededStep, NeededTick, NeededEnd, RestartBegin, RestartTail, ReloadBegin, ReloadHup,
         StopAllStep, StopAllBegin, StopAllNext, StopAllAsk, StopAllEnd, At
<1>b. ASSUME NEW g, Goto(t, g), g.fn # "stop" PROVE StackInv' /\ Others(t)
      BY <1>a, <1>b, GotoStacks
<1>c. ASSUME NEW err, Return(t, err) PROVE StackInv' /\ Others(t)
      BY <1>a, <1>c, ReturnStacks
<1>d. ASSUME NEW g \in GoodFrame, NEW d \in Daemons, Call(t, g, Frame0("stop", d, TRUE)), g.fn # "stop"
      PROVE  StackInv' /\ Others(t)
      BY <1>a, <1>d, CallStacks DEF Frame0
<1>e. CASE UNCHANGED stacks
      BY <1>e DEF stacks, Others, StackInv
<1>f. f.d \in Daemons
      BY <1>a DEF Frame
<1>1. CASE NeededStep(t)
  <2>1. [f EXCEPT !.pc = "end"] \in GoodFrame /\ [f EXCEPT !.pc = "end"].fn # "stop"
        BY <1>a, <1>m DEF GoodFrame, Frame, Pcs
  <2> QED
    BY <1>1, <1>c, <1>d, <1>f, <2>1 DEF NeededStep, NeededTick, NeededEnd
<1>2. CASE RestartBegin(t)
  <2>1. [f EXCEPT !.pc = "tail"] \in GoodFrame /\ [f EXCEPT !.pc = "tail"].fn # "stop"
        BY <1>a, <1>m DEF GoodFrame, Frame, Pcs
  <2> QED
    BY <1>2, <1>c, <1>d, <1>f, <2>1 DEF RestartBegin
<1>3. CASE RestartTail(t)
  <2>1. Frame0("start", f.d, TRUE).fn # "stop"
        BY DEF Frame0
  <2> QED
    BY <1>3, <1>b, <1>c, <2>1 DEF RestartTail
<1>4. CASE ReloadBegin(t)
  <2>1. [f EXCEPT !.pc = "hup"].fn # "stop"
        BY <1>a, <1>m DEF Frame
  <2> QED
    BY <1>4, <1>b, <1>c, <2>1 DEF ReloadBegin
<1>5. CASE ReloadHup(t)
      BY <1>5, <1>c, <1>e DEF ReloadHup, Panic
<1>6. CASE StopAllStep(t)
  <2>1. [f EXCEPT !.pc = "next"] \in GoodFrame /\ [f EXCEPT !.pc = "next"].fn # "stop" /\ [f EXCEPT !.pc = "next"].d = f.d
        BY <1>a, <1>m DEF GoodFrame, Frame, Pcs
  <2>6. \A i \in Daemons : [f EXCEPT !.pc = "ask", !.d = i, !.items = @ \ {i}].fn # "stop"
        BY <1>a, <1>m DEF Frame
  <2>2. [f EXCEPT !.pc = "next", !.items = Daemons].fn # "stop"
        BY <1>a, <1>m DEF Frame
  <2>3. CASE StopAllBegin(t)
        BY <1>b, <2>2, <2>3 DEF StopAllBegin
  <2>4. ASSUME NEW i \in Daemons, StopAllNext(t, i) PROVE StackInv' /\ Others(t)
        BY <1>b, <2>4, <2>6 DEF StopAllNext
  <2>7. CASE StopAllAsk(t)
        BY <1>b, <1>d, <1>f, <2>1, <2>7 DEF StopAllAsk
  <2>5. CASE StopAllEnd(t)
        BY <1>e, <2>5 DEF StopAllEnd
  <2> QED
    BY <1>6, <2>3, <2>4, <2>5, <2>7 DEF StopAllStep
<1> QED
  BY <1>1, <1>2, <1>3, <1>4, <1>5, <1>6

LEMMA StepStacks == ASSUME IInv, StackInv, NEW t \in Threads, Step(t) PROVE StackInv' /\ Others(t)
  BY StartStacks, StopStacks, MonitorStacks, OtherStacks DEF Step

\* A command or SIGTERM gives an idle goroutine its first call.
LEMMA OutsideStacks ==
  ASSUME IInv, StackInv, Outside
  PROVE  /\ StackInv'
         /\ \A u \in Threads : cur'[u] = cur[u] \/ (cur[u].fn = "idle" /\ cur'[u].d \in Daemons)
<1>a. Stacks
      BY DEF IInv
<1>1. ASSUME UNCHANGED stacks
      PROVE  StackInv' /\ \A u \in Threads : cur'[u] = cur[u]
      BY <1>1 DEF stacks, StackInv
<1>2. ASSUME NEW t \in Threads, cur[t].fn = "idle", NEW g, Goto(t, g), g.d \in Daemons, g.fn = "stop" => g.arg
      PROVE  /\ StackInv'
             /\ \A u \in Threads : cur'[u] = cur[u] \/ (cur[u].fn = "idle" /\ cur'[u].d \in Daemons)
  <2>1. cur'[t] = g /\ callers' = callers /\ \A u \in Threads \ {t} : cur'[u] = cur[u]
        BY <1>a, <1>2 DEF Goto, Stacks
  <2>2. Others(t) /\ Lean(callers'[t]) /\ Planned(cur'[t], callers'[t])
        BY <1>2, <2>1 DEF Others, StackInv, Planned
  <2> QED
    BY <1>2, <2>1, <2>2, OthersStacks
<1>3. \A err \in BOOLEAN : Idle(err) \in Frame /\ Idle(err).fn = "idle"
      BY IdleGood DEF GoodFrame, Idle, Frame0
<1>5. ASSUME NEW c \in Clients, NEW d \in Daemons, NEW op, Command(c, d, op)
      PROVE  /\ StackInv'
             /\ \A u \in Threads : cur'[u] = cur[u] \/ (cur[u].fn = "idle" /\ cur'[u].d \in Daemons)
  <2> DEFINE g == Frame0(op, d, TRUE)
  <2>1. c \in Threads /\ cur[c].fn = "idle" /\ Goto(c, g)
        BY <1>5 DEF Command, May, Threads
  <2>2. g.d \in Daemons /\ g.arg
        BY DEF Frame0
  <2> HIDE DEF g
  <2> QED
    BY <1>2, <2>1, <2>2
<1>6. ASSUME NEW c \in Clients, NEW d \in Daemons, MaskCommand(c, d) \/ UnmaskCommand(c, d)
      PROVE  /\ StackInv'
             /\ \A u \in Threads : cur'[u] = cur[u] \/ (cur[u].fn = "idle" /\ cur'[u].d \in Daemons)
  <2>1. c \in Threads /\ cur[c].fn = "idle" /\ linked \in BOOLEAN
        BY <1>6 DEF MaskCommand, UnmaskCommand, May, Threads, IInv, Around
  <2>2. PICK err \in BOOLEAN : Goto(c, Idle(err))
        BY <1>6, <2>1 DEF MaskCommand, UnmaskCommand
  <2>3. Idle(err).d \in Daemons /\ Idle(err).fn = "idle"
        BY <1>3 DEF Frame
  <2> QED
    BY <1>2, <2>1, <2>2, <2>3
<1>7. CASE Terminate
  <2> DEFINE g == Frame0("stopall", cur[Main].d, FALSE)
  <2>1. Main \in Threads /\ cur[Main].d \in Daemons
        BY <1>a DEF Threads, Stacks, GoodFrame, Frame
  <2>2. g.d \in Daemons /\ g.fn # "stop"
        BY <2>1 DEF Frame0
  <2>3. cur[Main].fn = "idle" /\ Goto(Main, g)
        BY <1>7 DEF Terminate
  <2> HIDE DEF g
  <2> QED
    BY <1>2, <2>1, <2>2, <2>3
<1>8. ASSUME \/ \E c \in Clients, d \in Daemons : StatusCommand(c, d)
             \/ \E p \in Procs, s \in {"ok", "fail"} : Exit(p, s)
      PROVE  StackInv' /\ \A u \in Threads : cur'[u] = cur[u]
      BY <1>1, <1>8 DEF StatusCommand, Exit
<1> QED
  BY <1>5, <1>6, <1>7, <1>8 DEF Outside
------------------------------------------------------------------------------
(* Ownership.                                                               *)

Calm         == world = "up" /\ ~shutdown /\ ~linked
Transient(d) == state[d] \in {"Starting", "Restarting"} \/ (state[d] = "Stopping" /\ "log" \notin CanFail)

\* After a step of t a transient service is t's, or it is as before and was not t's.
Held(t) ==
  Calm' => \A d \in Daemons : Transient(d)' => Owns(t, d)' \/ (state'[d] = state[d] /\ ~Owns(t, d))

LEMMA HeldOwned ==
  ASSUME TransientOwned, machine' = machine, Calm' => Calm, NEW t \in Threads, Others(t), Held(t)
  PROVE  TransientOwned'
<1>1. CanFail' = CanFail
      BY DEF CanFail
<1>2. SUFFICES ASSUME Calm', NEW d \in Daemons, Transient(d)'
               PROVE  \E u \in Threads : Owns(u, d)'
      BY DEF TransientOwned, Calm, Transient
<1>3. CASE Owns(t, d)'
      BY <1>3
<1>4. CASE state'[d] = state[d] /\ ~Owns(t, d)
  <2>1. PICK u \in Threads : Owns(u, d)
        BY <1>1, <1>2, <1>4 DEF TransientOwned, Calm, Transient
  <2>2. u # t /\ cur[u].fn # "idle"
        BY <1>4, <2>1 DEF Owns, At
  <2>3. cur'[u] = cur[u] /\ world = "up" /\ world' = "up"
        BY <1>2, <2>2 DEF Others, Calm
  <2>4. Owns(u, d)'
        BY <1>4, <2>1, <2>3 DEF Owns, At
  <2> QED
    BY <2>4
<1> QED
  BY <1>2, <1>3, <1>4 DEF Held

\* A thread answers only for the service of its innermost call.
LEMMA HeldHere ==
  ASSUME NEW t \in Threads, NEW d, d = cur[t].d,
         \A e \in Daemons \ {d} : state'[e] = state[e],
         (Calm' /\ Transient(d)') => Owns(t, d)' \/ (state'[d] = state[d] /\ ~Owns(t, d))
  PROVE  Held(t)
<1>1. \A e \in Daemons \ {d} : ~Owns(t, e)
      BY DEF Owns
<1> QED
  BY <1>1 DEF Held

LEMMA KeptHeld ==
  ASSUME NEW t \in Threads, NEW d, d = cur[t].d, state' = state, (Calm' /\ Owns(t, d)) => Owns(t, d)'
  PROVE  Held(t)
<1>1. \A e \in Daemons \ {d} : state'[e] = state[e]
      OBVIOUS
<1>2. Calm' => Owns(t, d)' \/ (state'[d] = state[d] /\ ~Owns(t, d))
      OBVIOUS
<1> QED
  BY <1>1, <1>2, HeldHere

LEMMA StoppedHeld ==
  ASSUME Store, NEW t \in Threads, NEW d \in Daemons, d = cur[t].d, state' = [state EXCEPT ![d] = "Stopped"]
  PROVE  Held(t)
<1>1. /\ \A e \in Daemons \ {d} : state'[e] = state[e]
      /\ state'[d] = "Stopped"
      BY DEF Store
<1>2. ~Transient(d)'
      BY <1>1 DEF Transient
<1> QED
  BY <1>1, <1>2, HeldHere

LEMMA Tops ==
  ASSUME Stacks, NEW t \in Threads
  PROVE  /\ cur[t] \in Frame
         /\ \A f : Goto(t, f) => cur'[t] = f
         /\ \A f, g : Call(t, f, g) => cur'[t] = g
         /\ \A err : Return(t, err) => cur'[t] = Below(t, err)
<1>1. cur[t] \in Frame
      BY DEF Stacks, GoodFrame
<1>2. \A f : [cur EXCEPT ![t] = f][t] = f
      BY DEF Stacks
<1> QED
  BY <1>1, <1>2 DEF Goto, Call, Return

LEMMA StartHeld == ASSUME IInv, MaskInv, NEW t \in Threads, StartStep(t) PROVE Held(t)
<1> DEFINE f == cur[t]
<1>a. Stacks /\ Store /\ f \in Frame /\ f.d \in Daemons
      BY Tops DEF IInv, Frame
<1>d. PICK d \in Daemons : d = f.d
      BY <1>a
<1> USE <1>d
<1>q. ASSUME state' = state, ~Owns(t, d) PROVE Held(t)
      BY <1>q, KeptHeld
<1>s. ASSUME state' = [state EXCEPT ![d] = "Stopped"] PROVE Held(t)
      BY <1>a, <1>s, StoppedHeld
<1>n. ASSUME f.fn = "start", f.pc \notin {"begin", "claim"}, f.ph \notin {"Clean", "Prepare"} PROVE ~Owns(t, d)
      BY <1>n DEF Owns, At
<1>p. ASSUME f.fn = "start", f.pc \in {"fail", "end", "hooks", "after"} PROVE ~Owns(t, d)
      BY <1>p DEF Owns, At
<1>1. CASE StartBegin(t)
  <2> DEFINE g == [f EXCEPT !.pc = "claim"]
  <2>1. g.fn = "start" /\ g.d = d /\ g.pc = "claim"
        BY <1>1, <1>a DEF StartBegin, At, Frame
  <2>2. state' = state /\ (Calm' => cur'[t] = g) /\ f.fn = "start" /\ f.pc = "begin"
        BY <1>1, <1>a, Tops DEF StartBegin, At, Calm, service, outside
  <2>3. Calm' /\ Owns(t, d) => Owns(t, d)'
        BY <2>1, <2>2 DEF Owns, At, Calm
  <2> QED
    BY <2>2, <2>3, KeptHeld
<1>2. CASE StartClaim(t)
  <2>0. f.fn = "start" /\ f.pc = "claim" /\ linked' = linked
        BY <1>2 DEF StartClaim, At, outside
  <2>1. CASE state[d] \in {"Starting", "Stopping"}
    <3>1. ~Owns(t, d)
          BY <2>0, <2>1 DEF Owns, At
    <3>2. state' = state
          BY <1>2, <2>1 DEF StartClaim
    <3> QED
      BY <1>q, <3>1, <3>2
  <2>2. CASE isMasked[d]
    <3>1. ~Calm'
          BY <1>a, <2>0, <2>2 DEF MaskInv, Calm
    <3> QED
      BY <3>1 DEF Held
  <2>3. CASE state[d] = "Running"
    <3>1. ~Owns(t, d)
          BY <2>0, <2>3 DEF Owns
    <3>2. CASE ~isMasked[d]
      <4>1. state' = state
            BY <1>2, <2>3, <3>2 DEF StartClaim
      <4> QED
        BY <1>q, <3>1, <4>1
    <3> QED
      BY <2>2, <3>2
  <2>4. CASE state[d] \in {"Stopped", "Restarting"} /\ ~isMasked[d]
    <3> DEFINE g == [f EXCEPT !.pc = "flag", !.ph = "Clean"]
    <3>1. /\ state' = [state EXCEPT ![d] = IF @ = "Restarting" THEN @ ELSE "Starting"]
          /\ Goto(t, g)
          BY <1>2, <2>4 DEF StartClaim
    <3>2. cur'[t] = g /\ g.fn = "start" /\ g.d = d /\ g.pc = "flag" /\ g.ph = "Clean"
          BY <1>a, <2>0, <3>1, Tops DEF Frame
    <3>3. /\ \A e \in Daemons \ {d} : state'[e] = state[e]
          /\ state'[d] \in {"Restarting", "Starting"}
          BY <1>a, <2>4, <3>1 DEF Store
    <3>4. Owns(t, d)'
          BY <3>2, <3>3 DEF Owns
    <3> QED
      BY <3>3, <3>4, HeldHere
  <2> QED
    BY <1>a, <2>1, <2>2, <2>3, <2>4 DEF Store, States
<1>3. CASE StartFlag(t)
  <2> DEFINE g == [f EXCEPT !.pc = "abort"]
  <2>1. g.fn = f.fn /\ g.d = d /\ g.pc = "abort" /\ g.ph = f.ph /\ g.bad = f.bad
        BY <1>a DEF Frame
  <2>2. state' = state /\ (Calm' => cur'[t] = g) /\ f.fn = "start" /\ f.pc = "flag"
        BY <1>3, <1>a, Tops DEF StartFlag, At, Calm, service, outside
  <2>3. Calm' /\ Owns(t, d) => Owns(t, d)'
        BY <2>1, <2>2 DEF Owns, At, Calm
  <2> QED
    BY <2>2, <2>3, KeptHeld
<1>4. CASE StartAbort(t)
  <2> DEFINE g == [f EXCEPT !.pc = "act"]
  <2>1. g.fn = f.fn /\ g.d = d /\ g.pc = "act" /\ g.ph = f.ph /\ g.bad = f.bad
        BY <1>a DEF Frame
  <2>2. state' = state /\ (state[d] # "Stopping" => cur'[t] = g) /\ f.fn = "start" /\ f.pc = "abort"
        BY <1>4, <1>a, Tops DEF StartAbort, At, service
  <2>3. Calm' /\ Owns(t, d) => Owns(t, d)'
        BY <2>1, <2>2 DEF Owns, At, Calm
  <2> QED
    BY <2>2, <2>3, KeptHeld
<1>5. CASE StartClean(t)
  <2> DEFINE g == Frame0("stop", d, FALSE)
  <2>1. g.fn = "stop" /\ g.pc = "begin" /\ g.d = d
        BY DEF Frame0
  <2>2. state' = state /\ cur'[t] = g /\ f.fn = "start"
        BY <1>5, <1>a, Tops DEF StartClean, AtStep, At, service
  <2>3. Calm' /\ Owns(t, d) => Owns(t, d)'
        BY <2>1, <2>2 DEF Owns, At, Calm
  <2> QED
    BY <2>2, <2>3, KeptHeld
<1>6. CASE StartPrepare(t)
  <2>1. f.fn = "start" /\ f.pc = "act" /\ f.ph = "Prepare"
        BY <1>6 DEF StartPrepare, AtStep, At
  <2>2. ~f.bad => ~Owns(t, d)
        BY <2>1 DEF Owns, At
  <2> QED
    BY <1>6, <1>q, <1>s, <2>2 DEF StartPrepare
<1>7. CASE StartCondition(t)
  <2>1. ~Owns(t, d)
        BY <1>7, <1>n DEF StartCondition, AtStep, At
  <2> QED
    BY <1>7, <1>q, <1>s, <2>1 DEF StartCondition
<1>8. CASE StartLine(t) \/ StartExec(t) \/ \E i \in Daemons : StartRequisite(t, i) \/ StartDependency(t, i)
  <2>1. f.fn = "start" /\ f.pc = "act" /\ f.ph \in DepNames \cup {"StartPre", "Start", "StartPost"}
        BY <1>8 DEF StartLine, StartExec, StartRequisite, StartDependency, AtStep, At, DepNames
  <2>3. ~Owns(t, d)
        BY <1>n, <2>1 DEF DepNames
  <2>2. state' = state
        BY <1>8 DEF StartLine, StartExec, StartRequisite, StartDependency, service
  <2> QED
    BY <1>q, <2>2, <2>3
<1>9. CASE StartAfterDependency(t) \/ StartHooked(t) \/ \E i \in Daemons : StartHook(t, i)
  <2>1. ~Owns(t, d)
        BY <1>9, <1>p DEF StartAfterDependency, StartHooked, StartHook, At
  <2>2. state' = state
        BY <1>9 DEF StartAfterDependency, StartHooked, StartHook, service
  <2> QED
    BY <1>q, <2>1, <2>2
<1>10. CASE StartFail(t)
      BY <1>10, <1>s DEF StartFail
<1>11. CASE StartFinish(t)
  <2>1. ~Owns(t, d)
        BY <1>11, <1>p DEF StartFinish, At
  <2>2. CASE state' = [state EXCEPT ![d] = "Running"]
    <3>1. (\A e \in Daemons \ {d} : state'[e] = state[e]) /\ state'[d] = "Running"
          BY <1>a, <2>2 DEF Store
    <3>2. ~Transient(d)'
          BY <3>1 DEF Transient
    <3> QED
      BY <3>1, <3>2, HeldHere
  <2> QED
    BY <1>11, <1>q, <2>1, <2>2 DEF StartFinish
<1> QED
  BY <1>1, <1>2, <1>3, <1>4, <1>5, <1>6, <1>7, <1>8, <1>9, <1>10, <1>11 DEF StartStep
LEMMA StopHeld == ASSUME IInv, StackInv, MaskInv, NEW t \in Threads, StopStep(t) PROVE Held(t)
<1> DEFINE f == cur[t]
<1>a. Stacks /\ Store /\ f \in Frame /\ f.d \in Daemons
      BY Tops DEF IInv, Frame
<1>d. PICK d \in Daemons : d = f.d
      BY <1>a
<1> USE <1>d
<1>k. ASSUME state' = state, f.fn = "stop", f.pc # "begin", NEW g, cur'[t] = g,
             g.fn = "stop", g.d = d, g.pc # "begin"
      PROVE  Held(t)
  <2>1. (Calm' /\ Owns(t, d)) => Owns(t, d)'
        BY <1>k DEF Owns, At
  <2> QED
    BY <1>k, <2>1, KeptHeld
<1>e. CASE Panic
  <2>1. ~Calm'
        BY <1>e DEF Panic, Calm
  <2> QED
    BY <2>1 DEF Held
<1>1. CASE StopBegin(t)
  <2>0. f.fn = "stop" /\ f.pc = "begin" /\ linked' = linked /\ machine' = machine
        BY <1>1 DEF StopBegin, At, outside
  <2>1. CASE isMasked[d]
    <3>1. ~Calm'
          BY <2>0, <2>1 DEF MaskInv, Calm
    <3> QED
      BY <3>1 DEF Held
  <2>2. CASE ~isMasked[d]
    <3>1. /\ state' = [state EXCEPT ![d] = IF @ = "Restarting" /\ ~f.arg THEN @ ELSE "Stopping"]
          /\ Goto(t, [f EXCEPT !.pc = "lines"]) \/ ("log" \in CanFail /\ Return(t, TRUE))
          BY <1>1, <2>2 DEF StopBegin
    <3>2. /\ \A e \in Daemons \ {d} : state'[e] = state[e]
          /\ state'[d] = IF state[d] = "Restarting" /\ ~f.arg THEN "Restarting" ELSE "Stopping"
          BY <1>a, <3>1 DEF Store
    <3>3. CASE Goto(t, [f EXCEPT !.pc = "lines"])
      <4> DEFINE g == [f EXCEPT !.pc = "lines"]
      <4>1. cur'[t] = g /\ g.fn = "stop" /\ g.d = d /\ g.pc = "lines"
            BY <1>a, <2>0, <3>3, Tops DEF Frame
      <4>2. Owns(t, d)'
            BY <3>2, <4>1 DEF Owns
      <4> QED
        BY <3>2, <4>2, HeldHere
    <3>4. CASE "log" \in CanFail /\ Return(t, TRUE)
      <4>1. CASE state[d] = "Restarting" /\ ~f.arg
        <5>1. cur'[t] = Below(t, TRUE)
              BY <1>a, <3>4, Tops
        <5>2. Resumes(Below(t, TRUE), d) /\ Below(t, TRUE).bad
              BY <1>a, <2>0, <4>1, BelowStacks
        <5>3. Owns(t, d)'
              BY <3>2, <4>1, <5>1, <5>2 DEF Owns, Resumes
        <5> QED
          BY <3>2, <5>3, HeldHere
      <4>2. CASE ~(state[d] = "Restarting" /\ ~f.arg)
        <5>1. CanFail' = CanFail
              BY <2>0 DEF CanFail
        <5>2. ~Transient(d)'
              BY <3>2, <3>4, <4>2, <5>1 DEF Transient
        <5> QED
          BY <3>2, <5>2, HeldHere
      <4> QED
        BY <4>1, <4>2
    <3> QED
      BY <3>1, <3>3, <3>4
  <2> QED
    BY <2>1, <2>2
<1>2. ASSUME NEW pc, NEW some, NEW next, StopLines(t, pc, some, next), pc # "begin", next # "begin"
      PROVE  Held(t)
  <2> DEFINE g == [f EXCEPT !.pc = next]
  <2>1. f.fn = "stop" /\ f.pc # "begin" /\ state' = state /\ cur'[t] = g
        BY <1>2, <1>a, Tops DEF StopLines, At
  <2>2. g.fn = "stop" /\ g.d = d /\ g.pc = next
        BY <1>a, <2>1 DEF Frame
  <2> QED
    BY <1>2, <1>k, <2>1, <2>2
<1>3. CASE StopPreLines(t) \/ StopPostLines(t)
      BY <1>2, <1>3 DEF StopPreLines, StopPostLines
<1>4. CASE StopTerm(t)
  <2> DEFINE g == [f EXCEPT !.pc = "post"]
  <2>1. f.fn = "stop" /\ f.pc = "term" /\ state' = state /\ cur'[t] = g
        BY <1>4, <1>a, Tops DEF StopTerm, At, service
  <2>2. g.fn = "stop" /\ g.d = d /\ g.pc = "post"
        BY <1>a, <2>1 DEF Frame
  <2> QED
    BY <1>k, <2>1, <2>2
<1>5. CASE StopPoll(t)
  <2> DEFINE g == [f EXCEPT !.pc = "end", !.bad = Blocking(cmds[f.d])]
  <2>1. CASE Goto(t, g) /\ state' = state
    <3>1. f.fn = "stop" /\ f.pc = "poll" /\ cur'[t] = g
          BY <1>5, <1>a, <2>1, Tops DEF StopPoll, At
    <3>2. g.fn = "stop" /\ g.d = d /\ g.pc = "end"
          BY <1>a, <3>1 DEF Frame
    <3> QED
      BY <1>k, <2>1, <3>1, <3>2
  <2> QED
    BY <1>5, <1>e, <2>1 DEF StopPoll, service
<1>6. CASE StopEnd(t)
      BY <1>6, <1>a, StoppedHeld DEF StopEnd
<1> QED
  BY <1>1, <1>3, <1>4, <1>5, <1>6 DEF StopStep

LEMMA MonitorHeld == ASSUME IInv, NEW t \in Threads, MonitorStep(t) PROVE Held(t)
<1> DEFINE f == cur[t]
<1>a. Stacks /\ Store /\ f \in Frame /\ f.d \in Daemons
      BY Tops DEF IInv, Frame
<1>d. PICK d \in Daemons : d = f.d
      BY <1>a
<1> USE <1>d
<1>q. ASSUME state' = state, f.fn = "monitor", f.pc # "sleep" PROVE Held(t)
  <2>1. ~Owns(t, d)
        BY <1>q DEF Owns, At
  <2> QED
    BY <1>q, <2>1, KeptHeld
<1>1. CASE MonitorBegin(t) \/ MonitorAwait(t) \/ MonitorClear(t) \/ MonitorDecide(t) \/ MonitorRestarted(t)
           \/ MonitorStopDepsDone(t) \/ \E i \in Daemons : MonitorUphold(t, i) \/ MonitorStopDep(t, i)
  <2>1. f.fn = "monitor" /\ f.pc # "sleep"
        BY <1>1 DEF MonitorBegin, MonitorAwait, MonitorClear, MonitorDecide, MonitorRestarted,
                    MonitorStopDepsDone, MonitorUphold, MonitorStopDep, At
  <2>2. state' = state
        BY <1>1 DEF MonitorBegin, MonitorAwait, MonitorClear, MonitorDecide, MonitorRestarted,
                    MonitorStopDepsDone, MonitorUphold, MonitorStopDep, service
  <2> QED
    BY <1>q, <2>1, <2>2
<1>2. CASE MonitorAttach(t)
  <2>1. f.fn = "monitor" /\ f.pc # "sleep" /\ state' = state
        BY <1>2 DEF MonitorAttach, At, Panic, service
  <2> QED
    BY <1>q, <2>1
<1>3. CASE MonitorSettle(t)
  <2>1. f.fn = "monitor" /\ f.pc # "sleep"
        BY <1>3 DEF MonitorSettle, At
  <2>2. PICK policy : MonitorApply(t, policy) /\ world' = world /\ world = "up"
        BY <1>3 DEF MonitorSettle, MonitorApply, At, outside
  <2>3. Again(t) \/ Down(t) \/ Leave(t)
        BY <2>2 DEF MonitorApply
  <2>4. CASE Again(t)
    <3> DEFINE g == [f EXCEPT !.pc = "sleep"]
    <3>1. cur'[t] = g /\ g.fn = "monitor" /\ g.d = d /\ g.pc = "sleep"
          BY <1>a, <2>1, <2>4, Tops DEF Again, Frame
    <3>2. (\A e \in Daemons \ {d} : state'[e] = state[e]) /\ state'[d] = "Restarting"
          BY <1>a, <2>4 DEF Again, Store
    <3>3. Owns(t, d)'
          BY <2>2, <3>1, <3>2 DEF Owns, At
    <3> QED
      BY <3>2, <3>3, HeldHere
  <2>5. CASE Down(t)
        BY <1>a, <2>5, StoppedHeld DEF Down
  <2>6. CASE Leave(t)
        BY <1>q, <2>1, <2>6 DEF Leave
  <2> QED
    BY <2>3, <2>4, <2>5, <2>6
<1>4. CASE MonitorWake(t)
  <2> DEFINE g == Frame0("start", f.d, isManual[f.d])
  <2>1. g.fn = "start" /\ g.pc = "begin" /\ g.d = d
        BY DEF Frame0
  <2>2. f.fn = "monitor" /\ f.pc = "sleep" /\ state' = state /\ world' = world
        /\ (~shutdown /\ state[d] # "Stopped" => cur'[t] = g) /\ shutdown' = shutdown
        BY <1>4, <1>a, Tops DEF MonitorWake, At, outside
  <2>3. (Calm' /\ Owns(t, d)) => Owns(t, d)'
        BY <2>1, <2>2 DEF Owns, At, Calm
  <2> QED
    BY <2>2, <2>3, KeptHeld
<1> QED
  BY <1>1, <1>2, <1>3, <1>4 DEF MonitorStep

LEMMA OtherHeld ==
  ASSUME IInv, NEW t \in Threads,
         \/ NeededStep(t) \/ RestartBegin(t) \/ RestartTail(t) \/ ReloadBegin(t) \/ ReloadHup(t)
         \/ StopAllStep(t)
  PROVE  Held(t)
<1> DEFINE f == cur[t]
<1>a. Stacks /\ Store /\ f \in Frame /\ f.d \in Daemons
      BY Tops DEF IInv, Frame
<1>d. PICK d \in Daemons : d = f.d
      BY <1>a
<1> USE <1>d
<1>m. f.fn \notin {"start", "stop", "monitor"}
      BY DEF NeededStep, NeededTick, NeededEnd, RestartBegin, RestartTail, ReloadBegin, ReloadHup,
         StopAllStep, StopAllBegin, StopAllNext, StopAllAsk, StopAllEnd, At
<1>q. ASSUME state' = state PROVE Held(t)
  <2>1. ~Owns(t, d)
        BY <1>m DEF Owns, At
  <2> QED
    BY <1>q, <2>1, KeptHeld
<1>1. CASE NeededStep(t) \/ RestartTail(t) \/ ReloadBegin(t) \/ ReloadHup(t) \/ StopAllStep(t)
  <2>1. state' = state
        BY <1>1 DEF NeededStep, NeededTick, NeededEnd, RestartTail, ReloadBegin, ReloadHup, Panic,
                    StopAllStep, StopAllBegin, StopAllNext, StopAllAsk, StopAllEnd, service
  <2> QED
    BY <1>q, <2>1
<1>2. CASE RestartBegin(t)
  <2> DEFINE g == Frame0("stop", f.d, TRUE)
  <2>1. CASE Call(t, [f EXCEPT !.pc = "tail"], g) /\ state' = [state EXCEPT ![d] = "Restarting"]
    <3>1. cur'[t] = g /\ g.fn = "stop" /\ g.d = d
          BY <1>a, <2>1, Tops DEF Frame0
    <3>2. (\A e \in Daemons \ {d} : state'[e] = state[e]) /\ state'[d] = "Restarting"
          BY <1>a, <2>1 DEF Store
    <3>3. Owns(t, d)'
          BY <3>1, <3>2 DEF Owns
    <3> QED
      BY <3>2, <3>3, HeldHere
  <2> QED
    BY <1>2, <1>q, <2>1 DEF RestartBegin
<1> QED
  BY <1>1, <1>2

LEMMA StepHeld == ASSUME IInv, StackInv, MaskInv, NEW t \in Threads, Step(t) PROVE Held(t)
  BY StartHeld, StopHeld, MonitorHeld, OtherHeld DEF Step

------------------------------------------------------------------------------
(* The inductive invariant.                                                 *)

\* Only a Mask sets isMasked, and it makes the link.
Aside == UNCHANGED <<outside, isMasked>>

LEMMA StartAside == ASSUME NEW t \in Threads, StartStep(t) PROVE Aside
<1>1. CASE StartBegin(t) \/ StartClaim(t)
      BY <1>1 DEF StartBegin, StartClaim, Aside, service
<1>2. CASE StartFlag(t) \/ StartAbort(t) \/ StartClean(t)
      BY <1>2 DEF StartFlag, StartAbort, StartClean, Aside, service
<1>3. CASE StartPrepare(t) \/ StartCondition(t)
      BY <1>3 DEF StartPrepare, StartCondition, Aside
<1>4. ASSUME NEW i \in Daemons, StartRequisite(t, i) \/ StartDependency(t, i) \/ StartHook(t, i) PROVE Aside
      BY <1>4 DEF StartRequisite, StartDependency, StartHook, Aside, service
<1>5. CASE StartAfterDependency(t) \/ StartLine(t) \/ StartExec(t)
      BY <1>5 DEF StartAfterDependency, StartLine, StartExec, Aside, service
<1>6. CASE StartFail(t) \/ StartFinish(t) \/ StartHooked(t)
      BY <1>6 DEF StartFail, StartFinish, StartHooked, Aside
<1> QED
  BY <1>1, <1>2, <1>3, <1>4, <1>5, <1>6 DEF StartStep

LEMMA StepOutside ==
  ASSUME NEW t \in Threads, Step(t)
  PROVE  /\ machine' = machine /\ linked' = linked /\ isMasked' = isMasked
         /\ Calm' => Calm
<1> DEFINE Goal == machine' = machine /\ linked' = linked /\ isMasked' = isMasked /\ (Calm' => Calm)
<1>a. Aside => Goal
      BY DEF Aside, outside, Calm
<1>p. Panic => Goal
      BY DEF Panic, service, Calm
<1>1. CASE StartStep(t)
      BY <1>1, <1>a, StartAside
<1>2. CASE StopStep(t)
  <2>1. StopPoll(t) => Panic \/ Aside
        BY DEF StopPoll, Aside, service
  <2>2. \A pc, some, next : StopLines(t, pc, some, next) => Aside
        BY DEF StopLines, Aside
  <2>3. StopBegin(t) \/ StopTerm(t) \/ StopEnd(t) => Aside
        BY DEF StopBegin, StopTerm, StopEnd, Aside, service
  <2> QED
    BY <1>2, <1>a, <1>p, <2>1, <2>2, <2>3 DEF StopStep, StopPreLines, StopPostLines
<1>3. CASE MonitorStep(t)
  <2>1. MonitorDecide(t) => Goal
        BY DEF MonitorDecide, service, Calm
  <2>2. MonitorSettle(t) => Aside
        BY DEF MonitorSettle, MonitorApply, Aside
  <2>3. MonitorAttach(t) => Panic \/ Aside
        BY DEF MonitorAttach, Aside, service
  <2>4. MonitorBegin(t) \/ MonitorAwait(t) \/ MonitorClear(t) => Aside
        BY DEF MonitorBegin, MonitorAwait, MonitorClear, Aside, service
  <2>5. MonitorWake(t) \/ MonitorRestarted(t) \/ MonitorStopDepsDone(t) => Aside
        BY DEF MonitorWake, MonitorRestarted, MonitorStopDepsDone, Aside, service
  <2>6. \A i \in Daemons : MonitorUphold(t, i) \/ MonitorStopDep(t, i) => Aside
        BY DEF MonitorUphold, MonitorStopDep, Aside, service
  <2> HIDE DEF Goal
  <2>7. Goal
        BY <1>3, <1>a, <1>p, <2>1, <2>2, <2>3, <2>4, <2>5, <2>6 DEF MonitorStep
  <2> QED
    BY <2>7 DEF Goal
<1>4. CASE NeededStep(t)
  <2>1. Aside
        BY <1>4 DEF NeededStep, NeededTick, NeededEnd, Aside, service
  <2> QED
    BY <1>a, <2>1
<1>5. CASE RestartBegin(t) \/ RestartTail(t) \/ ReloadBegin(t) \/ ReloadHup(t)
  <2>1. RestartBegin(t) \/ RestartTail(t) \/ ReloadBegin(t) => Aside
        BY DEF RestartBegin, RestartTail, ReloadBegin, Aside, service
  <2>2. ReloadHup(t) => Panic \/ Aside
        BY DEF ReloadHup, Aside, service
  <2> QED
    BY <1>5, <1>a, <1>p, <2>1, <2>2
<1>6. CASE StopAllStep(t)
  <2>1. \A i \in Daemons : StopAllNext(t, i) => Aside
        BY DEF StopAllNext, Aside, service
  <2>2. StopAllBegin(t) \/ StopAllEnd(t) => Goal
        BY DEF StopAllBegin, StopAllEnd, service, Calm
  <2>3. StopAllAsk(t) => Aside
        BY DEF StopAllAsk, Aside, service
  <2> HIDE DEF Goal
  <2>7. Goal
        BY <1>6, <1>a, <2>1, <2>2, <2>3 DEF StopAllStep
  <2> QED
    BY <2>7 DEF Goal
<1> QED
  BY <1>1, <1>2, <1>3, <1>4, <1>5, <1>6 DEF Step

LEMMA StepOInv == ASSUME OInv, NEW t \in Threads, Step(t) PROVE OInv'
<1>1. IInv' /\ StackInv' /\ Others(t)
      BY StepIInv, StepStacks DEF OInv, Next
<1>2. MaskInv'
      BY StepOutside DEF OInv, MaskInv
<1>3. TransientOwned'
      BY <1>1, StepHeld, StepOutside, HeldOwned DEF OInv
<1> QED
  BY <1>1, <1>2, <1>3 DEF OInv

\* A goroutine in a command that does not return answers for what it did before.
LEMMA BlocksOInv == ASSUME OInv, NEW t \in Threads, RunBlocks(t) PROVE OInv'
<1> DEFINE f == [cur[t] EXCEPT !.pc = "blocked"]
<1>a. IInv /\ StackInv /\ MaskInv /\ TransientOwned /\ Stacks /\ cur[t] \in Frame
      BY Tops DEF OInv, IInv
<1>1. IInv'
      BY <1>a, BlocksGood
<1>2. f.fn = cur[t].fn /\ f.d = cur[t].d /\ f.arg = cur[t].arg /\ f.pc = "blocked" /\ f.ph = cur[t].ph
      BY <1>a DEF Frame
<1>3. Goto(t, f) /\ InRun(t) /\ UNCHANGED <<state, isMasked, linked, machine, shutdown, world>>
      BY DEF RunBlocks, service
<1> HIDE DEF f
<1>4. StackInv' /\ Others(t) /\ cur'[t] = f
      BY <1>a, <1>2, <1>3, GotoStacks
<1>5. MaskInv'
      BY <1>a, <1>3 DEF MaskInv
<1>6. ASSUME NEW d, d = cur[t].d, Owns(t, d) PROVE Owns(t, d)'
  <2>1. cur[t].fn = "stop" /\ state[d] \in {"Stopping", "Restarting"}
        BY <1>3, <1>6 DEF InRun, Owns, At
  <2> QED
    BY <1>2, <1>3, <1>4, <1>6, <2>1 DEF Owns
<1>7. Held(t)
  <2>1. PICK d : d = cur[t].d
        OBVIOUS
  <2> QED
    BY <1>3, <1>6, <2>1, KeptHeld
<1>8. TransientOwned'
      BY <1>a, <1>3, <1>4, <1>7, HeldOwned DEF Calm
<1> QED
  BY <1>1, <1>4, <1>5, <1>8 DEF OInv

LEMMA OutsideOInv == ASSUME OInv, Outside PROVE OInv'
<1>1. IInv' /\ StackInv' /\ \A u \in Threads : cur'[u] = cur[u] \/ cur[u].fn = "idle"
      BY StepIInv, OutsideStacks DEF OInv, Next
<1>2. machine' = machine /\ state' = state /\ (Calm' => Calm)
  <2> DEFINE Goal == machine' = machine /\ state' = state /\ (Calm' => Calm)
  <2>1. \A c \in Clients, d \in Daemons : (\E op \in OpNames : Command(c, d, op)) => Goal
        BY DEF Command, service, Calm
  <2>2. \A c \in Clients, d \in Daemons : StatusCommand(c, d) => Goal
        BY DEF StatusCommand, May, service, Calm
  <2>3. ASSUME NEW c \in Clients, NEW d \in Daemons, MaskCommand(c, d) \/ UnmaskCommand(c, d) PROVE Goal
    <3>1. UNCHANGED <<machine, state, shutdown, world>>
          BY <2>3 DEF MaskCommand, UnmaskCommand
    <3>2. CASE MaskCommand(c, d)
      <4>1. PICK hasFile \in BOOLEAN : linked' = (linked \/ ~hasFile)
            BY <3>2 DEF MaskCommand
      <4>2. linked \in BOOLEAN
            BY DEF OInv, IInv, Around
      <4>3. linked => linked'
            BY <4>1, <4>2
      <4> QED
        BY <3>1, <4>3 DEF Calm
    <3>3. CASE UnmaskCommand(c, d)
          BY <3>1, <3>3 DEF UnmaskCommand, Calm
    <3> QED
      BY <2>3, <3>2, <3>3
  <2>4. Terminate => Goal
        BY DEF Terminate, service, outside, Calm
  <2>5. \A p \in Procs, s \in {"ok", "fail"} : Exit(p, s) => Goal
        BY DEF Exit, service, outside, Calm
  <2> HIDE DEF Goal
  <2>6. Goal
        BY <2>1, <2>2, <2>3, <2>4, <2>5 DEF Outside
  <2> QED
    BY <2>6 DEF Goal
<1>3. MaskInv'
  <2>1. CASE UNCHANGED <<isMasked, linked>>
        BY <2>1 DEF OInv, MaskInv
  <2>2. ASSUME NEW c \in Clients, NEW d \in Daemons, MaskCommand(c, d) PROVE MaskInv'
    <3>1. PICK hasFile \in BOOLEAN :
             /\ isMasked' = [isMasked EXCEPT ![d] = @ \/ ~(hasFile \/ linked)]
             /\ linked' = (linked \/ ~hasFile)
          BY <2>2 DEF MaskCommand
    <3>2. isMasked \in [Daemons -> BOOLEAN]
          BY DEF OInv, IInv, Store
    <3> QED
      BY <3>1, <3>2 DEF OInv, MaskInv
  <2>3. ASSUME NEW c \in Clients, NEW d \in Daemons, UnmaskCommand(c, d) PROVE MaskInv'
    <3>1. isMasked \in [Daemons -> BOOLEAN]
          BY DEF OInv, IInv, Store
    <3> QED
      BY <2>3, <3>1 DEF OInv, MaskInv, UnmaskCommand
  <2> QED
    BY <2>1, <2>2, <2>3 DEF Outside, Command, StatusCommand, Terminate, Exit, service, outside
<1>4. TransientOwned'
  <2>1. SUFFICES ASSUME Calm', NEW d \in Daemons, Transient(d)'
                 PROVE  \E u \in Threads : Owns(u, d)'
        BY DEF TransientOwned, Calm, Transient
  <2>2. PICK u \in Threads : Owns(u, d)
        BY <1>2, <2>1 DEF OInv, TransientOwned, Calm, Transient, CanFail
  <2>3. cur[u].fn # "idle" /\ world = "up" /\ world' = "up"
        BY <1>2, <2>1, <2>2 DEF Owns, At, Calm
  <2>4. Owns(u, d)'
        BY <1>1, <1>2, <2>2, <2>3 DEF Owns, At
  <2> QED
    BY <2>4
<1> QED
  BY <1>1, <1>3, <1>4 DEF OInv

LEMMA InitOInv == Init => OInv
<1> SUFFICES ASSUME Init PROVE OInv
    OBVIOUS
<1>1. IInv
      BY InitIInv
<1>2. StackInv
  <2>1. \A t \in Threads : callers[t] = <<>> /\ cur[t].fn = "idle"
        BY DEF Init, Idle, Frame0
  <2> QED
    BY <2>1 DEF StackInv, Lean, Planned
<1>3. MaskInv /\ TransientOwned
      BY DEF Init, MaskInv, TransientOwned
<1> QED
  BY <1>1, <1>2, <1>3 DEF OInv

\* Every service in a transient state has a goroutine that will end it (start()
\* and Restart() refuse such a service, daemon.go:424, 1043), whatever commands,
\* monitors and failures interleave, on every container.
THEOREM DaemonTransientOwned == Spec => []TransientOwned
<1>1. OInv /\ [Next]_vars => OInv'
  <2> SUFFICES ASSUME OInv, [Next]_vars PROVE OInv'
      OBVIOUS
  <2>1. CASE UNCHANGED vars
    <3>1. IInv'
          BY <2>1, StepIInv DEF OInv
    <3>2. StackInv' /\ MaskInv' /\ TransientOwned'
          BY <2>1 DEF OInv, StackInv, Lean, Planned, Resumes, MaskInv, TransientOwned, Owns, At, CanFail,
             vars, service, stacks, outside
    <3> QED
      BY <3>1, <3>2 DEF OInv
  <2> QED
    BY <2>1, StepOInv, BlocksOInv, OutsideOInv DEF Next
<1> QED
  BY <1>1, InitOInv, PTL DEF Spec, OInv
==============================================================================
