--------------------------- MODULE ProcwaitProofs ----------------------------
(***************************************************************************)
(* Proofs about Procwait for any set of commands, processes and waiters:   *)
(* type correctness, the truth of reported statuses, the absence of a lost *)
(* wake-up in Wait, and the refinement of ExitLatch.  One inductive        *)
(* invariant carries all of them.                                          *)
(***************************************************************************)
EXTENDS Procwait, TLAPS

\* An exit status exists exactly for the dead; a command that was not forked
\* has no process.
CodeInv ==
  /\ \A p \in Procs : Dead(p) => code[p] \in Status
  /\ \A c \in Cmds : rpc[c] \in {"idle", "registered"} => proc[c] = "none"

\* What a reaper holds has been reaped.
HandInv == \A r \in Reapers : hand[r] # None => proc[hand[r]] = "reaped"

\* A latch is made for a process that was there, is opened only by a reaper
\* of that process and with its status, and is open or about to be opened
\* once the process is reaped.
LatchInv ==
  \A p \in Procs :
    /\ latch[p] # "absent" => proc[p] # "none"
    /\ latch[p] = "open" => proc[p] = "reaped" /\ latchWs[p] = code[p]
    /\ latch[p] = "locked" /\ proc[p] = "reaped" => InHand(p)

RunLatchInv ==
  \A c \in Cmds : runLatch[c] = "open" => proc[c] = "reaped" /\ runWs[c] = code[c]

\* A blocked waiter has a latch; one that returned has an answer.
WaiterInv ==
  \A v \in Waiters :
    /\ wpc[v] = "blocked" => latch[wpid[v]] # "absent"
    /\ wpc[v] = "returned" => wret[v] # "none"

IInv ==
  /\ TypeOK
  /\ CodeInv
  /\ HandInv
  /\ LatchInv
  /\ RunLatchInv
  /\ WaiterInv
  /\ StatusTruth

------------------------------------------------------------------------------

LEMMA InitIInv == Init => IInv
<1>1. Init => stray \in BOOLEAN /\ late \in BOOLEAN
      BY DEF Init
<1> QED
  BY <1>1, ProcsDisjoint DEF Init, IInv, TypeOK, CodeInv, HandInv, LatchInv, RunLatchInv, WaiterInv,
     StatusTruth, Dead, Procs, Status, RunPc, Reapers, MaxIdle

LEMMA TypeStep == TypeOK /\ [Next]_vars => TypeOK'
<1> SUFFICES ASSUME TypeOK, [Next]_vars PROVE TypeOK'
    OBVIOUS
<1> USE ProcsDisjoint DEF TypeOK, Procs, Status, Reapers, MaxIdle, RunPc,
        kernel, latches, runners, waiters, reapers, aside
<1>1. ASSUME NEW p \in Procs, Spawn(p) PROVE TypeOK'
      BY <1>1 DEF Spawn
<1>2. ASSUME NEW p \in Procs, NEW s \in Status, Exit(p, s) PROVE TypeOK'
      BY <1>2 DEF Exit
<1>3. ASSUME NEW p \in Procs, Adopt(p) PROVE TypeOK'
      BY <1>3 DEF Adopt
<1>4. ASSUME NEW p \in Procs, ForeignReap(p) PROVE TypeOK'
      BY <1>4 DEF ForeignReap
<1>5. ASSUME NEW c \in Cmds, Run(c) PROVE TypeOK'
      BY <1>5 DEF Run, RunRegister, RunStartFails, RunFork, RunStarted, RunLookup, RunReturn
<1>6. ASSUME NEW v \in Waiters, NEW p \in Procs, WaitCall(v, p) PROVE TypeOK'
      BY <1>6 DEF WaitCall
<1>7. ASSUME NEW v \in Waiters, WaitReturn(v) PROVE TypeOK'
      BY <1>7 DEF WaitReturn
<1>8. ASSUME NEW r \in Reapers, NEW p \in Procs, Wait4(r, p) PROVE TypeOK'
      BY <1>8 DEF Wait4, Asks
<1>9. ASSUME NEW r \in Reapers, Dispatch(r) PROVE TypeOK'
      BY <1>9 DEF Dispatch
<1>10. ASSUME Final PROVE TypeOK'
  <2>1. stray' \in BOOLEAN /\ late' \in BOOLEAN
        BY <1>10 DEF Final, FinalBegin, FinalIdle, FinalNoChild, FinalTimeout, FinalEnds
  <2>2. final' \in {"off", "polling", "done"} /\ idle' \in 0..(MaxIdle - 1)
        BY <1>10 DEF Final, FinalBegin, FinalIdle, FinalNoChild, FinalTimeout, FinalEnds
  <2>3. UNCHANGED <<proc, code, parent, latch, latchWs, runLatch, runWs, rpc, runRet, wpc, wpid, wret, hand>>
        BY <1>10 DEF Final, FinalBegin, FinalIdle, FinalNoChild, FinalTimeout
  <2> QED
    BY <2>1, <2>2, <2>3
<1>14. ASSUME StrayDies PROVE TypeOK'
  <2>1. stray' \in BOOLEAN
        BY <1>14 DEF StrayDies
  <2>2. UNCHANGED <<proc, code, parent, latch, latchWs, runLatch, runWs, rpc, runRet, wpc, wpid, wret, hand, final, idle, late>>
        BY <1>14 DEF StrayDies
  <2> QED
    BY <2>1, <2>2
<1>13. ASSUME Deadline PROVE TypeOK'
  <2>1. late' \in BOOLEAN
        BY <1>13 DEF Deadline
  <2>2. UNCHANGED <<proc, code, parent, latch, latchWs, runLatch, runWs, rpc, runRet, wpc, wpid, wret, hand, final, idle, stray>>
        BY <1>13 DEF Deadline
  <2> QED
    BY <2>1, <2>2
<1>12. ASSUME NEW r \in Reapers, ReapStray(r) PROVE TypeOK'
  <2>1. stray' \in BOOLEAN
        BY <1>12 DEF ReapStray
  <2>2. idle' \in 0..(MaxIdle - 1)
        BY <1>12 DEF ReapStray
  <2>3. UNCHANGED <<proc, code, parent, latch, latchWs, runLatch, runWs, rpc, runRet, wpc, wpid, wret, hand, final, late>>
        BY <1>12 DEF ReapStray
  <2> QED
    BY <2>1, <2>2, <2>3
<1>11. CASE UNCHANGED vars
      BY <1>11 DEF vars
<1> QED
  BY <1>1, <1>2, <1>3, <1>4, <1>5, <1>6, <1>7, <1>8, <1>9, <1>10, <1>11, <1>12, <1>13, <1>14 DEF Next, Kernel, Reap

\* The actions that touch no latch and no waiter: what the invariant needs of
\* them is that the reaped stay reaped and keep their status.
KernelKeeps ==
  /\ UNCHANGED <<latches, runRet, waiters, hand>>
  /\ \A p \in Procs :
       /\ proc[p] = "reaped" => proc'[p] = "reaped"
       /\ proc[p] # "none" => proc'[p] # "none"
       /\ proc'[p] = "reaped" => proc[p] = "reaped"
       /\ Dead(p) => code'[p] = code[p]
       /\ Dead(p)' => code'[p] \in Status
  /\ \A c \in Cmds :
       /\ rpc'[c] \in {"idle", "registered"} => proc'[c] = "none"
       /\ rpc'[c] = "returned" => rpc[c] = "returned"

LEMMA KernelKeepsIInv == IInv /\ TypeOK' /\ KernelKeeps => IInv'
<1> SUFFICES ASSUME IInv, TypeOK', KernelKeeps PROVE IInv'
    OBVIOUS
<1> USE DEF IInv, KernelKeeps, latches, waiters
<1>1. CodeInv'
      BY DEF CodeInv
<1>2. HandInv'
      BY DEF HandInv, TypeOK
<1>3. LatchInv'
      BY DEF LatchInv, InHand, Dead
<1>4. RunLatchInv'
      BY DEF RunLatchInv, Dead, Procs
<1>5. WaiterInv'
      BY DEF WaiterInv
<1>6. StatusTruth'
      BY DEF StatusTruth, Dead, Procs, TypeOK
<1> QED
  BY <1>1, <1>2, <1>3, <1>4, <1>5, <1>6

LEMMA StepIInv == IInv /\ [Next]_vars => IInv'
<1> SUFFICES ASSUME IInv, [Next]_vars PROVE IInv'
    OBVIOUS
<1>t. TypeOK /\ TypeOK'
      BY TypeStep DEF IInv
<1>1. ASSUME NEW p \in Procs, Kernel(p) PROVE IInv'
  <2>1. KernelKeeps
    <3>1. CASE Spawn(p)
          BY <1>t, <3>1, ProcsDisjoint DEF Spawn, KernelKeeps, IInv, CodeInv, TypeOK, Dead, Procs,
             latches, runners, waiters, reapers
    <3>2. ASSUME NEW s \in Status, Exit(p, s) PROVE KernelKeeps
          BY <1>t, <3>2 DEF Exit, KernelKeeps, IInv, CodeInv, TypeOK, Dead, Procs,
             latches, runners, waiters, reapers
    <3>3. CASE Adopt(p)
          BY <1>t, <3>3 DEF Adopt, KernelKeeps, IInv, CodeInv, TypeOK, Dead, Procs,
             latches, runners, waiters, reapers
    <3>4. CASE ForeignReap(p)
          BY <1>t, <3>4 DEF ForeignReap, KernelKeeps, IInv, CodeInv, TypeOK, Dead, Procs,
             latches, runners, waiters, reapers
    <3> QED
      BY <1>1, <3>1, <3>2, <3>3, <3>4 DEF Kernel
  <2> QED
    BY <1>t, <2>1, KernelKeepsIInv
<1>2. ASSUME NEW c \in Cmds, RunRegister(c) PROVE IInv'
      BY <1>t, <1>2 DEF RunRegister, IInv, CodeInv, HandInv, LatchInv, RunLatchInv, WaiterInv,
         StatusTruth, InHand, Dead, TypeOK, Procs, kernel, waiters, reapers
<1>3. ASSUME NEW c \in Cmds, RunStartFails(c) \/ RunStarted(c) \/ RunLookup(c) PROVE IInv'
      BY <1>t, <1>3 DEF RunStartFails, RunStarted, RunLookup, IInv, CodeInv, HandInv, LatchInv,
         RunLatchInv, WaiterInv, StatusTruth, InHand, Dead, TypeOK, Procs, kernel, latches,
         waiters, reapers, RunPc
<1>4. ASSUME NEW c \in Cmds, RunFork(c) PROVE IInv'
  <2>1. KernelKeeps
        BY <1>t, <1>4 DEF RunFork, KernelKeeps, IInv, CodeInv, TypeOK, Dead, Procs, latches,
           waiters, reapers
  <2> QED
    BY <1>t, <2>1, KernelKeepsIInv
<1>5. ASSUME NEW c \in Cmds, RunReturn(c) PROVE IInv'
      BY <1>t, <1>5 DEF RunReturn, IInv, CodeInv, HandInv, LatchInv, RunLatchInv, WaiterInv,
         StatusTruth, InHand, Dead, TypeOK, Procs, kernel, latches, waiters, reapers
<1>6. ASSUME NEW v \in Waiters, NEW p \in Procs, WaitCall(v, p) PROVE IInv'
  <2> USE <1>6, <1>t DEF WaitCall, IInv, kernel, runners, reapers
  <2>1. CodeInv' /\ HandInv' /\ RunLatchInv'
        BY DEF CodeInv, HandInv, RunLatchInv, Dead
  <2>2. LatchInv'
        BY DEF LatchInv, InHand, Is, TypeOK
  <2>3. WaiterInv'
        BY DEF WaiterInv, TypeOK
  <2>4. StatusTruth'
        BY DEF StatusTruth, TypeOK
  <2> QED
    BY <2>1, <2>2, <2>3, <2>4
<1>7. ASSUME NEW v \in Waiters, WaitReturn(v) PROVE IInv'
  <2> USE <1>7, <1>t DEF WaitReturn, IInv, kernel, runners, reapers, latches
  <2>1. CodeInv' /\ HandInv' /\ RunLatchInv' /\ LatchInv'
        BY DEF CodeInv, HandInv, RunLatchInv, LatchInv, InHand, Dead
  <2>2. latchWs[wpid[v]] = code[wpid[v]] /\ proc[wpid[v]] = "reaped" /\ code[wpid[v]] \in Status
        BY DEF LatchInv, CodeInv, TypeOK, Dead
  <2>3. WaiterInv' /\ StatusTruth'
        BY <2>2 DEF WaiterInv, StatusTruth, TypeOK, Status
  <2> QED
    BY <2>1, <2>3
<1>8. ASSUME NEW r \in Reapers, NEW p \in Procs, Wait4(r, p) PROVE IInv'
  <2> USE <1>8, <1>t DEF Wait4, Asks, IInv, latches, runners, waiters
  <2>1. CodeInv' /\ HandInv'
        BY ProcsDisjoint DEF CodeInv, HandInv, TypeOK, Dead, Procs
  <2>2. LatchInv'
        BY ProcsDisjoint DEF LatchInv, InHand, TypeOK, Procs
  <2>3. RunLatchInv' /\ WaiterInv' /\ StatusTruth'
        BY DEF RunLatchInv, WaiterInv, StatusTruth, TypeOK, Procs
  <2> QED
    BY <2>1, <2>2, <2>3
<1>9. ASSUME NEW r \in Reapers, Dispatch(r) PROVE IInv'
  <2> USE <1>9, <1>t DEF Dispatch, IInv, kernel, runners, waiters
  <2>1. CodeInv' /\ HandInv'
        BY DEF CodeInv, HandInv, TypeOK, Dead
  <2>2. LatchInv'
        BY DEF LatchInv, HandInv, InHand, TypeOK
  <2>3. RunLatchInv' /\ WaiterInv' /\ StatusTruth'
        BY DEF RunLatchInv, HandInv, WaiterInv, StatusTruth, TypeOK, Procs
  <2> QED
    BY <2>1, <2>2, <2>3
<1>10. ASSUME Final \/ StrayDies \/ Deadline \/ (\E r \in Reapers : ReapStray(r)) \/ UNCHANGED vars PROVE IInv'
  <2>1. KernelKeeps
        BY <1>t, <1>10 DEF Final, FinalBegin, FinalIdle, FinalNoChild, FinalTimeout, FinalEnds, StrayDies,
           Deadline, ReapStray, KernelKeeps, IInv, CodeInv, TypeOK, Dead, Procs, kernel, latches, runners, waiters,
           reapers, vars
  <2> QED
    BY <1>t, <2>1, KernelKeepsIInv
<1> QED
  BY <1>1, <1>2, <1>3, <1>4, <1>5, <1>6, <1>7, <1>8, <1>9, <1>10 DEF Next, Run, Reap

\* The inductive invariant holds of every behaviour of procwait: the facts
\* about latches, hands and waiters the results below are read off from.
THEOREM ProcwaitIInv == Spec => []IInv
<1> QED
  BY InitIInv, StepIInv, PTL DEF Spec

\* Type correctness of the reaper's maps and of every goroutine's position.
THEOREM ProcwaitTypeOK == Spec => []TypeOK
<1>1. IInv => TypeOK
      BY DEF IInv
<1> QED
  BY <1>1, ProcwaitIInv, PTL

\* waitWithPid stores ws before it opens a latch: whoever is told a status is
\* told the one its process died with.
THEOREM ProcwaitStatusTruth == Spec => []StatusTruth
<1>1. IInv => StatusTruth
      BY DEF IInv
<1> QED
  BY <1>1, ProcwaitIInv, PTL

\* Wait tests for the process and makes its latch under waits.Lock, which the
\* reaper takes before it looks: no waiter is left behind a locked latch of a
\* process that was reaped and dispatched.
THEOREM ProcwaitNoLostWaiter == Spec => []NoLostWaiter
<1>1. IInv => NoLostWaiter
      BY DEF IInv, NoLostWaiter, LatchInv, WaiterInv, TypeOK
<1> QED
  BY <1>1, ProcwaitIInv, PTL

------------------------------------------------------------------------------
(* Refinement.                                                              *)

LEMMA LatchInit == Init => Latch!Init
  BY ProcsDisjoint DEF Init, Latch!Init, Life, Answer

\* Steps of the reaper, of Run and of FinalReap change nothing the latch sees,
\* except that the fork of a command is a birth.
LEMMA LatchStep == IInv /\ [Next]_vars => [Latch!Next]_(Latch!latchVars)
<1> SUFFICES ASSUME IInv, [Next]_vars PROVE [Latch!Next]_(Latch!latchVars)
    OBVIOUS
<1> USE DEF Life, Answer
<1>t. TypeOK
      BY DEF IInv
<1>l. \A p \in Procs : /\ Life[p] = "unborn" <=> proc[p] = "none"
                       /\ Life[p] = "alive" <=> proc[p] = "running"
                       /\ Life[p] = "dead" <=> Dead(p)
      BY <1>t DEF TypeOK, Dead
<1>a. \A v \in Waiters : Answer[v] = "waiting" <=> wpc[v] = "blocked"
      BY <1>t DEF TypeOK, Status
<1>1. ASSUME NEW p \in Procs, proc[p] = "none", proc' = [proc EXCEPT ![p] = "running"],
             UNCHANGED <<code, waiters>>
      PROVE  Latch!Next
  <2>1. Life' = [Life EXCEPT ![p] = "alive"]
        BY <1>1, <1>t DEF TypeOK
  <2>2. Latch!Born(p)
        BY <1>1, <1>l, <2>1 DEF Latch!Born, waiters
  <2> QED
    BY <2>2 DEF Latch!Next
<1>2. ASSUME NEW p \in Procs, NEW s \in Status, Exit(p, s) PROVE Latch!Next
  <2>1. Life' = [Life EXCEPT ![p] = "dead"]
        BY <1>2, <1>t DEF Exit, TypeOK
  <2>2. Latch!Die(p, s)
        BY <1>2, <1>l, <2>1 DEF Exit, Latch!Die, waiters
  <2> QED
    BY <2>2 DEF Latch!Next
<1>3. ASSUME NEW v \in Waiters, NEW p \in Procs, WaitCall(v, p) PROVE Latch!Next
  <2>0. Life' = Life /\ UNCHANGED code /\ wpid' = [wpid EXCEPT ![v] = p] /\ Answer[v] # "waiting"
        BY <1>3, <1>a DEF WaitCall, kernel
  <2>1. CASE wpc' = [wpc EXCEPT ![v] = "blocked"] /\ proc[p] # "none"
    <3>1. Answer' = [Answer EXCEPT ![v] = "waiting"]
      <4>1. \A x \in Waiters \ {v} : wpc'[x] = wpc[x] /\ wret'[x] = wret[x]
            BY <1>3, <1>t, <2>1 DEF WaitCall, TypeOK
      <4>2. wpc'[v] = "blocked"
            BY <1>t, <2>1 DEF TypeOK
      <4> QED
        BY <4>1, <4>2
    <3>2. Latch!Ask(v, p)
          BY <1>l, <2>0, <2>1, <3>1 DEF Latch!Ask
    <3> QED
      BY <3>2 DEF Latch!Next
  <2>2. CASE ~Is(p) /\ wpc' = [wpc EXCEPT ![v] = "returned"] /\ wret' = [wret EXCEPT ![v] = "nil"]
    <3>1. Answer' = [Answer EXCEPT ![v] = "nil"]
          BY <1>3, <1>t, <2>2 DEF TypeOK
    <3>2. Latch!AskGone(v, p)
          BY <1>l, <2>0, <2>2, <3>1 DEF Latch!AskGone, Is
    <3> QED
      BY <3>2 DEF Latch!Next
  <2> QED
    BY <1>3, <2>1, <2>2 DEF WaitCall, IInv, LatchInv, Is
<1>4. ASSUME NEW v \in Waiters, WaitReturn(v) PROVE Latch!Next
  <2>1. proc[wpid[v]] = "reaped" /\ latchWs[wpid[v]] = code[wpid[v]] /\ wpid[v] \in Procs
        BY <1>4, <1>t DEF WaitReturn, IInv, LatchInv, TypeOK
  <2>2. Answer' = [Answer EXCEPT ![v] = code[wpid[v]]]
        BY <1>4, <1>t, <2>1 DEF WaitReturn, TypeOK
  <2>3. Life' = Life /\ UNCHANGED <<code, wpid>>
        BY <1>4 DEF WaitReturn, kernel
  <2>4. Latch!Tell(v)
        BY <1>4, <1>l, <1>a, <2>1, <2>2, <2>3 DEF WaitReturn, Latch!Tell, Dead
  <2> QED
    BY <2>4 DEF Latch!Next
<1>5. ASSUME UNCHANGED <<code, waiters>>, \/ UNCHANGED proc
                                         \/ \E p \in Procs, end \in {"reaped", "gone"} :
                                              Dead(p) /\ proc' = [proc EXCEPT ![p] = end]
      PROVE  UNCHANGED Latch!latchVars
  <2>1. Life' = Life
        BY <1>5, <1>t DEF TypeOK, Dead
  <2> QED
    BY <1>5, <2>1 DEF Latch!latchVars, waiters
<1>6. ASSUME NEW p \in Procs, Kernel(p) PROVE [Latch!Next]_(Latch!latchVars)
  <2>1. CASE Spawn(p)
        BY <1>1, <2>1 DEF Spawn
  <2>2. CASE Adopt(p)
        BY <1>5, <2>2 DEF Adopt
  <2>3. CASE ForeignReap(p)
        BY <1>5, <2>3 DEF ForeignReap, Dead
  <2> QED
    BY <1>2, <1>6, <2>1, <2>2, <2>3 DEF Kernel
<1>7. ASSUME NEW c \in Cmds, Run(c) PROVE [Latch!Next]_(Latch!latchVars)
  <2>1. CASE RunFork(c)
        BY <1>1, <2>1 DEF RunFork, IInv, CodeInv, Procs
  <2>2. CASE ~RunFork(c)
        BY <1>5, <1>7, <2>2 DEF Run, RunRegister, RunStartFails, RunStarted, RunLookup, RunReturn, kernel
  <2> QED
    BY <2>1, <2>2
<1>8. ASSUME NEW r \in Reapers, Reap(r) PROVE UNCHANGED Latch!latchVars
      BY <1>5, <1>8 DEF Reap, Dispatch, ReapStray, Wait4, kernel, Dead
<1>9. ASSUME Final \/ StrayDies \/ Deadline \/ UNCHANGED vars PROVE UNCHANGED Latch!latchVars
      BY <1>5, <1>9 DEF Final, FinalBegin, FinalIdle, FinalNoChild, FinalTimeout, FinalEnds, StrayDies, Deadline,
         kernel, vars
<1> QED
  BY <1>3, <1>4, <1>6, <1>7, <1>8, <1>9 DEF Next

\* procwait implements the exit latch: Wait answers nil only for a process that
\* is not alive, and otherwise with the status of the process asked about.
THEOREM ProcwaitImplementsLatch == Spec => ImplementsLatch
<1> QED
  BY LatchInit, LatchStep, ProcwaitIInv, PTL DEF Spec, ImplementsLatch, Latch!Spec
==============================================================================
