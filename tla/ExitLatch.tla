------------------------------ MODULE ExitLatch ------------------------------
(***************************************************************************)
(* What procwait promises to a goroutine that waits for a process, with    *)
(* none of the machinery: a process is born, lives, and dies once with one *)
(* exit status; a caller of Wait either is told "already gone" (nil), and  *)
(* then the process is not alive, or it waits and is later told the exit   *)
(* status the process really died with.  Procwait.tla implements this.     *)
(***************************************************************************)
CONSTANTS
  Procs,        \* every process the init process may be asked about
  Waiters,      \* the goroutines that call procwait.Wait
  Status        \* exit statuses

VARIABLES
  life,         \* [Procs -> {"unborn", "alive", "dead"}]
  status,       \* [Procs -> Status \cup {"none"}], the status it died with
  asked,        \* [Waiters -> Procs], the pid of the caller's last Wait
  answer        \* [Waiters -> Status \cup {"idle", "waiting", "nil"}]

latchVars == <<life, status, asked, answer>>

Init ==
  /\ life = [p \in Procs |-> "unborn"]
  /\ status = [p \in Procs |-> "none"]
  /\ asked \in [Waiters -> Procs]
  /\ answer = [v \in Waiters |-> "idle"]

Born(p) ==
  /\ life[p] = "unborn"
  /\ life' = [life EXCEPT ![p] = "alive"]
  /\ UNCHANGED <<status, asked, answer>>

Die(p, s) ==
  /\ life[p] = "alive"
  /\ life' = [life EXCEPT ![p] = "dead"]
  /\ status' = [status EXCEPT ![p] = s]
  /\ UNCHANGED <<asked, answer>>

\* Wait is called and has to block.
Ask(v, p) ==
  /\ answer[v] # "waiting"
  /\ life[p] # "unborn"
  /\ asked' = [asked EXCEPT ![v] = p]
  /\ answer' = [answer EXCEPT ![v] = "waiting"]
  /\ UNCHANGED <<life, status>>

\* Wait is called for a process that is not there: nil at once.
AskGone(v, p) ==
  /\ answer[v] # "waiting"
  /\ life[p] # "alive"
  /\ asked' = [asked EXCEPT ![v] = p]
  /\ answer' = [answer EXCEPT ![v] = "nil"]
  /\ UNCHANGED <<life, status>>

\* A blocked Wait returns, with the status the process died with.
Tell(v) ==
  /\ answer[v] = "waiting"
  /\ life[asked[v]] = "dead"
  /\ answer' = [answer EXCEPT ![v] = status[asked[v]]]
  /\ UNCHANGED <<life, status, asked>>

Next ==
  \/ \E p \in Procs : Born(p) \/ \E s \in Status : Die(p, s)
  \/ \E v \in Waiters : Tell(v) \/ \E p \in Procs : Ask(v, p) \/ AskGone(v, p)

Spec == Init /\ [][Next]_latchVars
==============================================================================
