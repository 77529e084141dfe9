-------------------------------- MODULE Tracker --------------------------------
(***************************************************************************)
(* How the processes of a forking service are followed once its commands   *)
(* have ended: libc's fork and execve report to a socket who is whose      *)
(* child (src/forkpreload/preload.c), the init process keeps what it is    *)
(* told (pidtrack of src/systemd/main.go, src/systemd/pidtracker), and     *)
(* monitorCmds of src/systemd/daemons/daemon.go waits for all that comes   *)
(* from the service, by the name in its environment and by what was told.  *)
(*                                                                         *)
(* What monitorCmds does with a service that has ended is in Daemon.tla,   *)
(* how Wait works in Procwait.tla; here Wait(p) is over when p is reaped.  *)
(***************************************************************************)
EXTENDS Integers, Sequences, FiniteSets

CONSTANTS
  Pids,      \* of processes other than the init process, which is 1
  Cmds,      \* the commands of the service that is followed
  Others,    \* processes of another service
  None,      \* no process, no service
  MaxForks,  \* bound: calls of fork
  MaxExecs,  \* bound: calls of execve
  MaxWaiting \* bound: reports that wait to be read

Owners == {"own", "other"}

ASSUME PidAssumption   == Pids \subseteq Nat \ {0, 1} /\ None \notin Pids \cup {1} /\ None \notin Owners
ASSUME StartAssumption == Cmds \subseteq Pids /\ Cmds # {} /\ Others \subseteq Pids \ Cmds
ASSUME BoundAssumption == {MaxForks, MaxExecs, MaxWaiting} \subseteq Nat

VARIABLES
  parent,    \* of a process; None: there is no such process
  alive,     \* the others that there are are zombies
  owner,     \* history: the service a process comes from
  env,       \* the service that SYSTEMD_SERVICE_NAME in its environment names
  owed,      \* the child whose fork a process has yet to report
  forks, execs,
  seen,      \* history: pids that were used
  reused,    \* history: one was used twice
  bare,      \* history: a process of the service gave itself an empty environment
  reports,   \* connections to the socket, not yet read
  relations, \* what was told: pairs of a parent and a child
  usesFile,  \* the service has a PIDFile
  pc,        \* of monitorCmds
  todo,      \* processes it has yet to look at or to wait for
  awaited,   \* the process it waits for
  woken,     \* which has been reaped
  picked,    \* what monitorCmds found in its scan so far
  pids,      \* d.pids
  found,
  slipped,   \* history: a process of the service slipped through the scan
  crash

processes == <<parent, alive, owner, env, owed, forks, execs, seen, reused, bare>>
tracking  == <<reports, relations>>
monitor   == <<pc, todo, awaited, woken, picked, pids, found, slipped>>
vars      == <<processes, tracking, usesFile, monitor, crash>>

Pcs == {"commands", "file", "filed", "list", "scan", "environ", "scanned", "find", "kids", "done"}

TypeOK ==
  /\ parent \in [Pids -> Pids \cup {1, None}]
  /\ alive \subseteq {p \in Pids : parent[p] # None}
  /\ owner \in [Pids -> Owners \cup {None}] /\ env \in [Pids -> Owners \cup {None}]
  /\ owed \in [Pids -> Pids \cup {None}]
  /\ forks \in 0..MaxForks /\ execs \in 0..MaxExecs
  /\ seen \subseteq Pids /\ reused \in BOOLEAN /\ bare \in BOOLEAN
  /\ reports \in Seq((Pids \cup {1}) \X Pids \X (Pids \cup {None})) /\ Len(reports) <= MaxWaiting
  /\ relations \subseteq (Pids \cup {1}) \X Pids /\ IsFiniteSet(relations)
  /\ usesFile \in BOOLEAN
  /\ pc \in Pcs
  /\ todo \subseteq Pids /\ picked \subseteq Pids /\ pids \subseteq Pids
  /\ awaited \in Pids \cup {None} /\ woken \in BOOLEAN
  /\ found \in BOOLEAN /\ slipped \in BOOLEAN /\ crash \in BOOLEAN

Started == Cmds \cup Others

\* The commands run; a PIDFile may be there from before.
Init ==
  /\ parent = [p \in Pids |-> IF p \in Started THEN 1 ELSE None]
  /\ alive = Started
  /\ owner = [p \in Pids |-> IF p \in Cmds THEN "own" ELSE IF p \in Others THEN "other" ELSE None]
  /\ env = owner
  /\ owed = [p \in Pids |-> None]
  /\ forks = 0 /\ execs = 0
  /\ seen = Started /\ reused = FALSE /\ bare = FALSE
  /\ reports = <<>> /\ relations = {}
  /\ usesFile \in BOOLEAN
  /\ pc = "commands" /\ todo = Cmds /\ awaited = None /\ woken = FALSE
  /\ picked = {} /\ pids = {} /\ found = FALSE /\ slipped = FALSE
  /\ crash = FALSE

------------------------------------------------------------------------------
(* Processes.                                                               *)

\* Bound: nothing is looked at once monitorCmds has ended.
Going     == ~crash /\ pc # "done"
Exists(p) == parent[p] # None
Runs(p)   == Going /\ p \in alive /\ owed[p] = None

\* real_fork: any pid that is free.  A scan of /proc that is under way may have
\* read the names around it before there is one of that pid.
Fork(p, c) ==
  /\ Runs(p) /\ ~Exists(c) /\ forks < MaxForks
  /\ parent' = [parent EXCEPT ![c] = p]
  /\ alive' = alive \cup {c}
  /\ owner' = [owner EXCEPT ![c] = owner[p]]
  /\ env' = [env EXCEPT ![c] = env[p]]
  /\ owed' = [owed EXCEPT ![p] = c]
  /\ forks' = forks + 1
  /\ seen' = seen \cup {c} /\ reused' = (reused \/ c \in seen)
  /\ todo' \in {todo} \cup (IF pc = "scan" THEN {todo \ {c}} ELSE {})
  /\ UNCHANGED <<execs, bare, tracking, usesFile, pc, awaited, woken, picked, pids, found, slipped, crash>>

Send(report) == Len(reports) < MaxWaiting /\ reports' = Append(reports, report)

\* Its parent at this time, not at that of the fork.
ReportFork(p) ==
  /\ Going /\ p \in alive /\ owed[p] # None
  /\ Send(<<parent[p], p, owed[p]>>)
  /\ owed' = [owed EXCEPT ![p] = None]
  /\ UNCHANGED <<parent, alive, owner, env, forks, execs, seen, reused, bare, relations, usesFile, monitor, crash>>

\* execve reports and goes on, with the environment or an empty one.
Execve(p, e) ==
  /\ Runs(p) /\ execs < MaxExecs /\ e \in {env[p], None}
  /\ Send(<<parent[p], p, None>>)
  /\ env' = [env EXCEPT ![p] = e]
  /\ bare' = (bare \/ (owner[p] = "own" /\ e = None))
  /\ execs' = execs + 1
  /\ UNCHANGED <<parent, alive, owner, owed, forks, seen, reused, relations, usesFile, monitor, crash>>

\* The end of p hands children to the init process that the scan has passed, or
\* takes p from the list before its environment is read.
Slips(p) ==
  \/ pc = "scan" /\ \E c \in alive \ (todo \cup {p}) : parent[c] = p
  \/ pc = "environ" /\ p \in todo

\* Ends, with or without its report; its children are those of the init process.
Exit(p) ==
  /\ Going /\ p \in alive
  /\ alive' = alive \ {p}
  /\ parent' = [c \in Pids |-> IF parent[c] = p THEN 1 ELSE parent[c]]
  /\ owed' = [owed EXCEPT ![p] = None]
  /\ slipped' = (slipped \/ (owner[p] = "own" /\ Slips(p)))
  /\ UNCHANGED <<owner, env, forks, execs, seen, reused, bare, tracking, usesFile, pc, todo, awaited, woken, picked, pids, found, crash>>

\* By its parent or by the reaper of the init process, which alone knows of those
\* who wait for it (procwait's wait).
Reap(p) ==
  /\ Going /\ Exists(p) /\ p \notin alive
  /\ parent' = [parent EXCEPT ![p] = None]
  /\ owner' = [owner EXCEPT ![p] = None]
  /\ env' = [env EXCEPT ![p] = None]
  /\ woken' = (woken \/ (awaited = p /\ parent[p] = 1))
  /\ UNCHANGED <<alive, owed, forks, execs, seen, reused, bare, tracking, usesFile, pc, todo, awaited, picked, pids, found, slipped, crash>>

------------------------------------------------------------------------------
(* What is told.                                                            *)

\* Variant: parent and child are taken for each other.
AddBackwards(parentPid, child, infant) ==
  relations \cup {<<child, parentPid>> : x \in {parentPid} \ {1}} \cup (IF infant = None THEN {} ELSE {<<child, infant>>})

\* Variant: the infant that is not there (-1) is added too.
AddUnchecked(parentPid, child, infant) == relations \cup {<<parentPid, child>>, <<child, infant>>}

Add(parentPid, child, infant) ==
  relations \cup {<<parentPid, child>>} \cup (IF infant = None THEN {} ELSE {<<child, infant>>})

\* The accept loop takes one connection after the other.
Accept ==
  LET r == Head(reports)
  IN  /\ Going /\ reports # <<>>
      /\ relations' = Add(r[1], r[2], r[3])
      /\ reports' = Tail(reports)
      /\ UNCHANGED <<processes, usesFile, monitor, crash>>

Told(p)  == {r[2] : r \in {s \in relations : s[1] = p}}
Orphans  == Told(1)

\* All that come from p, in the end from itself: the least set closed under Told.
From(p) == {q \in Pids : \A S \in SUBSET Pids : (\A c \in S \cup {p} : Told(c) \subseteq S) => q \in S}

\* The recursion of find meets a process below itself.
Endless(p) == \E c \in From(p) \cup {p} : c \in From(c)

\* Variant: only those that are kept are looked into.
KidsOrphansOnly(f, p) == LET kept == Told(p) \cap Orphans IN kept \cup UNION {f[c] : c \in kept}

\* What is found of p if f is found of its children: every level drops those
\* that were not told to be children of the init process.
Kids(f, p) == (Told(p) \cup UNION {f[c] : c \in Told(p)}) \cap Orphans

\* It calls itself for every child, so it is to be asked of no endless p.
find[p \in Pids] == Kids(find, p)

------------------------------------------------------------------------------
(* monitorCmds.                                                             *)

At(label) == ~crash /\ pc = label /\ awaited = None

Alone == UNCHANGED <<processes, tracking, usesFile, crash>>

\* Variant: it waits for a process that is gone.
WaitBeginBlind(p) ==
  /\ \E label \in {"commands", "scanned", "kids"} : At(label)
  /\ p \in todo
  /\ todo' = todo \ {p}
  /\ awaited' = p
  /\ found' = (found \/ pc = "kids")
  /\ woken' = FALSE
  /\ UNCHANGED <<pc, picked, pids, slipped>> /\ Alone

\* procwait.Wait(p): nothing to wait for if there is no process p.
WaitBegin(p) ==
  /\ \E label \in {"commands", "scanned", "kids"} : At(label)
  /\ p \in todo
  /\ todo' = todo \ {p}
  /\ awaited' = IF Exists(p) THEN p ELSE None
  /\ found' = (found \/ (pc = "kids" /\ Exists(p)))
  /\ woken' = FALSE
  /\ UNCHANGED <<pc, picked, pids, slipped>> /\ Alone

WaitEnd ==
  /\ ~crash /\ awaited # None /\ woken
  /\ awaited' = None /\ woken' = FALSE
  /\ UNCHANGED <<pc, todo, picked, pids, found, slipped>> /\ Alone

Go(label) == pc' = label /\ UNCHANGED <<todo, awaited, woken, picked, found, slipped>> /\ Alone

CommandsEnded == At("commands") /\ todo = {} /\ Go(IF usesFile THEN "file" ELSE "list") /\ pids' = pids

\* No PIDFile yet, or no number in it.
NoPidFile == At("file") /\ Go("find") /\ pids' = pids

\* Any number that somebody left in it: it is taken for the service's process
\* and waited for, if there is such a process.
ReadPidFile(p) ==
  /\ At("file")
  /\ pc' = "filed" /\ pids' = {p}
  /\ awaited' = IF Exists(p) THEN p ELSE None
  /\ woken' = FALSE
  /\ UNCHANGED <<todo, picked, found, slipped>> /\ Alone

PidFileEnded == At("filed") /\ Go("find") /\ pids' = {}

\* ps.Processes reads the entries of /proc one after the other.
List ==
  /\ At("list")
  /\ pc' = "scan" /\ todo' = Pids /\ picked' = {} /\ slipped' = FALSE
  /\ UNCHANGED <<awaited, woken, pids, found>> /\ Alone

\* One entry, the lowest first: who its parent is now.
ListEntry(p) ==
  /\ At("scan") /\ p \in todo /\ \A q \in todo : p <= q
  /\ todo' = todo \ {p}
  /\ picked' = IF parent[p] = 1 THEN picked \cup {p} ELSE picked
  /\ UNCHANGED <<pc, awaited, woken, pids, found, slipped>> /\ Alone

Listed ==
  /\ At("scan") /\ todo = {}
  /\ pc' = "environ" /\ todo' = picked /\ picked' = {}
  /\ UNCHANGED <<awaited, woken, pids, found, slipped>> /\ Alone

\* It fails: no further scan, and d.pids stays as it was.
ListFails ==
  /\ At("scan")
  /\ pc' = "find" /\ todo' = {} /\ picked' = {} /\ slipped' = TRUE
  /\ UNCHANGED <<awaited, woken, pids, found>> /\ Alone

\* Variant: every one is taken for the service's.
EnvironAny(p) ==
  /\ At("environ") /\ p \in todo
  /\ todo' = todo \ {p}
  /\ picked' = IF p \in alive THEN picked \cup {p} ELSE picked
  /\ UNCHANGED <<pc, awaited, woken, pids, found, slipped>> /\ Alone

\* The environment of one: that of a zombie is empty.
Environ(p) ==
  /\ At("environ") /\ p \in todo
  /\ todo' = todo \ {p}
  /\ picked' = IF p \in alive /\ env[p] = "own" THEN picked \cup {p} ELSE picked
  /\ UNCHANGED <<pc, awaited, woken, pids, found, slipped>> /\ Alone

EnvironsRead ==
  /\ At("environ") /\ todo = {}
  /\ pc' = "scanned" /\ todo' = picked /\ pids' = picked /\ picked' = {}
  /\ UNCHANGED <<awaited, woken, found, slipped>> /\ Alone

\* Variant: what there is now is not looked for.
ScanEndedOnce == At("scanned") /\ todo = {} /\ Go("find") /\ pids' = pids

\* Again until none is found.
ScanEnded == At("scanned") /\ todo = {} /\ Go(IF pids = {} THEN "find" ELSE "list") /\ pids' = pids

FindKids ==
  /\ At("find")
  /\ IF \E c \in Cmds : Endless(c)
     THEN crash' = TRUE /\ UNCHANGED <<processes, tracking, usesFile, monitor>>
     ELSE /\ pids' = {k \in UNION {find[c] : c \in Cmds} : Exists(k)}
          /\ todo' = pids' /\ found' = FALSE /\ pc' = "kids"
          /\ UNCHANGED <<awaited, woken, picked, slipped>> /\ Alone

\* Again until all were gone before they were waited for.
KidsEnded ==
  /\ At("kids") /\ todo = {}
  /\ Go(IF found THEN "find" ELSE "done") /\ pids' = IF found THEN pids ELSE {}

MonitorStep ==
  \/ \E p \in Pids : WaitBegin(p) \/ ReadPidFile(p) \/ ListEntry(p) \/ Environ(p)
  \/ WaitEnd \/ CommandsEnded \/ NoPidFile \/ PidFileEnded \/ List \/ Listed \/ ListFails
  \/ EnvironsRead \/ ScanEnded \/ FindKids \/ KidsEnded

Next ==
  \/ \E p, c \in Pids : Fork(p, c)
  \/ \E p \in Pids : ReportFork(p) \/ Exit(p) \/ Reap(p) \/ \E e \in Owners \cup {None} : Execve(p, e)
  \/ Accept \/ MonitorStep

Spec == Init /\ [][Next]_vars

\* The goroutines go on, and what is dead is reaped; nothing says that a process
\* ends, or that it gets to report.
Fairness ==
  /\ WF_vars(MonitorStep) /\ WF_vars(Accept)
  /\ \A p \in Pids : WF_vars(Reap(p))

FairSpec == Spec /\ Fairness

------------------------------------------------------------------------------
(* Properties.                                                              *)

\* find comes to an end, and with it the init process stays up (pidtracker.go:46
\* never returns from a cycle), unless a pid was used again: relations are kept
\* for ever, so then a process may come from itself.
NoOverflow == crash => reused

\* find, which filters on every level of its recursion (pidtracker.go:39), returns
\* exactly the told children of the init process among all that come from a
\* process, however deep.
FindRight == \A p \in Pids : ~Endless(p) => find[p] = From(p) \cap Orphans

\* What monitorCmds counts as the service's own (daemon.go:233, 253) never is a
\* process of another service, as long as no pid was used again; but while it
\* waits for the process of the PIDFile that is whichever the file names (203).
OwnOnly == ~reused /\ pc # "filed" => \A p \in pids : owner[p] \in {"own", None}

\* monitorCmds ends when no process of the service is left (daemon.go:265),
\* although they fork, end and change parents while they are looked for one by
\* one.  Not so with a PIDFile, if one dropped the environment, or if one slipped
\* through: /proc could not be read (212), the parent of one ended after its entry
\* was passed (215), or a listed one ended before its environment was read (220).
Precise ==
  pc = "done" /\ ~usesFile /\ ~slipped /\ ~bare => \A p \in alive : owner[p] # "own"

\* When the processes of the service have ended for good monitorCmds comes to its
\* end (daemon.go:180-264), whatever those of other services do, unless a pid was
\* used again.  The one of a PIDFile (204) may be waited for for ever: it may be
\* another service's, and nobody is told of one that its own parent reaps.
MonitorEnds ==
  <>[](\A p \in alive : owner[p] # "own") => <>(pc = "done" \/ reused) \/ <>[](pc = "filed" /\ ~woken)
==============================================================================
