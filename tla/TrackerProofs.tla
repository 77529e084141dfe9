----------------------------- MODULE TrackerProofs -----------------------------
(***************************************************************************)
(* What Tracker.tla promises of its safety, for any processes, commands    *)
(* and bounds: its types, that find comes back and returns what was told,  *)
(* that no process of another service is followed, as long as no pid was   *)
(* used again, and that monitorCmds ends no earlier than the service.      *)
(***************************************************************************)
EXTENDS Tracker, FiniteSetTheorems, TLAPS

------------------------------------------------------------------------------
(* The inductive invariant.                                                 *)

\* What is true of processes, was told, waits to be read or is still to be
\* reported: c was once a child of p.
Comes(p, c) ==
  \/ parent[c] = p
  \/ owed[p] = c
  \/ <<p, c>> \in relations
  \/ \E i \in 1..Len(reports) : \/ reports[i][1] = p /\ reports[i][2] = c
                                \/ reports[i][2] = p /\ reports[i][3] = c

\* A child has a parent that is alive and of its own service, and nobody is
\* spoken of that never was.
Sound ==
  /\ \A p \in Pids : parent[p] # None => p \in seen
  /\ \A p \in Pids : parent[p] = None <=> owner[p] = None
  /\ \A p \in Pids : parent[p] \in Pids => parent[p] \in alive /\ owner[parent[p]] = owner[p]
  /\ \A p, c \in Pids : Comes(p, c) => p \in seen /\ c \in seen

\* The environment names the service that a process comes from, if any.
Named ==
  /\ \A p \in Pids : env[p] \in {owner[p], None}
  /\ ~bare => \A p \in Pids : owner[p] = "own" => env[p] = "own"

\* No process comes from itself: there is a first one in every set.
Forest  == \A S \in SUBSET Pids : S # {} => \E q \in S : parent[q] \notin S
Acyclic == ~reused => \A S \in SUBSET Pids : S # {} => \E q \in S : \A p \in S : ~Comes(p, q)

\* The processes that ever were the service's: they keep apart from others, and
\* whatever comes from one of them is one of them.
Kin(S) ==
  /\ Cmds \subseteq S /\ (pc # "filed" => pids \subseteq S) /\ (pc = "environ" => picked \subseteq S)
  /\ \A p \in Pids : (owner[p] = "own" => p \in S) /\ (p \in S => owner[p] # "other")
  /\ \A p \in S, c \in Pids : Comes(p, c) => c \in S

Family == ~reused => \E S \in SUBSET seen : Kin(S)

\* The scan has or is yet to come to every child of the init process that is the
\* service's.  Of those it listed that are yet to be looked at one is the service's,
\* as long as the service has any process; afterwards it has none.
Left  == \E p \in alive : owner[p] = "own"
Clean == ~slipped /\ ~bare
Watched ==
  /\ pc \in {"file", "filed"} => usesFile
  /\ pc = "scan" /\ Clean => \A p \in alive : owner[p] = "own" /\ parent[p] = 1 => p \in todo \cup picked
  /\ pc = "environ" /\ Clean /\ picked = {} /\ Left => \E p \in todo \cap alive : owner[p] = "own"
  /\ pc = "scanned" /\ Clean /\ pids = {} => ~Left
  /\ pc \in {"find", "kids", "done"} /\ Clean /\ ~usesFile => ~Left

------------------------------------------------------------------------------
(* What comes from a process.                                               *)

LEMMA FromIs == ASSUME NEW p \in Pids, relations \subseteq (Pids \cup {1}) \X Pids
                PROVE  \A c \in From(p) \cup {p} : Told(c) \subseteq From(p)
<1> SUFFICES ASSUME NEW c \in From(p) \cup {p}, NEW q \in Told(c) PROVE q \in From(p)
    OBVIOUS
<1>1. q \in Pids
      BY DEF Told
<1>2. ASSUME NEW S \in SUBSET Pids, \A x \in S \cup {p} : Told(x) \subseteq S PROVE q \in S
      BY <1>2 DEF From
<1> QED
  BY <1>1, <1>2 DEF From

LEMMA FromLeast == ASSUME NEW p \in Pids, NEW S \in SUBSET Pids, \A c \in S \cup {p} : Told(c) \subseteq S
                   PROVE  From(p) \subseteq S
BY DEF From

\* With a first one in every set, nothing comes from itself: of those between c
\* and c each would have one before it.
LEMMA NoCycle ==
  ASSUME TypeOK, NEW c \in Pids,
         \A S \in SUBSET Pids : S # {} => \E q \in S : \A p \in S : ~Comes(p, q)
  PROVE  c \notin From(c)
<1> SUFFICES ASSUME c \in From(c) PROVE FALSE
    OBVIOUS
<1>0. relations \subseteq (Pids \cup {1}) \X Pids
      BY DEF TypeOK
<1> DEFINE S == {q \in From(c) : c \in From(q)}
<1>1. From(c) \subseteq Pids
      BY DEF From
<1>2. S \in SUBSET Pids /\ S # {}
      BY <1>1
<1>3. PICK q \in S : \A p \in S : ~Comes(p, q)
      BY <1>2
<1>4. PICK r \in From(c) \cup {c} : q \in Told(r)
  <2> SUFFICES ASSUME \A r \in From(c) \cup {c} : q \notin Told(r) PROVE FALSE
      OBVIOUS
  <2> DEFINE R == From(c) \ {q}
  <2>1. \A r \in R \cup {c} : Told(r) \subseteq R
        BY <1>0, FromIs
  <2>2. R \in SUBSET Pids /\ q \notin R /\ q \in From(c)
        BY <1>1
  <2> HIDE DEF R
  <2>3. From(c) \subseteq R
        BY <2>1, <2>2, FromLeast
  <2> QED
    BY <2>2, <2>3
<1>5. r \in Pids
      BY <1>1
<1>6. From(q) \subseteq From(r)
  <2>1. \A x \in From(r) \cup {q} : Told(x) \subseteq From(r)
    <3>1. q \in From(r)
          BY <1>0, <1>4, <1>5, FromIs
    <3> QED
      BY <1>0, <1>5, <3>1, FromIs
  <2>2. From(r) \in SUBSET Pids
        BY DEF From
  <2> QED
    BY <1>2, <2>1, <2>2, FromLeast
<1>7. r \in S
      BY <1>6
<1>8. Comes(r, q)
  <2>1. PICK s \in relations : s[1] = r /\ s[2] = q
        BY <1>4 DEF Told
  <2>2. s = <<r, q>>
        BY <1>0, <2>1
  <2> QED
    BY <2>1, <2>2 DEF Comes
<1> QED
  BY <1>3, <1>7, <1>8

------------------------------------------------------------------------------
(* find.                                                                    *)

\* All that come from p come from its children.
LEMMA FromSplit ==
  ASSUME NEW p \in Pids, relations \subseteq (Pids \cup {1}) \X Pids
  PROVE  From(p) = Told(p) \cup UNION {From(c) : c \in Told(p)}
<1> DEFINE S == Told(p) \cup UNION {From(c) : c \in Told(p)}
<1>1. Told(p) \subseteq From(p) /\ Told(p) \subseteq Pids
      BY FromIs DEF Told
<1>2. \A c \in Pids : From(c) \in SUBSET Pids
      BY DEF From
<1>3. From(p) \subseteq S
  <2>1. S \in SUBSET Pids
        BY <1>1, <1>2
  <2>2. ASSUME NEW x \in S \cup {p} PROVE Told(x) \subseteq S
    <3>1. CASE x = p
          BY <3>1
    <3>2. CASE x \in Told(p)
      <4>1. Told(x) \subseteq From(x)
            BY <1>1, <3>2, FromIs
      <4> QED
        BY <3>2, <4>1
    <3>3. ASSUME NEW c \in Told(p), x \in From(c) PROVE Told(x) \subseteq S
      <4>1. Told(x) \subseteq From(c)
            BY <1>1, <3>3, FromIs
      <4> QED
        BY <4>1
    <3> QED
      BY <3>1, <3>2, <3>3
  <2> HIDE DEF S
  <2> QED
    BY <2>1, <2>2, FromLeast
<1>4. ASSUME NEW c \in Told(p) PROVE From(c) \subseteq From(p)
  <2>1. \A x \in From(p) \cup {c} : Told(x) \subseteq From(p)
        BY <1>1, FromIs
  <2> QED
    BY <1>1, <1>2, <2>1, FromLeast
<1> QED
  BY <1>1, <1>3, <1>4

\* There is a function with the equation of find: what it is said to return.
LEMMA FindIs ==
  ASSUME relations \subseteq (Pids \cup {1}) \X Pids
  PROVE  find = [p \in Pids |-> Kids(find, p)]
<1> DEFINE F == [p \in Pids |-> From(p) \cap Orphans]
           B(f) == [p \in Pids |-> Kids(f, p)]
           u == CHOOSE f : f = B(f)
<1>1. ASSUME NEW p \in Pids PROVE F[p] = Kids(F, p)
  <2>1. Told(p) \subseteq Pids
        BY DEF Told
  <2>2. \A c \in Told(p) : F[c] = From(c) \cap Orphans
        BY <2>1
  <2>3. F[p] = From(p) \cap Orphans
        OBVIOUS
  <2> HIDE DEF F
  <2>4. (Told(p) \cup UNION {From(c) : c \in Told(p)}) \cap Orphans = (Told(p) \cup UNION {F[c] : c \in Told(p)}) \cap Orphans
        BY <2>2
  <2> QED
    BY <2>3, <2>4, FromSplit DEF Kids
<1>2. F = B(F)
      BY <1>1
<1>3. u = B(u)
  <2> HIDE DEF F
  <2> QED
    BY <1>2
<1>4. find = u
      BY DEF find
<1> HIDE DEF u
<1> QED
  BY <1>3, <1>4

LEMMA FindTyped == ASSUME TypeOK, NEW p \in Pids PROVE find[p] \subseteq Pids
<1>1. find[p] = Kids(find, p)
      BY FindIs DEF TypeOK
<1>2. Orphans \subseteq Pids
      BY DEF TypeOK, Orphans, Told
<1> QED
  BY <1>1, <1>2 DEF Kids

\* Finitely many come from a process.
LEMMA FromFinite ==
  ASSUME NEW p \in Pids, relations \subseteq (Pids \cup {1}) \X Pids, IsFiniteSet(relations)
  PROVE  From(p) \in SUBSET Pids /\ IsFiniteSet(From(p))
<1> DEFINE S == {r[2] : r \in relations}
<1>1. IsFiniteSet(S)
  <2> DEFINE f == [r \in relations |-> r[2]]
  <2>1. f \in Surjection(relations, S)
        BY DEF Surjection
  <2> HIDE DEF f, S
  <2> QED
    BY <2>1, FS_Surjection
<1>2. S \in SUBSET Pids
      OBVIOUS
<1>3. \A c \in S \cup {p} : Told(c) \subseteq S
      BY DEF Told
<1> HIDE DEF S
<1>4. From(p) \subseteq S
      BY <1>2, <1>3, FromLeast
<1> QED
  BY <1>1, <1>2, <1>4, FS_Subset

\* Of those that come from p let q be one that find is wrong about and from which
\* the least comes: find is wrong about a child of q then, and from that one comes
\* less, itself at least.
LEMMA FindIsRight ==
  ASSUME TypeOK, NEW p \in Pids, ~Endless(p)
  PROVE  find[p] = From(p) \cap Orphans
<1> DEFINE T == From(p) \cup {p}
           Wrong == {q \in T : find[q] # From(q) \cap Orphans}
           U == {From(q) : q \in Wrong}
           R == StrictSubsetOrdering(Pids)
<1> SUFFICES ASSUME Wrong # {} PROVE FALSE
    OBVIOUS
<1>1. relations \subseteq (Pids \cup {1}) \X Pids /\ IsFiniteSet(relations)
      BY DEF TypeOK
<1>2. T \subseteq Pids
      BY DEF From
<1>3. \A q \in Pids : From(q) \in FiniteSubsetsOf(Pids)
      BY <1>1, FromFinite DEF FiniteSubsetsOf
<1>4. PICK q \in Wrong : \A r \in Wrong : <<From(r), From(q)>> \notin R
  <2>1. U \subseteq FiniteSubsetsOf(Pids) /\ U # {}
        BY <1>2, <1>3
  <2>2. IsWellFoundedOn(R, FiniteSubsetsOf(Pids))
        BY FS_StrictSubsetOrderingWellFounded
  <2> HIDE DEF R
  <2>3. PICK x \in U : \A y \in U : <<y, x>> \notin R
    <3> HIDE DEF U
    <3> QED
      BY <2>1, <2>2, WFMin
  <2>4. PICK q \in Wrong : x = From(q)
        BY <2>3
  <2>5. \A r \in Wrong : From(r) \in U
        OBVIOUS
  <2> HIDE DEF Wrong, U
  <2> QED
    BY <2>3, <2>4, <2>5
<1>5. q \in Pids /\ Told(q) \subseteq From(p) /\ Told(q) \subseteq From(q)
      BY <1>1, <1>2, FromIs
<1>6. PICK c \in Told(q) : find[c] # From(c) \cap Orphans
  <2> SUFFICES ASSUME \A c \in Told(q) : find[c] = From(c) \cap Orphans PROVE FALSE
      OBVIOUS
  <2>1. find[q] = Kids(find, q)
        BY <1>1, <1>5, FindIs
  <2>2. Kids(find, q) = (Told(q) \cup UNION {From(c) : c \in Told(q)}) \cap Orphans
        BY DEF Kids
  <2>3. find[q] = From(q) \cap Orphans
        BY <1>1, <1>5, <2>1, <2>2, FromSplit
  <2> QED
    BY <2>3
<1>7. c \in Wrong /\ c \in From(q) /\ c \notin From(c)
      BY <1>5, <1>6 DEF Endless
<1>8. From(c) \subseteq From(q) /\ From(c) # From(q)
  <2>1. From(c) \subseteq From(q)
        BY <1>1, <1>5, FromSplit
  <2> QED
    BY <1>7, <2>1
<1>9. From(c) \subseteq Pids /\ From(q) \subseteq Pids
      BY DEF From
<1>10. <<From(c), From(q)>> \in R
       BY <1>8, <1>9 DEF StrictSubsetOrdering
<1> QED
  BY <1>4, <1>7, <1>10

------------------------------------------------------------------------------
(* Types.                                                                   *)

LEMMA PidsAre == 1 \notin Pids /\ None \notin Pids /\ None # 1 /\ None # "own" /\ None # "other"
BY PidAssumption DEF Owners

Report == (Pids \cup {1}) \X Pids \X (Pids \cup {None})

LEMMA SendTyped ==
  ASSUME TypeOK, NEW r \in Report, Send(r)
  PROVE  /\ reports' \in Seq(Report) /\ Len(reports') <= MaxWaiting
         /\ Len(reports') = Len(reports) + 1
         /\ \A i \in 1..Len(reports') : reports'[i] = IF i = Len(reports) + 1 THEN r ELSE reports[i]
<1>1. reports \in Seq(Report) /\ MaxWaiting \in Nat /\ Len(reports) < MaxWaiting /\ reports' = Append(reports, r)
      BY BoundAssumption DEF TypeOK, Send, Report
<1> QED
  BY <1>1

LEMMA AcceptTyped ==
  ASSUME TypeOK, Accept
  PROVE  /\ reports' \in Seq(Report) /\ Len(reports') <= MaxWaiting
         /\ Len(reports) >= 1 /\ Len(reports') = Len(reports) - 1 /\ reports[1] \in Report
         /\ \A i \in 1..Len(reports') : reports'[i] = reports[i + 1]
         /\ relations' = Add(reports[1][1], reports[1][2], reports[1][3])
         /\ relations' \subseteq (Pids \cup {1}) \X Pids
<1>1. reports \in Seq(Report) /\ reports # <<>> /\ reports' = Tail(reports) /\ MaxWaiting \in Nat /\ Len(reports) <= MaxWaiting
      BY BoundAssumption DEF TypeOK, Accept, Report
<1>2. Len(reports) \in Nat /\ Len(reports) >= 1 /\ reports[1] \in Report /\ Head(reports) = reports[1]
      BY <1>1
<1>3. reports' \in Seq(Report) /\ Len(reports') = Len(reports) - 1 /\ \A i \in 1..Len(reports') : reports'[i] = reports[i + 1]
      BY <1>1, <1>2
<1>4. relations' = Add(reports[1][1], reports[1][2], reports[1][3])
      BY <1>2 DEF Accept
<1>5. relations' \subseteq (Pids \cup {1}) \X Pids
      BY <1>2, <1>4 DEF Add, Report, TypeOK
<1> QED
  BY <1>1, <1>2, <1>3, <1>4, <1>5

\* Of the monitor's steps none touches a process or what was told.
LEMMA MonitorAlone == MonitorStep => UNCHANGED <<processes, tracking, usesFile>>
BY DEF MonitorStep, WaitBegin, ReadPidFile, ListEntry, Environ, WaitEnd, CommandsEnded, NoPidFile, PidFileEnded, List, Listed,
   ListFails, EnvironsRead, ScanEnded,
   FindKids, KidsEnded, Go, Alone

LEMMA MonitorTyped == ASSUME TypeOK, MonitorStep PROVE TypeOK'
<1>1. UNCHANGED <<processes, tracking, usesFile>>
      BY MonitorAlone
<1> DEFINE MonTyped == /\ pc' \in Pcs
                       /\ todo' \subseteq Pids /\ picked' \subseteq Pids /\ pids' \subseteq Pids
                       /\ awaited' \in Pids \cup {None} /\ woken' \in BOOLEAN
                       /\ found' \in BOOLEAN /\ slipped' \in BOOLEAN /\ crash' \in BOOLEAN
<1>2. ASSUME NEW p \in Pids, WaitBegin(p) \/ ReadPidFile(p) PROVE MonTyped
      BY <1>2 DEF TypeOK, WaitBegin, ReadPidFile, Alone, Pcs
<1>3. ASSUME NEW p \in Pids, ListEntry(p) \/ Environ(p) PROVE MonTyped
      BY <1>3 DEF TypeOK, ListEntry, Environ, Alone
<1>4. ASSUME CommandsEnded \/ NoPidFile \/ PidFileEnded \/ ScanEnded \/ KidsEnded PROVE MonTyped
  <2>1. pc' \in Pcs
        BY <1>4 DEF CommandsEnded, NoPidFile, PidFileEnded, ScanEnded, KidsEnded, Go, Pcs
  <2>2. pids' \in {pids, {}} /\ UNCHANGED <<todo, awaited, woken, picked, found, slipped, crash>>
        BY <1>4 DEF CommandsEnded, NoPidFile, PidFileEnded, ScanEnded, KidsEnded, Go, Alone
  <2> QED
    BY <2>1, <2>2 DEF TypeOK
<1>5. ASSUME WaitEnd \/ List \/ Listed \/ ListFails \/ EnvironsRead PROVE MonTyped
  <2>1. pc' \in Pcs
        BY <1>5 DEF TypeOK, WaitEnd, List, Listed, ListFails, EnvironsRead, Pcs
  <2>2. todo' \subseteq Pids /\ picked' \subseteq Pids /\ pids' \subseteq Pids
        BY <1>5 DEF TypeOK, WaitEnd, List, Listed, ListFails, EnvironsRead
  <2>3. /\ awaited' \in Pids \cup {None} /\ woken' \in BOOLEAN
        /\ found' \in BOOLEAN /\ slipped' \in BOOLEAN /\ crash' \in BOOLEAN
        BY <1>5 DEF TypeOK, WaitEnd, List, Listed, ListFails, EnvironsRead, Alone
  <2> QED
    BY <2>1, <2>2, <2>3
<1>6. ASSUME FindKids PROVE MonTyped
  <2>1. UNION {find[c] : c \in Cmds} \subseteq Pids
        BY FindTyped, StartAssumption
  <2>2. CASE \E c \in Cmds : Endless(c)
        BY <1>6, <2>2 DEF TypeOK, FindKids, monitor
  <2>3. CASE ~\E c \in Cmds : Endless(c)
    <3>1. /\ pids' \subseteq UNION {find[c] : c \in Cmds} /\ todo' = pids' /\ found' = FALSE /\ pc' = "kids"
          /\ UNCHANGED <<awaited, woken, picked, slipped, crash>>
          BY <1>6, <2>3 DEF FindKids, Alone
    <3> QED
      BY <2>1, <3>1 DEF TypeOK, Pcs
  <2> QED
    BY <2>2, <2>3
<1> QED
  <2>1. MonTyped => TypeOK'
        BY <1>1 DEF TypeOK, processes, tracking
  <2> HIDE DEF MonTyped
  <2> QED
    BY <1>2, <1>3, <1>4, <1>5, <1>6, <2>1 DEF MonitorStep

LEMMA ForkTyped == ASSUME TypeOK, NEW p \in Pids, NEW c \in Pids, Fork(p, c) PROVE TypeOK'
<1>1. parent' \in [Pids -> Pids \cup {1, None}] /\ alive' \subseteq {q \in Pids : parent'[q] # None}
      BY PidsAre DEF TypeOK, Fork, Runs
<1>2. owner' \in [Pids -> Owners \cup {None}] /\ env' \in [Pids -> Owners \cup {None}] /\ owed' \in [Pids -> Pids \cup {None}]
      BY DEF TypeOK, Fork
<1>3. forks' \in 0..MaxForks /\ execs' \in 0..MaxExecs
      BY BoundAssumption DEF TypeOK, Fork
<1>4. seen' \subseteq Pids /\ reused' \in BOOLEAN /\ bare' \in BOOLEAN
      BY DEF TypeOK, Fork
<1>5. todo' \subseteq Pids
      BY DEF TypeOK, Fork
<1>6. UNCHANGED <<tracking, usesFile, pc, awaited, woken, picked, pids, found, slipped, crash>>
      BY DEF Fork
<1> QED
  BY <1>1, <1>2, <1>3, <1>4, <1>5, <1>6 DEF TypeOK, tracking

LEMMA ReportForkTyped == ASSUME TypeOK, NEW p \in Pids, ReportFork(p)
                         PROVE  TypeOK' /\ <<parent[p], p, owed[p]>> \in Report
<1>1. <<parent[p], p, owed[p]>> \in Report
  <2>1. parent[p] \in Pids \cup {1} /\ owed[p] \in Pids \cup {None}
        BY DEF TypeOK, ReportFork
  <2> QED
    BY <2>1 DEF Report
<1>2. Send(<<parent[p], p, owed[p]>>)
      BY DEF ReportFork
<1>3. reports' \in Seq(Report) /\ Len(reports') <= MaxWaiting
      BY <1>1, <1>2, SendTyped
<1>4. owed' \in [Pids -> Pids \cup {None}]
      BY DEF TypeOK, ReportFork
<1>5. UNCHANGED <<parent, alive, owner, env, forks, execs, seen, reused, bare, relations, usesFile, monitor, crash>>
      BY DEF ReportFork
<1> QED
  BY <1>1, <1>3, <1>4, <1>5 DEF TypeOK, monitor, Report

LEMMA ExecveTyped == ASSUME TypeOK, NEW p \in Pids, NEW e \in Owners \cup {None}, Execve(p, e)
                     PROVE  TypeOK' /\ <<parent[p], p, None>> \in Report
<1>1. <<parent[p], p, None>> \in Report
  <2>1. parent[p] \in Pids \cup {1}
        BY DEF TypeOK, Execve, Runs
  <2> QED
    BY <2>1 DEF Report
<1>2. Send(<<parent[p], p, None>>)
      BY DEF Execve
<1>3. reports' \in Seq(Report) /\ Len(reports') <= MaxWaiting
      BY <1>1, <1>2, SendTyped
<1>4. env' \in [Pids -> Owners \cup {None}] /\ bare' \in BOOLEAN
      BY DEF TypeOK, Execve
<1>5. execs' \in 0..MaxExecs
      BY BoundAssumption DEF TypeOK, Execve
<1>6. UNCHANGED <<parent, alive, owner, owed, forks, seen, reused, relations, usesFile, monitor, crash>>
      BY DEF Execve
<1> QED
  BY <1>1, <1>3, <1>4, <1>5, <1>6 DEF TypeOK, monitor, Report

LEMMA ExitTyped == ASSUME TypeOK, NEW p \in Pids, Exit(p) PROVE TypeOK'
<1>1. parent' \in [Pids -> Pids \cup {1, None}] /\ alive' \subseteq {q \in Pids : parent'[q] # None}
      BY PidsAre DEF TypeOK, Exit
<1>2. owed' \in [Pids -> Pids \cup {None}] /\ slipped' \in BOOLEAN
      BY DEF TypeOK, Exit
<1>3. UNCHANGED <<owner, env, forks, execs, seen, reused, bare, tracking, usesFile, pc, todo, awaited, woken, picked, pids, found, crash>>
      BY DEF Exit
<1> QED
  BY <1>1, <1>2, <1>3 DEF TypeOK, tracking

LEMMA ReapTyped == ASSUME TypeOK, NEW p \in Pids, Reap(p) PROVE TypeOK'
<1>1. parent' \in [Pids -> Pids \cup {1, None}] /\ alive' \subseteq {q \in Pids : parent'[q] # None}
      BY PidsAre DEF TypeOK, Reap
<1>2. owner' \in [Pids -> Owners \cup {None}] /\ env' \in [Pids -> Owners \cup {None}] /\ woken' \in BOOLEAN
      BY DEF TypeOK, Reap
<1>3. UNCHANGED <<alive, owed, forks, execs, seen, reused, bare, tracking, usesFile, pc, todo, awaited, picked, pids, found, slipped, crash>>
      BY DEF Reap
<1> QED
  BY <1>1, <1>2, <1>3 DEF TypeOK, tracking

LEMMA AcceptKeeps == ASSUME TypeOK, Accept PROVE TypeOK'
<1>1. UNCHANGED <<processes, usesFile, monitor, crash>>
      BY DEF Accept
<1>2. IsFiniteSet(relations')
  <2> DEFINE a == relations \cup {<<reports[1][1], reports[1][2]>>}
             b == a \cup {<<reports[1][2], reports[1][3]>>}
  <2>1. IsFiniteSet(a)
        BY FS_AddElement DEF TypeOK
  <2>2. IsFiniteSet(b)
        BY <2>1, FS_AddElement
  <2>3. relations' = a \/ relations' = b
        BY AcceptTyped DEF Add
  <2> QED
    BY <2>1, <2>2, <2>3
<1> QED
  BY <1>1, <1>2, AcceptTyped DEF TypeOK, processes, monitor, Report

LEMMA InitTyped == Init => TypeOK
<1> SUFFICES ASSUME Init PROVE TypeOK
    OBVIOUS
<1>1. Started \subseteq Pids
      BY StartAssumption DEF Started
<1>2. parent \in [Pids -> Pids \cup {1, None}] /\ alive \subseteq {p \in Pids : parent[p] # None}
      BY <1>1, PidsAre DEF Init
<1>3. owner \in [Pids -> Owners \cup {None}] /\ env \in [Pids -> Owners \cup {None}] /\ owed \in [Pids -> Pids \cup {None}]
      BY DEF Init, Owners
<1>4. forks \in 0..MaxForks /\ execs \in 0..MaxExecs
      BY BoundAssumption DEF Init
<1>5. reports \in Seq((Pids \cup {1}) \X Pids \X (Pids \cup {None})) /\ Len(reports) <= MaxWaiting
      BY BoundAssumption DEF Init
<1>6. todo \subseteq Pids /\ picked \subseteq Pids /\ pids \subseteq Pids /\ seen \subseteq Pids
      BY <1>1, StartAssumption DEF Init
<1>7. IsFiniteSet(relations)
      BY FS_EmptySet DEF Init
<1> QED
  BY <1>2, <1>3, <1>4, <1>5, <1>6, <1>7 DEF Init, TypeOK, Pcs

LEMMA NextTyped == ASSUME TypeOK, [Next]_vars PROVE TypeOK'
<1>1. CASE UNCHANGED vars
      BY <1>1 DEF TypeOK, vars, processes, tracking, monitor
<1>2. CASE Next
      BY <1>2, ForkTyped, ReportForkTyped, ExitTyped, ReapTyped, ExecveTyped, AcceptKeeps, MonitorTyped DEF Next
<1> QED
  BY <1>1, <1>2

------------------------------------------------------------------------------
(* Only a fork makes a child: the other steps hand on what there is.        *)

LEMMA ForkComes == ASSUME TypeOK, NEW p \in Pids, NEW c \in Pids, Fork(p, c), NEW a \in Pids, NEW b \in Pids, Comes(a, b)'
                   PROVE  Comes(a, b) \/ (a = p /\ b = c)
<1>1. parent' = [parent EXCEPT ![c] = p] /\ owed' = [owed EXCEPT ![p] = c] /\ UNCHANGED <<relations, reports>>
      BY DEF Fork, tracking
<1>2. parent'[b] = a => parent[b] = a \/ (a = p /\ b = c)
      BY <1>1 DEF TypeOK
<1>3. owed'[a] = b => owed[a] = b \/ (a = p /\ b = c)
      BY <1>1 DEF TypeOK
<1> QED
  BY <1>1, <1>2, <1>3 DEF Comes

\* A report says what is true of a process or what it owes.
LEMMA SendComes ==
  ASSUME TypeOK, NEW p \in Pids, NEW r \in Report, Send(r), r[1] = parent[p], r[2] = p, r[3] \in {owed[p], None},
         NEW a \in Pids, NEW b \in Pids,
         NEW i \in 1..Len(reports'), (reports'[i][1] = a /\ reports'[i][2] = b) \/ (reports'[i][2] = a /\ reports'[i][3] = b)
  PROVE  Comes(a, b)
<1>1. reports'[i] = IF i = Len(reports) + 1 THEN r ELSE reports[i]
      BY SendTyped
<1>2. CASE i = Len(reports) + 1
      BY <1>1, <1>2, PidsAre DEF Comes
<1>3. CASE i # Len(reports) + 1
  <2>1. i \in 1..Len(reports)
        BY <1>3, SendTyped DEF TypeOK
  <2> QED
    BY <1>1, <1>3, <2>1 DEF Comes
<1> QED
  BY <1>2, <1>3

LEMMA ReportForkComes == ASSUME TypeOK, NEW p \in Pids, ReportFork(p), NEW a \in Pids, NEW b \in Pids, Comes(a, b)'
                         PROVE  Comes(a, b)
<1>1. Send(<<parent[p], p, owed[p]>>) /\ owed' = [owed EXCEPT ![p] = None] /\ UNCHANGED <<parent, relations>>
      BY DEF ReportFork
<1>2. <<parent[p], p, owed[p]>> \in Report
      BY ReportForkTyped
<1>3. owed'[a] = b => owed[a] = b
      BY <1>1, PidsAre DEF TypeOK
<1>4. ASSUME NEW i \in 1..Len(reports'), (reports'[i][1] = a /\ reports'[i][2] = b) \/ (reports'[i][2] = a /\ reports'[i][3] = b)
      PROVE  Comes(a, b)
      BY <1>1, <1>2, <1>4, SendComes
<1>5. parent[b] = a \/ owed[a] = b \/ <<a, b>> \in relations => Comes(a, b)
      BY DEF Comes
<1> QED
  BY <1>1, <1>3, <1>4, <1>5 DEF Comes

LEMMA ExecveComes == ASSUME TypeOK, NEW p \in Pids, NEW e \in Owners \cup {None}, Execve(p, e),
                            NEW a \in Pids, NEW b \in Pids, Comes(a, b)'
                     PROVE  Comes(a, b)
<1>1. Send(<<parent[p], p, None>>) /\ UNCHANGED <<parent, owed, relations>>
      BY DEF Execve
<1>2. <<parent[p], p, None>> \in Report
      BY ExecveTyped
<1>3. ASSUME NEW i \in 1..Len(reports'), (reports'[i][1] = a /\ reports'[i][2] = b) \/ (reports'[i][2] = a /\ reports'[i][3] = b)
      PROVE  Comes(a, b)
      BY <1>1, <1>2, <1>3, SendComes
<1>4. parent[b] = a \/ owed[a] = b \/ <<a, b>> \in relations => Comes(a, b)
      BY DEF Comes
<1> QED
  BY <1>1, <1>3, <1>4 DEF Comes

LEMMA ExitComes == ASSUME TypeOK, NEW p \in Pids, Exit(p), NEW a \in Pids, NEW b \in Pids, Comes(a, b)'
                   PROVE  Comes(a, b)
<1>1. parent' = [c \in Pids |-> IF parent[c] = p THEN 1 ELSE parent[c]] /\ owed' = [owed EXCEPT ![p] = None]
      /\ UNCHANGED <<relations, reports>>
      BY DEF Exit, tracking
<1>2. (parent'[b] = a => parent[b] = a) /\ (owed'[a] = b => owed[a] = b)
      BY <1>1, PidsAre DEF TypeOK
<1> QED
  BY <1>1, <1>2 DEF Comes

LEMMA ReapComes == ASSUME TypeOK, NEW p \in Pids, Reap(p), NEW a \in Pids, NEW b \in Pids, Comes(a, b)'
                   PROVE  Comes(a, b)
<1>1. parent' = [parent EXCEPT ![p] = None] /\ UNCHANGED <<owed, relations, reports>>
      BY DEF Reap, tracking
<1>2. parent'[b] = a => parent[b] = a
      BY <1>1, PidsAre DEF TypeOK
<1> QED
  BY <1>1, <1>2 DEF Comes

LEMMA AcceptComes == ASSUME TypeOK, Accept, NEW a \in Pids, NEW b \in Pids, Comes(a, b)'
                     PROVE  Comes(a, b)
<1> DEFINE r == reports[1]
<1>1. UNCHANGED <<parent, owed>> /\ 1 \in 1..Len(reports) /\ r \in Report /\ relations' = Add(r[1], r[2], r[3])
  <2>1. Len(reports) \in Nat /\ Len(reports) >= 1
        BY AcceptTyped DEF TypeOK
  <2> QED
    BY <2>1, AcceptTyped DEF Accept, processes
<1>2. <<a, b>> \in relations' => <<a, b>> \in relations \/ (r[1] = a /\ r[2] = b) \/ (r[2] = a /\ r[3] = b)
      BY <1>1 DEF Add
<1>3. ASSUME NEW i \in 1..Len(reports'), (reports'[i][1] = a /\ reports'[i][2] = b) \/ (reports'[i][2] = a /\ reports'[i][3] = b)
      PROVE  Comes(a, b)
  <2>1. reports'[i] = reports[i + 1] /\ i + 1 \in 1..Len(reports)
        BY AcceptTyped DEF TypeOK
  <2> QED
    BY <1>3, <2>1 DEF Comes
<1>4. parent[b] = a \/ owed[a] = b \/ <<a, b>> \in relations => Comes(a, b)
      BY DEF Comes
<1>5. (r[1] = a /\ r[2] = b) \/ (r[2] = a /\ r[3] = b) => Comes(a, b)
      BY <1>1 DEF Comes
<1> QED
  BY <1>1, <1>2, <1>3, <1>4, <1>5 DEF Comes

\* Every step that is no fork.
Forks == \E p, c \in Pids : Fork(p, c)

LEMMA StillComes == ASSUME TypeOK, [Next]_vars, ~Forks, NEW a \in Pids, NEW b \in Pids, Comes(a, b)'
                    PROVE  Comes(a, b)
<1>1. CASE UNCHANGED vars
      BY <1>1 DEF vars, processes, tracking, Comes
<1>2. CASE MonitorStep
      BY <1>2, MonitorAlone DEF processes, tracking, Comes
<1> QED
  BY <1>1, <1>2, ReportForkComes, ExecveComes, ExitComes, ReapComes, AcceptComes DEF Next, Forks

------------------------------------------------------------------------------
(* Processes and their services.                                            *)

LEMMA ForkSound == ASSUME TypeOK, Sound, NEW p \in Pids, NEW c \in Pids, Fork(p, c) PROVE Sound'
<1>1. /\ parent' = [parent EXCEPT ![c] = p] /\ owner' = [owner EXCEPT ![c] = owner[p]]
      /\ alive' = alive \cup {c} /\ seen' = seen \cup {c} /\ p \in alive /\ parent[p] # None /\ parent[c] = None
      BY DEF Fork, Runs, Exists, TypeOK
<1>2. p \in seen /\ owner[p] # None
      BY <1>1 DEF Sound
<1>3. ASSUME NEW q \in Pids
      PROVE  /\ parent'[q] # None => q \in seen'
             /\ parent'[q] = None <=> owner'[q] = None
      BY <1>1, <1>2, PidsAre DEF Sound, TypeOK
<1>4. ASSUME NEW q \in Pids, parent'[q] \in Pids PROVE parent'[q] \in alive' /\ owner'[parent'[q]] = owner'[q]
  <2>1. CASE q = c
        BY <1>1, <2>1 DEF TypeOK
  <2>2. CASE q # c
    <3>1. parent'[q] = parent[q] /\ parent[q] \in alive /\ owner[parent[q]] = owner[q]
          BY <1>1, <1>4, <2>2 DEF Sound, TypeOK
    <3>2. parent[q] # c
          BY <1>1, <3>1 DEF TypeOK
    <3> QED
      BY <1>1, <1>4, <2>2, <3>1, <3>2 DEF TypeOK
  <2> QED
    BY <2>1, <2>2
<1>5. ASSUME NEW a \in Pids, NEW b \in Pids, Comes(a, b)' PROVE a \in seen' /\ b \in seen'
      BY <1>1, <1>2, <1>5, ForkComes DEF Sound
<1> QED
  BY <1>3, <1>4, <1>5 DEF Sound

LEMMA ExitSound == ASSUME TypeOK, Sound, NEW p \in Pids, Exit(p) PROVE Sound'
<1>1. /\ parent' = [c \in Pids |-> IF parent[c] = p THEN 1 ELSE parent[c]]
      /\ alive' = alive \ {p} /\ UNCHANGED <<owner, seen>>
      BY DEF Exit
<1>2. ASSUME NEW q \in Pids
      PROVE  /\ parent'[q] # None => q \in seen'
             /\ parent'[q] = None <=> owner'[q] = None
      BY <1>1, PidsAre DEF Sound, TypeOK
<1>3. ASSUME NEW q \in Pids, parent'[q] \in Pids PROVE parent'[q] \in alive' /\ owner'[parent'[q]] = owner'[q]
      BY <1>1, <1>3, PidsAre DEF Sound, TypeOK
<1>4. ASSUME NEW a \in Pids, NEW b \in Pids, Comes(a, b)' PROVE a \in seen' /\ b \in seen'
      BY <1>1, <1>4, ExitComes DEF Sound
<1> QED
  BY <1>2, <1>3, <1>4 DEF Sound

LEMMA ReapSound == ASSUME TypeOK, Sound, NEW p \in Pids, Reap(p) PROVE Sound'
<1>1. /\ parent' = [parent EXCEPT ![p] = None] /\ owner' = [owner EXCEPT ![p] = None]
      /\ p \notin alive /\ UNCHANGED <<alive, seen>>
      BY DEF Reap
<1>2. ASSUME NEW q \in Pids
      PROVE  /\ parent'[q] # None => q \in seen'
             /\ parent'[q] = None <=> owner'[q] = None
      BY <1>1, PidsAre DEF Sound, TypeOK
<1>3. ASSUME NEW q \in Pids, parent'[q] \in Pids PROVE parent'[q] \in alive' /\ owner'[parent'[q]] = owner'[q]
  <2>1. q # p /\ parent'[q] = parent[q]
        BY <1>1, <1>3, PidsAre DEF TypeOK
  <2>2. parent[q] \in alive /\ owner[parent[q]] = owner[q] /\ parent[q] # p
        BY <1>1, <1>3, <2>1 DEF Sound
  <2> QED
    BY <1>1, <1>3, <2>1, <2>2 DEF TypeOK
<1>4. ASSUME NEW a \in Pids, NEW b \in Pids, Comes(a, b)' PROVE a \in seen' /\ b \in seen'
      BY <1>1, <1>4, ReapComes DEF Sound
<1> QED
  BY <1>2, <1>3, <1>4 DEF Sound

\* The rest only reports, listens or monitors.
Quiet == UNCHANGED <<parent, alive, owner, seen, reused>>

LEMMA QuietSteps ==
  /\ UNCHANGED vars \/ Accept \/ MonitorStep => Quiet /\ UNCHANGED <<env, bare>>
  /\ \A p \in Pids : ReportFork(p) => Quiet /\ UNCHANGED <<env, bare>>
  /\ \A p \in Pids : \A e \in Owners \cup {None} : Execve(p, e) => Quiet
<1>1. UNCHANGED vars \/ Accept \/ MonitorStep => Quiet /\ UNCHANGED <<env, bare>>
      BY MonitorAlone DEF vars, Accept, processes, Quiet
<1> QED
  BY <1>1 DEF ReportFork, Execve, Quiet

LEMMA QuietSound == ASSUME TypeOK, Sound, [Next]_vars, ~Forks, Quiet PROVE Sound'
<1>1. \A a, b \in Pids : Comes(a, b)' => a \in seen' /\ b \in seen'
      BY StillComes DEF Sound, Quiet
<1> QED
  BY <1>1 DEF Sound, Quiet

\* A step is a fork, an end, a reaping or none of these.
LEMMA Cases == ASSUME [Next]_vars
               PROVE  Forks \/ (\E p \in Pids : Exit(p) \/ Reap(p)) \/ (Quiet /\ ~Forks)
BY QuietSteps DEF Next, Forks

LEMMA NextSound == ASSUME TypeOK, Sound, [Next]_vars PROVE Sound'
BY Cases, ForkSound, ExitSound, ReapSound, QuietSound DEF Forks

LEMMA NextNamed == ASSUME TypeOK, Sound, Named, [Next]_vars PROVE Named'
<1>1. CASE UNCHANGED vars \/ Accept \/ MonitorStep \/ \E p \in Pids : ReportFork(p) \/ Exit(p)
  <2>1. UNCHANGED <<owner, env, bare>>
        BY <1>1, QuietSteps DEF Quiet, Exit
  <2> QED
    BY <2>1 DEF Named
<1>2. ASSUME NEW p \in Pids, NEW c \in Pids, Fork(p, c) PROVE Named'
      BY <1>2 DEF Fork, Named, TypeOK
<1>3. ASSUME NEW p \in Pids, Reap(p) PROVE Named'
      BY <1>3, PidsAre DEF Reap, Named, TypeOK
<1>4. ASSUME NEW p \in Pids, NEW e \in Owners \cup {None}, Execve(p, e) PROVE Named'
  <2>1. env' = [env EXCEPT ![p] = e] /\ e \in {env[p], None} /\ bare' = (bare \/ (owner[p] = "own" /\ e = None))
        /\ owner' = owner
        BY <1>4 DEF Execve
  <2>2. \A q \in Pids : env'[q] \in {owner'[q], None}
        BY <2>1 DEF Named, TypeOK
  <2>3. ~bare' => \A q \in Pids : owner'[q] = "own" => env'[q] = "own"
        BY <2>1 DEF Named, TypeOK
  <2> QED
    BY <2>2, <2>3 DEF Named
<1> QED
  BY <1>1, <1>2, <1>3, <1>4 DEF Next

------------------------------------------------------------------------------
(* Nothing comes from itself.                                               *)

LEMMA NextForest == ASSUME TypeOK, Sound, Forest, [Next]_vars PROVE Forest'
<1>1. ASSUME Quiet \/ \E p \in Pids : Exit(p) \/ Reap(p) PROVE Forest'
  <2>1. \A q \in Pids : parent'[q] \in {parent[q], 1, None}
        BY <1>1 DEF Quiet, Exit, Reap, TypeOK
  <2>2. ASSUME NEW S \in SUBSET Pids, S # {} PROVE \E q \in S : parent'[q] \notin S
    <3>1. PICK q \in S : parent[q] \notin S
          BY <2>2 DEF Forest
    <3> QED
      BY <2>1, <3>1, PidsAre
  <2> QED
    BY <2>2 DEF Forest
<1>2. ASSUME NEW p \in Pids, NEW c \in Pids, Fork(p, c) PROVE Forest'
  <2>1. parent' = [parent EXCEPT ![c] = p] /\ parent[c] = None /\ p # c
        BY <1>2 DEF Fork, Runs, Exists, TypeOK
  <2>2. \A q \in Pids : parent[q] # c
        BY <2>1 DEF TypeOK, Sound
  <2>3. ASSUME NEW S \in SUBSET Pids, S # {} PROVE \E q \in S : parent'[q] \notin S
    <3>1. CASE S \subseteq {c}
          BY <2>1, <2>3, <3>1 DEF TypeOK
    <3>2. CASE ~(S \subseteq {c})
      <4>1. PICK q \in S \ {c} : parent[q] \notin S \ {c}
            BY <3>2 DEF Forest
      <4> QED
        BY <2>1, <2>2, <4>1 DEF TypeOK
    <3> QED
      BY <3>1, <3>2
  <2> QED
    BY <2>3 DEF Forest
<1> QED
  BY <1>1, <1>2, Cases DEF Forks

\* Of what was told, too: a child whose pid is new comes after all the others.
LEMMA NextAcyclic == ASSUME TypeOK, Sound, Acyclic, [Next]_vars PROVE Acyclic'
<1>1. CASE ~Forks
  <2>1. reused' = reused
        BY <1>1, Cases DEF Quiet, Exit, Reap
  <2>2. ASSUME ~reused', NEW S \in SUBSET Pids, S # {} PROVE \E q \in S : \A p \in S : ~Comes(p, q)'
    <3>1. PICK q \in S : \A p \in S : ~Comes(p, q)
          BY <2>1, <2>2 DEF Acyclic
    <3> QED
      BY <1>1, <3>1, StillComes
  <2> QED
    BY <2>2 DEF Acyclic
<1>2. ASSUME NEW p \in Pids, NEW c \in Pids, Fork(p, c) PROVE Acyclic'
  <2>1. parent[p] # None /\ parent[c] = None /\ reused' = (reused \/ c \in seen)
        BY <1>2 DEF Fork, Runs, Exists, TypeOK
  <2>2. SUFFICES ASSUME ~reused, c \notin seen, NEW S \in SUBSET Pids, S # {}
                 PROVE  \E q \in S : \A a \in S : ~Comes(a, q)'
        BY <2>1 DEF Acyclic
  <2>3. \A a \in Pids : ~Comes(a, c) /\ ~Comes(c, a)
        BY <2>2 DEF Sound
  <2>4. \A a, b \in Pids : Comes(a, b)' => Comes(a, b) \/ (a = p /\ b = c)
        BY <1>2, ForkComes
  <2>5. CASE S \subseteq {c}
        BY <2>1, <2>2, <2>3, <2>4, <2>5
  <2>6. CASE ~(S \subseteq {c})
    <3>1. PICK q \in S \ {c} : \A a \in S \ {c} : ~Comes(a, q)
          BY <2>2, <2>6 DEF Acyclic
    <3> QED
      BY <2>3, <2>4, <3>1
  <2> QED
    BY <2>5, <2>6
<1> QED
  BY <1>1, <1>2 DEF Forks

\* So find comes to an end.
LEMMA NextNoOverflow == ASSUME TypeOK, Acyclic, NoOverflow, [Next]_vars PROVE NoOverflow'
<1>1. CASE crash' = crash
  <2>1. reused => reused'
        BY Cases DEF Forks, Fork, Exit, Reap, Quiet
  <2> QED
    BY <1>1, <2>1 DEF NoOverflow
<1>2. CASE crash' # crash
  <2>1. FindKids
        BY <1>2 DEF Next, Fork, ReportFork, Execve, Exit, Reap, Accept, vars, MonitorStep, WaitBegin, ReadPidFile, ListEntry,
           Environ, WaitEnd, CommandsEnded, NoPidFile, PidFileEnded, List, Listed, ListFails, EnvironsRead, ScanEnded,
           KidsEnded, Go, Alone
  <2>2. PICK c \in Cmds : Endless(c)
        BY <1>2, <2>1 DEF FindKids, Alone
  <2>3. PICK q \in Pids : q \in From(q)
        BY <2>2, StartAssumption DEF Endless, From
  <2>4. reused
        BY <2>3, NoCycle DEF Acyclic
  <2> QED
    BY <2>1, <2>4, MonitorAlone DEF MonitorStep, processes, NoOverflow
<1> QED
  BY <1>1, <1>2

------------------------------------------------------------------------------
(* Those that come from the service.                                        *)

LEMMA NextFamily == ASSUME TypeOK, Sound, Named, Family, [Next]_vars PROVE Family'
<1>1. reused => reused'
      BY Cases DEF Forks, Fork, Exit, Reap, Quiet
<1>2. SUFFICES ASSUME ~reused', NEW S \in SUBSET seen, Kin(S) PROVE \E T \in SUBSET seen' : Kin(T)'
      BY <1>1 DEF Family
<1>3. S \subseteq Pids
      BY DEF TypeOK
<1>4. CASE ~Forks
  <2>1. \A p \in S, c \in Pids : Comes(p, c)' => c \in S
        BY <1>2, <1>3, <1>4, StillComes DEF Kin
  <2>2. seen' = seen /\ \A p \in Pids : owner'[p] \in {owner[p], None}
        BY <1>4, Cases DEF Quiet, Exit, Reap, TypeOK
  <2>3. (pc' # "filed" => pids' \subseteq S) /\ (pc' = "environ" => picked' \subseteq S)
    <3>1. ASSUME NEW p \in Pids, Environ(p) PROVE pids' \subseteq S /\ picked' \subseteq S
          BY <1>2, <3>1, PidsAre DEF Environ, At, Kin, Named
    <3>2. CASE FindKids
      <4>1. \A p \in S : Told(p) \subseteq S
        <5> SUFFICES ASSUME NEW p \in S, NEW c \in Told(p) PROVE c \in S
            OBVIOUS
        <5>1. PICK s \in relations : s[1] = p /\ s[2] = c
              BY DEF Told
        <5>2. s = <<p, c>> /\ c \in Pids
              BY <5>1 DEF TypeOK
        <5> QED
          BY <1>2, <5>1, <5>2 DEF Kin, Comes
      <4>2. \A c \in Cmds : ~Endless(c) => find[c] \subseteq S
        <5> SUFFICES ASSUME NEW c \in Cmds, ~Endless(c) PROVE find[c] \subseteq S
            OBVIOUS
        <5>1. c \in S
              BY <1>2 DEF Kin
        <5>2. From(c) \subseteq S
              BY <1>3, <4>1, <5>1, FromLeast
        <5>3. find[c] \subseteq From(c)
              BY <1>3, <5>1, FindIsRight
        <5> QED
          BY <5>2, <5>3
      <4>3. (\A c \in Cmds : ~Endless(c)) => UNION {find[c] : c \in Cmds} \subseteq S
            BY <4>2
      <4>4. pids' \subseteq S /\ pc' # "environ"
            BY <1>2, <3>2, <4>3 DEF FindKids, At, monitor, Kin
      <4> QED
        BY <4>4
    <3>3. CASE UNCHANGED <<pc, picked>> /\ pids' = pids
          BY <1>2, <3>3 DEF Kin
    <3>4. CASE UNCHANGED vars
          BY <3>4, <3>3 DEF vars, monitor
    <3>5. ASSUME NEW p \in Pids, WaitBegin(p) \/ ReadPidFile(p) \/ ListEntry(p)
          PROVE  (pc' # "filed" => pids' \subseteq S) /\ (pc' = "environ" => picked' \subseteq S)
          BY <1>2, <3>5 DEF WaitBegin, ReadPidFile, ListEntry, At, Kin
    <3>6. CASE WaitEnd \/ CommandsEnded \/ NoPidFile \/ PidFileEnded \/ ScanEnded \/ KidsEnded
          BY <1>2, <3>6 DEF WaitEnd, CommandsEnded, NoPidFile, PidFileEnded, ScanEnded, KidsEnded, At, Go, Kin
    <3>7. CASE List \/ Listed \/ ListFails \/ EnvironsRead
          BY <1>2, <3>7 DEF List, Listed, ListFails, EnvironsRead, At, Kin
    <3>8. CASE MonitorStep
          BY <3>1, <3>2, <3>5, <3>6, <3>7, <3>8 DEF MonitorStep
    <3>9. CASE Next /\ ~MonitorStep
          BY <1>4, <3>3, <3>9 DEF Next, Forks, ReportFork, Execve, Exit, Reap, Accept, monitor
    <3> QED
      BY <3>4, <3>8, <3>9
  <2>4. \A p \in Pids : (owner'[p] = "own" => p \in S) /\ (p \in S => owner'[p] # "other")
        BY <1>2, <2>2, PidsAre DEF Kin
  <2>5. Cmds \subseteq S
        BY <1>2 DEF Kin
  <2> QED
    BY <2>1, <2>2, <2>3, <2>4, <2>5 DEF Kin
<1>5. ASSUME NEW p \in Pids, NEW c \in Pids, Fork(p, c) PROVE \E T \in SUBSET seen' : Kin(T)'
  <2>1. /\ owner' = [owner EXCEPT ![c] = owner[p]] /\ seen' = seen \cup {c} /\ c \notin seen
        /\ owner[p] # None /\ UNCHANGED <<pc, picked, pids>>
        BY <1>2, <1>5 DEF Fork, Runs, TypeOK, Sound
  <2>2. \A a, b \in Pids : Comes(a, b)' => Comes(a, b) \/ (a = p /\ b = c)
        BY <1>5, ForkComes
  <2>3. \A a \in Pids : ~Comes(c, a)
        BY <2>1 DEF Sound
  <2>4. p \in S <=> owner[p] = "own"
        BY <1>2, <2>1 DEF Kin, TypeOK, Owners
  <2>5. CASE p \in S
    <3> DEFINE T == S \cup {c}
    <3>1. T \in SUBSET seen'
          BY <2>1
    <3>2. \A a \in T, b \in Pids : Comes(a, b)' => b \in T
          BY <1>2, <1>3, <2>2, <2>3, <2>5 DEF Kin
    <3>3. \A q \in Pids : (owner'[q] = "own" => q \in T) /\ (q \in T => owner'[q] # "other")
          BY <1>2, <2>1, <2>4, <2>5 DEF Kin, TypeOK
    <3>4. Cmds \subseteq T /\ (pc' # "filed" => pids' \subseteq T) /\ (pc' = "environ" => picked' \subseteq T)
          BY <1>2, <2>1 DEF Kin
    <3> QED
      BY <3>1, <3>2, <3>3, <3>4 DEF Kin
  <2>6. CASE p \notin S
    <3>1. S \in SUBSET seen' /\ c \notin S
          BY <2>1
    <3>2. \A a \in S, b \in Pids : Comes(a, b)' => b \in S
          BY <1>2, <1>3, <2>2, <2>6 DEF Kin
    <3>3. \A q \in Pids : (owner'[q] = "own" => q \in S) /\ (q \in S => owner'[q] # "other")
          BY <1>2, <2>1, <2>4, <2>6, <3>1 DEF Kin, TypeOK
    <3>4. Cmds \subseteq S /\ (pc' # "filed" => pids' \subseteq S) /\ (pc' = "environ" => picked' \subseteq S)
          BY <1>2, <2>1 DEF Kin
    <3> QED
      BY <3>1, <3>2, <3>3, <3>4 DEF Kin
  <2> QED
    BY <2>5, <2>6
<1> QED
  BY <1>4, <1>5 DEF Forks

------------------------------------------------------------------------------
(* The end of the service.                                                  *)

\* A service without a process stays so: what forks runs.
LEMMA LeftKeeps == ASSUME TypeOK, Sound, [Next]_vars, Left' PROVE Left
<1>1. PICK p \in alive' : owner'[p] = "own"
      BY DEF Left
<1>2. ASSUME NEW q \in Pids, NEW c \in Pids, Fork(q, c) PROVE Left
  <2>1. /\ q \in alive /\ alive' = alive \cup {c} /\ owner' = [owner EXCEPT ![c] = owner[q]]
        BY <1>2 DEF Fork, Runs
  <2> QED
    BY <1>1, <2>1 DEF Left, TypeOK
<1>3. ASSUME NEW q \in Pids, Exit(q) \/ Reap(q) PROVE Left
  <2>1. alive' \subseteq alive /\ \A x \in Pids : owner'[x] \in {owner[x], None}
        BY <1>3 DEF Exit, Reap, TypeOK
  <2> QED
    BY <1>1, <2>1, PidsAre DEF Left, TypeOK
<1>4. CASE Quiet
      BY <1>1, <1>4 DEF Quiet, Left
<1> QED
  BY <1>2, <1>3, <1>4, Cases DEF Forks

\* The first process of a service that is left is a child of the init process.
LEMMA Roots == ASSUME TypeOK, Sound, Forest, Left PROVE \E p \in alive : parent[p] = 1 /\ owner[p] = "own"
<1> DEFINE S == {p \in alive : owner[p] = "own"}
<1>1. S \in SUBSET Pids /\ S # {}
      BY DEF Left, TypeOK
<1>2. PICK q \in S : parent[q] \notin S
      BY <1>1 DEF Forest
<1>3. parent[q] \notin Pids
      BY <1>1, <1>2 DEF Sound
<1>4. parent[q] # None
      BY <1>2 DEF TypeOK
<1> QED
  BY <1>1, <1>2, <1>3, <1>4 DEF TypeOK

LEMMA MonitorWatched == ASSUME TypeOK, Sound, Named, Forest, Watched, MonitorStep PROVE Watched'
<1>1. UNCHANGED <<alive, owner, env, bare, usesFile, parent>> /\ (Left' <=> Left)
      BY MonitorAlone DEF processes, Left
<1>2. ASSUME NEW p \in Pids, WaitBegin(p) PROVE Watched'
  <2>1. pc \in {"commands", "scanned", "kids"} /\ UNCHANGED <<pc, picked, pids, slipped>>
        BY <1>2 DEF WaitBegin, At
  <2> QED
    BY <1>1, <2>1 DEF Watched, Clean
<1>3. ASSUME NEW p \in Pids, Environ(p) PROVE Watched'
  <2>1. /\ pc = "environ" /\ p \in todo /\ todo' = todo \ {p} /\ UNCHANGED <<pc, slipped>>
        /\ picked' = IF p \in alive /\ env[p] = "own" THEN picked \cup {p} ELSE picked
        BY <1>3 DEF Environ, At
  <2>2. ASSUME Clean', picked' = {}, Left' PROVE \E q \in todo' \cap alive' : owner'[q] = "own"
    <3>1. Clean /\ picked = {} /\ Left /\ ~(p \in alive /\ env[p] = "own")
          BY <1>1, <2>1, <2>2 DEF Clean
    <3>2. PICK q \in todo \cap alive : owner[q] = "own"
          BY <2>1, <3>1 DEF Watched
    <3>3. env[q] = "own"
          BY <3>1, <3>2 DEF Clean, Named, TypeOK
    <3> QED
      BY <1>1, <2>1, <3>1, <3>2, <3>3
  <2> QED
    BY <1>1, <2>1, <2>2 DEF Watched, Clean
<1>4. CASE WaitEnd
  <2>1. UNCHANGED <<pc, todo, picked, pids, slipped>>
        BY <1>4 DEF WaitEnd
  <2> QED
    BY <1>1, <2>1 DEF Watched, Clean
<1>5. CASE CommandsEnded
  <2>1. pc' = IF usesFile THEN "file" ELSE "list"
        BY <1>5 DEF CommandsEnded, Go
  <2> QED
    BY <1>1, <2>1 DEF Watched
<1>6. ASSUME NoPidFile \/ PidFileEnded \/ \E p \in Pids : ReadPidFile(p) PROVE Watched'
  <2>1. pc \in {"file", "filed"} /\ pc' \in {"find", "filed"}
        BY <1>6 DEF NoPidFile, PidFileEnded, ReadPidFile, At, Go
  <2> QED
    BY <1>1, <2>1 DEF Watched
<1>7. CASE List
  <2>1. pc' = "scan" /\ todo' = Pids
        BY <1>7 DEF List
  <2> QED
    BY <1>1, <2>1 DEF Watched, TypeOK
<1>8. ASSUME NEW p \in Pids, ListEntry(p) PROVE Watched'
  <2>1. /\ pc = "scan" /\ todo' = todo \ {p} /\ UNCHANGED <<pc, slipped>>
        /\ picked' = IF parent[p] = 1 THEN picked \cup {p} ELSE picked
        BY <1>8 DEF ListEntry, At
  <2>2. ASSUME Clean', NEW q \in alive', owner'[q] = "own", parent'[q] = 1 PROVE q \in todo' \cup picked'
    <3>1. q \in todo \cup picked
          BY <1>1, <2>1, <2>2 DEF Watched, Clean
    <3> QED
      BY <1>1, <2>1, <2>2, <3>1
  <2> QED
    BY <1>1, <2>1, <2>2 DEF Watched
<1>9. CASE Listed
  <2>1. pc = "scan" /\ todo = {} /\ pc' = "environ" /\ todo' = picked /\ UNCHANGED slipped
        BY <1>9 DEF Listed, At
  <2>2. ASSUME Clean', Left' PROVE \E p \in todo' \cap alive' : owner'[p] = "own"
    <3>1. PICK p \in alive : parent[p] = 1 /\ owner[p] = "own"
          BY <1>1, <2>2, Roots
    <3>2. p \in picked
          BY <1>1, <2>1, <2>2, <3>1 DEF Watched, Clean
    <3> QED
      BY <1>1, <2>1, <3>1, <3>2
  <2> QED
    BY <1>1, <2>1, <2>2 DEF Watched
<1>10. CASE ListFails
  <2>1. pc' = "find" /\ slipped'
        BY <1>10 DEF ListFails
  <2> QED
    BY <1>1, <2>1 DEF Watched, Clean
<1>11. CASE EnvironsRead
  <2>1. pc = "environ" /\ todo = {} /\ pc' = "scanned" /\ pids' = picked /\ UNCHANGED slipped
        BY <1>11 DEF EnvironsRead, At
  <2> QED
    BY <1>1, <2>1 DEF Watched, Clean
<1>12. CASE ScanEnded
  <2>1. pc = "scanned" /\ pc' = (IF pids = {} THEN "find" ELSE "list") /\ UNCHANGED <<pids, slipped>>
        BY <1>12 DEF ScanEnded, At, Go
  <2> QED
    BY <1>1, <2>1 DEF Watched, Clean
<1>13. CASE FindKids
  <2>1. pc = "find" /\ pc' \in {"find", "kids"} /\ slipped' = slipped
        BY <1>13 DEF FindKids, At, monitor
  <2> QED
    BY <1>1, <2>1 DEF Watched, Clean
<1>14. CASE KidsEnded
  <2>1. pc = "kids" /\ pc' \in {"find", "done"} /\ slipped' = slipped
        BY <1>14 DEF KidsEnded, At, Go
  <2> QED
    BY <1>1, <2>1 DEF Watched, Clean
<1> QED
  BY <1>2, <1>3, <1>4, <1>5, <1>6, <1>7, <1>8, <1>9, <1>10, <1>11, <1>12, <1>13, <1>14 DEF MonitorStep

\* Nobody ends and hands its children on unseen.
LEMMA OthersWatched == ASSUME TypeOK, Sound, Watched, [Next]_vars, ~MonitorStep PROVE Watched'
<1>1. UNCHANGED <<pc, picked, pids, usesFile>>
      BY DEF Next, Fork, ReportFork, Execve, Exit, Reap, Accept, vars, monitor
<1>2. Clean' => Clean
      BY DEF Next, Fork, ReportFork, Execve, Exit, Reap, Accept, vars, monitor, processes, Clean
<1>3. CASE Quiet /\ ~Forks
  <2>1. todo' = todo
        BY <1>3 DEF Next, Forks, ReportFork, Execve, Exit, Reap, Accept, vars, monitor
  <2> QED
    BY <1>1, <1>2, <1>3, <2>1 DEF Watched, Quiet, Left
<1>4. ASSUME NEW q \in Pids, NEW c \in Pids, Fork(q, c) PROVE Watched'
  <2>1. /\ alive' = alive \cup {c} /\ owner' = [owner EXCEPT ![c] = owner[q]] /\ parent' = [parent EXCEPT ![c] = q]
        /\ parent[c] = None /\ c \notin alive /\ todo' \in {todo, todo \ {c}}
        /\ pc # "scan" => todo' = todo
        BY <1>4 DEF Fork, Exists, TypeOK
  <2>2. ASSUME pc = "scan", Clean', NEW p \in alive', owner'[p] = "own", parent'[p] = 1 PROVE p \in todo' \cup picked'
        BY <1>1, <1>2, <2>1, <2>2, PidsAre DEF Watched, TypeOK
  <2>3. ASSUME pc = "environ", Clean', picked' = {}, Left' PROVE \E p \in todo' \cap alive' : owner'[p] = "own"
    <3>1. PICK p \in todo \cap alive : owner[p] = "own"
          BY <1>1, <1>2, <2>3, LeftKeeps DEF Watched
    <3> QED
      BY <2>1, <2>3, <3>1 DEF TypeOK
  <2> QED
    BY <1>1, <1>2, <2>2, <2>3, LeftKeeps DEF Watched
<1>5. ASSUME NEW q \in Pids, Exit(q) PROVE Watched'
  <2>1. /\ q \in alive /\ alive' = alive \ {q} /\ UNCHANGED <<owner, todo>>
        /\ parent' = [c \in Pids |-> IF parent[c] = q THEN 1 ELSE parent[c]]
        /\ slipped' = (slipped \/ (owner[q] = "own" /\ Slips(q)))
        BY <1>5 DEF Exit
  <2>2. ASSUME pc = "scan", Clean', NEW p \in alive', owner'[p] = "own", parent'[p] = 1 PROVE p \in todo' \cup picked'
    <3>1. CASE parent[p] = 1
          BY <1>1, <1>2, <2>1, <2>2, <3>1 DEF Watched
    <3>2. CASE parent[p] # 1
      <4>1. p \in Pids /\ p \in alive /\ p # q /\ parent[p] = q /\ owner[q] = "own"
            BY <2>1, <2>2, <3>2 DEF TypeOK, Sound
      <4>2. ~Slips(q)
            BY <2>1, <2>2, <4>1 DEF Clean
      <4> QED
        BY <2>1, <2>2, <4>1, <4>2 DEF Slips
    <3> QED
      BY <3>1, <3>2
  <2>3. ASSUME pc = "environ", Clean', picked' = {}, Left' PROVE \E p \in todo' \cap alive' : owner'[p] = "own"
    <3>1. PICK p \in todo \cap alive : owner[p] = "own"
          BY <1>1, <1>2, <2>3, LeftKeeps DEF Watched
    <3>2. p # q
          BY <2>1, <2>3, <3>1 DEF Slips, Clean
    <3> QED
      BY <2>1, <3>1, <3>2
  <2> QED
    BY <1>1, <1>2, <2>2, <2>3, LeftKeeps DEF Watched
<1>6. ASSUME NEW q \in Pids, Reap(q) PROVE Watched'
  <2>1. /\ q \notin alive /\ UNCHANGED <<alive, todo>>
        /\ owner' = [owner EXCEPT ![q] = None] /\ parent' = [parent EXCEPT ![q] = None]
        BY <1>6 DEF Reap
  <2>2. \A p \in alive : owner'[p] = owner[p] /\ parent'[p] = parent[p]
        BY <2>1 DEF TypeOK
  <2> QED
    BY <1>1, <1>2, <2>1, <2>2, LeftKeeps DEF Watched
<1> QED
  BY <1>3, <1>4, <1>5, <1>6, Cases DEF Forks

------------------------------------------------------------------------------
(* The theorems.                                                            *)

TInv == TypeOK /\ Sound /\ Named /\ Forest /\ Acyclic /\ NoOverflow /\ Family /\ Watched

LEMMA InitComes == ASSUME Init, NEW a \in Pids, NEW b \in Pids PROVE ~Comes(a, b)
BY PidsAre DEF Init, Comes

LEMMA InitTInv == Init => TInv
<1> SUFFICES ASSUME Init PROVE TInv
    OBVIOUS
<1>1. Started \subseteq Pids /\ Cmds \subseteq Pids /\ Others \cap Cmds = {} /\ TypeOK
      BY StartAssumption, InitTyped DEF Started
<1>2. Sound
      BY <1>1, InitComes, PidsAre DEF Init, Sound, Started
<1>3. Named
      BY DEF Init, Named
<1>4. Forest
      BY PidsAre DEF Init, Forest
<1>5. Acyclic
      BY InitComes DEF Acyclic
<1>6. NoOverflow
      BY DEF Init, NoOverflow
<1>7. Kin(Cmds)
      BY <1>1, InitComes, PidsAre DEF Init, Kin
<1>8. Family
      BY <1>7 DEF Init, Started, Family
<1>9. Watched
      BY DEF Init, Watched
<1> QED
  BY <1>1, <1>2, <1>3, <1>4, <1>5, <1>6, <1>8, <1>9 DEF TInv

LEMMA NextTInv == TInv /\ [Next]_vars => TInv'
BY NextTyped, NextSound, NextNamed, NextForest, NextAcyclic, NextNoOverflow, NextFamily, MonitorWatched, OthersWatched
   DEF TInv

LEMMA TrackerInv == Spec => []TInv
BY InitTInv, NextTInv, PTL DEF Spec

\* Processes, reports and what monitorCmds works on are of their types; only
\* pids of processes are ever told or waited for.
THEOREM TrackerTypeOK == Spec => []TypeOK
<1>1. TInv => TypeOK
      BY DEF TInv
<1> QED
  BY <1>1, TrackerInv, PTL

\* find, which calls itself for every child it was told of, does not do so
\* without end, however reports are delayed, lost or overtaken by the end of a
\* parent, as long as no pid was used again.
THEOREM TrackerNoOverflow == Spec => []NoOverflow
<1>1. TInv => NoOverflow
      BY DEF TInv
<1> QED
  BY <1>1, TrackerInv, PTL

\* The recursion of find, which filters on every level (pidtracker.go:39), returns
\* of all that come from a process, however deep, exactly those that were told to
\* be children of the init process, wherever it returns.
THEOREM TrackerFindRight == Spec => []FindRight
<1>1. TInv => FindRight
      BY FindIsRight DEF TInv, FindRight
<1> QED
  BY <1>1, TrackerInv, PTL

\* No process of another service is counted as the service's own, neither by the
\* environment nor by what was told, as long as no pid was used again; what the
\* PIDFile names while it is waited for (daemon.go:203) is left aside.
THEOREM TrackerOwnOnly == Spec => []OwnOnly
<1>1. TInv => OwnOnly
  <2> SUFFICES ASSUME TInv, ~reused, pc # "filed", NEW p \in pids PROVE owner[p] \in {"own", None}
      BY DEF OwnOnly
  <2>1. PICK S \in SUBSET seen : Kin(S)
        BY DEF TInv, Family
  <2>2. p \in S /\ p \in Pids
        BY <2>1 DEF Kin, TInv, TypeOK
  <2>3. owner[p] # "other" /\ owner[p] \in Owners \cup {None}
        BY <2>1, <2>2 DEF Kin, TInv, TypeOK
  <2> QED
    BY <2>3 DEF Owners
<1> QED
  BY <1>1, TrackerInv, PTL

\* Where there is no PIDFile, nobody dropped the environment, /proc could be read
\* and nobody slipped through the last scan of it, monitorCmds does not end before
\* the service has.
THEOREM TrackerPrecise == Spec => []Precise
<1>1. TInv => Precise
      BY DEF TInv, Watched, Clean, Left, Precise
<1> QED
  BY <1>1, TrackerInv, PTL
==============================================================================
