------------------------------ MODULE Registry -------------------------------
(***************************************************************************)
(* src/systemd/daemons/daemons.go: the list of services, how Reload fills  *)
(* it from the unit files and their drop-ins and links the definitions to  *)
(* each other, next to goroutines that use the definitions at that time.   *)
(*                                                                         *)
(* Reload holds the lock of the list from its first line to its last, but  *)
(* the lock of a service only for a few lines: between two files of a      *)
(* reload, and between two services of its last loop, any goroutine can    *)
(* use a service.  Each of these pieces is an action.  A service that was  *)
(* taken off the list and came back is another object.                     *)
(*                                                                         *)
(* What a service does when it runs is in Daemon.tla; here it is Stopped   *)
(* or not, which is what Reload asks, and reads its definition.            *)
(***************************************************************************)
EXTENDS Integers, Sequences

CONSTANTS
  Names,        \* names of services
  Order,        \* the place of a name in a directory that is read (sorted)
  Clients,      \* goroutines that run a systemctl command
  Boot,         \* the goroutine of startup
  None,         \* no object, no definition, nobody
  Scenarios,    \* the containers looked at, see ScenarioType
  MaxCommands,  \* bound: commands of a client
  MaxObjects    \* bound: objects of a name that anything refers to

Threads == Clients \cup {Boot}
Objects == Names \X (1..MaxObjects)
Name(o) == o[1]

\* The maps of a definition, and the map of the other side that the last loop
\* of Reload fills for each.
Inverse ==
  [Requires |-> "RequiredBy",   RequiredBy   |-> "Requires",  Wants    |-> "WantedBy",    WantedBy    |-> "Wants",
   Requisite |-> "RequisiteOf", RequisiteOf  |-> "Requisite", BindsTo  |-> "BoundBy",     BoundBy     |-> "BindsTo",
   PartOf   |-> "ConsistsOf",   ConsistsOf   |-> "PartOf",    Upholds  |-> "UpheldBy",    UpheldBy    |-> "Upholds",
   Conflicts |-> "ConflictedBy", ConflictedBy |-> "Conflicts", Before  |-> "After",       After       |-> "Before",
   OnFailure |-> "OnSuccess",   OnSuccess    |-> "OnFailure"]
Kinds == DOMAIN Inverse

\* The places Reload reads, in order: the units of two directories, then the
\* drop-ins of both.
Places == <<"etc", "lib", "etc.d", "lib.d">>

Ops == {"start", "stop", "mask", "unmask", "enable", "disable", "reload"}

\* A file.  A bad one does not load (an unreadable duration); "null" is a link
\* to /dev/null, "link" one to the unit `to' in lib.  deps: what it declares.
FileType == [kind : {"good", "bad", "null", "link"}, deps : SUBSET (Kinds \X Names), to : Names]
DiskType == [Names -> [1..4 -> Seq(FileType)]]

\* The disk at boot, what it becomes by edits, which services are enabled, and
\* the commands each client may give.
ScenarioType ==
  [disk : DiskType, edits : Seq(DiskType), wants : SUBSET Names, may : [Clients -> SUBSET (Ops \X Names)]]

ASSUME ScenarioAssumption == Scenarios \subseteq ScenarioType
ASSUME OrderAssumption    == Order \in [Names -> Nat] /\ \A n, m \in Names : Order[n] = Order[m] => n = m
ASSUME BoundAssumption    == MaxCommands \in Nat /\ MaxObjects \in Nat \ {0}
ASSUME ActorAssumption    == Boot \notin Clients /\ None \notin Objects \cup Threads /\ Names # {}

VARIABLES
  disk,      \* the files
  edits,     \* what it will become
  may,       \* the commands a client may give; never changes
  wants,     \* multi-user.target.wants
  fresh,     \* history: no file has changed since the last Reload began
  list,      \* daemons.list: an object for a name, or None
  def,       \* daemon.def: a definition or None
  olddef,
  up,        \* daemon.state is not StateStopped
  isMasked,
  writer,    \* who holds the lock of the list for writing
  readers,   \* who holds it for reading across other actions
  place,     \* Reload: where it is in Places; then 5 (prune) and 6 (link)
  todo,      \* what is left there
  file,      \* a file it has begun: [o |-> object, i |-> index], or None
  processed, \* processedFiles
  failed,    \* failedloads
  pc,        \* of a thread
  want,      \* the command of a client: operation and name
  held,      \* the object its Find returned
  left,      \* commands it may still give
  crash      \* "none", or what brought the init process down

world    == <<disk, edits, may, wants, fresh>>
services == <<list, def, olddef, up, isMasked>>
lock     == <<writer, readers>>
loading  == <<place, todo, file, processed, failed>>
clients  == <<pc, want, held, left>>
vars     == <<world, services, lock, loading, clients, crash>>

\* lines: the files a definition was read from, in order, for what accumulates
\* (ExecStart and the other lists).  deps: its maps, each entry with the object
\* it points to, or None.
DefType == [lines : Seq(Names \X (1..4) \X Nat), deps : SUBSET (Kinds \X Names \X (Objects \cup {None}))]

ASSUME NoneAssumption == None \notin DefType /\ None \notin [o : Objects, i : Nat]

Pcs == {"idle", "lookup", "reload", "loading", "again", "act", "boot", "starting"}

TypeOK ==
  /\ disk \in DiskType /\ edits \in Seq(DiskType) /\ may \in [Clients -> SUBSET (Ops \X Names)]
  /\ wants \subseteq Names /\ fresh \in BOOLEAN
  /\ list \in [Names -> Objects \cup {None}]
  /\ def \in [Objects -> DefType \cup {None}]
  /\ olddef \in [Objects -> DefType \cup {None}]
  /\ up \in [Objects -> BOOLEAN]
  /\ isMasked \in [Objects -> BOOLEAN]
  /\ writer \in Threads \cup {None} /\ readers \subseteq Threads
  /\ place \in 1..6 /\ todo \subseteq Names
  /\ file \in [o : Objects, i : Nat] \cup {None}
  /\ processed \subseteq Names \X (1..4) \X Nat /\ failed \subseteq Names
  /\ pc \in [Threads -> Pcs]
  /\ want \in [Clients -> [op : Ops, name : Names]]
  /\ held \in [Clients -> Objects \cup {None}]
  /\ left \in [Clients -> 0..MaxCommands]
  /\ crash \in {"none", "nil list", "nil def", "link", "requisite"}

NoDef == [lines |-> <<>>, deps |-> {}]

Init ==
  /\ \E s \in Scenarios : disk = s.disk /\ edits = s.edits /\ wants = s.wants /\ may = s.may
  /\ fresh = FALSE
  /\ list = [n \in Names |-> None]
  /\ def = [o \in Objects |-> None] /\ olddef = [o \in Objects |-> None]
  /\ up = [o \in Objects |-> FALSE] /\ isMasked = [o \in Objects |-> FALSE]
  /\ writer = None /\ readers = {}
  /\ place = 1 /\ todo = {} /\ file = None /\ processed = {} /\ failed = {}
  /\ pc = [t \in Threads |-> IF t = Boot THEN "reload" ELSE "idle"]
  /\ want = [c \in Clients |-> [op |-> "reload", name |-> CHOOSE n \in Names : TRUE]]
  /\ held = [c \in Clients |-> None]
  /\ left = [c \in Clients |-> MaxCommands]
  /\ crash = "none"

Alive == crash = "none"

Crash(why) ==
  /\ crash' = why
  /\ UNCHANGED <<world, services, lock, loading, clients>>

Listed(n) == list[n] # None
Live      == {list[n] : n \in {m \in Names : Listed(m)}}

------------------------------------------------------------------------------
(* Reload.                                                                  *)

\* Variant: the definitions stay, and files are read into them.
ReloadBeginKeeps(t) ==
  /\ Alive /\ pc[t] = "reload" /\ writer = None /\ readers = {}
  /\ writer' = t
  /\ olddef' = [o \in Objects |-> IF o \in Live THEN def[o] ELSE olddef[o]]
  /\ place' = 1 /\ todo' = {n \in Names : disk[n][1] # <<>>} /\ file' = None
  /\ processed' = {} /\ failed' = {}
  /\ fresh' = TRUE
  /\ pc' = [pc EXCEPT ![t] = "loading"]
  /\ UNCHANGED <<disk, edits, may, wants, list, def, up, isMasked, readers, want, held, left, crash>>

ReloadBegin(t) ==
  /\ Alive /\ pc[t] = "reload" /\ writer = None /\ readers = {}
  /\ writer' = t
  /\ olddef' = [o \in Objects |-> IF o \in Live THEN def[o] ELSE olddef[o]]
  /\ def' = [o \in Objects |-> IF o \in Live THEN None ELSE def[o]]
  /\ place' = 1 /\ todo' = {n \in Names : disk[n][1] # <<>>} /\ file' = None
  /\ processed' = {} /\ failed' = {}
  /\ fresh' = TRUE
  /\ pc' = [pc EXCEPT ![t] = "loading"]
  /\ UNCHANGED <<disk, edits, may, wants, list, up, isMasked, readers, want, held, left, crash>>

Loading(t) == Alive /\ pc[t] = "loading"

\* Entries of a directory come in their order.
First(n) == n \in todo /\ \A m \in todo : Order[n] <= Order[m]

\* An object that nothing refers to is as good as a new one.
Referred(o) ==
  \/ o \in Live
  \/ \E c \in Clients : held[c] = o
  \/ \E x \in Objects : \E d \in {def[x], olddef[x]} \ {None} : \E e \in d.deps : e[3] = o

\* A unit file: the object it is for, which is not masked any more.
UnitBegin(t, n) ==
  \E o \in IF Listed(n) THEN {list[n]} ELSE {x \in Objects : Name(x) = n /\ ~Referred(x)} :
      /\ Loading(t) /\ place \in {1, 2} /\ file = None /\ First(n)
      /\ file' = [o |-> o, i |-> 1]
      /\ isMasked' = [isMasked EXCEPT ![o] = FALSE]
      /\ todo' = todo \ {n}
      /\ UNCHANGED <<world, list, def, olddef, up, lock, place, processed, failed, clients, crash>>

Exists(key)  == key[3] \in DOMAIN disk[key[1]][key[2]]
Content(key) == disk[key[1]][key[2]][key[3]]
\* The file an entry leads to (processedFile).
Source(key)  == IF Exists(key) /\ Content(key).kind = "link" THEN <<Content(key).to, 2, 1>> ELSE key

\* Entries `new' replace those of `deps' for the same map and name.
Put(deps, new) == new \cup {e \in deps : \A f \in new : <<e[1], e[2]>> # <<f[1], f[2]>>}

\* loadUnitFile: adds to the definition there is.
Loaded(o, key) ==
  LET old == IF def[o] = None THEN NoDef ELSE def[o]
  IN  [lines |-> Append(old.lines, key),
       deps  |-> Put(old.deps, {<<e[1], e[2], None>> : e \in Content(key).deps})]

\* The file does not load: the definition from before the reload comes back.
Restore(o) ==
  /\ def' = [def EXCEPT ![o] = olddef[o]]
  /\ olddef' = [olddef EXCEPT ![o] = None]
  /\ failed' = failed \cup {Name(o)}

\* Variant: files that were read are not remembered.
LoadForgets(o, key) ==
  /\ IF Content(key).kind = "bad"
     THEN Restore(o)
     ELSE def' = [def EXCEPT ![o] = Loaded(o, key)] /\ UNCHANGED <<olddef, failed>>
  /\ UNCHANGED processed

Load(o, key) ==
  /\ processed' = processed \cup {key}
  /\ IF Content(key).kind = "bad"
     THEN Restore(o)
     ELSE def' = [def EXCEPT ![o] = Loaded(o, key)] /\ UNCHANGED <<olddef, failed>>

Skip == UNCHANGED <<def, olddef, processed, failed>>

UnitLoad(t) ==
  LET o == file.o
      entry == <<Name(o), place, 1>>
      key == Source(entry)
      null == Exists(entry) /\ Content(entry).kind = "null"
      enlist == list' = [list EXCEPT ![Name(o)] = o]
  IN  /\ Loading(t) /\ place \in {1, 2} /\ file # None
      /\ \/ /\ null
            /\ isMasked' = [isMasked EXCEPT ![o] = TRUE]
            /\ enlist /\ Skip
         \/ /\ ~null /\ key \in processed
            /\ enlist /\ Skip /\ UNCHANGED isMasked
         \/ /\ ~null /\ key \notin processed /\ Exists(key)
            /\ Load(o, key)
            /\ IF Content(key).kind = "bad" THEN UNCHANGED list ELSE enlist
            /\ UNCHANGED isMasked
         \/ /\ ~null /\ key \notin processed /\ ~Exists(key)
            /\ processed' = processed \cup {key}
            /\ UNCHANGED <<def, olddef, failed, list, isMasked>>
      /\ file' = None
      /\ UNCHANGED <<world, up, lock, place, todo, clients, crash>>

\* A directory of drop-ins, one file after the other; a failed one does not end
\* the loop over its directory.
DropInBegin(t, n) ==
  /\ Loading(t) /\ place \in {3, 4} /\ file = None /\ First(n)
  /\ todo' = todo \ {n}
  /\ file' = IF n \in failed \/ ~Listed(n) THEN None ELSE [o |-> list[n], i |-> 1]
  /\ UNCHANGED <<world, services, lock, place, processed, failed, clients, crash>>

DropInLoad(t) ==
  LET o == file.o
      key == <<Name(o), place, file.i>>
  IN  /\ Loading(t) /\ place \in {3, 4} /\ file # None
      /\ IF Exists(key)
         THEN Load(o, key) /\ file' = [file EXCEPT !.i = @ + 1]
         ELSE Skip /\ file' = None
      /\ UNCHANGED <<world, list, up, isMasked, lock, place, todo, clients, crash>>

\* Variant: the loop runs once too often.
NextPlaceOver(t) ==
  /\ Loading(t) /\ todo = {} /\ file = None /\ place < 7
  /\ place' = place + 1
  /\ todo' = IF place < 4 THEN {n \in Names : disk[n][place + 1] # <<>>} ELSE {n \in Names : Listed(n)}
  /\ UNCHANGED <<world, services, lock, file, processed, failed, clients, crash>>

\* The next place; after the last the loops over the list.
NextPlace(t) ==
  /\ Loading(t) /\ todo = {} /\ file = None /\ place < 6
  /\ place' = place + 1
  /\ todo' = IF place < 4 THEN {n \in Names : disk[n][place + 1] # <<>>} ELSE {n \in Names : Listed(n)}
  /\ UNCHANGED <<world, services, lock, file, processed, failed, clients, crash>>

\* Variant: every service stays on the list.
PruneKeeps(t, n) ==
  /\ Loading(t) /\ place = 5 /\ n \in todo
  /\ todo' = todo \ {n}
  /\ olddef' = [olddef EXCEPT ![list[n]] = None]
  /\ UNCHANGED <<world, list, def, up, isMasked, lock, place, file, processed, failed, clients, crash>>

\* A stopped service without a definition leaves the list.
Prune(t, n) ==
  LET o == list[n]
  IN  /\ Loading(t) /\ place = 5 /\ n \in todo
      /\ todo' = todo \ {n}
      /\ olddef' = [olddef EXCEPT ![o] = None]
      /\ list' = IF def[o] = None /\ ~up[o] THEN [list EXCEPT ![n] = None] ELSE list
      /\ UNCHANGED <<world, def, up, isMasked, lock, place, file, processed, failed, clients, crash>>

\* Both sides of every entry of o.  Requisite is resolved into Requires.
Target(k) == IF k = "Requisite" THEN "Requires" ELSE k
Own(o)    == {<<Target(e[1]), e[2], list[e[2]]>> : e \in def[o].deps}
Back(o, x) == {<<Inverse[e[1]], Name(o), o>> : e \in {f \in def[o].deps : f[2] = Name(x) /\ x = list[f[2]]}}

\* Variant: the entry of the other side is not made.
LinkedOneSide(o) == [def EXCEPT ![o].deps = Put(@, Own(o))]

Linked(o) ==
  [x \in Objects |->
     IF x = o THEN [def[x] EXCEPT !.deps = Put(@, Own(o))]
     ELSE IF x \in Live /\ Back(o, x) # {} THEN [def[x] EXCEPT !.deps = Put(@, Back(o, x))]
     ELSE def[x]]

\* Variant: a service without a definition is passed over.
LinkSkips(t, n) ==
  LET o == list[n]
  IN  /\ Loading(t) /\ place = 6 /\ n \in todo
      /\ def[o] # None => \A e \in def[o].deps : e[2] # n /\ (Listed(e[2]) => def[list[e[2]]] # None)
      /\ def' = IF def[o] = None THEN def ELSE Linked(o)
      /\ todo' = todo \ {n}
      /\ UNCHANGED <<world, list, olddef, up, isMasked, lock, place, file, processed, failed, clients, crash>>

\* A nil definition, of the service or of one it names, is dereferenced; an
\* entry for itself locks the service's own lock a second time and never ends.
Link(t, n) ==
  LET o == list[n]
  IN  /\ Loading(t) /\ place = 6 /\ n \in todo
      /\ \/ /\ \/ def[o] = None
               \/ def[o] # None /\ \E e \in def[o].deps : Listed(e[2]) /\ def[list[e[2]]] = None
            /\ Crash("link")
         \/ /\ def[o] # None
            /\ \A e \in def[o].deps : e[2] # n /\ (Listed(e[2]) => def[list[e[2]]] # None)
            /\ def' = Linked(o)
            /\ todo' = todo \ {n}
            /\ UNCHANGED <<world, list, olddef, up, isMasked, lock, place, file, processed, failed, clients, crash>>

ReloadEnd(t) ==
  /\ Loading(t) /\ place = 6 /\ todo = {}
  /\ writer' = None
  /\ pc' = [pc EXCEPT ![t] = IF t = Boot THEN "boot" ELSE IF want[t].op = "reload" THEN "idle" ELSE "again"]
  /\ UNCHANGED <<world, services, readers, loading, want, held, left, crash>>

ReloadStep(t) ==
  \/ ReloadBegin(t) \/ UnitLoad(t) \/ DropInLoad(t) \/ NextPlace(t) \/ ReloadEnd(t)
  \/ \E n \in Names : UnitBegin(t, n) \/ DropInBegin(t, n) \/ Prune(t, n) \/ Link(t, n)

------------------------------------------------------------------------------
(* Goroutines that use a service.                                           *)

\* What start() and stop() ask of a definition before they go on.
Usable(o) == def[o] # None
\* A Requisite that the last loop has not resolved is a nil pointer.
Dangling(o) == \E e \in def[o].deps : e[1] = "Requisite" /\ e[3] = None
Met(o)      == \A e \in def[o].deps : e[1] = "Requisite" => up[e[3]]

Set(o, v) ==
  /\ up' = [up EXCEPT ![o] = v]
  /\ UNCHANGED <<list, def, olddef, isMasked>>

\* start(), as far as the registry is concerned.
Start(o) ==
  \/ isMasked[o] /\ UNCHANGED <<services, crash>>
  \/ ~isMasked[o] /\ ~Usable(o) /\ crash' = "nil def" /\ UNCHANGED services
  \/ /\ ~isMasked[o] /\ Usable(o) /\ up[o]
     /\ UNCHANGED <<services, crash>>
  \/ /\ ~isMasked[o] /\ Usable(o) /\ ~up[o] /\ Dangling(o)
     /\ crash' = "requisite" /\ UNCHANGED services
  \/ /\ ~isMasked[o] /\ Usable(o) /\ ~up[o] /\ ~Dangling(o)
     /\ IF Met(o) THEN Set(o, TRUE) ELSE UNCHANGED services
     /\ UNCHANGED crash

Stop(o) ==
  \/ isMasked[o] /\ UNCHANGED <<services, crash>>
  \/ ~isMasked[o] /\ ~Usable(o) /\ crash' = "nil def" /\ UNCHANGED services
  \/ ~isMasked[o] /\ Usable(o) /\ Set(o, FALSE) /\ UNCHANGED crash

\* The processes of a service end: its monitor asks the definition what to do.
Ends(o) ==
  /\ Alive /\ up[o]
  /\ IF Usable(o)
     THEN Set(o, FALSE) /\ UNCHANGED crash
     ELSE crash' = "nil def" /\ UNCHANGED services
  /\ UNCHANGED <<world, lock, loading, clients>>

\* A service at work starts one it needs.
Needs(o, x) ==
  /\ Alive /\ up[o] /\ Usable(o)
  /\ \E e \in def[o].deps : e[1] \in {"Requires", "Wants", "BindsTo", "Upholds"} /\ e[3] = x
  /\ Start(x)
  /\ UNCHANGED <<world, lock, loading, clients>>

------------------------------------------------------------------------------
(* Boot (New, LoadAndStart) and the commands of clients.                    *)

\* Reload is over; the read lock is held over the starts.
BootRead ==
  /\ Alive /\ pc[Boot] = "boot" /\ writer = None
  /\ readers' = readers \cup {Boot}
  /\ todo' = wants
  /\ pc' = [pc EXCEPT ![Boot] = "starting"]
  /\ UNCHANGED <<world, services, writer, place, file, processed, failed, want, held, left, crash>>

\* d.Start() of a name that is not listed is a call on nil, which does nothing.
BootStart(n) ==
  /\ Alive /\ pc[Boot] = "starting" /\ First(n)
  /\ todo' = todo \ {n}
  /\ IF Listed(n) THEN Start(list[n]) ELSE UNCHANGED <<services, crash>>
  /\ UNCHANGED <<world, lock, place, file, processed, failed, clients>>

\* The global d is set; until then commands find it nil.
BootDone ==
  /\ Alive /\ pc[Boot] = "starting" /\ todo = {}
  /\ readers' = readers \ {Boot}
  /\ pc' = [pc EXCEPT ![Boot] = "idle"]
  /\ UNCHANGED <<world, services, writer, loading, want, held, left, crash>>

Booted == pc[Boot] = "idle"

Give(c, op, n) ==
  /\ Alive /\ pc[c] = "idle" /\ left[c] > 0 /\ <<op, n>> \in may[c]
  /\ left' = [left EXCEPT ![c] = @ - 1]
  /\ want' = [want EXCEPT ![c] = [op |-> op, name |-> n]]
  /\ UNCHANGED <<world, services, lock, loading, held>>

\* findDaemons with a nil d finds nothing and no error.
Command(c, op, n) ==
  /\ op # "reload" /\ Give(c, op, n)
  /\ pc' = [pc EXCEPT ![c] = IF Booted THEN "lookup" ELSE "idle"]
  /\ UNCHANGED crash

\* daemon-reload; d.Reload() on a nil d.
ReloadCommand(c, n) ==
  /\ Give(c, "reload", n)
  /\ pc' = [pc EXCEPT ![c] = "reload"]
  /\ crash' = IF Booted THEN crash ELSE "nil list"

\* Variant: a Find that has to reload keeps its read lock.
FindHolds(c) ==
  LET o == list[want[c].name]
  IN  /\ Alive /\ pc[c] \in {"lookup", "again"} /\ writer = None
      /\ held' = [held EXCEPT ![c] = o]
      /\ pc' = [pc EXCEPT ![c] = IF o # None THEN "act" ELSE IF pc[c] = "lookup" THEN "reload" ELSE "idle"]
      /\ readers' = IF pc'[c] = "reload" THEN readers \cup {c} ELSE readers \ {c}
      /\ UNCHANGED <<world, services, writer, loading, want, left, crash>>

\* Find: with the read lock, and once more after a Reload.
Find(c) ==
  LET o == list[want[c].name]
  IN  /\ Alive /\ pc[c] \in {"lookup", "again"} /\ writer = None
      /\ held' = [held EXCEPT ![c] = o]
      /\ pc' = [pc EXCEPT ![c] = IF o # None THEN "act" ELSE IF pc[c] = "lookup" THEN "reload" ELSE "idle"]
      /\ UNCHANGED <<world, services, lock, loading, want, left, crash>>

\* Unmask removes the link to /dev/null; Mask puts its link somewhere else.
Act(c) ==
  LET o == held[c]
      n == Name(o)
  IN  /\ Alive /\ pc[c] = "act"
      /\ \/ /\ want[c].op = "start" /\ Start(o) /\ UNCHANGED world
         \/ /\ want[c].op = "stop" /\ Stop(o) /\ UNCHANGED world
         \/ /\ want[c].op = "mask"
            /\ isMasked' = [isMasked EXCEPT ![o] = @ \/ disk[n][1] = <<>>]
            /\ UNCHANGED <<world, list, def, olddef, up, crash>>
         \/ /\ want[c].op = "unmask"
            /\ isMasked' = [isMasked EXCEPT ![o] = FALSE]
            /\ IF disk[n][1] # <<>> /\ disk[n][1][1].kind = "null"
               THEN disk' = [disk EXCEPT ![n][1] = <<>>] /\ fresh' = FALSE
               ELSE UNCHANGED <<disk, fresh>>
            /\ UNCHANGED <<edits, may, wants, list, def, olddef, up, crash>>
         \/ /\ want[c].op = "enable"
            /\ wants' = IF Usable(o) THEN wants \cup {n} ELSE wants
            /\ UNCHANGED <<disk, edits, may, fresh, services, crash>>
         \/ /\ want[c].op = "disable"
            /\ wants' = wants \ {n}
            /\ UNCHANGED <<disk, edits, may, fresh, services, crash>>
      /\ pc' = [pc EXCEPT ![c] = "idle"]
      /\ held' = [held EXCEPT ![c] = None]
      /\ UNCHANGED <<lock, loading, want, left>>

\* Somebody changes unit files.
Edit ==
  /\ Alive /\ edits # <<>>
  /\ disk' = Head(edits) /\ edits' = Tail(edits)
  /\ fresh' = FALSE
  /\ UNCHANGED <<may, wants, services, lock, loading, clients, crash>>

------------------------------------------------------------------------------

Next ==
  \/ \E t \in Threads : ReloadStep(t)
  \/ \E o \in Objects : Ends(o) \/ \E x \in Objects : Needs(o, x)
  \/ BootRead \/ BootDone \/ \E n \in Names : BootStart(n)
  \/ \E c \in Clients :
       \/ Find(c) \/ Act(c)
       \/ \E n \in Names : ReloadCommand(c, n) \/ \E op \in Ops : Command(c, op, n)
  \/ Edit

Spec == Init /\ [][Next]_vars

\* The goroutines are scheduled; nobody has to give a command or edit a file,
\* and no service has to end.
Fairness ==
  /\ \A t \in Threads : WF_vars(ReloadStep(t))
  /\ WF_vars(BootRead) /\ WF_vars(BootDone) /\ WF_vars(\E n \in Names : BootStart(n))
  /\ \A c \in Clients : WF_vars(Find(c)) /\ WF_vars(Act(c))

FairSpec == Spec /\ Fairness

------------------------------------------------------------------------------
(* Properties.                                                              *)

\* While nobody reloads, every listed service has a definition and what runs is
\* listed, whatever was edited, masked or loaded half before: no running service
\* is out of reach of a command.  (daemons.go:253-260.)
DefsThere ==
  (Alive /\ writer = None) =>
    /\ \A n \in Names : Listed(n) => Usable(list[n])
    /\ \A o \in Objects : up[o] => o \in Live

\* A command, the monitor of a service or a start of what another one needs
\* meets a nil definition only while somebody reloads, or in a command that had
\* found its service before a reload took it off the list; never through an
\* entry of another definition.  (start() and stop() read d.def without a test,
\* daemon.go:441, 850; daemons.go:96 clears it.)
NilDef ==
  [][(Alive /\ crash' = "nil def") =>
       \/ writer # None
       \/ \E c \in Clients : pc[c] = "act" /\ pc'[c] = "idle" /\ held[c] \notin Live]_vars

\* The files that the entries for a service lead to; those that do not load.
Keys(n) == {Source(<<n, at, 1>>) : at \in {1, 2}} \cup {<<n, at, i>> : at \in {3, 4}, i \in DOMAIN disk[n][3] \cup DOMAIN disk[n][4]}
Read(n) == {k \in Keys(n) : Exists(k)}
Bad(n)  == {k \in Read(n) : Content(k).kind = "bad"}
AllGood == \A n \in Names : Bad(n) = {}

\* A good unit file that is not read for another service before.
Aliased(n) == \E m \in Names, at \in {1, 2} : <<m, at>> # <<n, 2>> /\ Source(<<m, at, 1>>) = <<n, 2, 1>>
OwnUnit(n, at) == Exists(<<n, at, 1>>) /\ Content(<<n, at, 1>>).kind = "good" /\ (at = 2 => ~Aliased(n))
HasUnit(n) == \E at \in {1, 2} : OwnUnit(n, at)

\* The last loop of Reload meets a nil definition only for a service that runs
\* and has no unit file of its own any more, or one that was read for an alias,
\* or whose files failed to load twice.
LinkCrash ==
  (crash = "link" /\ fresh) =>
    \E n \in Names : Listed(n) /\ ~Usable(list[n]) /\ (~HasUnit(n) \/ \E k, l \in Bad(n) : k # l)

\* Between reloads the maps agree: an entry points to the object that is listed
\* under its name now, if any, and the other side has the entry back.  Only a
\* Requisite may be unresolved, and is a Requires entry of this side alone.
Agree ==
  (Alive /\ writer = None) =>
    \A n \in Names : Listed(n) =>
      \A e \in def[list[n]].deps :
        /\ e[1] # "Requisite" => e[3] = list[e[2]]
        /\ Listed(e[2]) =>
             \/ \E f \in def[list[e[2]]].deps : f[1] = Inverse[e[1]] /\ f[2] = n
             \/ e[1] = "Requires" /\ \E f \in def[list[n]].deps : f[1] = "Requisite" /\ f[2] = e[2]

Declared(n) == UNION {Content(k).deps : k \in Read(n)}

\* The files of one of the two sides declare that n has m in its map k.
Told(n, k, m) == <<k, m>> \in Declared(n) \/ <<Inverse[k], n>> \in Declared(m)

\* What the maps hold is what the files of one of the two sides declare, if
\* every file loads: nothing stays from the definitions before the reload.
Justified ==
  (Alive /\ writer = None /\ fresh /\ AllGood) =>
    \A n \in Names : Listed(n) =>
      \A e \in def[list[n]].deps :
        Told(n, e[1], e[2]) \/ (e[1] = "Requires" /\ Told(n, "Requisite", e[2]))

\* No file is read twice into the definition of a service whose own files load,
\* whatever becomes of the files of others and of its own ones in reloads before.
ReadOnce ==
  (Alive /\ writer = None /\ fresh) =>
    \A n \in Names : (Listed(n) /\ Bad(n) = {}) =>
      \A i, j \in DOMAIN def[list[n]].lines : def[list[n]].lines[i] = def[list[n]].lines[j] => i = j

\* A reload has only services left to link that name themselves.
SelfLocked ==
  /\ writer # None /\ place = 6 /\ todo # {}
  /\ \A n \in todo : Usable(list[n]) /\ \E e \in def[list[n]].deps : e[2] = n

\* Every command comes back: a Find that has to reload gives its read lock up
\* before it takes the lock for writing, and only the lock of a service that
\* names itself is taken twice (daemons.go:268).
ClientsReturn == \A c \in Clients : (pc[c] # "idle") ~> (pc[c] = "idle" \/ ~Alive \/ SelfLocked)

------------------------------------------------------------------------------
(* What the documentation says of the code and the model refutes.           *)

\* Requisite: "if dependency not running, fail, do not attempt to start"
\* (unit.go:133).  Starting a service with a Requisite that is listed does not
\* bring the init process down.
RequisiteFails ==
  crash = "requisite" =>
    \E n \in Names : Listed(n) /\ \E e \in def[list[n]].deps : e[1] = "Requisite" /\ ~Listed(e[2])
==============================================================================
