-------------------------- MODULE RegistryFilesProofs --------------------------
(***************************************************************************)
(* Proofs about what a reload makes of the files: what the maps hold, that *)
(* no file is read into a definition twice, and for which services the     *)
(* last loop can meet a nil definition.                                    *)
(***************************************************************************)
EXTENDS RegistryProofs

\* A service whose file is open is not due any more; no file is open between reloads.
Open == (writer = None => file = None) /\ (file # None => Name(file.o) \notin todo)

\* The drop-ins that were read, with regard to where the reload is.
Behind(k) ==
  \/ k[2] < place
  \/ k[2] = place /\ k[1] \notin todo /\ (file # None /\ Name(file.o) = k[1] => k[3] < file.i)
InOrder == writer # None => \A k \in processed : k[2] \in {3, 4} => Behind(k)

\* Why an entry of the service n is there.
Why(n, e) == Told(n, e[1], e[2]) \/ (Settled(n) /\ e[1] = "Requires" /\ Told(n, "Requisite", e[2]))

WhyInv ==
  (fresh /\ AllGood) =>
    \A n \in Names : (Listed(n) /\ Usable(list[n])) => \A e \in def[list[n]].deps : Why(n, e)

\* Every file once, and of those that were read.
Once(lines, read) ==
  \A i \in DOMAIN lines : lines[i] \in read /\ \A j \in DOMAIN lines : lines[i] = lines[j] => i = j

LinesInv ==
  fresh =>
    \A n \in Names : (Listed(n) /\ Usable(list[n]) /\ Bad(n) = {}) => Once(def[list[n]].lines, processed)

\* A place of the units the reload is done with, for the service n.
Passed(n, at) == at < place \/ (at = place /\ n \notin todo /\ (file # None => Name(file.o) # n))
UnitsRead ==
  (fresh /\ writer # None) =>
    \A n \in Names, at \in {1, 2} : (OwnUnit(n, at) /\ Passed(n, at)) => <<n, at, 1>> \in processed

\* An object that this reload has made: nothing runs it or refers to it yet.
New(o) ==
  /\ ~up[o] /\ \A c \in Clients : held[c] # o
  /\ \A x \in Objects : \A d \in {def[x], olddef[x]} \ {None} : \A e \in d.deps : e[3] # o

\* What is known of a service that was listed before: two of its files did not
\* load, or one and it has a definition, or the old definition is still there.
Failed(n) == Bad(n) \cap processed
Old(n) ==
  \/ \E k, l \in Failed(n) : k # l
  \/ Failed(n) # {} /\ Usable(list[n])
  \/ /\ olddef[list[n]] # None
     /\ \A at \in {1, 2} : (OwnUnit(n, at) /\ <<n, at, 1>> \in processed) => Usable(list[n])

Spoilt(n) == ~HasUnit(n) \/ \E k, l \in Bad(n) : k # l

Origin ==
  (fresh /\ writer # None) =>
    /\ file # None => list[Name(file.o)] = file.o \/ New(file.o)
    /\ \A n \in Names : Listed(n) =>
         IF place < 5 \/ (place = 5 /\ n \in todo)
         THEN New(list[n]) \/ Old(n)
         ELSE Usable(list[n]) \/ Spoilt(n)

------------------------------------------------------------------------------
(* The files.                                                               *)

LEMMA SameFiles ==
  ASSUME UNCHANGED disk, NEW n
  PROVE  /\ Read(n)' = Read(n) /\ Bad(n)' = Bad(n) /\ Declared(n)' = Declared(n) /\ HasUnit(n)' = HasUnit(n)
         /\ \A at : OwnUnit(n, at)' = OwnUnit(n, at)
         /\ \A k, m : Told(n, k, m)' = Told(n, k, m)
<1>1. \A k : Exists(k)' = Exists(k) /\ Content(k)' = Content(k)
      BY DEF Exists, Content
<1>2. \A k : Source(k)' = Source(k)
      BY <1>1 DEF Source
<1>3. ASSUME NEW m PROVE Read(m)' = Read(m) /\ Bad(m)' = Bad(m) /\ Declared(m)' = Declared(m)
  <2>1. Keys(m)' = Keys(m)
        BY <1>2 DEF Keys
  <2>2. Read(m)' = Read(m)
        BY <1>1, <2>1 DEF Read
  <2>3. Bad(m)' = Bad(m) /\ Declared(m)' = Declared(m)
        BY <1>1, <2>2 DEF Bad, Declared
  <2> QED
    BY <2>2, <2>3
<1>4. \A k, m : Told(n, k, m)' = Told(n, k, m)
      BY <1>3 DEF Told
<1>5. Aliased(n)' = Aliased(n)
      BY <1>2 DEF Aliased
<1>6. \A at : OwnUnit(n, at)' = OwnUnit(n, at)
      BY <1>1, <1>5 DEF OwnUnit
<1>7. HasUnit(n)' = HasUnit(n)
      BY <1>6 DEF HasUnit
<1> QED
  BY <1>3, <1>4, <1>6, <1>7

LEMMA SameGood == ASSUME UNCHANGED disk PROVE AllGood' = AllGood
  BY SameFiles DEF AllGood

LEMMA SourceIs ==
  ASSUME TypeOK, NEW n \in Names, NEW at \in {1, 2}
  PROVE  /\ Source(<<n, at, 1>>) \in Keyed /\ Source(<<n, at, 1>>)[2] \in {1, 2}
         /\ Source(<<n, at, 1>>) \in Keys(n)
         /\ Source(<<n, at, 1>>) = <<n, at, 1>> \/ (Source(<<n, at, 1>>)[2] = 2)
<1> DEFINE key == <<n, at, 1>>
<1>1. key \in Keyed
      BY DEF Keyed
<1>2. Source(key) \in Keyed
      BY <1>1, SourceTyped
<1>3. Source(key) = key \/ Source(key) = <<Content(key).to, 2, 1>>
      BY DEF Source
<1>4. Source(key) \in Keys(n)
      BY DEF Keys
<1> QED
  BY <1>2, <1>3, <1>4

\* A file that is loaded is one of those the entries of the service lead to.
LEMMA DropInRead ==
  ASSUME NEW n \in Names, NEW at \in {3, 4}, NEW i, Exists(<<n, at, i>>)
  PROVE  <<n, at, i>> \in Read(n)
  BY DEF Exists, Read, Keys

LEMMA UnitRead ==
  ASSUME NEW n \in Names, NEW at \in {1, 2}, Exists(Source(<<n, at, 1>>))
  PROVE  Source(<<n, at, 1>>) \in Read(n)
  BY DEF Read, Keys

LEMMA NoneBad == ASSUME AllGood, NEW n \in Names, NEW k \in Read(n) PROVE Content(k).kind # "bad"
  BY DEF AllGood, Bad

LEMMA ToldBack ==
  ASSUME NEW n, NEW m, NEW k \in Kinds, Told(n, k, m)
  PROVE  Told(m, Inverse[k], n)
<1>1. Inverse[Inverse[k]] = k
      BY KindsAre
<1> QED
  BY <1>1 DEF Told

------------------------------------------------------------------------------
(* A file that is read, of the units or of the drop-ins.                    *)

Reads(x, key) ==
  /\ file # None /\ x = file.o /\ writer # None
  /\ list[Name(x)] = x \/ (place \in {1, 2} /\ list[Name(x)] = None)
  /\ UNCHANGED <<disk, fresh, up, writer, place, todo, held>>
  /\ list' \in {list, [list EXCEPT ![Name(x)] = x]}
  /\ file' # None => file' = [file EXCEPT !.i = @ + 1]
  /\ \/ place \in {1, 2} /\ key = Source(<<Name(x), place, 1>>) /\ file' = None
     \/ place \in {3, 4} /\ key = <<Name(x), place, file.i>>
  /\ (place \in {1, 2} /\ OwnUnit(Name(x), place)) => key \in processed'

\* Nothing, or the file is added to the definition, or the old one comes back.
Passes(key) ==
  UNCHANGED <<def, olddef>> /\ (processed' = processed \/ (~Exists(key) /\ processed' = processed \cup {key}))
Adds(x, key) ==
  /\ key \in Read(Name(x)) \ processed /\ processed' = processed \cup {key} /\ Content(key).kind # "bad"
  /\ def' = [def EXCEPT ![x] = Loaded(x, key)] /\ olddef' = olddef /\ list'[Name(x)] = x
Fails(x, key) ==
  /\ key \in Read(Name(x)) \ processed /\ processed' = processed \cup {key} /\ Content(key).kind = "bad"
  /\ Restore(x) /\ list' = list

LEMMA UnitLoadReads ==
  ASSUME SInv, NEW t \in Threads, UnitLoad(t)
  PROVE  \E x \in Objects, key \in Keyed : Reads(x, key) /\ (Passes(key) \/ Adds(x, key) \/ Fails(x, key))
<1>1. PICK x \in Objects : x = file.o /\ Name(x) \in Names /\ place \in {1, 2} /\ file # None
      BY FileTyped DEF UnitLoad
<1>2. writer # None /\ (list[Name(x)] = x \/ list[Name(x)] = None)
      BY <1>1, Writing DEF UnitLoad, Loading, SInv, FileAt
<1> DEFINE entry == <<Name(x), place, 1>>
           key == Source(entry)
           new == [list EXCEPT ![Name(x)] = x]
           null == Exists(entry) /\ Content(entry).kind = "null"
<1>3. key \in Keyed
      BY <1>1, SourceIs DEF SInv
<1>4. UNCHANGED <<disk, fresh, up, writer, place, todo, held>> /\ file' = None
      BY DEF UnitLoad, world, lock, clients
<1>5. OwnUnit(Name(x), place) => ~null /\ key = entry
      BY DEF OwnUnit, Source
<1>6. Exists(key) => key \in Read(Name(x))
      BY <1>1, UnitRead
<1>7. new[Name(x)] = x
      BY <1>1 DEF SInv, TypeOK
<1>8. CASE null /\ list' = new /\ Skip
      BY <1>1, <1>2, <1>3, <1>4, <1>5, <1>8 DEF Reads, Passes, Skip
<1>9. CASE key \in processed /\ list' = new /\ Skip
      BY <1>1, <1>2, <1>3, <1>4, <1>9 DEF Reads, Passes, Skip
<1>10. CASE ~Exists(key) /\ processed' = processed \cup {key} /\ UNCHANGED <<def, olddef, failed, list>>
      BY <1>1, <1>2, <1>3, <1>4, <1>10 DEF Reads, Passes
<1>11. CASE key \notin processed /\ Exists(key) /\ Load(x, key) /\ (IF Content(key).kind = "bad" THEN UNCHANGED list ELSE list' = new)
  <2>1. processed' = processed \cup {key} /\ key \in processed'
        BY <1>11 DEF Load
  <2>2. Reads(x, key)
        BY <1>1, <1>2, <1>4, <1>11, <2>1 DEF Reads
  <2>3. CASE Content(key).kind = "bad"
        BY <1>3, <1>6, <1>11, <2>1, <2>2, <2>3 DEF Load, Fails
  <2>4. CASE Content(key).kind # "bad"
        BY <1>3, <1>6, <1>7, <1>11, <2>1, <2>2, <2>4 DEF Load, Adds
  <2> QED
    BY <1>3, <2>2, <2>3, <2>4
<1> QED
  BY <1>1, <1>8, <1>9, <1>10, <1>11 DEF UnitLoad

\* A drop-in is read after those that come before it.
LEMMA DropInLoadReads ==
  ASSUME SInv, InOrder, NEW t \in Threads, DropInLoad(t)
  PROVE  \E x \in Objects, key \in Keyed : Reads(x, key) /\ (Passes(key) \/ Adds(x, key) \/ Fails(x, key))
<1>1. PICK x \in Objects : x = file.o /\ Name(x) \in Names /\ place \in {3, 4} /\ file # None /\ file.i \in Nat
      BY FileTyped DEF DropInLoad
<1>2. writer # None /\ list[Name(x)] = x
      BY <1>1, Writing DEF DropInLoad, Loading, SInv, FileAt
<1> DEFINE key == <<Name(x), place, file.i>>
<1>3. key \in Keyed
      BY <1>1 DEF Keyed
<1>4. UNCHANGED <<disk, fresh, up, writer, place, todo, held, list>>
      BY DEF DropInLoad, world, lock, clients
<1>5. key \notin processed
      BY <1>1, <1>2 DEF InOrder, Behind
<1>6. CASE ~Exists(key) /\ Skip /\ file' = None
      BY <1>1, <1>2, <1>3, <1>4, <1>6 DEF Reads, Passes, Skip
<1>7. CASE Exists(key) /\ Load(x, key) /\ file' = [file EXCEPT !.i = @ + 1]
  <2>1. processed' = processed \cup {key} /\ key \in Read(Name(x)) \ processed
        BY <1>1, <1>5, <1>7, DropInRead DEF Load
  <2>2. Reads(x, key)
        BY <1>1, <1>2, <1>4, <1>7 DEF Reads
  <2>3. CASE Content(key).kind = "bad"
        BY <1>3, <1>4, <1>7, <2>1, <2>2, <2>3 DEF Load, Fails
  <2>4. CASE Content(key).kind # "bad"
        BY <1>2, <1>3, <1>4, <1>7, <2>1, <2>2, <2>4 DEF Load, Adds
  <2> QED
    BY <1>3, <2>2, <2>3, <2>4
<1> QED
  BY <1>1, <1>6, <1>7 DEF DropInLoad

------------------------------------------------------------------------------
(* The order of a reload.                                                   *)

\* What a step that begins a file does.
LEMMA BeginIs ==
  ASSUME SInv, NEW t \in Threads, NEW n \in Names, UnitBegin(t, n) \/ DropInBegin(t, n)
  PROVE  /\ writer # None /\ file = None /\ n \in todo /\ todo' = todo \ {n} /\ place \in 1..4
         /\ UNCHANGED <<disk, fresh, list, def, olddef, up, writer, place, processed, held>>
         /\ file' # None =>
              /\ file' \in [o : Objects, i : Nat] /\ Name(file'.o) = n
              /\ file'.o = list[n] \/ (list[n] = None /\ ~Referred(file'.o))
<1>1. CASE UnitBegin(t, n)
  <2>1. PICK x \in Objects : (list[n] = x \/ (list[n] = None /\ ~Referred(x) /\ Name(x) = n)) /\ file' = [o |-> x, i |-> 1]
    <3>1. list[n] \in Objects \cup {None}
          BY DEF SInv, TypeOK
    <3> QED
      BY <1>1, <3>1 DEF UnitBegin, Listed
  <2>2. /\ Loading(t) /\ file = None /\ n \in todo /\ todo' = todo \ {n} /\ place \in 1..4
        /\ UNCHANGED <<disk, fresh, list, def, olddef, up, writer, place, processed, held>>
        BY <1>1 DEF UnitBegin, First, world, lock, clients
  <2>3. Name(x) = n
        BY <2>1, NameOf DEF SInv, Named
  <2>4. file' \in [o : Objects, i : Nat] /\ file'.o = x
        BY <2>1
  <2> QED
    BY <2>1, <2>2, <2>3, <2>4, Writing DEF Loading
<1>2. CASE DropInBegin(t, n)
  <2>1. /\ Loading(t) /\ file = None /\ n \in todo /\ todo' = todo \ {n} /\ place \in 1..4
        /\ UNCHANGED <<disk, fresh, list, def, olddef, up, writer, place, processed, held>>
        /\ file' = IF n \in failed \/ ~Listed(n) THEN None ELSE [o |-> list[n], i |-> 1]
        BY <1>2 DEF DropInBegin, First, world, services, lock, clients
  <2>2. file' # None => list[n] \in Objects /\ Name(list[n]) = n /\ file' = [o |-> list[n], i |-> 1]
        BY <2>1 DEF Listed, SInv, TypeOK, Named
  <2>3. file' # None => file' \in [o : Objects, i : Nat] /\ file'.o = list[n]
        BY <2>2
  <2> QED
    BY <2>1, <2>2, <2>3, Writing DEF Loading
<1> QED
  BY <1>1, <1>2

\* The loops over the list, where no file is open.
LEMMA LoopIs ==
  ASSUME SInv, NEW t \in Threads, NEW n \in Names, Prune(t, n) \/ Link(t, n)
  PROVE  /\ writer # None /\ file = None /\ place \in {5, 6} /\ n \in todo /\ todo' \in {todo, todo \ {n}}
         /\ UNCHANGED <<disk, fresh, up, writer, place, file, processed, held>>
<1>1. CASE Prune(t, n)
  <2>1. Loading(t) /\ place = 5 /\ n \in todo /\ todo' = todo \ {n}
        /\ UNCHANGED <<disk, fresh, up, writer, place, file, processed, held>>
        BY <1>1 DEF Prune, world, lock, clients
  <2> QED
    BY <2>1, Writing DEF Loading, SInv, FileAt
<1>2. CASE Link(t, n)
  <2>1. place = 6 /\ n \in todo /\ writer # None
        BY <1>2, LinkBasics
  <2>2. todo' \in {todo, todo \ {n}} /\ UNCHANGED <<disk, fresh, up, writer, place, file, processed, held>>
        BY <1>2, LinkBasics DEF Crash, world, services, lock, loading, clients
  <2> QED
    BY <2>1, <2>2 DEF SInv, FileAt
<1> QED
  BY <1>1, <1>2

LEMMA NextPlaceIs ==
  ASSUME SInv, NEW t \in Threads, NextPlace(t)
  PROVE  /\ writer # None /\ file = None /\ todo = {} /\ place \in 1..5 /\ place' = place + 1
         /\ todo' = IF place < 4 THEN {n \in Names : disk[n][place + 1] # <<>>} ELSE {n \in Names : Listed(n)}
         /\ UNCHANGED <<disk, fresh, list, def, olddef, up, writer, file, processed, held>>
<1>1. /\ Loading(t) /\ file = None /\ todo = {} /\ place' = place + 1 /\ place < 6
      /\ todo' = IF place < 4 THEN {n \in Names : disk[n][place + 1] # <<>>} ELSE {n \in Names : Listed(n)}
      /\ UNCHANGED <<disk, fresh, list, def, olddef, up, writer, file, processed, held>>
      BY DEF NextPlace, world, services, lock, clients
<1>2. place \in 1..6
      BY DEF SInv, TypeOK
<1> QED
  BY <1>1, <1>2, Writing DEF Loading

LEMMA ReloadBeginIs ==
  ASSUME SInv, NEW t \in Threads, ReloadBegin(t)
  PROVE  /\ writer = None /\ writer' # None /\ file' = None /\ place' = 1 /\ processed' = {}
         /\ todo' = {n \in Names : disk[n][1] # <<>>}
         /\ UNCHANGED <<disk, list, up, held>>
         /\ \A n \in Names : list[n] # None => def'[list[n]] = None /\ olddef'[list[n]] = def[list[n]]
<1>1. writer = None /\ writer' # None /\ file' = None /\ place' = 1 /\ processed' = {} /\ UNCHANGED <<disk, list, up, held>>
      /\ todo' = {n \in Names : disk[n][1] # <<>>}
      BY ActorAssumption DEF ReloadBegin
<1>2. ASSUME NEW n \in Names, list[n] # None PROVE def'[list[n]] = None /\ olddef'[list[n]] = def[list[n]]
  <2>1. list[n] \in Objects /\ list[n] \in Live
        BY <1>2 DEF SInv, TypeOK, Live, Listed
  <2> QED
    BY <2>1 DEF ReloadBegin
<1> QED
  BY <1>1, <1>2

LEMMA ReloadEndIs ==
  ASSUME SInv, NEW t \in Threads, ReloadEnd(t)
  PROVE  /\ writer # None /\ writer' = None /\ file = None /\ place = 6 /\ todo = {}
         /\ UNCHANGED <<disk, fresh, list, def, olddef, up, file, place, todo, processed, held>>
<1>1. /\ Loading(t) /\ writer' = None /\ place = 6 /\ todo = {}
      /\ UNCHANGED <<disk, fresh, list, def, olddef, up, file, place, todo, processed, held>>
      BY DEF ReloadEnd, world, services, loading
<1> QED
  BY <1>1, Writing DEF Loading, SInv, FileAt

\* The steps of a reload, once more.
LEMMA Reloads ==
  ASSUME SInv, InOrder, NEW t \in Threads, ReloadStep(t)
  PROVE  \/ ReloadBegin(t) \/ NextPlace(t) \/ ReloadEnd(t)
         \/ \E n \in Names : UnitBegin(t, n) \/ DropInBegin(t, n)
         \/ \E n \in Names : Prune(t, n)
         \/ \E n \in Names : Link(t, n)
         \/ \E x \in Objects, key \in Keyed : Reads(x, key) /\ (Passes(key) \/ Adds(x, key) \/ Fails(x, key))
  BY UnitLoadReads, DropInLoadReads DEF ReloadStep

LEMMA NextOpen == ASSUME SInv, Open, InOrder, [Next]_vars PROVE Open'
<1>1. CASE Quiet
      BY <1>1 DEF Quiet, Open
<1>2. ASSUME NEW t \in Threads, ReloadStep(t) PROVE Open'
  <2>1. CASE ReloadBegin(t)
        BY <2>1, ReloadBeginIs DEF Open
  <2>2. CASE NextPlace(t)
        BY <2>2, NextPlaceIs DEF Open
  <2>3. CASE ReloadEnd(t)
        BY <2>3, ReloadEndIs DEF Open
  <2>4. ASSUME NEW n \in Names, UnitBegin(t, n) \/ DropInBegin(t, n) PROVE Open'
        BY <2>4, BeginIs DEF Open
  <2>5. ASSUME NEW n \in Names, Prune(t, n) \/ Link(t, n) PROVE Open'
        BY <2>5, LoopIs DEF Open
  <2>6. ASSUME NEW x \in Objects, NEW key \in Keyed, Reads(x, key) PROVE Open'
    <3>1. writer # None /\ writer' = writer /\ todo' = todo /\ file # None
          BY <2>6 DEF Reads
    <3>2. file' # None => file'.o = file.o
      <4>1. file \in [o : Objects, i : Nat]
            BY <3>1 DEF SInv, TypeOK
      <4> QED
        BY <2>6, <4>1 DEF Reads
    <3> QED
      BY <3>1, <3>2 DEF Open
  <2> QED
    BY <1>2, <2>1, <2>2, <2>3, <2>4, <2>5, <2>6, Reloads
<1> QED
  BY <1>1, <1>2, Steps

LEMMA NextInOrder == ASSUME SInv, Open, InOrder, [Next]_vars PROVE InOrder'
<1>1. CASE Quiet
      BY <1>1 DEF Quiet, InOrder, Behind
<1>2. ASSUME NEW t \in Threads, ReloadStep(t) PROVE InOrder'
  <2>1. CASE ReloadBegin(t)
        BY <2>1, ReloadBeginIs DEF InOrder
  <2>2. CASE NextPlace(t)
    <3>1. \A k \in processed : k[2] \in {3, 4} => k[2] < place'
      <4> SUFFICES ASSUME NEW k \in processed, k[2] \in {3, 4} PROVE k[2] < place'
          OBVIOUS
      <4>1. Behind(k)
            BY <2>2, NextPlaceIs DEF InOrder
      <4>2. place' = place + 1 /\ place \in 1..5
            BY <2>2, NextPlaceIs
      <4> QED
        BY <4>1, <4>2 DEF Behind
    <3> QED
      BY <2>2, <3>1, NextPlaceIs DEF InOrder, Behind
  <2>3. CASE ReloadEnd(t)
        BY <2>3, ReloadEndIs DEF InOrder
  <2>4. ASSUME NEW n \in Names, UnitBegin(t, n) \/ DropInBegin(t, n) PROVE InOrder'
    <3>1. /\ writer # None /\ n \in todo /\ todo' = todo \ {n} /\ UNCHANGED <<processed, place>>
          /\ file' # None => Name(file'.o) = n
          BY <2>4, BeginIs
    <3>2. ASSUME NEW k \in processed, k[2] \in {3, 4} PROVE Behind(k)'
      <4>1. k[2] < place \/ (k[2] = place /\ k[1] \notin todo)
            BY <3>1, <3>2 DEF InOrder, Behind
      <4> QED
        BY <3>1, <4>1 DEF Behind
    <3> QED
      BY <3>1, <3>2 DEF InOrder
  <2>5. ASSUME NEW n \in Names, Prune(t, n) \/ Link(t, n) PROVE InOrder'
    <3>1. writer # None /\ todo' \subseteq todo /\ UNCHANGED <<processed, place, file>>
          BY <2>5, LoopIs
    <3>2. ASSUME NEW k \in processed, k[2] \in {3, 4} PROVE Behind(k)'
          BY <3>1, <3>2 DEF InOrder, Behind
    <3> QED
      BY <3>1, <3>2 DEF InOrder
  <2>6. ASSUME NEW x \in Objects, NEW key \in Keyed, Reads(x, key), Passes(key) \/ Adds(x, key) \/ Fails(x, key) PROVE InOrder'
    <3>1. writer # None /\ file # None /\ file.o = x /\ UNCHANGED <<todo, place>>
          BY <2>6 DEF Reads
    <3>2. file \in [o : Objects, i : Nat] /\ Name(x) \notin todo
          BY <3>1 DEF SInv, TypeOK, Open
    <3>3. file' # None => file'.o = x /\ file'.i = file.i + 1
          BY <2>6, <3>1, <3>2 DEF Reads
    <3>4. processed' \subseteq processed \cup {key}
          BY <2>6 DEF Passes, Adds, Fails
    <3>5. ASSUME NEW k \in processed, k[2] \in {3, 4} PROVE Behind(k)'
      <4>1. Behind(k)
            BY <3>1, <3>5 DEF InOrder
      <4>2. k \in Keyed
            BY <3>5 DEF SInv, TypeOK, Keyed
      <4>3. k[3] \in Nat /\ file.i \in Nat
            BY <3>2, <4>2 DEF Keyed
      <4>4. file' # None /\ Name(x) = k[1] /\ k[3] < file.i => k[3] < file'.i
            BY <3>3, <4>3
      <4> QED
        BY <3>1, <3>3, <4>1, <4>4 DEF Behind
    <3>6. ASSUME key[2] \in {3, 4} PROVE Behind(key)'
      <4>1. CASE place \in {1, 2} /\ key = Source(<<Name(x), place, 1>>)
        <5>1. key[2] \in {1, 2}
              BY <4>1, SourceIs, NameOf DEF SInv
        <5> QED
          BY <3>6, <5>1
      <4>2. CASE key = <<Name(x), place, file.i>>
        <5>1. file.i \in Nat
              BY <3>2
        <5>2. key[1] = Name(x) /\ key[2] = place /\ key[3] = file.i
              BY <4>2
        <5>3. file' # None => key[3] < file'.i
              BY <3>3, <5>1, <5>2
        <5> QED
          BY <3>1, <3>2, <5>2, <5>3 DEF Behind
      <4> QED
        BY <2>6, <4>1, <4>2 DEF Reads
    <3> QED
      BY <3>4, <3>5, <3>6 DEF InOrder
  <2> QED
    BY <1>2, <2>1, <2>2, <2>3, <2>4, <2>5, <2>6, Reloads
<1> QED
  BY <1>1, <1>2, Steps

------------------------------------------------------------------------------
(* What the maps hold.                                                      *)

LEMMA WhyKeeps ==
  ASSUME UNCHANGED disk, NEW n, NEW e, Why(n, e), Settled(n) => Settled(n)'
  PROVE  Why(n, e)'
<1>1. \A k, m : Told(n, k, m)' = Told(n, k, m)
      BY SameFiles
<1> QED
  BY <1>1 DEF Why

\* Before its service is linked, an entry is one that the files declare.
LEMMA WhyTold ==
  ASSUME NEW n, NEW e, Why(n, e), ~Settled(n)
  PROVE  Told(n, e[1], e[2])
  BY DEF Why

LEMMA WhyIs ==
  ASSUME WhyInv, fresh, AllGood, NEW n \in Names, list[n] # None, def[list[n]] # None, NEW e \in def[list[n]].deps
  PROVE  Why(n, e)
  BY DEF WhyInv, Listed, Usable

\* The object a file is read for has the definition of the service, or none.
LEMMA ReadsFor ==
  ASSUME SInv, NEW x \in Objects, NEW key, Reads(x, key)
  PROVE  /\ Name(x) \in Names
         /\ list[Name(x)] = x \/ (list[Name(x)] = None /\ def[x] = None /\ olddef[x] = None)
         /\ \A m \in Names \ {Name(x)} : list'[m] = list[m] /\ list[m] # x
         /\ list'[Name(x)] = list[Name(x)] \/ list'[Name(x)] = x
         /\ writer # None /\ writer' = writer /\ place \in 1..4 /\ place' = place
<1>1. Name(x) \in Names /\ x # None
      BY NameOf
<1>2. list[Name(x)] = x \/ (list[Name(x)] = None /\ def[x] = None /\ olddef[x] = None)
      BY <1>1 DEF Reads, SInv, Dead
<1>3. \A m \in Names \ {Name(x)} : list[m] # x
      BY <1>1 DEF SInv, Named
<1>4. list' \in {list, [list EXCEPT ![Name(x)] = x]} /\ list \in [Names -> Objects \cup {None}]
      BY DEF Reads, SInv, TypeOK
<1>5. (\A m \in Names \ {Name(x)} : list'[m] = list[m]) /\ (list'[Name(x)] = list[Name(x)] \/ list'[Name(x)] = x)
      BY <1>1, <1>4
<1> QED
  BY <1>1, <1>2, <1>3, <1>5 DEF Reads

LEMMA ReadsWhy ==
  ASSUME SInv, WhyInv, NEW x \in Objects, NEW key \in Keyed, Reads(x, key), Passes(key) \/ Adds(x, key) \/ Fails(x, key)
  PROVE  WhyInv'
<1>1. SUFFICES ASSUME fresh', AllGood', NEW n \in Names, list'[n] # None, def'[list'[n]] # None, NEW e \in def'[list'[n]].deps
               PROVE  Told(n, e[1], e[2])'
      BY DEF WhyInv, Why, Listed, Usable
<1>2. fresh /\ AllGood /\ UNCHANGED disk
      BY <1>1, SameGood DEF Reads
<1>3. SUFFICES Told(n, e[1], e[2])
      BY <1>2, SameFiles
<1>4. ~Settled(n)
      BY ReadsFor DEF Settled
<1>5. ASSUME list[n] # None, def[list[n]] # None, e \in def[list[n]].deps PROVE Told(n, e[1], e[2])
      BY <1>2, <1>4, <1>5, WhyIs, WhyTold
<1>6. CASE n # Name(x)
  <2>1. list'[n] = list[n] /\ list[n] # x
        BY <1>1, <1>6, ReadsFor
  <2>3. list[n] \in Objects
        BY <1>1, <2>1 DEF SInv, TypeOK
  <2>2. def'[list[n]] = def[list[n]]
        BY <2>1, <2>3 DEF Passes, Adds, Fails, Restore, SInv, TypeOK
  <2> QED
    BY <1>1, <1>5, <2>1, <2>2
<1>7. CASE n = Name(x)
  <2>1. list'[n] = x
        BY <1>1, <1>7, ReadsFor
  <2>2. ASSUME def[x] # None, e \in def[x].deps PROVE Told(n, e[1], e[2])
    <3>1. list[n] = x
          BY <1>7, <2>2, ReadsFor
    <3> QED
      BY <1>5, <2>2, <3>1, NameOf
  <2>3. CASE Passes(key)
        BY <1>1, <2>1, <2>2, <2>3 DEF Passes
  <2>4. CASE Adds(x, key)
    <3>1. def'[x] = Loaded(x, key)
          BY <2>4 DEF Adds, SInv, TypeOK
    <3> DEFINE old == IF def[x] = None THEN NoDef ELSE def[x]
    <3>2. e \in {<<f[1], f[2], None>> : f \in Content(key).deps} \/ e \in old.deps
          BY <1>1, <2>1, <3>1, PutElements DEF Loaded
    <3>3. CASE e \in old.deps
          BY <2>2, <3>3 DEF NoDef
    <3>4. CASE e \in {<<f[1], f[2], None>> : f \in Content(key).deps}
      <4>1. PICK f \in Content(key).deps : e = <<f[1], f[2], None>>
            BY <3>4
      <4>2. key \in Read(n) /\ Exists(key)
            BY <1>7, <2>4 DEF Adds, Read
      <4>3. f = <<f[1], f[2]>>
            BY <4>1, <4>2, ContentTyped DEF SInv, FileType
      <4>4. f \in Declared(n)
            BY <4>1, <4>2 DEF Declared
      <4> QED
        BY <4>1, <4>3, <4>4 DEF Told
    <3> QED
      BY <3>2, <3>3, <3>4
  <2>5. CASE Fails(x, key)
        BY <1>2, <1>7, <2>5, NoneBad DEF Fails
  <2> QED
    BY <2>3, <2>4, <2>5
<1> QED
  BY <1>6, <1>7

LEMMA LinkWhy == ASSUME SInv, WhyInv, NEW t \in Threads, NEW n \in Names, Link(t, n) PROVE WhyInv'
<1> DEFINE o == list[n]
<1>1. place = 6 /\ n \in todo /\ writer # None /\ list[n] \in Objects /\ Name(list[n]) = n
      BY LinkBasics
<1>2. CASE Crash("link")
  <2>1. AllGood' = AllGood /\ UNCHANGED <<disk, fresh, list, def, writer, place, todo>>
        BY <1>2, SameGood DEF Crash, world, services, lock, loading
  <2>2. SUFFICES ASSUME fresh, AllGood, NEW m \in Names, list[m] # None, def[list[m]] # None, NEW e \in def[list[m]].deps
                 PROVE  Why(m, e)'
        BY <2>1 DEF WhyInv, Listed, Usable
  <2> QED
    BY <2>1, <2>2, WhyIs, WhyKeeps DEF Settled, Listed
<1>3. CASE ~Crash("link")
  <2>1. /\ def[o] # None /\ \A e \in def[o].deps : list[e[2]] # None => def[list[e[2]]] # None
        /\ def' = Linked(o) /\ todo' = todo \ {n} /\ UNCHANGED <<disk, fresh, list, writer, place>>
        BY <1>3, LinkBasics DEF world, lock
  <2>2. AllGood' = AllGood
        BY <2>1, SameGood
  <2>3. SUFFICES ASSUME fresh, AllGood, NEW m \in Names, list[m] # None, def'[list[m]] # None, NEW e \in def'[list[m]].deps
                 PROVE  Why(m, e)'
        BY <2>1, <2>2 DEF WhyInv, Listed, Usable
  <2>4. Settled(m) => Settled(m)'
        BY <2>1 DEF Settled, Listed
  <2>5. list[m] \in Objects /\ Name(list[m]) = m
        BY <2>3 DEF SInv, TypeOK, Named
  <2>6. def[list[m]] # None
        BY <1>1, <2>1, <2>3, <2>5, LinkedIs DEF SInv
  <2>7. CASE e \in def[list[m]].deps
        BY <2>1, <2>3, <2>4, <2>6, <2>7, WhyIs, WhyKeeps
  <2>8. ~Settled(n)
        BY <1>1 DEF Settled
  <2>9. ASSUME NEW f \in def[o].deps PROVE Told(n, f[1], f[2]) /\ f[1] \in Kinds /\ f[2] \in Names
    <3>1. Told(n, f[1], f[2])
          BY <1>1, <2>1, <2>3, <2>8, NameOf, WhyIs, WhyTold
    <3>2. f \in Edges
          BY <1>1, <2>1 DEF SInv, TypeOK, DefType, Edges
    <3> QED
      BY <3>1, <3>2 DEF Edges
  <2>10. \A k, d : Told(m, k, d)' = Told(m, k, d)
        BY <2>1, SameFiles
  <2>11. CASE m = n /\ e \notin def[list[m]].deps
    <3>1. def'[o].deps = Put(def[o].deps, Own(o))
          BY <1>1, <2>1, LinkedIs DEF SInv
    <3>2. e \in Own(o)
          BY <2>3, <2>11, <3>1, PutElements
    <3>3. PICK f \in def[o].deps : e = <<Target(f[1]), f[2], list[f[2]]>>
          BY <3>2 DEF Own
    <3>4. Settled(n)'
          BY <1>1, <2>1, <2>3, <2>11 DEF Settled, Listed
    <3>5. Told(n, f[1], f[2]) /\ e[2] = f[2] /\ e[1] = Target(f[1])
          BY <2>9, <3>3
    <3>6. CASE f[1] = "Requisite"
          BY <2>10, <2>11, <3>4, <3>5, <3>6 DEF Why, Target
    <3>7. CASE f[1] # "Requisite"
          BY <2>10, <2>11, <3>5, <3>7 DEF Why, Target
    <3> QED
      BY <3>6, <3>7
  <2>12. CASE m # n /\ e \notin def[list[m]].deps
    <3>1. list[m] # o
          BY <1>1, <2>5, <2>12
    <3>2. def'[list[m]].deps \in {def[list[m]].deps, Put(def[list[m]].deps, Back(o, list[m]))}
          BY <1>1, <2>1, <2>5, <2>6, <3>1, LinkedIs DEF SInv
    <3>3. e \in Back(o, list[m])
          BY <2>3, <2>12, <3>2, PutElements
    <3>4. PICK f \in def[o].deps : e = <<Inverse[f[1]], n, o>> /\ f[2] = m
          BY <1>1, <2>5, <3>3 DEF Back
    <3>5. Told(m, Inverse[f[1]], n)
          BY <2>9, <3>4, ToldBack
    <3>6. e[1] = Inverse[f[1]] /\ e[2] = n
          BY <3>4
    <3> QED
      BY <2>10, <3>5, <3>6 DEF Why
  <2> QED
    BY <2>7, <2>11, <2>12
<1> QED
  BY <1>2, <1>3

LEMMA NextWhy == ASSUME SInv, InOrder, WhyInv, [Next]_vars PROVE WhyInv'
<1>1. ASSUME UNCHANGED disk, fresh' => fresh, \A n \in Names : list'[n] # None => list'[n] = list[n], def' = def,
             \A n \in Names : Settled(n) => list'[n] = None \/ Settled(n)'
      PROVE  WhyInv'
  <2>1. SUFFICES ASSUME fresh, AllGood, NEW n \in Names, list'[n] # None, def[list[n]] # None, NEW e \in def[list[n]].deps
                 PROVE  Why(n, e)'
        BY <1>1, SameGood DEF WhyInv, Listed, Usable
  <2> QED
    BY <1>1, <2>1, WhyIs, WhyKeeps
<1>2. CASE Quiet
  <2>1. CASE fresh' = FALSE
        BY <2>1 DEF WhyInv
  <2>2. CASE UNCHANGED <<disk, fresh>>
        BY <1>1, <1>2, <2>2 DEF Quiet, Settled, Listed
  <2> QED
    BY <1>2, <2>1, <2>2 DEF Quiet
<1>3. ASSUME NEW t \in Threads, ReloadStep(t) PROVE WhyInv'
  <2>1. CASE ReloadBegin(t)
        BY <2>1, ReloadBeginIs DEF WhyInv, Listed, Usable
  <2>2. CASE NextPlace(t)
    <3>1. /\ UNCHANGED <<disk, fresh, list, def, writer>> /\ writer # None /\ place \in 1..5
          BY <2>2, NextPlaceIs
    <3>2. \A n \in Names : ~Settled(n)
          BY <3>1 DEF Settled
    <3> QED
      BY <1>1, <3>1, <3>2
  <2>3. CASE ReloadEnd(t)
        BY <1>1, <2>3, ReloadEndIs DEF Settled, Listed
  <2>4. ASSUME NEW n \in Names, UnitBegin(t, n) \/ DropInBegin(t, n) PROVE WhyInv'
    <3>1. UNCHANGED <<disk, fresh, list, def>> /\ writer # None /\ place \in 1..4
          BY <2>4, BeginIs
    <3>2. \A m \in Names : ~Settled(m)
          BY <3>1 DEF Settled
    <3> QED
      BY <1>1, <3>1, <3>2
  <2>5. ASSUME NEW n \in Names, Prune(t, n) PROVE WhyInv'
    <3>1. UNCHANGED <<disk, fresh>> /\ writer # None
          BY <2>5, LoopIs
    <3>2. place = 5 /\ def' = def /\ list' \in {list, [list EXCEPT ![n] = None]}
          BY <2>5 DEF Prune
    <3>3. \A m \in Names : ~Settled(m)
          BY <3>1, <3>2 DEF Settled
    <3>4. list \in [Names -> Objects \cup {None}]
          BY DEF SInv, TypeOK
    <3>5. \A m \in Names : list'[m] # None => list'[m] = list[m]
          BY <3>2, <3>4
    <3> QED
      BY <1>1, <3>1, <3>2, <3>3, <3>5
  <2>6. ASSUME NEW n \in Names, Link(t, n) PROVE WhyInv'
        BY <2>6, LinkWhy
  <2>7. ASSUME NEW x \in Objects, NEW key \in Keyed, Reads(x, key), Passes(key) \/ Adds(x, key) \/ Fails(x, key) PROVE WhyInv'
        BY <2>7, ReadsWhy
  <2> QED
    BY <1>3, <2>1, <2>2, <2>3, <2>4, <2>5, <2>6, <2>7, Reloads
<1> QED
  BY <1>2, <1>3, Steps

------------------------------------------------------------------------------
(* The lines of a definition.                                               *)

LEMMA OnceMore ==
  ASSUME NEW lines \in Seq(Keyed), Once(lines, processed), NEW key \in Keyed \ processed, processed' = processed \cup {key}
  PROVE  Once(Append(lines, key), processed')
<1> DEFINE more == Append(lines, key)
<1>1. /\ Len(lines) \in Nat /\ DOMAIN lines = 1..Len(lines) /\ DOMAIN more = 1..(Len(lines) + 1)
      /\ more[Len(lines) + 1] = key /\ \A i \in 1..Len(lines) : more[i] = lines[i]
      OBVIOUS
<1> HIDE DEF more
<1>2. \A i \in 1..(Len(lines) + 1) : i \in 1..Len(lines) \/ i = Len(lines) + 1
      BY <1>1
<1>3. \A i \in 1..Len(lines) : more[i] \in processed /\ \A j \in 1..Len(lines) : more[i] = more[j] => i = j
      BY <1>1 DEF Once
<1> QED
  BY <1>1, <1>2, <1>3 DEF Once, more

LEMMA ReadsLines ==
  ASSUME SInv, LinesInv, NEW x \in Objects, NEW key \in Keyed, Reads(x, key), Passes(key) \/ Adds(x, key) \/ Fails(x, key)
  PROVE  LinesInv'
<1>1. SUFFICES ASSUME fresh', NEW n \in Names, Bad(n)' = {}, list'[n] # None, def'[list'[n]] # None
               PROVE  Once(def'[list'[n]].lines, processed')
      BY DEF LinesInv, Listed, Usable
<1>2. fresh /\ Bad(n) = {} /\ UNCHANGED disk
      BY <1>1, SameFiles DEF Reads
<1>3. processed \subseteq processed'
      BY DEF Passes, Adds, Fails
<1>4. ASSUME list[n] # None, def[list[n]] # None PROVE Once(def[list[n]].lines, processed)
      BY <1>2, <1>4 DEF LinesInv, Listed, Usable
<1>5. CASE n # Name(x)
  <2>1. list'[n] = list[n] /\ list[n] # x
        BY <1>1, <1>5, ReadsFor
  <2>2. list[n] \in Objects
        BY <1>1, <2>1 DEF SInv, TypeOK
  <2>3. def'[list[n]] = def[list[n]]
        BY <2>1, <2>2 DEF Passes, Adds, Fails, Restore, SInv, TypeOK
  <2> QED
    BY <1>1, <1>3, <1>4, <2>1, <2>3 DEF Once
<1>6. CASE n = Name(x)
  <2>1. list'[n] = x
        BY <1>1, <1>6, ReadsFor
  <2>2. def[x] # None => Once(def[x].lines, processed)
    <3>1. def[x] # None => list[n] = x
          BY <1>6, ReadsFor
    <3> QED
      BY <1>4, <3>1, NameOf
  <2>3. CASE Passes(key)
        BY <1>1, <1>3, <2>1, <2>2, <2>3 DEF Passes, Once
  <2>4. CASE Adds(x, key)
    <3> DEFINE old == IF def[x] = None THEN NoDef ELSE def[x]
    <3>1. def'[x] = Loaded(x, key) /\ Loaded(x, key).lines = Append(old.lines, key)
          BY <2>4 DEF Adds, Loaded, SInv, TypeOK
    <3>2. old.lines \in Seq(Keyed) /\ Once(old.lines, processed)
      <4>1. CASE def[x] = None
            BY <4>1 DEF NoDef, Once
      <4>2. CASE def[x] # None
            BY <2>2, <4>2 DEF SInv, TypeOK, DefType, Keyed
      <4> QED
        BY <4>1, <4>2
    <3>3. key \in Keyed \ processed /\ processed' = processed \cup {key}
          BY <2>4 DEF Adds
    <3> HIDE DEF old
    <3> QED
      BY <2>1, <3>1, <3>2, <3>3, OnceMore
  <2>5. CASE Fails(x, key)
        BY <1>2, <1>6, <2>5 DEF Fails, Bad
  <2> QED
    BY <2>3, <2>4, <2>5
<1> QED
  BY <1>5, <1>6

LEMMA NextLines == ASSUME SInv, InOrder, LinesInv, [Next]_vars PROVE LinesInv'
<1>1. ASSUME UNCHANGED <<disk, processed>>, fresh' => fresh, \A n \in Names : list'[n] # None => list'[n] = list[n],
             \A n \in Names : (list[n] # None /\ def'[list[n]] # None) =>
                def[list[n]] # None /\ def'[list[n]].lines = def[list[n]].lines
      PROVE  LinesInv'
  <2>1. SUFFICES ASSUME fresh, NEW n \in Names, Bad(n) = {}, list[n] # None, list'[n] = list[n], def'[list[n]] # None
                 PROVE  Once(def'[list[n]].lines, processed')
        BY <1>1, SameFiles DEF LinesInv, Listed, Usable
  <2>2. def'[list[n]].lines = def[list[n]].lines /\ Once(def[list[n]].lines, processed)
        BY <1>1, <2>1 DEF LinesInv, Listed, Usable
  <2> QED
    BY <1>1, <2>1, <2>2 DEF Once
<1>2. CASE Quiet
  <2>1. CASE fresh' = FALSE
        BY <2>1 DEF LinesInv
  <2>2. CASE UNCHANGED <<disk, fresh>>
        BY <1>1, <1>2, <2>2 DEF Quiet
  <2> QED
    BY <1>2, <2>1, <2>2 DEF Quiet
<1>3. ASSUME NEW t \in Threads, ReloadStep(t) PROVE LinesInv'
  <2>1. CASE ReloadBegin(t)
        BY <2>1, ReloadBeginIs DEF LinesInv, Listed, Usable
  <2>2. CASE NextPlace(t)
        BY <1>1, <2>2, NextPlaceIs
  <2>3. CASE ReloadEnd(t)
        BY <1>1, <2>3, ReloadEndIs
  <2>4. ASSUME NEW n \in Names, UnitBegin(t, n) \/ DropInBegin(t, n) PROVE LinesInv'
        BY <1>1, <2>4, BeginIs
  <2>5. ASSUME NEW n \in Names, Prune(t, n) PROVE LinesInv'
    <3>1. UNCHANGED <<disk, fresh, processed>>
          BY <2>5, LoopIs
    <3>2. def' = def /\ list' \in {list, [list EXCEPT ![n] = None]}
          BY <2>5 DEF Prune
    <3>3. list \in [Names -> Objects \cup {None}]
          BY DEF SInv, TypeOK
    <3>4. \A m \in Names : list'[m] # None => list'[m] = list[m]
          BY <3>2, <3>3
    <3> QED
      BY <1>1, <3>1, <3>2, <3>4
  <2>6. ASSUME NEW n \in Names, Link(t, n) PROVE LinesInv'
    <3>1. UNCHANGED <<disk, fresh, processed>>
          BY <2>6, LoopIs
    <3>2. CASE Crash("link")
          BY <1>1, <3>1, <3>2 DEF Crash, services
    <3>3. CASE ~Crash("link")
      <4>1. /\ list[n] \in Objects /\ def[list[n]] # None /\ list' = list
            /\ \A e \in def[list[n]].deps : list[e[2]] # None => def[list[e[2]]] # None
            /\ def' = Linked(list[n])
            BY <2>6, <3>3, LinkBasics
      <4>2. ASSUME NEW m \in Names, list[m] # None, def'[list[m]] # None
            PROVE  def[list[m]] # None /\ def'[list[m]].lines = def[list[m]].lines
        <5>1. list[m] \in Objects
              BY <4>2 DEF SInv, TypeOK
        <5> QED
          BY <4>1, <4>2, <5>1, LinkedIs DEF SInv
      <4> QED
        BY <1>1, <3>1, <4>1, <4>2
    <3> QED
      BY <3>2, <3>3
  <2>7. ASSUME NEW x \in Objects, NEW key \in Keyed, Reads(x, key), Passes(key) \/ Adds(x, key) \/ Fails(x, key) PROVE LinesInv'
        BY <2>7, ReadsLines
  <2> QED
    BY <1>3, <2>1, <2>2, <2>3, <2>4, <2>5, <2>6, <2>7, Reloads
<1> QED
  BY <1>2, <1>3, Steps

------------------------------------------------------------------------------
(* Which services can have no definition when the last loop begins.         *)

LEMMA OwnUnitIs ==
  ASSUME NEW n, NEW at, OwnUnit(n, at)
  PROVE  Source(<<n, at, 1>>) = <<n, at, 1>> /\ disk[n][at] # <<>>
  BY DEF OwnUnit, Source, Exists

LEMMA NextUnitsRead == ASSUME SInv, Open, InOrder, UnitsRead, [Next]_vars PROVE UnitsRead'
<1>1. ASSUME UNCHANGED disk, fresh' => fresh, writer # None, processed \subseteq processed',
             \A n \in Names, at \in {1, 2} :
               (OwnUnit(n, at) /\ Passed(n, at)') => Passed(n, at) \/ <<n, at, 1>> \in processed'
      PROVE  UnitsRead'
  <2>1. \A n, at : OwnUnit(n, at)' = OwnUnit(n, at)
        BY <1>1, SameFiles
  <2> QED
    BY <1>1, <2>1 DEF UnitsRead
<1>2. CASE Quiet
  <2>1. CASE fresh' = FALSE \/ writer = None
        BY <1>2, <2>1 DEF UnitsRead, Quiet
  <2>2. CASE UNCHANGED <<disk, fresh>> /\ writer # None
    <3>1. \A n, at : Passed(n, at)' = Passed(n, at)
          BY <1>2, <2>2 DEF Quiet, Passed
    <3> QED
      BY <1>1, <1>2, <2>2, <3>1 DEF Quiet
  <2> QED
    BY <1>2, <2>1, <2>2 DEF Quiet
<1>3. ASSUME NEW t \in Threads, ReloadStep(t) PROVE UnitsRead'
  <2>1. CASE ReloadBegin(t)
    <3>1. UNCHANGED disk /\ place' = 1 /\ todo' = {n \in Names : disk[n][1] # <<>>}
          BY <2>1, ReloadBeginIs
    <3>2. \A n \in Names, at \in {1, 2} : Passed(n, at)' => at = 1 /\ disk[n][1] = <<>>
          BY <3>1 DEF Passed
    <3>3. \A n \in Names, at \in {1, 2} : ~(OwnUnit(n, at)' /\ Passed(n, at)')
          BY <3>1, <3>2, SameFiles, OwnUnitIs
    <3> QED
      BY <3>3 DEF UnitsRead
  <2>2. CASE NextPlace(t)
    <3>1. /\ writer # None /\ UNCHANGED <<disk, fresh, file, processed>> /\ file = None /\ todo = {}
          /\ place \in 1..5 /\ place' = place + 1
          /\ todo' = IF place < 4 THEN {n \in Names : disk[n][place + 1] # <<>>} ELSE {n \in Names : Listed(n)}
          BY <2>2, NextPlaceIs
    <3>2. ASSUME NEW n \in Names, NEW at \in {1, 2}, OwnUnit(n, at), Passed(n, at)' PROVE Passed(n, at)
      <4>1. at < place' \/ (at = place' /\ n \notin todo')
            BY <3>2 DEF Passed
      <4>2. CASE at = place' /\ n \notin todo'
        <5>1. place < 4 /\ place + 1 = at
              BY <3>1, <4>2
        <5>2. disk[n][at] # <<>>
              BY <3>2, OwnUnitIs
        <5>3. n \in todo'
              BY <3>1, <5>1, <5>2
        <5> QED
          BY <4>2, <5>3
      <4>3. CASE at < place'
            BY <3>1, <4>3 DEF Passed
      <4> QED
        BY <4>1, <4>2, <4>3
    <3> QED
      BY <1>1, <3>1, <3>2
  <2>3. CASE ReloadEnd(t)
        BY <2>3, ReloadEndIs DEF UnitsRead
  <2>4. ASSUME NEW n \in Names, UnitBegin(t, n) \/ DropInBegin(t, n) PROVE UnitsRead'
    <3>1. /\ writer # None /\ file = None /\ todo' = todo \ {n} /\ UNCHANGED <<disk, fresh, place, processed>>
          /\ file' # None => Name(file'.o) = n
          BY <2>4, BeginIs
    <3>2. place \in {1, 2} => file' # None
      <4>1. CASE UnitBegin(t, n)
        <5>1. PICK x \in Objects : file' = [o |-> x, i |-> 1]
              BY <4>1 DEF UnitBegin, Listed, SInv, TypeOK
        <5>2. [o |-> x, i |-> 1] \in [o : Objects, i : Nat]
              OBVIOUS
        <5> QED
          BY <5>1, <5>2, NoneAssumption
      <4>2. CASE DropInBegin(t, n)
            BY <4>2 DEF DropInBegin
      <4> QED
        BY <2>4, <4>1, <4>2
    <3>3. ASSUME NEW m \in Names, NEW at \in {1, 2}, Passed(m, at)' PROVE Passed(m, at)
          BY <3>1, <3>2, <3>3 DEF Passed
    <3> QED
      BY <1>1, <3>1, <3>3
  <2>5. ASSUME NEW n \in Names, Prune(t, n) \/ Link(t, n) PROVE UnitsRead'
    <3>1. writer # None /\ place \in {5, 6} /\ UNCHANGED <<disk, fresh, processed>>
          BY <2>5, LoopIs
    <3>2. \A m \in Names, at \in {1, 2} : Passed(m, at)
          BY <3>1 DEF Passed
    <3> QED
      BY <1>1, <3>1, <3>2
  <2>6. ASSUME NEW x \in Objects, NEW key \in Keyed, Reads(x, key), Passes(key) \/ Adds(x, key) \/ Fails(x, key) PROVE UnitsRead'
    <3>1. processed \subseteq processed'
          BY <2>6 DEF Passes, Adds, Fails
    <3>2. /\ writer # None /\ file # None /\ x = file.o /\ UNCHANGED <<disk, fresh, place, todo>>
          /\ (place \in {1, 2} /\ OwnUnit(Name(x), place)) => key \in processed'
          /\ place \in {1, 2} => key = Source(<<Name(x), place, 1>>)
          BY <2>6 DEF Reads
    <3>3. ASSUME NEW m \in Names, NEW at \in {1, 2}, OwnUnit(m, at), Passed(m, at)'
          PROVE  Passed(m, at) \/ <<m, at, 1>> \in processed'
      <4>1. CASE at < place
            BY <4>1 DEF Passed
      <4>2. CASE at = place /\ m = Name(x)
            BY <3>2, <3>3, <4>2, OwnUnitIs
      <4>3. CASE at = place /\ m # Name(x)
            BY <3>2, <3>3, <4>3 DEF Passed
      <4> QED
        BY <3>2, <3>3, <4>1, <4>2, <4>3 DEF Passed
    <3> QED
      BY <1>1, <3>1, <3>2, <3>3
  <2> QED
    BY <1>3, <2>1, <2>2, <2>3, <2>4, <2>5, <2>6, Reloads
<1> QED
  BY <1>2, <1>3, Steps

LEMMA UpOther == ASSUME SInv, NEW x \in Objects, NEW o \in Objects \ {x}, Start(x) \/ Stop(x) PROVE up'[o] = up[o]
<1>1. ASSUME NEW v, Set(x, v) PROVE up'[o] = up[o]
      BY <1>1 DEF Set, SInv, TypeOK
<1> QED
  BY <1>1 DEF Start, Stop, services

\* Only a reload lets anything refer to an object it has made.
LEMMA NewQuiet ==
  ASSUME SInv, [Next]_vars, writer # None, NEW o \in Objects, New(o), Quiet, \A t \in Threads : ~ReloadStep(t)
  PROVE  New(o)'
<1>1. SUFFICES ~up'[o] /\ \A c \in Clients : held'[c] # o
      BY DEF New, Quiet
<1>2. ~up[o] /\ (\A c \in Clients : held[c] # o) /\ o # None
      BY NameOf DEF New
<1>3. CASE UNCHANGED <<up, held>>
      BY <1>2, <1>3
<1>4. ASSUME NEW c \in Clients, Act(c) PROVE ~up'[o] /\ \A b \in Clients : held'[b] # o
  <2>1. held' = [held EXCEPT ![c] = None] /\ held \in [Clients -> Objects \cup {None}]
        BY <1>4 DEF Act, SInv, TypeOK
  <2>2. held[c] \in Objects /\ o \in Objects \ {held[c]}
        BY <1>2, <1>4 DEF Act, SInv, TypeOK, Holding
  <2>3. up' = up \/ Start(held[c]) \/ Stop(held[c])
        BY <1>4 DEF Act, services
  <2>4. up'[o] = up[o]
        BY <2>2, <2>3, UpOther
  <2> QED
    BY <1>2, <2>1, <2>4
<1>5. ASSUME NEW c \in Clients, Find(c) PROVE FALSE
      BY <1>5 DEF Find
<1>6. ASSUME NEW c \in Clients, NEW n \in Names, NEW op \in Ops, Give(c, op, n) PROVE UNCHANGED <<up, held>>
      BY <1>6 DEF Give, services
<1>7. ASSUME NEW c \in Clients, NEW n \in Names, ReloadCommand(c, n) \/ \E op \in Ops : Command(c, op, n) PROVE UNCHANGED <<up, held>>
  <2>1. "reload" \in Ops
        BY DEF Ops
  <2> QED
    BY <1>6, <1>7, <2>1 DEF ReloadCommand, Command
<1>8. ASSUME NEW x \in Objects, Ends(x) PROVE ~up'[o] /\ held' = held
  <2>1. up \in [Objects -> BOOLEAN]
        BY DEF SInv, TypeOK
  <2> QED
    BY <1>2, <1>8, <2>1 DEF Ends, Set, services, clients
<1>9. ASSUME NEW y \in Objects, NEW x \in Objects, Needs(y, x) PROVE ~up'[o] /\ held' = held
  <2>1. x # o
        BY <1>9 DEF Needs, Usable, New
  <2>2. up'[o] = up[o]
        BY <1>9, <2>1, UpOther DEF Needs
  <2> QED
    BY <1>2, <1>9, <2>2 DEF Needs, clients
<1>10. ASSUME NEW n \in Names, BootStart(n) PROVE FALSE
      BY <1>10 DEF BootStart, SInv, Locked
<1>11. CASE BootRead \/ BootDone \/ Edit \/ UNCHANGED vars
      BY <1>3, <1>11 DEF BootRead, BootDone, Edit, vars, services, clients
<1> QED
  BY <1>2, <1>3, <1>4, <1>5, <1>7, <1>8, <1>9, <1>10, <1>11 DEF Next

\* In a reload nothing comes to refer to it before the last loop.
LEMMA NewReload ==
  ASSUME NEW o \in Objects, New(o), UNCHANGED <<up, held>>,
         \A x \in Objects : \A d \in {def'[x], olddef'[x]} \ {None} :
            d \in {def[x], olddef[x]} \/ \A e \in d.deps : e[3] # o
  PROVE  New(o)'
  BY DEF New

LEMMA OldKeeps ==
  ASSUME NEW n \in Names, Old(n), UNCHANGED disk, processed \subseteq processed',
         list'[n] = list[n], def'[list[n]] = def[list[n]], olddef'[list[n]] = olddef[list[n]],
         \A at \in {1, 2} : (OwnUnit(n, at) /\ <<n, at, 1>> \in processed') => <<n, at, 1>> \in processed
  PROVE  Old(n)'
<1>1. Bad(n)' = Bad(n) /\ \A at : OwnUnit(n, at)' = OwnUnit(n, at)
      BY SameFiles
<1>2. Failed(n) \subseteq Failed(n)'
      BY <1>1 DEF Failed
<1> QED
  BY <1>1, <1>2 DEF Old, Usable

LEMMA SpoiltKeeps == ASSUME UNCHANGED disk, NEW n PROVE Spoilt(n)' = Spoilt(n)
  BY SameFiles DEF Spoilt

\* A file that is read for a service, and those it can be the own unit of.
LEMMA ReadsOwn ==
  ASSUME SInv, NEW x \in Objects, NEW key \in Keyed, Reads(x, key), NEW m \in Names, NEW at \in {1, 2},
         OwnUnit(m, at), key = <<m, at, 1>>
  PROVE  m = Name(x) /\ Exists(key)
<1>1. Exists(key)
      BY DEF OwnUnit
<1>2. key[2] = at /\ key[1] = m
      BY DEF Keyed
<1>3. place \in {1, 2} /\ key = Source(<<Name(x), place, 1>>)
      BY <1>2 DEF Reads
<1>4. ASSUME m # Name(x) PROVE FALSE
  <2>1. key # <<Name(x), place, 1>>
        BY <1>2, <1>4
  <2>2. at = 2
        BY <1>2, <1>3, <2>1 DEF Source
  <2>3. <<Name(x), place>> # <<m, 2>> /\ Name(x) \in Names
        BY <1>4, NameOf
  <2>4. Aliased(m)
        BY <1>3, <2>2, <2>3 DEF Aliased
  <2> QED
    BY <2>2, <2>4 DEF OwnUnit
<1> QED
  BY <1>1, <1>4

LEMMA ReadsNew ==
  ASSUME SInv, NEW x \in Objects, NEW key \in Keyed, Reads(x, key), Passes(key) \/ Adds(x, key) \/ Fails(x, key),
         NEW o \in Objects, New(o)
  PROVE  New(o)'
<1>1. UNCHANGED <<up, held>> /\ o # None
      BY NameOf DEF Reads
<1>2. SUFFICES ASSUME NEW y \in Objects, NEW d \in {def'[y], olddef'[y]} \ {None}, d \notin {def[y], olddef[y]}
               PROVE  \A e \in d.deps : e[3] # o
      BY <1>1, NewReload
<1>3. Adds(x, key) /\ y = x /\ d = Loaded(x, key)
  <2>1. def \in [Objects -> DefType \cup {None}] /\ olddef \in [Objects -> DefType \cup {None}]
        BY DEF SInv, TypeOK
  <2> QED
    BY <1>2, <2>1 DEF Passes, Adds, Fails, Restore
<1> DEFINE old == IF def[x] = None THEN NoDef ELSE def[x]
           new == {<<f[1], f[2], None>> : f \in Content(key).deps}
<1>4. d.deps = Put(old.deps, new)
      BY <1>3 DEF Loaded
<1>5. \A e \in new : e[3] = None
      OBVIOUS
<1>6. \A e \in old.deps : e[3] # o
      BY DEF New, NoDef
<1> HIDE DEF old, new
<1> QED
  BY <1>1, <1>4, <1>5, <1>6, PutElements

LEMMA ReadsOld ==
  ASSUME SInv, NEW x \in Objects, NEW key \in Keyed, Reads(x, key), Passes(key) \/ Adds(x, key) \/ Fails(x, key),
         NEW n \in Names, list[n] # None, Old(n)
  PROVE  Old(n)' /\ list'[n] = list[n]
<1>1. UNCHANGED disk /\ processed \subseteq processed'
      BY DEF Reads, Passes, Adds, Fails
<1>2. list'[n] = list[n] /\ list[n] \in Objects
  <2>1. list[n] \in Objects
        BY DEF SInv, TypeOK
  <2>2. list'[n] = list[n]
        BY <2>1, ReadsFor
  <2> QED
    BY <2>1, <2>2
<1>3. Bad(n)' = Bad(n) /\ \A at : OwnUnit(n, at)' = OwnUnit(n, at)
      BY <1>1, SameFiles
<1>4. Failed(n) \subseteq Failed(n)'
      BY <1>1, <1>3 DEF Failed
<1>5. def \in [Objects -> DefType \cup {None}] /\ olddef \in [Objects -> DefType \cup {None}]
      BY DEF SInv, TypeOK
<1>6. processed' \subseteq processed \cup {key}
      BY DEF Passes, Adds, Fails
<1>7. CASE n # Name(x)
  <2>1. list[n] # x
        BY <1>7, ReadsFor
  <2>2. def'[list[n]] = def[list[n]] /\ olddef'[list[n]] = olddef[list[n]]
        BY <1>2, <1>5, <2>1 DEF Passes, Adds, Fails, Restore
  <2>3. \A at \in {1, 2} : (OwnUnit(n, at) /\ <<n, at, 1>> \in processed') => <<n, at, 1>> \in processed
        BY <1>6, <1>7, ReadsOwn
  <2> QED
    BY <1>1, <1>2, <2>2, <2>3, OldKeeps
<1>8. CASE n = Name(x)
  <2>1. list[n] = x
        BY <1>8, ReadsFor
  <2>2. CASE Passes(key)
    <3>1. def' = def /\ olddef' = olddef
          BY <2>2 DEF Passes
    <3>2. \A at \in {1, 2} : (OwnUnit(n, at) /\ <<n, at, 1>> \in processed') => <<n, at, 1>> \in processed
          BY <2>2 DEF Passes, OwnUnit
    <3> QED
      BY <1>1, <1>2, <3>1, <3>2, OldKeeps
  <2>3. CASE Adds(x, key)
    <3>1. def'[x] # None /\ olddef' = olddef
      <4>1. Loaded(x, key) \in DefType
            BY <2>3, LoadedTyped DEF Adds, Read, SInv
      <4> QED
        BY <1>5, <2>3, <4>1, NoneAssumption DEF Adds
    <3> QED
      BY <1>2, <1>4, <2>1, <3>1 DEF Old, Usable
  <2>4. CASE Fails(x, key)
    <3>1. key \in Failed(n)' /\ key \notin Failed(n)
          BY <1>3, <1>8, <2>4 DEF Fails, Failed, Bad
    <3>2. def'[x] = olddef[x]
          BY <1>5, <2>4 DEF Fails, Restore
    <3> QED
      BY <1>2, <1>4, <2>1, <3>1, <3>2 DEF Old, Usable
  <2> QED
    BY <2>2, <2>3, <2>4
<1> QED
  BY <1>2, <1>7, <1>8

\* The listed object, by another name.
LEMMA NewListed == ASSUME NEW n, NEW o, New(o)', o = list'[n] PROVE New(list[n])'
  BY DEF New

LEMMA ReadsOrigin ==
  ASSUME SInv, Origin, NEW x \in Objects, NEW key \in Keyed, Reads(x, key), Passes(key) \/ Adds(x, key) \/ Fails(x, key)
  PROVE  Origin'
<1>1. UNCHANGED <<fresh, writer, place, todo>> /\ place \in 1..4 /\ file # None /\ x = file.o
      BY ReadsFor DEF Reads
<1>2. SUFFICES ASSUME fresh, writer # None
               PROVE  /\ file' # None => list'[Name(file'.o)] = file'.o
                      /\ \A n \in Names : list'[n] # None => New(list[n])' \/ Old(n)'
      BY <1>1 DEF Origin, Listed
<1>3. file' # None => list'[Name(file'.o)] = file'.o
  <2>1. file' # None => place \in {3, 4} /\ file'.o = x
    <3>1. file \in [o : Objects, i : Nat]
          BY <1>1 DEF SInv, TypeOK
    <3> QED
      BY <1>1, <3>1 DEF Reads
  <2>2. place \in {3, 4} => list[Name(x)] = x
        BY DEF Reads
  <2> QED
    BY <2>1, <2>2, ReadsFor
<1>4. ASSUME NEW n \in Names, list'[n] # None PROVE New(list[n])' \/ Old(n)'
  <2>1. CASE list[n] # None
    <3>1. PICK o \in Objects : o = list[n]
          BY <2>1 DEF SInv, TypeOK
    <3>2. list'[n] = list[n]
          BY <2>1, <3>1, ReadsFor
    <3>3. New(o) \/ Old(n)
          BY <1>1, <1>2, <2>1, <3>1 DEF Origin, Listed
    <3>4. CASE New(o)
      <4>1. New(o)'
            BY <3>4, ReadsNew
      <4> QED
        BY <3>1, <3>2, <4>1, NewListed
    <3> QED
      BY <2>1, <3>3, <3>4, ReadsOld
  <2>2. CASE list[n] = None
    <3>1. n = Name(x) /\ list'[n] = x /\ list[Name(x)] # x
          BY <1>4, <2>2, ReadsFor, NameOf
    <3>2. New(x)
          BY <1>1, <1>2, <3>1 DEF Origin
    <3>3. New(x)'
          BY <3>2, ReadsNew
    <3> QED
      BY <3>1, <3>3, NewListed
  <2> QED
    BY <2>1, <2>2
<1> QED
  BY <1>3, <1>4

LEMMA BeginOrigin ==
  ASSUME SInv, Origin, NEW t \in Threads, NEW n \in Names, UnitBegin(t, n) \/ DropInBegin(t, n)
  PROVE  Origin'
<1>1. /\ writer # None /\ place \in 1..4
      /\ UNCHANGED <<disk, fresh, list, def, olddef, up, writer, place, processed, held>>
      /\ file' # None =>
           /\ file' \in [o : Objects, i : Nat] /\ Name(file'.o) = n
           /\ file'.o = list[n] \/ (list[n] = None /\ ~Referred(file'.o))
      BY BeginIs
<1>2. SUFFICES ASSUME fresh
               PROVE  /\ file' # None => list[Name(file'.o)] = file'.o \/ New(file.o)'
                      /\ \A m \in Names : list[m] # None => New(list[m])' \/ Old(m)'
      BY <1>1 DEF Origin, Listed
<1>3. ASSUME NEW m \in Names, list[m] # None PROVE New(list[m])' \/ Old(m)'
  <2>1. PICK o \in Objects : o = list[m]
        BY <1>3 DEF SInv, TypeOK
  <2>2. New(o) \/ Old(m)
        BY <1>1, <1>2, <1>3, <2>1 DEF Origin, Listed
  <2>3. New(o) => New(o)'
        BY <1>1 DEF New
  <2> QED
    BY <1>1, <2>1, <2>2, <2>3, NewListed, OldKeeps
<1>4. ASSUME file' # None, list[n] = None PROVE New(file.o)'
  <2>1. PICK o \in Objects : o = file'.o /\ Name(o) = n /\ ~Referred(o)
        BY <1>1, <1>4, NameOf
  <2>2. ~up[o]
        BY <1>4, <2>1, NameOf DEF SInv, Dead
  <2>3. New(o)
        BY <2>1, <2>2 DEF New, Referred
  <2>4. New(o)'
        BY <1>1, <2>3 DEF New
  <2> QED
    BY <2>1, <2>4 DEF New
<1> QED
  BY <1>1, <1>3, <1>4

LEMMA PruneOrigin ==
  ASSUME SInv, UnitsRead, Origin, NEW t \in Threads, NEW n \in Names, Prune(t, n)
  PROVE  Origin'
<1>1. /\ writer # None /\ file = None /\ n \in todo
      /\ UNCHANGED <<disk, fresh, up, writer, place, file, processed, held>>
      BY LoopIs
<1>2. /\ place = 5 /\ def' = def /\ olddef' = [olddef EXCEPT ![list[n]] = None] /\ todo' = todo \ {n}
      /\ list' = IF def[list[n]] = None /\ ~up[list[n]] THEN [list EXCEPT ![n] = None] ELSE list
      BY DEF Prune
<1>3. list \in [Names -> Objects \cup {None}] /\ olddef \in [Objects -> DefType \cup {None}] /\ up \in [Objects -> BOOLEAN]
      BY DEF SInv, TypeOK
<1>4. list[n] \in Objects /\ Name(list[n]) = n
      BY <1>1, <1>2 DEF SInv, TypeOK, Named, Todo
<1>5. SUFFICES ASSUME fresh, NEW m \in Names, list'[m] # None
               PROVE  IF m \in todo' THEN New(list[m])' \/ Old(m)' ELSE def'[list'[m]] # None \/ Spoilt(m)'
      BY <1>1, <1>2 DEF Origin, Listed, Usable
<1>6. list'[m] = list[m]
      BY <1>2, <1>3, <1>5
<1>7. PICK o \in Objects : o = list[m]
      BY <1>3, <1>5, <1>6
<1>8. o # None
      BY NameOf
<1>9. CASE m # n
  <2>1. m \in todo' <=> m \in todo
        BY <1>2, <1>9
  <2>2. CASE m \notin todo
    <3>1. def[list[m]] # None \/ Spoilt(m)
          BY <1>1, <1>2, <1>5, <1>7, <1>8, <2>2 DEF Origin, Listed, Usable
    <3> QED
      BY <1>1, <1>2, <1>6, <2>1, <2>2, <3>1, SpoiltKeeps
  <2>3. CASE m \in todo
    <3>1. New(o) \/ Old(m)
          BY <1>1, <1>2, <1>5, <1>7, <1>8, <2>3 DEF Origin, Listed
    <3>2. list[m] # list[n]
          BY <1>4, <1>7, <1>8, <1>9 DEF SInv, Named
    <3>3. olddef'[list[m]] = olddef[list[m]]
          BY <1>2, <1>3, <1>7, <3>2
    <3>4. New(o) => New(o)'
      <4>1. \A x \in Objects : olddef'[x] \in {olddef[x], None}
            BY <1>2, <1>3
      <4> QED
        BY <1>1, <1>2, <4>1, NewReload
    <3>5. Old(m) => Old(m)'
          BY <1>1, <1>2, <1>6, <3>3, OldKeeps
    <3> QED
      BY <1>6, <1>7, <2>1, <2>3, <3>1, <3>4, <3>5, NewListed
  <2> QED
    BY <2>2, <2>3
<1>10. CASE m = n
  <2>1. def[o] # None \/ up[o] = TRUE
        BY <1>2, <1>3, <1>5, <1>7, <1>10
  <2>2. New(o) \/ Old(n)
        BY <1>1, <1>2, <1>5, <1>7, <1>8, <1>10 DEF Origin, Listed
  <2>3. New(o) => def[o] # None
        BY <2>1 DEF New
  <2>4. Old(n) => def[o] # None \/ Spoilt(n)
    <3> SUFFICES ASSUME Old(n), def[o] = None, HasUnit(n) PROVE \E k, l \in Bad(n) : k # l
        BY DEF Spoilt
    <3>1. PICK at \in {1, 2} : OwnUnit(n, at)
          BY DEF HasUnit
    <3>2. <<n, at, 1>> \in processed
      <4>1. Passed(n, at)
            BY <1>2 DEF Passed
      <4> QED
        BY <1>1, <1>5, <3>1, <4>1 DEF UnitsRead
    <3> QED
      BY <1>7, <1>10, <3>1, <3>2 DEF Old, Failed, Usable
  <2> QED
    BY <1>1, <1>2, <1>6, <1>7, <1>10, <2>2, <2>3, <2>4, SpoiltKeeps
<1> QED
  BY <1>9, <1>10

LEMMA LinkOrigin ==
  ASSUME SInv, Origin, NEW t \in Threads, NEW n \in Names, Link(t, n)
  PROVE  Origin'
<1>1. /\ writer # None /\ file = None /\ n \in todo /\ place = 6
      /\ UNCHANGED <<disk, fresh, up, writer, place, file, processed, held>>
      BY LoopIs, LinkBasics
<1>2. list' = list /\ \A x \in Objects : def[x] # None => def'[x] # None
  <2>1. CASE Crash("link")
        BY <2>1 DEF Crash, services
  <2>2. CASE ~Crash("link")
        BY <2>2, LinkBasics, LinkedKeeps DEF SInv
  <2> QED
    BY <2>1, <2>2
<1>3. SUFFICES ASSUME fresh, NEW m \in Names, list[m] # None
               PROVE  def'[list[m]] # None \/ Spoilt(m)'
      BY <1>1, <1>2 DEF Origin, Listed, Usable
<1>4. def[list[m]] # None \/ Spoilt(m)
      BY <1>1, <1>3 DEF Origin, Listed, Usable
<1>5. list[m] \in Objects
      BY <1>3 DEF SInv, TypeOK
<1> QED
  BY <1>1, <1>2, <1>4, <1>5, SpoiltKeeps

LEMMA NextOrigin == ASSUME SInv, LinkInv, InOrder, UnitsRead, Origin, [Next]_vars PROVE Origin'
<1>1. ASSUME NEW t \in Threads, ReloadStep(t) PROVE Origin'
  <2>1. CASE ReloadBegin(t)
    <3>1. /\ writer = None /\ file' = None /\ place' = 1 /\ processed' = {} /\ list' = list
          /\ \A n \in Names : list[n] # None => olddef'[list[n]] = def[list[n]]
          BY <2>1, ReloadBeginIs
    <3>2. ASSUME NEW n \in Names, list[n] # None PROVE Old(n)'
          BY <3>1, <3>2 DEF Old, LinkInv, Settled, Listed
    <3> QED
      BY <3>1, <3>2 DEF Origin, Listed
  <2>2. CASE NextPlace(t)
    <3>1. /\ writer # None /\ file = None /\ todo = {} /\ place \in 1..5 /\ place' = place + 1
          /\ todo' = IF place < 4 THEN {n \in Names : disk[n][place + 1] # <<>>} ELSE {n \in Names : Listed(n)}
          /\ UNCHANGED <<disk, fresh, list, def, olddef, up, writer, file, processed, held>>
          BY <2>2, NextPlaceIs
    <3>2. ASSUME fresh, NEW n \in Names, Listed(n)
          PROVE  IF place' < 5 \/ (place' = 5 /\ n \in todo') THEN New(list[n])' \/ Old(n)' ELSE Usable(list[n])' \/ Spoilt(n)'
      <4>1. CASE place < 5
        <5>1. place' < 5 \/ (place' = 5 /\ n \in todo')
              BY <3>1, <3>2, <4>1
        <5>2. New(list[n]) \/ Old(n)
              BY <3>1, <3>2, <4>1 DEF Origin
        <5>3. New(list[n]) => New(list[n])'
              BY <3>1 DEF New
        <5>4. Old(n) => Old(n)'
              BY <3>1, OldKeeps
        <5> QED
          BY <5>1, <5>2, <5>3, <5>4
      <4>2. CASE place = 5
        <5>1. ~(place' < 5 \/ (place' = 5 /\ n \in todo'))
              BY <3>1, <4>2
        <5>2. Usable(list[n]) \/ Spoilt(n)
              BY <3>1, <3>2, <4>2 DEF Origin
        <5>3. Usable(list[n])' \/ Spoilt(n)'
              BY <3>1, <5>2, SpoiltKeeps DEF Usable
        <5> QED
          BY <5>1, <5>3
      <4> QED
        BY <3>1, <4>1, <4>2
    <3> QED
      BY <3>1, <3>2 DEF Origin, Listed
  <2>3. CASE ReloadEnd(t)
        BY <2>3, ReloadEndIs DEF Origin
  <2>4. ASSUME NEW n \in Names, UnitBegin(t, n) \/ DropInBegin(t, n) PROVE Origin'
        BY <2>4, BeginOrigin
  <2>5. ASSUME NEW n \in Names, Prune(t, n) PROVE Origin'
        BY <2>5, PruneOrigin
  <2>6. ASSUME NEW n \in Names, Link(t, n) PROVE Origin'
        BY <2>6, LinkOrigin
  <2>7. ASSUME NEW x \in Objects, NEW key \in Keyed, Reads(x, key), Passes(key) \/ Adds(x, key) \/ Fails(x, key) PROVE Origin'
        BY <2>7, ReadsOrigin
  <2> QED
    BY <1>1, <2>1, <2>2, <2>3, <2>4, <2>5, <2>6, <2>7, Reloads
<1>2. CASE Quiet /\ \A t \in Threads : ~ReloadStep(t)
  <2>1. SUFFICES ASSUME fresh', writer # None PROVE Origin'
        BY <1>2 DEF Origin, Quiet
  <2>2. UNCHANGED <<disk, fresh, list, def, olddef, writer, place, file, processed, todo>>
        BY <1>2, <2>1 DEF Quiet
  <2>3. \A o \in Objects : New(o) => New(o)'
        BY <1>2, <2>1, NewQuiet
  <2>4. file # None => list[Name(file.o)] = file.o \/ New(file.o)'
    <3>1. file # None => file.o \in Objects
          BY FileTyped
    <3>2. ASSUME file # None, New(file.o) PROVE New(file.o)'
      <4>1. PICK o \in Objects : o = file.o
            BY <3>1, <3>2
      <4> QED
        BY <2>2, <2>3, <3>2, <4>1 DEF New
    <3> QED
      BY <2>1, <2>2, <3>2 DEF Origin
  <2>5. ASSUME NEW n \in Names, Listed(n)
        PROVE  IF place < 5 \/ (place = 5 /\ n \in todo) THEN New(list[n])' \/ Old(n)' ELSE Usable(list[n])' \/ Spoilt(n)'
    <3>1. PICK o \in Objects : o = list[n]
          BY <2>5 DEF Listed, SInv, TypeOK
    <3>2. IF place < 5 \/ (place = 5 /\ n \in todo) THEN New(o) \/ Old(n) ELSE Usable(o) \/ Spoilt(n)
          BY <2>1, <2>2, <2>5, <3>1 DEF Origin
    <3>3. New(o) => New(list[n])'
          BY <2>2, <2>3, <3>1, NewListed
    <3>4. Old(n) => Old(n)'
          BY <2>2, OldKeeps
    <3>5. Usable(o) \/ Spoilt(n) => Usable(list[n])' \/ Spoilt(n)'
          BY <2>2, <3>1, SpoiltKeeps DEF Usable
    <3> QED
      BY <3>2, <3>3, <3>4, <3>5
  <2> QED
    BY <2>1, <2>2, <2>4, <2>5 DEF Origin, Listed
<1> QED
  BY <1>1, <1>2, Steps

------------------------------------------------------------------------------
(* The properties.                                                          *)

\* The last loop is where a nil definition is met, and nothing comes after it.
LEMMA NextLinkCrash == ASSUME SInv, Origin, LinkCrash, [Next]_vars PROVE LinkCrash'
<1>1. CASE UNCHANGED vars
  <2>1. UNCHANGED <<disk, fresh, list, def, crash>>
        BY <1>1 DEF vars, world, services
  <2> QED
    BY <2>1, SpoiltKeeps DEF LinkCrash, Spoilt, Listed, Usable
<1>2. CASE Next /\ ~\E t \in Threads, n \in Names : Link(t, n)
  <2>1. Alive
    <3>1. ASSUME NEW t \in Threads, ReloadStep(t) PROVE Alive
      <4>1. ReloadBegin(t) \/ Loading(t)
            BY <3>1 DEF ReloadStep, UnitLoad, DropInLoad, NextPlace, ReloadEnd, UnitBegin, DropInBegin, Prune, Link
      <4> QED
        BY <4>1 DEF ReloadBegin, Loading
    <3>2. ASSUME NEW c \in Clients, Act(c) \/ Find(c) PROVE Alive
          BY <3>2 DEF Act, Find
    <3>3. ASSUME NEW o \in Objects, Ends(o) \/ \E x \in Objects : Needs(o, x) PROVE Alive
          BY <3>3 DEF Ends, Needs
    <3>4. ASSUME NEW n \in Names, BootStart(n) PROVE Alive
          BY <3>4 DEF BootStart
    <3>5. ASSUME NEW c \in Clients, NEW n \in Names, ReloadCommand(c, n) \/ \E op \in Ops : Command(c, op, n)
          PROVE  Alive
          BY <3>5 DEF ReloadCommand, Command, Give
    <3>6. CASE BootRead \/ BootDone \/ Edit
          BY <3>6 DEF BootRead, BootDone, Edit
    <3> QED
      BY <1>2, <3>1, <3>2, <3>3, <3>4, <3>5, <3>6 DEF Next
  <2>2. ASSUME NEW o, Start(o) \/ Stop(o) PROVE crash' \in {crash, "nil def", "requisite"}
        BY <2>2 DEF Start, Stop
  <2>3. crash' \in {crash, "nil def", "requisite", "nil list"}
    <3>1. ASSUME NEW t \in Threads, ReloadStep(t) PROVE crash' = crash
          BY <1>2, <3>1 DEF ReloadStep, ReloadBegin, UnitLoad, DropInLoad, NextPlace, ReloadEnd, UnitBegin, DropInBegin, Prune
    <3>2. ASSUME NEW c \in Clients, Act(c) PROVE crash' \in {crash, "nil def", "requisite"}
          BY <2>2, <3>2 DEF Act
    <3>3. ASSUME NEW o \in Objects, Ends(o) \/ \E x \in Objects : Needs(o, x) PROVE crash' \in {crash, "nil def", "requisite"}
          BY <2>2, <3>3 DEF Ends, Needs
    <3>4. ASSUME NEW n \in Names, BootStart(n) PROVE crash' \in {crash, "nil def", "requisite"}
          BY <2>2, <3>4 DEF BootStart
    <3>5. ASSUME NEW c \in Clients, NEW n \in Names, ReloadCommand(c, n) \/ \E op \in Ops : Command(c, op, n)
          PROVE  crash' \in {crash, "nil list"}
          BY <3>5 DEF ReloadCommand, Command
    <3>6. ASSUME NEW c \in Clients, Find(c) PROVE crash' = crash
          BY <3>6 DEF Find
    <3>7. CASE BootRead \/ BootDone \/ Edit
          BY <3>7 DEF BootRead, BootDone, Edit
    <3> QED
      BY <1>2, <3>1, <3>2, <3>3, <3>4, <3>5, <3>6, <3>7 DEF Next
  <2> QED
    BY <2>1, <2>3 DEF Alive, LinkCrash
<1>3. ASSUME NEW t \in Threads, NEW n \in Names, Link(t, n) PROVE LinkCrash'
  <2>1. Alive
        BY <1>3 DEF Link, Loading
  <2>2. CASE ~Crash("link")
        BY <1>3, <2>1, <2>2, LinkBasics DEF Alive, LinkCrash
  <2>3. CASE Crash("link")
    <3>1. /\ list[n] # None /\ writer # None /\ place = 6
          /\ def[list[n]] = None \/ \E e \in def[list[n]].deps : list[e[2]] # None /\ def[list[e[2]]] = None
      <4>1. list[n] \in Objects /\ writer # None /\ place = 6
            BY <1>3, LinkBasics
      <4>2. ~(def[list[n]] # None /\ \A e \in def[list[n]].deps : list[e[2]] # None => def[list[e[2]]] # None)
        <5> SUFFICES ASSUME def[list[n]] # None, \A e \in def[list[n]].deps : list[e[2]] # None => def[list[e[2]]] # None
                     PROVE  FALSE
            OBVIOUS
        <5>1. todo' = todo \ {n} /\ n \in todo
              BY <1>3 DEF Link, Listed
        <5>2. todo' = todo
              BY <2>3 DEF Crash, loading
        <5> QED
          BY <5>1, <5>2
      <4> QED
        BY <4>1, <4>2, NameOf
    <3>2. PICK m \in Names : list[m] # None /\ def[list[m]] = None
      <4>1. CASE def[list[n]] = None
            BY <3>1, <4>1
      <4>2. CASE def[list[n]] # None
        <5>1. PICK e \in def[list[n]].deps : list[e[2]] # None /\ def[list[e[2]]] = None
              BY <3>1, <4>2
        <5>2. list[n] \in Objects
              BY <3>1 DEF SInv, TypeOK
        <5>3. e \in Edges
              BY <4>2, <5>2 DEF SInv, TypeOK, DefType, Edges
        <5> QED
          BY <5>1, <5>3 DEF Edges
      <4> QED
        BY <4>1, <4>2
    <3>3. UNCHANGED <<disk, fresh, list, def>>
          BY <2>3 DEF Crash, world, services
    <3>4. fresh => Spoilt(m)
          BY <3>1, <3>2 DEF Origin, Listed, Usable
    <3> QED
      BY <3>2, <3>3, <3>4, SpoiltKeeps DEF LinkCrash, Spoilt, Listed, Usable
  <2> QED
    BY <2>2, <2>3
<1> QED
  BY <1>1, <1>2, <1>3

FInv == SInv /\ LinkInv /\ Open /\ InOrder /\ WhyInv /\ LinesInv /\ UnitsRead /\ Origin /\ LinkCrash

LEMMA FInvAlways == Spec => []FInv
<1>1. Init => FInv
  <2> SUFFICES ASSUME Init PROVE FInv
      OBVIOUS
  <2>1. SInv
        BY InitSInv
  <2>2. fresh = FALSE /\ writer = None /\ file = None /\ list = [n \in Names |-> None] /\ crash = "none"
        BY DEF Init
  <2>3. LinkInv
        BY <2>2 DEF LinkInv, Settled, Listed
  <2>4. Open /\ InOrder /\ WhyInv /\ LinesInv /\ UnitsRead /\ Origin /\ LinkCrash
        BY <2>2 DEF Open, InOrder, WhyInv, LinesInv, UnitsRead, Origin, LinkCrash
  <2> QED
    BY <2>1, <2>3, <2>4 DEF FInv
<1>2. FInv /\ [Next]_vars => FInv'
  <2> SUFFICES ASSUME FInv, [Next]_vars PROVE FInv'
      OBVIOUS
  <2>1. SInv /\ LinkInv /\ Open /\ InOrder /\ WhyInv /\ LinesInv /\ UnitsRead /\ Origin /\ LinkCrash
        BY DEF FInv
  <2>2. SInv' /\ LinkInv'
        BY <2>1, NextSInv, NextLinkInv
  <2>3. Open' /\ InOrder'
        BY <2>1, NextOpen, NextInOrder
  <2>4. WhyInv' /\ LinesInv'
        BY <2>1, NextWhy, NextLines
  <2>5. UnitsRead' /\ Origin' /\ LinkCrash'
        BY <2>1, NextUnitsRead, NextOrigin, NextLinkCrash
  <2> QED
    BY <2>2, <2>3, <2>4, <2>5 DEF FInv
<1> QED
  BY <1>1, <1>2, PTL DEF Spec

\* The maps hold what the files of one of the two sides declare (Justified):
\* Reload starts from no definition (daemons.go:95-96), and what the loop that
\* links adds comes from an entry of one side.
THEOREM RegistryJustified == Spec => []Justified
<1>1. WhyInv /\ LinkInv => Justified
      BY DEF WhyInv, LinkInv, Settled, Why, Justified, Usable
<1>2. FInv => Justified
      BY <1>1 DEF FInv
<1> QED
  BY <1>2, FInvAlways, PTL

\* No file is read twice into the definition of a service whose own files load
\* (ReadOnce): Reload starts from no definition, the one from before comes back
\* only for a service with a file that fails, a unit is looked up in
\* processedFiles and drop-ins come in order (daemons.go:96, 154, 229, 240).
THEOREM RegistryReadOnce == Spec => []ReadOnce
<1>1. LinesInv /\ LinkInv => ReadOnce
      BY DEF LinesInv, LinkInv, Settled, Once, ReadOnce, Usable
<1>2. FInv => ReadOnce
      BY <1>1 DEF FInv
<1> QED
  BY <1>2, FInvAlways, PTL

\* The last loop meets a nil definition only for a service whose unit is gone
\* or taken by an alias, or two of whose files failed (LinkCrash): a first
\* failure brings back the definition from before, a second one takes it away
\* (daemons.go:164-166, 239-241), and only what was listed before can run.
THEOREM RegistryLinkCrash == Spec => []LinkCrash
<1>1. FInv => LinkCrash
      BY DEF FInv
<1> QED
  BY <1>1, FInvAlways, PTL
==============================================================================
