---------------------------- MODULE RegistryProofs -----------------------------
(***************************************************************************)
(* Proofs about Registry for any names, clients, containers and edits: type *)
(* correctness, that between reloads every listed service has a definition *)
(* and the maps of the definitions agree, and what they hold.              *)
(***************************************************************************)
EXTENDS Registry, TLAPS

\* Who reloads holds the lock for writing, who starts at boot for reading.
Locked ==
  /\ \A t \in Threads : pc[t] = "loading" <=> writer = t
  /\ writer # None => readers = {}
  /\ pc[Boot] = "starting" => Boot \in readers

\* A client acts on an object.
Holding == \A c \in Clients : pc[c] = "act" => held[c] # None

\* An object is listed under its own name, or is empty.
Named == \A n \in Names : list[n] # None => Name(list[n]) = n
Dead  == \A o \in Objects : list[Name(o)] # o => def[o] = None /\ olddef[o] = None /\ up[o] = FALSE

\* The file that is read is for the object that is listed, or for a new one.
FileAt ==
  file # None =>
    /\ place \in 1..4
    /\ list[Name(file.o)] = file.o \/ (place \in {1, 2} /\ list[Name(file.o)] = None)

\* The last loops go over the list.
Todo == (writer # None /\ place \in {5, 6}) => \A n \in todo : list[n] # None

SInv == TypeOK /\ Locked /\ Holding /\ Named /\ Dead /\ FileAt /\ Todo

------------------------------------------------------------------------------
(* Operators.                                                               *)

Keyed == Names \X (1..4) \X Nat
Edges == Kinds \X Names \X (Objects \cup {None})

LEMMA KindsAre ==
  /\ Kinds = {"Requires", "RequiredBy", "Wants", "WantedBy", "Requisite", "RequisiteOf", "BindsTo", "BoundBy",
              "PartOf", "ConsistsOf", "Upholds", "UpheldBy", "Conflicts", "ConflictedBy", "Before", "After",
              "OnFailure", "OnSuccess"}
  /\ \A k \in Kinds : Inverse[k] \in Kinds /\ Inverse[Inverse[k]] = k
<1>1. Kinds = {"Requires", "RequiredBy", "Wants", "WantedBy", "Requisite", "RequisiteOf", "BindsTo", "BoundBy",
               "PartOf", "ConsistsOf", "Upholds", "UpheldBy", "Conflicts", "ConflictedBy", "Before", "After",
               "OnFailure", "OnSuccess"}
      BY DEF Kinds, Inverse
<1>2. ASSUME NEW k \in Kinds PROVE Inverse[k] \in Kinds /\ Inverse[Inverse[k]] = k
      BY <1>1, <1>2 DEF Inverse
<1> QED
  BY <1>1, <1>2

LEMMA NameOf == \A o \in Objects : Name(o) \in Names /\ o # None
  BY ActorAssumption DEF Objects, Name

LEMMA LiveAre ==
  ASSUME TypeOK, Named
  PROVE  \A o \in Objects : o \in Live <=> list[Name(o)] = o
<1>1. ASSUME NEW o \in Objects, o \in Live PROVE list[Name(o)] = o
  <2>1. PICK n \in Names : list[n] # None /\ o = list[n]
        BY <1>1 DEF Live, Listed
  <2> QED
    BY <2>1 DEF Named
<1>2. ASSUME NEW o \in Objects, list[Name(o)] = o PROVE o \in Live
      BY <1>2, NameOf DEF Live, Listed
<1> QED
  BY <1>1, <1>2

LEMMA ContentTyped ==
  ASSUME TypeOK, NEW key \in Keyed, Exists(key)
  PROVE  Content(key) \in FileType
<1>1. key[1] \in Names /\ key[2] \in 1..4
      BY DEF Keyed
<1>2. disk[key[1]] \in [1..4 -> Seq(FileType)]
      BY <1>1 DEF TypeOK, DiskType
<1>3. disk[key[1]][key[2]] \in Seq(FileType)
      BY <1>1, <1>2
<1> QED
  BY <1>3 DEF Exists, Content

LEMMA SourceTyped ==
  ASSUME TypeOK, NEW key \in Keyed
  PROVE  Source(key) \in Keyed
<1>1. CASE Exists(key) /\ Content(key).kind = "link"
  <2>1. Content(key).to \in Names
        BY <1>1, ContentTyped DEF FileType
  <2> QED
    BY <1>1, <2>1 DEF Source, Keyed
<1> QED
  BY <1>1 DEF Source

LEMMA PutElements ==
  ASSUME NEW D, NEW N, NEW e
  PROVE  e \in Put(D, N) <=> e \in N \/ (e \in D /\ \A f \in N : <<e[1], e[2]>> # <<f[1], f[2]>>)
  BY DEF Put

\* An entry is replaced by one for the same map and name.
LEMMA PutKeeps ==
  ASSUME NEW D, NEW N, NEW e \in D
  PROVE  \E f \in Put(D, N) : f[1] = e[1] /\ f[2] = e[2]
<1>1. CASE \E f \in N : <<e[1], e[2]>> = <<f[1], f[2]>>
      BY <1>1, PutElements
<1>2. CASE \A f \in N : <<e[1], e[2]>> # <<f[1], f[2]>>
      BY <1>2, PutElements
<1> QED
  BY <1>1, <1>2

LEMMA LoadedTyped ==
  ASSUME TypeOK, NEW o \in Objects, NEW key \in Keyed, Exists(key)
  PROVE  Loaded(o, key) \in DefType
<1> DEFINE old == IF def[o] = None THEN NoDef ELSE def[o]
           new == {<<e[1], e[2], None>> : e \in Content(key).deps}
<1>1. NoDef \in DefType
  <2>1. << >> \in Seq(Keyed)
        OBVIOUS
  <2> QED
    BY <2>1 DEF NoDef, DefType, Keyed
<1>2. old.lines \in Seq(Keyed) /\ old.deps \subseteq Edges
      BY <1>1 DEF TypeOK, DefType, Keyed, Edges
<1>3. new \subseteq Edges
  <2>1. Content(key).deps \subseteq Kinds \X Names
        BY ContentTyped DEF FileType
  <2> QED
    BY <2>1 DEF Edges
<1>4. Put(old.deps, new) \subseteq Edges
      BY <1>2, <1>3 DEF Put
<1>5. Append(old.lines, key) \in Seq(Keyed)
      BY <1>2
<1> QED
  BY <1>4, <1>5 DEF Loaded, DefType, Keyed, Edges

LEMMA LoadTyped ==
  ASSUME TypeOK, NEW o \in Objects, NEW key \in Keyed, Exists(key), Load(o, key)
  PROVE  /\ def' \in [Objects -> DefType \cup {None}] /\ olddef' \in [Objects -> DefType \cup {None}]
         /\ processed' \subseteq Keyed /\ failed' \subseteq Names
         /\ \A x \in Objects \ {o} : def'[x] = def[x] /\ olddef'[x] = olddef[x]
<1>1. Loaded(o, key) \in DefType /\ Name(o) \in Names
      BY LoadedTyped, NameOf
<1>2. processed' \subseteq Keyed
      BY DEF Load, TypeOK, Keyed
<1>3. CASE Content(key).kind = "bad"
      BY <1>1, <1>2, <1>3 DEF Load, Restore, TypeOK
<1>4. CASE Content(key).kind # "bad"
      BY <1>1, <1>2, <1>4 DEF Load, TypeOK
<1> QED
  BY <1>3, <1>4

\* The two kinds of entries that linking o makes.
LEMMA OwnTyped ==
  ASSUME TypeOK, NEW o \in Objects, def[o] # None
  PROVE  Own(o) \subseteq Edges /\ \A x \in Objects : Back(o, x) \subseteq Edges
<1>1. def[o].deps \subseteq Edges
      BY DEF TypeOK, DefType, Edges
<1>2. ASSUME NEW e \in Own(o) PROVE e \in Edges
  <2>1. PICK f \in def[o].deps : e = <<Target(f[1]), f[2], list[f[2]]>>
        BY <1>2 DEF Own
  <2>2. f[1] \in Kinds /\ f[2] \in Names
        BY <1>1 DEF Edges
  <2>3. Target(f[1]) \in Kinds
        BY <2>2, KindsAre DEF Target
  <2>4. list[f[2]] \in Objects \cup {None}
        BY <2>2 DEF TypeOK
  <2> QED
    BY <2>1, <2>2, <2>3, <2>4 DEF Edges
<1>3. ASSUME NEW x \in Objects, NEW e \in Back(o, x) PROVE e \in Edges
  <2>1. PICK f \in def[o].deps : e = <<Inverse[f[1]], Name(o), o>>
        BY <1>3 DEF Back
  <2>2. Inverse[f[1]] \in Kinds /\ Name(o) \in Names
        BY <1>1, KindsAre, NameOf DEF Edges
  <2> QED
    BY <2>1, <2>2 DEF Edges
<1> QED
  BY <1>2, <1>3

\* What linking o makes of a definition.
LEMMA LinkedIs ==
  ASSUME TypeOK, Named, NEW o \in Objects, def[o] # None,
         \A e \in def[o].deps : list[e[2]] # None => def[list[e[2]]] # None,
         NEW x \in Objects
  PROVE  /\ def[x] = None => Linked(o)[x] = None
         /\ def[x] # None => /\ Linked(o)[x] \in DefType
                             /\ Linked(o)[x].lines = def[x].lines
                             /\ Linked(o)[x].deps = IF x = o THEN Put(def[x].deps, Own(o))
                                                    ELSE IF x \in Live /\ Back(o, x) # {} THEN Put(def[x].deps, Back(o, x))
                                                    ELSE def[x].deps
<1>1. def[x] # None => def[x] \in [lines : Seq(Keyed), deps : SUBSET Edges]
      BY DEF TypeOK, DefType, Keyed, Edges
<1>2. CASE x = o
  <2>1. Put(def[x].deps, Own(o)) \subseteq Edges
        BY <1>1, <1>2, OwnTyped DEF Put
  <2> QED
    BY <1>1, <1>2, <2>1 DEF Linked, DefType, Keyed, Edges
<1>3. CASE x # o /\ x \in Live /\ Back(o, x) # {}
  <2>1. PICK f \in def[o].deps : x = list[f[2]]
        BY <1>3 DEF Back
  <2>2. def[x] # None
        BY <2>1, NameOf
  <2>3. Put(def[x].deps, Back(o, x)) \subseteq Edges
        BY <1>1, <2>2, OwnTyped DEF Put
  <2> QED
    BY <1>1, <1>3, <2>2, <2>3 DEF Linked, DefType, Keyed, Edges
<1>4. CASE x # o /\ ~(x \in Live /\ Back(o, x) # {})
      BY <1>1, <1>4 DEF Linked, DefType, Keyed, Edges
<1> QED
  BY <1>2, <1>3, <1>4

LEMMA LinkedTyped ==
  ASSUME TypeOK, Named, NEW o \in Objects, def[o] # None,
         \A e \in def[o].deps : list[e[2]] # None => def[list[e[2]]] # None
  PROVE  Linked(o) \in [Objects -> DefType \cup {None}]
<1>1. Linked(o) = [x \in Objects |-> Linked(o)[x]]
      BY DEF Linked
<1>2. \A x \in Objects : Linked(o)[x] \in DefType \cup {None}
      BY LinkedIs
<1> QED
  BY <1>1, <1>2

------------------------------------------------------------------------------
(* The structure, step by step.                                             *)

\* What a step leaves alone of the structure.
LEMMA SameList ==
  ASSUME SInv, UNCHANGED <<list, def, olddef, up, file, place>>
  PROVE  Named' /\ Dead' /\ FileAt'
  BY DEF SInv, Named, Dead, FileAt

LEMMA SameLock ==
  ASSUME SInv, UNCHANGED <<writer, readers>>,
         NEW t \in Threads, NEW p, p # "loading", p = "starting" => t # Boot, pc[t] # "loading", pc' = [pc EXCEPT ![t] = p]
  PROVE  Locked'
  BY DEF SInv, Locked, TypeOK, Threads

LEMMA ReloadBeginSInv == ASSUME SInv, NEW t \in Threads, ReloadBegin(t) PROVE SInv'
<1>1. TypeOK'
  <2>1. def' \in [Objects -> DefType \cup {None}] /\ olddef' \in [Objects -> DefType \cup {None}]
        BY DEF ReloadBegin, SInv, TypeOK
  <2>2. pc' \in [Threads -> Pcs]
        BY DEF ReloadBegin, SInv, TypeOK, Pcs
  <2>3. place' \in 1..6 /\ todo' \subseteq Names /\ processed' = {} /\ failed' = {} /\ fresh' \in BOOLEAN
        BY DEF ReloadBegin
  <2>4. UNCHANGED <<disk, edits, may, wants, list, up, isMasked, readers, want, held, left, crash>> /\ file' = None
        /\ writer' \in Threads
        BY DEF ReloadBegin
  <2> QED
    BY <2>1, <2>2, <2>3, <2>4 DEF SInv, TypeOK
<1>2. Locked'
  <2>1. pc[t] = "reload" /\ writer = None /\ readers = {} /\ pc' = [pc EXCEPT ![t] = "loading"] /\ writer' = t
        /\ readers' = readers
        BY DEF ReloadBegin
  <2>2. t # None /\ \A u \in Threads : pc[u] # "loading"
        BY <2>1, ActorAssumption DEF SInv, Locked
  <2>3. \A u \in Threads : pc'[u] = IF u = t THEN "loading" ELSE pc[u]
        BY <2>1 DEF SInv, TypeOK
  <2> QED
    BY <2>1, <2>2, <2>3 DEF SInv, Locked, Threads
<1>3. Named' /\ FileAt' /\ Todo'
      BY DEF ReloadBegin, SInv, Named, FileAt, Todo
<1>5. Holding'
      BY DEF ReloadBegin, SInv, TypeOK, Holding, Threads
<1>4. Dead'
  <2>1. \A o \in Objects : o \in Live <=> list[Name(o)] = o
        BY LiveAre DEF SInv
  <2> QED
    BY <2>1 DEF ReloadBegin, SInv, Dead
<1> QED
  BY <1>1, <1>2, <1>3, <1>4, <1>5 DEF SInv

LEMMA UnitBeginSInv == ASSUME SInv, NEW t \in Threads, NEW n \in Names, UnitBegin(t, n) PROVE SInv'
<1>1. PICK o \in Objects :
         /\ list[n] = o \/ (list[n] = None /\ Name(o) = n)
         /\ place \in {1, 2} /\ file' = [o |-> o, i |-> 1]
         /\ isMasked' = [isMasked EXCEPT ![o] = FALSE] /\ todo' = todo \ {n}
  <2>1. list[n] \in Objects \cup {None}
        BY DEF SInv, TypeOK
  <2> QED
    BY <2>1 DEF UnitBegin, Listed
<1>2. UNCHANGED <<world, list, def, olddef, up, lock, place, processed, failed, clients, crash>>
      BY DEF UnitBegin
<1>3. TypeOK'
  <2>1. file' \in [o : Objects, i : Nat]
        BY <1>1
  <2>2. isMasked' \in [Objects -> BOOLEAN] /\ todo' \subseteq Names
        BY <1>1 DEF SInv, TypeOK
  <2> QED
    BY <1>2, <2>1, <2>2 DEF SInv, TypeOK, world, lock, clients
<1>4. Named' /\ Dead' /\ Locked' /\ Holding'
      BY <1>2 DEF SInv, Named, Dead, Locked, Holding, lock, clients
<1>5. FileAt'
  <2>1. file'.o = o /\ Name(o) = n
        BY <1>1, NameOf DEF SInv, Named
  <2> QED
    BY <1>1, <1>2, <2>1 DEF FileAt
<1>6. Todo'
      BY <1>1, <1>2 DEF Todo
<1> QED
  BY <1>3, <1>4, <1>5, <1>6 DEF SInv

LEMMA FileTyped == ASSUME SInv, file # None PROVE file.o \in Objects /\ file.i \in Nat /\ Name(file.o) \in Names
  BY NameOf DEF SInv, TypeOK

LEMMA UnitLoadSInv == ASSUME SInv, NEW t \in Threads, UnitLoad(t) PROVE SInv'
<1>1. PICK x \in Objects : x = file.o /\ Name(x) \in Names /\ place \in {1, 2}
      BY FileTyped DEF UnitLoad
<1> DEFINE entry == <<Name(x), place, 1>>
           key == Source(entry)
           new == [list EXCEPT ![Name(x)] = x]
<1>2. entry \in Keyed /\ key \in Keyed
  <2>1. entry \in Keyed
        BY <1>1 DEF Keyed
  <2> QED
    BY <2>1, SourceTyped DEF SInv
<1>3. UNCHANGED <<world, up, lock, place, todo, clients, crash>> /\ file' = None
      BY DEF UnitLoad
<1>4. /\ list' \in {list, new} /\ isMasked' \in [Objects -> BOOLEAN] /\ processed' \subseteq Keyed
      /\ failed' \subseteq Names
      /\ def' \in [Objects -> DefType \cup {None}] /\ olddef' \in [Objects -> DefType \cup {None}]
      /\ \A y \in Objects \ {x} : def'[y] = def[y] /\ olddef'[y] = olddef[y]
      /\ list' = new \/ (def' = def /\ olddef' = olddef) \/ Restore(x)
  <2>1. CASE Skip /\ list' = new /\ isMasked' \in {isMasked, [isMasked EXCEPT ![x] = TRUE]}
        BY <1>1, <2>1 DEF Skip, SInv, TypeOK, Keyed
  <2>2. CASE key \notin processed /\ Exists(key) /\ Load(x, key)
             /\ (IF Content(key).kind = "bad" THEN UNCHANGED list ELSE list' = new) /\ UNCHANGED isMasked
    <3>1. /\ def' \in [Objects -> DefType \cup {None}] /\ olddef' \in [Objects -> DefType \cup {None}]
          /\ processed' \subseteq Keyed /\ failed' \subseteq Names
          /\ \A y \in Objects \ {x} : def'[y] = def[y] /\ olddef'[y] = olddef[y]
          BY <1>1, <1>2, <2>2, LoadTyped DEF SInv
    <3>2. Content(key).kind = "bad" => Restore(x)
          BY <2>2 DEF Load
    <3> QED
      BY <2>2, <3>1, <3>2 DEF SInv, TypeOK
  <2>3. CASE processed' = processed \cup {key} /\ UNCHANGED <<def, olddef, failed, list, isMasked>>
        BY <1>2, <2>3 DEF SInv, TypeOK, Keyed
  <2> QED
    BY <1>1, <2>1, <2>2, <2>3 DEF UnitLoad
<1> HIDE DEF key, entry
<1>5. TypeOK'
  <2>1. list' \in [Names -> Objects \cup {None}]
        BY <1>1, <1>4 DEF SInv, TypeOK
  <2> HIDE DEF new
  <2>2. file' = None /\ UNCHANGED <<up, place, todo, crash>> /\ UNCHANGED world /\ UNCHANGED lock /\ UNCHANGED clients
        BY <1>3
  <2>3. processed' \subseteq Names \X (1..4) \X Nat
        BY <1>4 DEF Keyed
  <2> QED
    BY <1>4, <2>1, <2>2, <2>3 DEF SInv, TypeOK, world, lock, clients
<1>6. Locked' /\ Holding' /\ FileAt'
      BY <1>3 DEF SInv, Locked, Holding, FileAt, lock, clients
<1>7. Todo'
      BY <1>1, <1>3 DEF Todo
<1>8. \A n \in Names : list'[n] = list[n] \/ (n = Name(x) /\ list'[n] = x)
      BY <1>1, <1>4 DEF SInv, TypeOK
<1>9. Named'
      BY <1>8 DEF SInv, Named
<1>10. Dead'
  <2> SUFFICES ASSUME NEW y \in Objects, list'[Name(y)] # y
               PROVE  def'[y] = None /\ olddef'[y] = None /\ up'[y] = FALSE
      BY DEF Dead
  <2>1. list[Name(y)] # y
    <3>1. CASE Name(y) = Name(x)
      <4>1. list[Name(x)] \in {x, None}
            BY <1>1, FileTyped DEF SInv, FileAt, UnitLoad
      <4>2. y # None
            BY NameOf
      <4> QED
        BY <1>8, <3>1, <4>1, <4>2, NameOf
    <3> QED
      BY <1>8, <3>1, NameOf
  <2>2. def[y] = None /\ olddef[y] = None /\ up'[y] = FALSE
        BY <1>3, <2>1 DEF SInv, Dead
  <2>3. CASE y # x
        BY <1>4, <2>2, <2>3
  <2>4. CASE y = x
    <3>1. list' # new
          BY <1>1, <2>4 DEF SInv, TypeOK
    <3> QED
      BY <1>4, <2>2, <2>4, <3>1 DEF Restore, SInv, TypeOK
  <2> QED
    BY <2>3, <2>4
<1> QED
  BY <1>5, <1>6, <1>7, <1>9, <1>10 DEF SInv

LEMMA DropInBeginSInv == ASSUME SInv, NEW t \in Threads, NEW n \in Names, DropInBegin(t, n) PROVE SInv'
<1>1. /\ UNCHANGED <<world, services, lock, place, processed, failed, clients, crash>>
      /\ place \in {3, 4} /\ todo' = todo \ {n}
      /\ file' = IF n \in failed \/ ~Listed(n) THEN None ELSE [o |-> list[n], i |-> 1]
      BY DEF DropInBegin
<1>2. CASE file' = None
  <2>1. TypeOK'
        BY <1>1, <1>2 DEF SInv, TypeOK, world, services, lock, clients
  <2>2. Named' /\ Dead' /\ Locked' /\ Holding' /\ FileAt' /\ Todo'
        BY <1>1, <1>2 DEF SInv, Named, Dead, Locked, Holding, FileAt, Todo, services, lock, clients
  <2> QED
    BY <2>1, <2>2 DEF SInv
<1>3. CASE file' # None
  <2>1. list[n] \in Objects /\ file' = [o |-> list[n], i |-> 1]
        BY <1>1, <1>3 DEF Listed, SInv, TypeOK
  <2>2. file' \in [o : Objects, i : Nat] /\ file'.o = list[n] /\ Name(list[n]) = n
        BY <2>1, NameOf DEF SInv, Named
  <2>3. TypeOK'
        BY <1>1, <2>2 DEF SInv, TypeOK, world, services, lock, clients
  <2>4. Named' /\ Dead' /\ Locked' /\ Holding' /\ Todo'
        BY <1>1 DEF SInv, Named, Dead, Locked, Holding, Todo, services, lock, clients
  <2>5. FileAt'
        BY <1>1, <2>2 DEF FileAt, services
  <2> QED
    BY <2>3, <2>4, <2>5 DEF SInv
<1> QED
  BY <1>2, <1>3

LEMMA DropInLoadSInv == ASSUME SInv, NEW t \in Threads, DropInLoad(t) PROVE SInv'
<1>1. PICK x \in Objects : x = file.o /\ Name(x) \in Names /\ place \in {3, 4} /\ file.i \in Nat
      BY FileTyped DEF DropInLoad
<1> DEFINE key == <<Name(x), place, file.i>>
<1>2. key \in Keyed
      BY <1>1 DEF Keyed
<1>3. UNCHANGED <<world, list, up, isMasked, lock, place, todo, clients, crash>>
      BY DEF DropInLoad
<1>4. /\ processed' \subseteq Keyed /\ failed' \subseteq Names
      /\ def' \in [Objects -> DefType \cup {None}] /\ olddef' \in [Objects -> DefType \cup {None}]
      /\ \A y \in Objects \ {x} : def'[y] = def[y] /\ olddef'[y] = olddef[y]
      /\ file' = None \/ (file' = [file EXCEPT !.i = @ + 1] /\ file # None)
  <2>1. CASE Exists(key) /\ Load(x, key) /\ file' = [file EXCEPT !.i = @ + 1] /\ file # None
        BY <1>2, <2>1, LoadTyped DEF SInv
  <2>2. CASE Skip /\ file' = None
        BY <2>2 DEF Skip, SInv, TypeOK, Keyed
  <2> QED
    BY <1>1, <2>1, <2>2 DEF DropInLoad
<1>5. ASSUME file' # None PROVE file' \in [o : Objects, i : Nat] /\ file'.o = x
  <2>1. file \in [o : Objects, i : Nat] /\ file' = [file EXCEPT !.i = @ + 1]
        BY <1>4, <1>5 DEF SInv, TypeOK
  <2> QED
    BY <1>1, <2>1
<1>6. TypeOK'
  <2>1. processed' \subseteq Names \X (1..4) \X Nat
        BY <1>4 DEF Keyed
  <2> HIDE DEF key
  <2> QED
    BY <1>3, <1>4, <1>5, <2>1 DEF SInv, TypeOK, world, lock, clients
<1>7. Named' /\ Locked' /\ Holding' /\ Todo'
      BY <1>3 DEF SInv, Named, Locked, Holding, Todo, lock, clients
<1>8. list[Name(x)] = x
      BY <1>1 DEF SInv, FileAt, DropInLoad
<1>9. FileAt'
      BY <1>1, <1>3, <1>5, <1>8 DEF FileAt
<1>10. Dead'
      BY <1>3, <1>4, <1>8 DEF SInv, Dead
<1> QED
  BY <1>6, <1>7, <1>9, <1>10 DEF SInv

LEMMA NextPlaceSInv == ASSUME SInv, NEW t \in Threads, NextPlace(t) PROVE SInv'
<1>1. /\ UNCHANGED <<world, services, lock, file, processed, failed, clients, crash>>
      /\ file = None /\ place' = place + 1 /\ place < 6
      /\ todo' = IF place < 4 THEN {n \in Names : disk[n][place + 1] # <<>>} ELSE {n \in Names : Listed(n)}
      BY DEF NextPlace
<1>2. place \in 1..6
      BY DEF SInv, TypeOK
<1>3. place' \in 1..6 /\ todo' \subseteq Names
      BY <1>1, <1>2
<1>4. TypeOK'
      BY <1>1, <1>3 DEF SInv, TypeOK, world, services, lock, clients
<1>5. Named' /\ Dead' /\ Locked' /\ Holding' /\ FileAt'
      BY <1>1 DEF SInv, Named, Dead, Locked, Holding, FileAt, services, lock, clients
<1>6. Todo'
  <2>1. place' \in {5, 6} => todo' = {n \in Names : Listed(n)}
        BY <1>1, <1>2
  <2> QED
    BY <1>1, <2>1 DEF Todo, Listed, services
<1> QED
  BY <1>4, <1>5, <1>6 DEF SInv

\* At the last loops no file is open.
LEMMA PruneSInv == ASSUME SInv, NEW t \in Threads, NEW n \in Names, Prune(t, n) PROVE SInv'
<1>1. /\ place = 5 /\ n \in todo /\ pc[t] = "loading"
      /\ UNCHANGED <<world, def, up, isMasked, lock, place, file, processed, failed, clients, crash>>
      /\ todo' = todo \ {n} /\ olddef' = [olddef EXCEPT ![list[n]] = None]
      /\ list' = IF def[list[n]] = None /\ ~up[list[n]] THEN [list EXCEPT ![n] = None] ELSE list
      BY DEF Prune, Loading
<1>2. writer # None /\ file = None
      BY <1>1, ActorAssumption DEF SInv, Locked, FileAt
<1>3. list[n] \in Objects /\ Name(list[n]) = n
      BY <1>1, <1>2 DEF SInv, Todo, TypeOK, Named
<1>4. TypeOK'
  <2>1. list' \in [Names -> Objects \cup {None}] /\ olddef' \in [Objects -> DefType \cup {None}]
        BY <1>1 DEF SInv, TypeOK
  <2> QED
    BY <1>1, <2>1 DEF SInv, TypeOK, world, lock, clients
<1>5. \A m \in Names \ {n} : list'[m] = list[m]
      BY <1>1 DEF SInv, TypeOK
<1>6. list'[n] = list[n] \/ (list'[n] = None /\ def[list[n]] = None /\ ~up[list[n]])
      BY <1>1 DEF SInv, TypeOK
<1>7. Named' /\ Locked' /\ Holding' /\ FileAt'
      BY <1>1, <1>2, <1>3, <1>5, <1>6 DEF SInv, Named, Locked, Holding, FileAt, lock, clients
<1>8. Todo'
      BY <1>1, <1>2, <1>5 DEF SInv, Todo
<1>9. Dead'
  <2> SUFFICES ASSUME NEW o \in Objects, list'[Name(o)] # o
               PROVE  def'[o] = None /\ olddef'[o] = None /\ up'[o] = FALSE
      BY DEF Dead
  <2>1. CASE list[Name(o)] # o
        BY <1>1, <2>1 DEF SInv, Dead, TypeOK
  <2>2. CASE list[Name(o)] = o
    <3>1. Name(o) = n /\ o = list[n]
          BY <1>5, <2>2, NameOf
    <3>2. def[o] = None /\ ~up[o] /\ olddef'[o] = None
          BY <1>1, <1>3, <1>6, <3>1 DEF SInv, TypeOK
    <3> QED
      BY <1>1, <3>2 DEF SInv, TypeOK
  <2> QED
    BY <2>1, <2>2
<1> QED
  BY <1>4, <1>7, <1>8, <1>9 DEF SInv

\* The service that is linked, and those it names, have definitions, or Reload is no more.
LEMMA LinkBasics ==
  ASSUME SInv, NEW t \in Threads, NEW n \in Names, Link(t, n)
  PROVE  /\ place = 6 /\ n \in todo /\ writer # None
         /\ list[n] \in Objects /\ Name(list[n]) = n
         /\ \/ Crash("link")
            \/ /\ def[list[n]] # None
               /\ \A e \in def[list[n]].deps : e[2] # n /\ (list[e[2]] # None => def[list[e[2]]] # None)
               /\ def' = Linked(list[n]) /\ todo' = todo \ {n}
               /\ UNCHANGED <<world, list, olddef, up, isMasked, lock, place, file, processed, failed, clients, crash>>
<1>1. place = 6 /\ n \in todo /\ pc[t] = "loading"
      BY DEF Link, Loading
<1>2. writer # None
      BY <1>1, ActorAssumption DEF SInv, Locked
<1>3. list[n] \in Objects /\ Name(list[n]) = n
      BY <1>1, <1>2 DEF SInv, Todo, TypeOK, Named
<1> QED
  BY <1>1, <1>2, <1>3 DEF Link, Listed

LEMMA CrashSInv == ASSUME SInv, NEW why \in {"none", "nil list", "nil def", "link", "requisite"}, Crash(why) PROVE SInv'
<1>1. TypeOK'
      BY DEF Crash, SInv, TypeOK, world, services, lock, loading, clients
<1>2. Named' /\ Dead' /\ Locked' /\ Holding' /\ FileAt' /\ Todo'
      BY DEF Crash, SInv, Named, Dead, Locked, Holding, FileAt, Todo, services, lock, loading, clients
<1> QED
  BY <1>1, <1>2 DEF SInv

LEMMA LinkSInv == ASSUME SInv, NEW t \in Threads, NEW n \in Names, Link(t, n) PROVE SInv'
<1>1. CASE Crash("link")
      BY <1>1, CrashSInv
<1>2. CASE ~Crash("link")
  <2> DEFINE o == list[n]
  <2>1. /\ o \in Objects /\ def[o] # None
        /\ \A e \in def[o].deps : list[e[2]] # None => def[list[e[2]]] # None
        /\ def' = Linked(o) /\ todo' = todo \ {n}
        /\ UNCHANGED <<world, list, olddef, up, isMasked, lock, place, file, processed, failed, clients, crash>>
        BY <1>2, LinkBasics
  <2> HIDE DEF o
  <2>2. def' \in [Objects -> DefType \cup {None}] /\ \A x \in Objects : def[x] = None => def'[x] = None
        BY <2>1, LinkedTyped, LinkedIs DEF SInv
  <2>3. TypeOK'
        BY <2>1, <2>2 DEF SInv, TypeOK, world, lock, clients
  <2>4. Named' /\ Dead' /\ Locked' /\ Holding' /\ FileAt' /\ Todo'
        BY <2>1, <2>2 DEF SInv, Named, Dead, Locked, Holding, FileAt, Todo, lock, clients
  <2> QED
    BY <2>3, <2>4 DEF SInv
<1> QED
  BY <1>1, <1>2

LEMMA ReloadEndSInv == ASSUME SInv, NEW t \in Threads, ReloadEnd(t) PROVE SInv'
<1>1. /\ pc[t] = "loading" /\ writer' = None
      /\ pc' = [pc EXCEPT ![t] = IF t = Boot THEN "boot" ELSE IF want[t].op = "reload" THEN "idle" ELSE "again"]
      /\ UNCHANGED <<world, services, readers, loading, want, held, left, crash>>
      BY DEF ReloadEnd, Loading
<1>2. \A u \in Threads : pc'[u] = IF u = t THEN pc'[t] ELSE pc[u]
      BY <1>1 DEF SInv, TypeOK
<1>3. pc'[t] \in {"boot", "idle", "again"}
      BY <1>1 DEF SInv, TypeOK
<1>4. TypeOK'
  <2>1. pc' \in [Threads -> Pcs]
        BY <1>1 DEF SInv, TypeOK, Pcs
  <2> QED
    BY <1>1, <2>1 DEF SInv, TypeOK, world, services, loading
<1>5. Locked'
  <2>1. \A u \in Threads \ {t} : pc[u] # "loading" /\ u # None
        BY <1>1, ActorAssumption DEF SInv, Locked
  <2> QED
    BY <1>1, <1>2, <1>3, <2>1, ActorAssumption DEF SInv, Locked, Threads
<1>6. Holding'
      BY <1>1, <1>2, <1>3 DEF SInv, Holding, Threads
<1>7. Named' /\ Dead' /\ FileAt' /\ Todo'
      BY <1>1 DEF SInv, Named, Dead, FileAt, Todo, services, loading
<1> QED
  BY <1>4, <1>5, <1>6, <1>7 DEF SInv

\* What the goroutines that use a service change.
Uses ==
  /\ UNCHANGED <<list, def, olddef>> /\ up' \in [Objects -> BOOLEAN]
  /\ \A x \in Objects : up'[x] => up[x] \/ def[x] # None
  /\ crash' \in {crash, "nil def", "requisite"}

LEMMA SetUses ==
  ASSUME SInv, NEW o \in Objects, NEW v \in BOOLEAN, v => def[o] # None, Set(o, v), crash' = crash
  PROVE  Uses /\ isMasked' = isMasked
<1>1. up \in [Objects -> BOOLEAN] /\ up' = [up EXCEPT ![o] = v] /\ UNCHANGED <<list, def, olddef, isMasked>>
      BY DEF Set, SInv, TypeOK
<1>2. \A x \in Objects : up'[x] = IF x = o THEN v ELSE up[x]
      BY <1>1
<1> QED
  BY <1>1, <1>2 DEF Uses

LEMMA SameUses ==
  ASSUME SInv, UNCHANGED services, crash' \in {crash, "nil def", "requisite"}
  PROVE  Uses /\ isMasked' = isMasked
  BY DEF Uses, services, SInv, TypeOK

LEMMA StartUses == ASSUME SInv, NEW o \in Objects, Start(o) PROVE Uses /\ isMasked' = isMasked
<1>1. CASE UNCHANGED services /\ crash' \in {crash, "nil def", "requisite"}
      BY <1>1, SameUses
<1>2. CASE Usable(o) /\ Set(o, TRUE) /\ crash' = crash
      BY <1>2, SetUses DEF Usable
<1> QED
  BY <1>1, <1>2 DEF Start

LEMMA StopUses == ASSUME SInv, NEW o \in Objects, Stop(o) PROVE Uses /\ isMasked' = isMasked
<1>1. CASE UNCHANGED services /\ crash' \in {crash, "nil def", "requisite"}
      BY <1>1, SameUses
<1>2. CASE Set(o, FALSE) /\ crash' = crash
      BY <1>2, SetUses
<1> QED
  BY <1>1, <1>2 DEF Stop

\* Such a step keeps the structure, whatever it does to the threads.
LEMMA UsesKeep ==
  ASSUME SInv, Uses, UNCHANGED <<lock, place, file>>, todo' \subseteq todo
  PROVE  /\ list' \in [Names -> Objects \cup {None}] /\ def' \in [Objects -> DefType \cup {None}]
         /\ olddef' \in [Objects -> DefType \cup {None}] /\ up' \in [Objects -> BOOLEAN]
         /\ crash' \in {"none", "nil list", "nil def", "link", "requisite"}
         /\ Named' /\ Dead' /\ FileAt' /\ Todo'
<1>1. UNCHANGED <<list, def, olddef, lock, place, file>>
      BY DEF Uses
<1>2. Named' /\ FileAt' /\ Todo'
      BY <1>1 DEF SInv, Named, FileAt, Todo, lock
<1>3. Dead'
  <2>1. \A x \in Objects : list[Name(x)] # x => up[x] = FALSE /\ def[x] = None
        BY DEF SInv, Dead
  <2>2. \A x \in Objects : list[Name(x)] # x => up'[x] = FALSE
        BY <2>1 DEF Uses
  <2> QED
    BY <1>1, <2>2 DEF SInv, Dead
<1> QED
  BY <1>2, <1>3 DEF Uses, SInv, TypeOK

LEMMA UsesSInv ==
  ASSUME SInv, Uses, UNCHANGED <<world, isMasked, lock, place, file, processed, failed, clients>>, todo' \subseteq todo
  PROVE  SInv'
<1>1. /\ list' \in [Names -> Objects \cup {None}] /\ def' \in [Objects -> DefType \cup {None}]
      /\ olddef' \in [Objects -> DefType \cup {None}] /\ up' \in [Objects -> BOOLEAN]
      /\ crash' \in {"none", "nil list", "nil def", "link", "requisite"}
      /\ Named' /\ Dead' /\ FileAt' /\ Todo'
      BY UsesKeep
<1>2. UNCHANGED world /\ UNCHANGED lock /\ UNCHANGED clients
      OBVIOUS
<1>3. UNCHANGED <<isMasked, place, file, processed, failed>>
      OBVIOUS
<1>4. TypeOK'
      BY <1>1, <1>2, <1>3 DEF SInv, TypeOK, world, lock, clients
<1>5. Locked' /\ Holding'
      BY <1>2 DEF SInv, Locked, Holding, lock, clients
<1> QED
  BY <1>1, <1>4, <1>5 DEF SInv

LEMMA EndsSInv == ASSUME SInv, NEW o \in Objects, Ends(o) PROVE SInv'
<1>1. Uses /\ isMasked' = isMasked
  <2>1. CASE UNCHANGED services /\ crash' = "nil def"
        BY <2>1, SameUses
  <2>2. CASE Set(o, FALSE) /\ crash' = crash
        BY <2>2, SetUses
  <2> QED
    BY <2>1, <2>2 DEF Ends
<1>2. UNCHANGED <<world, lock, loading, clients>>
      BY DEF Ends
<1>3. UNCHANGED <<world, lock, place, file, processed, failed, clients>> /\ todo' \subseteq todo
      BY <1>2 DEF loading
<1> QED
  BY <1>1, <1>3, UsesSInv

LEMMA NeedsSInv == ASSUME SInv, NEW o \in Objects, NEW x \in Objects, Needs(o, x) PROVE SInv'
<1>1. Uses /\ isMasked' = isMasked
      BY StartUses DEF Needs
<1>2. UNCHANGED <<world, lock, loading, clients>>
      BY DEF Needs
<1>3. UNCHANGED <<world, lock, place, file, processed, failed, clients>> /\ todo' \subseteq todo
      BY <1>2 DEF loading
<1> QED
  BY <1>1, <1>3, UsesSInv

LEMMA BootStartSInv == ASSUME SInv, NEW n \in Names, BootStart(n) PROVE SInv'
<1>1. UNCHANGED <<world, lock, place, file, processed, failed, clients>> /\ todo' \subseteq todo
      BY DEF BootStart
<1>2. CASE Listed(n)
  <2>1. list[n] \in Objects /\ Start(list[n])
        BY <1>2 DEF BootStart, Listed, SInv, TypeOK
  <2> QED
    BY <1>1, <2>1, StartUses, UsesSInv
<1>3. CASE ~Listed(n)
      BY <1>1, <1>3, SameUses, UsesSInv DEF BootStart
<1> QED
  BY <1>2, <1>3

\* A thread that does not reload goes on.
LEMMA PcTyped ==
  ASSUME TypeOK, NEW t \in Threads, NEW p \in Pcs, pc' = [pc EXCEPT ![t] = p]
  PROVE  pc' \in [Threads -> Pcs] /\ \A u \in Threads : pc'[u] = IF u = t THEN p ELSE pc[u]
  BY DEF TypeOK

LEMMA BootReadSInv == ASSUME SInv, BootRead PROVE SInv'
<1>1. /\ pc[Boot] = "boot" /\ writer = None /\ readers' = readers \cup {Boot} /\ todo' = wants
      /\ pc' = [pc EXCEPT ![Boot] = "starting"]
      /\ UNCHANGED <<world, services, writer, place, file, processed, failed, want, held, left, crash>>
      BY DEF BootRead
<1>2. Boot \in Threads /\ "starting" \in Pcs
      BY DEF Threads, Pcs
<1>3. pc' \in [Threads -> Pcs] /\ \A u \in Threads : pc'[u] = IF u = Boot THEN "starting" ELSE pc[u]
      BY <1>1, <1>2, PcTyped DEF SInv
<1>4. TypeOK'
  <2>1. readers' \subseteq Threads /\ todo' \subseteq Names
        BY <1>1, <1>2 DEF SInv, TypeOK
  <2> QED
    BY <1>1, <1>3, <2>1 DEF SInv, TypeOK, world, services
<1>5. Locked'
      BY <1>1, <1>3, ActorAssumption DEF SInv, Locked
<1>6. Holding'
      BY <1>1, <1>3 DEF SInv, Holding, Threads
<1>7. Named' /\ Dead' /\ FileAt' /\ Todo'
      BY <1>1 DEF SInv, Named, Dead, FileAt, Todo, services
<1> QED
  BY <1>4, <1>5, <1>6, <1>7 DEF SInv

LEMMA BootDoneSInv == ASSUME SInv, BootDone PROVE SInv'
<1>1. /\ pc[Boot] = "starting" /\ readers' = readers \ {Boot} /\ pc' = [pc EXCEPT ![Boot] = "idle"]
      /\ UNCHANGED <<world, services, writer, loading, want, held, left, crash>>
      BY DEF BootDone
<1>2. Boot \in Threads /\ "idle" \in Pcs
      BY DEF Threads, Pcs
<1>3. pc' \in [Threads -> Pcs] /\ \A u \in Threads : pc'[u] = IF u = Boot THEN "idle" ELSE pc[u]
      BY <1>1, <1>2, PcTyped DEF SInv
<1>4. TypeOK'
  <2>1. readers' \subseteq Threads
        BY <1>1 DEF SInv, TypeOK
  <2> QED
    BY <1>1, <1>3, <2>1 DEF SInv, TypeOK, world, services, loading
<1>5. Locked'
      BY <1>1, <1>2, <1>3 DEF SInv, Locked
<1>6. Holding'
      BY <1>1, <1>3 DEF SInv, Holding, Threads
<1>7. Named' /\ Dead' /\ FileAt' /\ Todo'
      BY <1>1 DEF SInv, Named, Dead, FileAt, Todo, services, loading
<1> QED
  BY <1>4, <1>5, <1>6, <1>7 DEF SInv

LEMMA Fewer == \A m \in Nat : \A k \in 0..m : k > 0 => k - 1 \in 0..m
  OBVIOUS

\* A command that is given.
LEMMA GiveSInv ==
  ASSUME SInv, NEW c \in Clients, NEW op \in Ops, NEW n \in Names, Give(c, op, n),
         NEW p \in Pcs \ {"loading", "act"}, pc' = [pc EXCEPT ![c] = p],
         crash' \in {crash, "nil list"}, p = "starting" => c # Boot
  PROVE  SInv'
<1>1. /\ pc[c] = "idle" /\ left[c] > 0 /\ left' = [left EXCEPT ![c] = @ - 1]
      /\ want' = [want EXCEPT ![c] = [op |-> op, name |-> n]]
      /\ UNCHANGED <<world, services, lock, loading, held>>
      BY DEF Give
<1>2. c \in Threads /\ c # Boot
      BY ActorAssumption DEF Threads
<1>3. pc' \in [Threads -> Pcs] /\ \A u \in Threads : pc'[u] = IF u = c THEN p ELSE pc[u]
      BY <1>2, PcTyped DEF SInv
<1>4. TypeOK'
  <2>1. left' \in [Clients -> 0..MaxCommands]
    <3>1. left[c] \in 0..MaxCommands
          BY DEF SInv, TypeOK
    <3>2. left[c] > 0 /\ MaxCommands \in Nat
          BY <1>1, BoundAssumption
    <3>3. left[c] - 1 \in 0..MaxCommands
          BY <3>1, <3>2, Fewer
    <3> QED
      BY <1>1, <3>3 DEF SInv, TypeOK
  <2>2. want' \in [Clients -> [op : Ops, name : Names]]
        BY <1>1 DEF SInv, TypeOK
  <2>3. crash' \in {"none", "nil list", "nil def", "link", "requisite"}
        BY DEF SInv, TypeOK
  <2> QED
    BY <1>1, <1>3, <2>1, <2>2, <2>3 DEF SInv, TypeOK, world, services, lock, loading
<1>5. Locked'
  <2>1. \A u \in Threads : (pc'[u] = "loading" <=> pc[u] = "loading") /\ (pc'[Boot] = pc[Boot])
        BY <1>1, <1>2, <1>3 DEF Threads
  <2>2. UNCHANGED <<writer, readers>>
        BY <1>1 DEF lock
  <2> QED
    BY <2>1, <2>2, <1>2 DEF SInv, Locked
<1>6. Holding'
      BY <1>1, <1>3 DEF SInv, Holding, Threads
<1>7. Named' /\ Dead' /\ FileAt' /\ Todo'
      BY <1>1 DEF SInv, Named, Dead, FileAt, Todo, services, loading, lock
<1> QED
  BY <1>4, <1>5, <1>6, <1>7 DEF SInv

LEMMA CommandSInv == ASSUME SInv, NEW c \in Clients, NEW op \in Ops, NEW n \in Names, Command(c, op, n) PROVE SInv'
<1>1. PICK p \in {"lookup", "idle"} : pc' = [pc EXCEPT ![c] = p]
      BY DEF Command
<1>2. Give(c, op, n) /\ crash' = crash
      BY DEF Command
<1>3. p \in Pcs \ {"loading", "act"}
      BY DEF Pcs
<1> QED
  BY <1>1, <1>2, <1>3, GiveSInv

LEMMA ReloadCommandSInv == ASSUME SInv, NEW c \in Clients, NEW n \in Names, ReloadCommand(c, n) PROVE SInv'
<1>1. Give(c, "reload", n) /\ pc' = [pc EXCEPT ![c] = "reload"] /\ crash' \in {crash, "nil list"}
      BY DEF ReloadCommand
<1>2. "reload" \in Pcs \ {"loading", "act"} /\ "reload" \in Ops
      BY DEF Pcs, Ops
<1> QED
  BY <1>1, <1>2, GiveSInv

LEMMA FindSInv == ASSUME SInv, NEW c \in Clients, Find(c) PROVE SInv'
<1> DEFINE o == list[want[c].name]
<1>1. PICK p \in {"act", "reload", "idle"} :
         pc' = [pc EXCEPT ![c] = p] /\ (p = "act" => o # None)
      BY DEF Find
<1>2. /\ pc[c] \in {"lookup", "again"} /\ held' = [held EXCEPT ![c] = o]
      /\ UNCHANGED <<world, services, lock, loading, want, left, crash>>
      BY DEF Find
<1>3. c \in Threads /\ c # Boot /\ o \in Objects \cup {None} /\ p \in Pcs
      BY ActorAssumption DEF Threads, SInv, TypeOK, Pcs
<1>4. pc' \in [Threads -> Pcs] /\ \A u \in Threads : pc'[u] = IF u = c THEN p ELSE pc[u]
      BY <1>1, <1>3, PcTyped DEF SInv
<1>5. TypeOK'
  <2>1. held' \in [Clients -> Objects \cup {None}]
        BY <1>2, <1>3 DEF SInv, TypeOK
  <2> QED
    BY <1>2, <1>4, <2>1 DEF SInv, TypeOK, world, services, lock, loading
<1>6. Locked'
      BY <1>1, <1>2, <1>3, <1>4 DEF SInv, Locked, lock
<1>7. Holding'
      BY <1>1, <1>2, <1>3, <1>4 DEF SInv, TypeOK, Holding, Threads
<1>8. Named' /\ Dead' /\ FileAt' /\ Todo'
      BY <1>2 DEF SInv, Named, Dead, FileAt, Todo, services, loading, lock
<1> QED
  BY <1>5, <1>6, <1>7, <1>8 DEF SInv

LEMMA EditSInv == ASSUME SInv, Edit PROVE SInv'
<1>1. /\ edits # <<>> /\ disk' = Head(edits) /\ edits' = Tail(edits) /\ fresh' = FALSE
      /\ UNCHANGED <<may, wants, services, lock, loading, clients, crash>>
      BY DEF Edit
<1>2. disk' \in DiskType /\ edits' \in Seq(DiskType)
  <2>1. edits \in Seq(DiskType)
        BY DEF SInv, TypeOK
  <2> QED
    BY <1>1, <2>1
<1>3. TypeOK'
      BY <1>1, <1>2 DEF SInv, TypeOK, services, lock, loading, clients
<1>4. Named' /\ Dead' /\ FileAt' /\ Todo' /\ Locked' /\ Holding'
      BY <1>1 DEF SInv, Named, Dead, FileAt, Todo, Locked, Holding, services, loading, lock, clients
<1> QED
  BY <1>3, <1>4 DEF SInv

LEMMA StutterSInv == ASSUME SInv, UNCHANGED vars PROVE SInv'
<1>1. TypeOK'
      BY DEF SInv, TypeOK, vars, world, services, lock, loading, clients
<1>2. Named' /\ Dead' /\ FileAt' /\ Todo' /\ Locked' /\ Holding'
      BY DEF SInv, Named, Dead, FileAt, Todo, Locked, Holding, vars, services, loading, lock, clients
<1> QED
  BY <1>1, <1>2 DEF SInv

LEMMA InitSInv == Init => SInv
<1> SUFFICES ASSUME Init PROVE SInv
    OBVIOUS
<1>1. /\ fresh = FALSE /\ list = [n \in Names |-> None]
      /\ def = [o \in Objects |-> None] /\ olddef = [o \in Objects |-> None]
      /\ up = [o \in Objects |-> FALSE] /\ isMasked = [o \in Objects |-> FALSE]
      /\ writer = None /\ readers = {}
      /\ place = 1 /\ todo = {} /\ file = None /\ processed = {} /\ failed = {}
      /\ pc = [t \in Threads |-> IF t = Boot THEN "reload" ELSE "idle"]
      /\ want = [c \in Clients |-> [op |-> "reload", name |-> CHOOSE n \in Names : TRUE]]
      /\ held = [c \in Clients |-> None] /\ left = [c \in Clients |-> MaxCommands] /\ crash = "none"
      BY DEF Init
<1>2. disk \in DiskType /\ edits \in Seq(DiskType) /\ wants \subseteq Names /\ may \in [Clients -> SUBSET (Ops \X Names)]
  <2>1. PICK s \in Scenarios : disk = s.disk /\ edits = s.edits /\ wants = s.wants /\ may = s.may
        BY DEF Init
  <2>2. s \in ScenarioType
        BY ScenarioAssumption
  <2> QED
    BY <2>1, <2>2 DEF ScenarioType
<1>3. want \in [Clients -> [op : Ops, name : Names]]
  <2>1. (CHOOSE n \in Names : TRUE) \in Names
        BY ActorAssumption
  <2> QED
    BY <1>1, <2>1 DEF Ops
<1>4. left \in [Clients -> 0..MaxCommands]
      BY <1>1, BoundAssumption
<1>5. pc \in [Threads -> Pcs]
      BY <1>1 DEF Pcs
<1>6. TypeOK
  <2>1. fresh \in BOOLEAN /\ list \in [Names -> Objects \cup {None}] /\ def \in [Objects -> DefType \cup {None}]
        /\ olddef \in [Objects -> DefType \cup {None}] /\ up \in [Objects -> BOOLEAN] /\ isMasked \in [Objects -> BOOLEAN]
        BY <1>1
  <2>2. writer \in Threads \cup {None} /\ readers \subseteq Threads /\ place \in 1..6 /\ todo \subseteq Names
        /\ file \in [o : Objects, i : Nat] \cup {None} /\ failed \subseteq Names
        /\ held \in [Clients -> Objects \cup {None}] /\ crash \in {"none", "nil list", "nil def", "link", "requisite"}
        BY <1>1
  <2>3. processed \subseteq Names \X (1..4) \X Nat
        BY <1>1
  <2> QED
    BY <1>2, <1>3, <1>4, <1>5, <2>1, <2>2, <2>3 DEF TypeOK
<1>7. Locked /\ Holding
      BY <1>1, ActorAssumption DEF Locked, Holding, Threads
<1>8. Named /\ Dead /\ FileAt /\ Todo
      BY <1>1, NameOf DEF Named, Dead, FileAt, Todo
<1> QED
  BY <1>6, <1>7, <1>8 DEF SInv

\* What a command may change besides the services it acts on.
LEMMA ActBasics ==
  ASSUME SInv, NEW c \in Clients, Act(c)
  PROVE  /\ Uses /\ isMasked' \in [Objects -> BOOLEAN]
         /\ UNCHANGED <<edits, may, lock, loading, want, left>>
         /\ disk' \in DiskType /\ wants' \subseteq Names /\ fresh' \in BOOLEAN
         /\ disk' = disk \/ fresh' = FALSE
         /\ fresh' = fresh \/ fresh' = FALSE
<1>1. PICK o \in Objects : o = held[c] /\ Name(o) \in Names
      BY NameOf DEF Act, SInv, TypeOK, Holding
<1> DEFINE n == Name(o)
<1>2. disk \in DiskType /\ wants \subseteq Names /\ fresh \in BOOLEAN /\ isMasked \in [Objects -> BOOLEAN]
      BY DEF SInv, TypeOK
<1>3. UNCHANGED <<lock, loading, want, left>>
      BY DEF Act
<1>4. CASE (Start(o) \/ Stop(o)) /\ UNCHANGED world
  <2>1. Uses /\ isMasked' = isMasked
        BY <1>4, StartUses, StopUses
  <2>2. UNCHANGED <<disk, edits, may, wants, fresh>>
        BY <1>4 DEF world
  <2> QED
    BY <1>2, <1>3, <2>1, <2>2
<1>5. ASSUME UNCHANGED <<list, def, olddef, up, crash>> PROVE Uses
      BY <1>5 DEF Uses, SInv, TypeOK
<1>6. CASE /\ isMasked' = [isMasked EXCEPT ![o] = @ \/ disk[n][1] = <<>>]
           /\ UNCHANGED <<world, list, def, olddef, up, crash>>
  <2>1. isMasked' \in [Objects -> BOOLEAN]
        BY <1>1, <1>2, <1>6
  <2>2. UNCHANGED <<disk, edits, may, wants, fresh>>
        BY <1>6 DEF world
  <2> QED
    BY <1>2, <1>3, <1>5, <1>6, <2>1, <2>2
<1>7. CASE /\ isMasked' = [isMasked EXCEPT ![o] = FALSE]
           /\ (disk' = [disk EXCEPT ![n][1] = <<>>] /\ fresh' = FALSE) \/ UNCHANGED <<disk, fresh>>
           /\ UNCHANGED <<edits, may, wants, list, def, olddef, up, crash>>
  <2>1. isMasked' \in [Objects -> BOOLEAN]
        BY <1>1, <1>2, <1>7
  <2>2. [disk EXCEPT ![n][1] = <<>>] \in DiskType
    <3>1. << >> \in Seq(FileType)
          OBVIOUS
    <3>2. disk[n] \in [1..4 -> Seq(FileType)]
          BY <1>1, <1>2 DEF DiskType
    <3>3. [disk[n] EXCEPT ![1] = <<>>] \in [1..4 -> Seq(FileType)]
          BY <3>1, <3>2
    <3> QED
      BY <1>1, <1>2, <3>3 DEF DiskType
  <2> QED
    BY <1>2, <1>3, <1>5, <1>7, <2>1, <2>2
<1>8. CASE wants' \in {wants, wants \cup {n}, wants \ {n}} /\ UNCHANGED <<disk, edits, may, fresh, services, crash>>
      BY <1>1, <1>2, <1>3, <1>5, <1>8 DEF services
<1> QED
  BY <1>1, <1>4, <1>6, <1>7, <1>8 DEF Act

LEMMA ActSInv == ASSUME SInv, NEW c \in Clients, Act(c) PROVE SInv'
<1>1. /\ Uses /\ isMasked' \in [Objects -> BOOLEAN]
      /\ UNCHANGED <<edits, may, lock, loading, want, left>>
      /\ disk' \in DiskType /\ wants' \subseteq Names /\ fresh' \in BOOLEAN
      BY ActBasics
<1>2. pc[c] = "act" /\ pc' = [pc EXCEPT ![c] = "idle"] /\ held' = [held EXCEPT ![c] = None]
      BY DEF Act
<1>3. c \in Threads /\ c # Boot /\ "idle" \in Pcs
      BY ActorAssumption DEF Threads, Pcs
<1>4. pc' \in [Threads -> Pcs] /\ \A u \in Threads : pc'[u] = IF u = c THEN "idle" ELSE pc[u]
      BY <1>2, <1>3, PcTyped DEF SInv
<1>5. /\ list' \in [Names -> Objects \cup {None}] /\ def' \in [Objects -> DefType \cup {None}]
      /\ olddef' \in [Objects -> DefType \cup {None}] /\ up' \in [Objects -> BOOLEAN]
      /\ crash' \in {"none", "nil list", "nil def", "link", "requisite"}
      /\ Named' /\ Dead' /\ FileAt' /\ Todo'
      BY <1>1, UsesKeep DEF loading
<1>6. TypeOK'
  <2>1. held' \in [Clients -> Objects \cup {None}]
        BY <1>2 DEF SInv, TypeOK
  <2>2. UNCHANGED <<edits, may, want, left>> /\ UNCHANGED lock /\ UNCHANGED loading
        BY <1>1
  <2> QED
    BY <1>1, <1>4, <1>5, <2>1, <2>2 DEF SInv, TypeOK, lock, loading
<1>7. Locked'
  <2>1. UNCHANGED <<writer, readers>>
        BY <1>1 DEF lock
  <2>2. \A u \in Threads : (pc'[u] = "loading" <=> pc[u] = "loading") /\ pc'[Boot] = pc[Boot]
        BY <1>2, <1>3, <1>4 DEF Threads
  <2> QED
    BY <1>3, <2>1, <2>2 DEF SInv, Locked
<1>8. Holding'
      BY <1>2, <1>4 DEF SInv, TypeOK, Holding, Threads
<1> QED
  BY <1>5, <1>6, <1>7, <1>8 DEF SInv

LEMMA NextSInv == ASSUME SInv, [Next]_vars PROVE SInv'
<1>1. ASSUME NEW t \in Threads, ReloadStep(t) PROVE SInv'
  <2>1. CASE ReloadBegin(t)
        BY <2>1, ReloadBeginSInv
  <2>2. CASE UnitLoad(t)
        BY <2>2, UnitLoadSInv
  <2>3. CASE DropInLoad(t)
        BY <2>3, DropInLoadSInv
  <2>4. CASE NextPlace(t)
        BY <2>4, NextPlaceSInv
  <2>5. CASE ReloadEnd(t)
        BY <2>5, ReloadEndSInv
  <2>6. ASSUME NEW n \in Names, UnitBegin(t, n) PROVE SInv'
        BY <2>6, UnitBeginSInv
  <2>7. ASSUME NEW n \in Names, DropInBegin(t, n) PROVE SInv'
        BY <2>7, DropInBeginSInv
  <2>8. ASSUME NEW n \in Names, Prune(t, n) PROVE SInv'
        BY <2>8, PruneSInv
  <2>9. ASSUME NEW n \in Names, Link(t, n) PROVE SInv'
        BY <2>9, LinkSInv
  <2> QED
    BY <1>1, <2>1, <2>2, <2>3, <2>4, <2>5, <2>6, <2>7, <2>8, <2>9 DEF ReloadStep
<1>2. ASSUME NEW c \in Clients, Find(c) \/ Act(c) PROVE SInv'
      BY <1>2, FindSInv, ActSInv
<1>3. ASSUME NEW c \in Clients, NEW n \in Names, ReloadCommand(c, n) \/ \E op \in Ops : Command(c, op, n) PROVE SInv'
      BY <1>3, ReloadCommandSInv, CommandSInv
<1>4. ASSUME NEW o \in Objects, Ends(o) \/ \E x \in Objects : Needs(o, x) PROVE SInv'
      BY <1>4, EndsSInv, NeedsSInv
<1>5. CASE BootRead \/ BootDone \/ Edit \/ UNCHANGED vars
      BY <1>5, BootReadSInv, BootDoneSInv, EditSInv, StutterSInv
<1>6. ASSUME NEW n \in Names, BootStart(n) PROVE SInv'
      BY <1>6, BootStartSInv
<1> QED
  BY <1>1, <1>2, <1>3, <1>4, <1>5, <1>6 DEF Next

LEMMA SInvAlways == Spec => []SInv
<1>1. Init => SInv
      BY InitSInv
<1>2. SInv /\ [Next]_vars => SInv'
      BY NextSInv
<1> QED
  BY <1>1, <1>2, PTL DEF Spec

\* The model has the types it should have, whatever is edited and loaded when.
THEOREM RegistryTypeOK == Spec => []TypeOK
<1>1. SInv => TypeOK
      BY DEF SInv
<1> QED
  BY <1>1, SInvAlways, PTL

------------------------------------------------------------------------------
(* Between reloads: every listed service has a definition, and the maps     *)
(* agree.                                                                   *)

\* Whoever is not reloading leaves the list, the definitions and the progress
\* of a reload alone.
Quiet ==
  /\ UNCHANGED <<list, def, olddef, writer, place, file, processed, failed>>
  /\ todo' = todo \/ writer = None
  /\ UNCHANGED <<disk, fresh>> \/ fresh' = FALSE

LEMMA Steps == ASSUME SInv, [Next]_vars PROVE Quiet \/ \E t \in Threads : ReloadStep(t)
<1>1. ASSUME NEW c \in Clients, Act(c) PROVE Quiet
  <2>1. Uses /\ UNCHANGED <<lock, loading>> /\ (disk' = disk \/ fresh' = FALSE) /\ (fresh' = fresh \/ fresh' = FALSE)
        BY <1>1, ActBasics
  <2> QED
    BY <2>1 DEF Quiet, Uses, lock, loading
<1>2. ASSUME NEW c \in Clients, Find(c) PROVE Quiet
      BY <1>2 DEF Find, Quiet, world, services, lock, loading
<1>3. ASSUME NEW c \in Clients, NEW n \in Names, NEW op \in Ops, Give(c, op, n) PROVE Quiet
      BY <1>3 DEF Give, Quiet, world, services, lock, loading
<1>4. ASSUME NEW c \in Clients, NEW n \in Names, ReloadCommand(c, n) \/ \E op \in Ops : Command(c, op, n) PROVE Quiet
  <2>1. "reload" \in Ops
        BY DEF Ops
  <2> QED
    BY <1>3, <1>4, <2>1 DEF ReloadCommand, Command
<1>5. ASSUME NEW o \in Objects, Ends(o) \/ \E x \in Objects : Needs(o, x) PROVE Quiet
  <2>1. ASSUME NEW x \in Objects, Needs(o, x) PROVE Quiet
    <3>1. Uses /\ UNCHANGED <<world, lock, loading>>
          BY <2>1, StartUses DEF Needs
    <3> QED
      BY <3>1 DEF Quiet, Uses, world, lock, loading
  <2>2. CASE Ends(o)
        BY <2>2 DEF Ends, Set, Quiet, world, services, lock, loading
  <2> QED
    BY <1>5, <2>1, <2>2
<1>6. CASE BootRead
      BY <1>6 DEF BootRead, Quiet, world, services
<1>7. CASE BootDone
      BY <1>7 DEF BootDone, Quiet, world, services, loading
<1>8. CASE Edit \/ UNCHANGED vars
      BY <1>8 DEF Edit, Quiet, vars, world, services, lock, loading
<1>9. ASSUME NEW n \in Names, BootStart(n) PROVE Quiet
  <2>1. UNCHANGED <<list, def, olddef>>
    <3>1. CASE Listed(n)
      <4>1. list[n] \in Objects /\ Start(list[n])
            BY <1>9, <3>1 DEF BootStart, Listed, SInv, TypeOK
      <4> QED
        BY <4>1, StartUses DEF Uses
    <3> QED
      BY <1>9, <3>1 DEF BootStart, services
  <2>2. writer = None
        BY <1>9 DEF BootStart, SInv, Locked
  <2>3. UNCHANGED <<world, lock, place, file, processed, failed>>
        BY <1>9 DEF BootStart
  <2> QED
    BY <2>1, <2>2, <2>3 DEF Quiet, world, lock
<1> QED
  BY <1>1, <1>2, <1>4, <1>5, <1>6, <1>7, <1>8, <1>9 DEF Next

\* Who reloads holds the lock.
LEMMA Writing == ASSUME SInv, NEW t \in Threads, pc[t] = "loading" PROVE writer = t /\ writer # None
  BY ActorAssumption DEF SInv, Locked

\* A service the last loop of Reload has done, if one is at work.
Settled(n) == Listed(n) /\ (writer = None \/ (place = 6 /\ n \notin todo))

\* An entry of the service n that has been linked.
Backed(n, e) ==
  /\ e[1] # "Requisite" => e[3] = list[e[2]]
  /\ Listed(e[2]) =>
       /\ def[list[e[2]]] # None
       /\ \/ \E f \in def[list[e[2]]].deps : f[1] = Inverse[e[1]] /\ f[2] = n
          \/ e[1] = "Requires" /\ \E f \in def[list[n]].deps : f[1] = "Requisite" /\ f[2] = e[2]

LinkInv == \A n \in Names : Settled(n) => def[list[n]] # None /\ \A e \in def[list[n]].deps : Backed(n, e)

\* Linking keeps what there is, up to the object an entry points to.
LEMMA LinkedKeeps ==
  ASSUME TypeOK, Named, NEW o \in Objects, def[o] # None,
         \A e \in def[o].deps : list[e[2]] # None => def[list[e[2]]] # None,
         NEW x \in Objects, def[x] # None
  PROVE  /\ Linked(o)[x] # None
         /\ \A e \in def[x].deps : \E f \in Linked(o)[x].deps : f[1] = e[1] /\ f[2] = e[2]
<1>1. Linked(o)[x] \in DefType
      BY LinkedIs
<1>2. Linked(o)[x].deps \in {def[x].deps, Put(def[x].deps, Own(o)), Put(def[x].deps, Back(o, x))}
      BY LinkedIs
<1>3. ASSUME NEW e \in def[x].deps PROVE \E f \in Linked(o)[x].deps : f[1] = e[1] /\ f[2] = e[2]
      BY <1>2, PutKeeps
<1> QED
  BY <1>1, <1>3, NoneAssumption

\* What linking makes new of a definition has its other side.
LEMMA LinkedFits ==
  ASSUME SInv, NEW n \in Names, list[n] \in Objects, Name(list[n]) = n, NEW o, o = list[n], def[o] # None,
         \A e \in def[o].deps : e[2] # n /\ (list[e[2]] # None => def[list[e[2]]] # None),
         UNCHANGED list, def' = Linked(o)
  PROVE  /\ \A e \in def'[o].deps : Backed(n, e)'
         /\ \A m \in Names \ {n} : list[m] # None =>
              \A e \in def'[list[m]].deps : e \in def[list[m]].deps \/ Backed(m, e)'
<1>1. TypeOK /\ Named /\ o \in Objects /\ (\A e \in def[o].deps : list[e[2]] # None => def[list[e[2]]] # None)
      BY DEF SInv
<1>2. def[o].deps \subseteq Edges
      BY <1>1 DEF TypeOK, DefType, Edges
<1>3. def'[o].deps = Put(def[o].deps, Own(o))
      BY <1>1, LinkedIs
<1>4. ASSUME NEW f \in def[o].deps PROVE <<Target(f[1]), f[2], list[f[2]]>> \in def'[o].deps
      BY <1>3, PutElements DEF Own
<1>5. ASSUME NEW f \in def[o].deps, f[1] = "Requisite"
      PROVE  \E g \in def'[o].deps : g[1] = "Requisite" /\ g[2] = f[2]
  <2>1. \A g \in Own(o) : g[1] # "Requisite"
        BY DEF Own, Target
  <2>2. f \in def'[o].deps
        BY <1>3, <1>5, <2>1, PutElements
  <2> QED
    BY <1>5, <2>2
<1>9. /\ def'[o] # None
      /\ \A f \in def[o].deps : list[f[2]] # None => def'[list[f[2]]] # None
  <2>1. \A x \in Objects : def[x] # None => def'[x] # None
        BY <1>1, LinkedKeeps
  <2>2. \A f \in def[o].deps : list[f[2]] # None => list[f[2]] \in Objects
        BY <1>1, <1>2 DEF Edges, TypeOK
  <2> QED
    BY <1>1, <2>1, <2>2
\* The entry of the other side, for a service that is listed.
<1>6. ASSUME NEW f \in def[o].deps, list[f[2]] # None
      PROVE  <<Inverse[f[1]], n, o>> \in def'[list[f[2]]].deps
  <2> DEFINE x == list[f[2]]
  <2>1. f[2] \in Names /\ f[2] # n
        BY <1>2 DEF Edges
  <2>2. x \in Objects /\ Name(x) = f[2] /\ def[x] # None
        BY <1>1, <1>6, <2>1 DEF TypeOK, Named
  <2>3. x # o /\ x \in Live
        BY <1>1, <2>1, <2>2, LiveAre
  <2>4. <<Inverse[f[1]], n, o>> \in Back(o, x)
        BY <2>2 DEF Back
  <2>5. def'[x].deps = Put(def[x].deps, Back(o, x))
        BY <1>1, <2>2, <2>3, <2>4, LinkedIs
  <2> QED
    BY <2>4, <2>5, PutElements
<1>7. ASSUME NEW e \in def'[o].deps PROVE Backed(n, e)'
  <2>1. PICK f \in def[o].deps :
           \/ e = <<Target(f[1]), f[2], list[f[2]]>>
           \/ e = f /\ f[1] = "Requisite"
    <3>1. CASE e \in Own(o)
          BY <3>1 DEF Own
    <3>2. CASE e \in def[o].deps /\ \A g \in Own(o) : <<e[1], e[2]>> # <<g[1], g[2]>>
      <4>1. <<Target(e[1]), e[2], list[e[2]]>> \in Own(o)
            BY <3>2 DEF Own
      <4>2. Target(e[1]) # e[1]
            BY <3>2, <4>1
      <4> QED
        BY <3>2, <4>2 DEF Target
    <3> QED
      BY <1>3, <3>1, <3>2, PutElements
  <2>2. e[2] = f[2] /\ (e[1] # "Requisite" => e[3] = list[e[2]])
        BY <2>1
  <2>3. CASE f[1] = "Requisite" /\ e[1] = "Requires"
    <3>1. \E g \in def'[o].deps : g[1] = "Requisite" /\ g[2] = e[2]
          BY <1>5, <2>2, <2>3
    <3> QED
      BY <1>9, <2>2, <2>3, <3>1 DEF Backed, Listed
  <2>4. CASE f[1] = e[1]
    <3>1. list[e[2]] # None => \E g \in def'[list[e[2]]].deps : g[1] = Inverse[e[1]] /\ g[2] = n
      <4>1. SUFFICES ASSUME list[e[2]] # None PROVE <<Inverse[e[1]], n, o>> \in def'[list[e[2]]].deps
            OBVIOUS
      <4> QED
        BY <1>6, <2>2, <2>4, <4>1
    <3> QED
      BY <1>9, <2>2, <3>1 DEF Backed, Listed
  <2> QED
    BY <2>1, <2>3, <2>4 DEF Target
<1>8. ASSUME NEW m \in Names \ {n}, list[m] # None, NEW e \in def'[list[m]].deps, e \notin def[list[m]].deps
      PROVE  Backed(m, e)'
  <2> DEFINE x == list[m]
  <2>1. x \in Objects /\ Name(x) = m /\ x # o
        BY <1>1, <1>8 DEF TypeOK, Named
  <2>2. def[x] # None
    <3>1. CASE def[x] = None
      <4>1. def'[x] = None
            BY <1>1, <2>1, <3>1, LinkedIs
      <4> QED
        BY <1>8, <3>1, <4>1
    <3> QED
      BY <3>1
  <2>3. e \in Back(o, x)
    <3>1. def'[x].deps \in {def[x].deps, Put(def[x].deps, Back(o, x))}
          BY <1>1, <2>1, <2>2, LinkedIs
    <3> QED
      BY <1>8, <3>1, PutElements
  <2>4. PICK f \in def[o].deps : e = <<Inverse[f[1]], n, o>> /\ f[2] = m
        BY <2>1, <2>3 DEF Back
  <2>5. f[1] \in Kinds /\ Inverse[Inverse[f[1]]] = f[1]
        BY <1>2, KindsAre DEF Edges
  <2>6. \E g \in def'[o].deps : g[1] = f[1] /\ g[2] = m
    <3>1. CASE f[1] = "Requisite"
          BY <1>5, <2>4, <3>1
    <3>2. CASE f[1] # "Requisite"
          BY <1>4, <2>4, <3>2 DEF Target
    <3> QED
      BY <3>1, <3>2
  <2>7. e[1] = Inverse[f[1]] /\ e[2] = n /\ e[3] = list[e[2]]
        BY <2>4
  <2> QED
    BY <1>9, <2>5, <2>6, <2>7 DEF Backed, Listed
<1> QED
  BY <1>7, <1>8

\* A definition that is there names services.
LEMMA DefTyped == ASSUME SInv, NEW o \in Objects, def[o] # None PROVE \A e \in def[o].deps : e[2] \in Names
<1>1. def[o] \in DefType
      BY DEF SInv, TypeOK
<1>2. def[o].deps \subseteq Kinds \X Names \X (Objects \cup {None})
      BY <1>1 DEF DefType
<1>3. \A e \in Kinds \X Names \X (Objects \cup {None}) : e[2] \in Names
      OBVIOUS
<1> QED
  BY <1>2, <1>3

LEMMA LinkLinkInv == ASSUME SInv, LinkInv, NEW t \in Threads, NEW n \in Names, Link(t, n) PROVE LinkInv'
<1> DEFINE o == list[n]
<1>1. place = 6 /\ n \in todo /\ writer # None /\ list[n] \in Objects /\ Name(list[n]) = n
      BY LinkBasics
<1>2. CASE Crash("link")
      BY <1>2 DEF Crash, services, lock, loading, LinkInv, Settled, Backed, Listed
<1>3. CASE ~Crash("link")
  <2>1. /\ def[o] # None /\ \A e \in def[o].deps : e[2] # n /\ (list[e[2]] # None => def[list[e[2]]] # None)
        /\ def' = Linked(o) /\ todo' = todo \ {n} /\ UNCHANGED <<list, writer, place>>
        BY <1>3, LinkBasics DEF lock
  <2>2. /\ \A e \in def'[o].deps : Backed(n, e)'
        /\ \A m \in Names \ {n} : list[m] # None =>
             \A e \in def'[list[m]].deps : e \in def[list[m]].deps \/ Backed(m, e)'
        BY <1>1, <2>1, LinkedFits
  <2>3. ASSUME NEW x \in Objects, def[x] # None
        PROVE  def'[x] # None /\ \A e \in def[x].deps : \E f \in def'[x].deps : f[1] = e[1] /\ f[2] = e[2]
        BY <1>1, <2>1, <2>3, LinkedKeeps DEF SInv
  <2>4. SUFFICES ASSUME NEW m \in Names, Settled(m)'
                 PROVE  def'[list[m]] # None /\ \A e \in def'[list[m]].deps : Backed(m, e)'
        BY <2>1 DEF LinkInv
  <2>5. list[m] \in Objects /\ list[m] # None
        BY <2>1, <2>4 DEF Settled, Listed, SInv, TypeOK
  <2>6. CASE m = n
        BY <1>1, <2>1, <2>2, <2>3, <2>6
  <2>7. CASE m # n
    <3>1. def[list[m]] # None /\ \A e \in def[list[m]].deps : Backed(m, e)
          BY <1>1, <2>1, <2>4, <2>7 DEF LinkInv, Settled, Listed
    <3>2. ASSUME NEW e \in def[list[m]].deps PROVE Backed(m, e)'
      <4>1. e[2] \in Names
            BY <2>5, <3>1, <3>2, DefTyped
      <4>2. CASE list[e[2]] # None /\ \E f \in def[list[e[2]]].deps : f[1] = Inverse[e[1]] /\ f[2] = m
        <5>1. PICK f \in def[list[e[2]]].deps : f[1] = Inverse[e[1]] /\ f[2] = m
              BY <4>2
        <5>2. def[list[e[2]]] # None /\ list[e[2]] \in Objects
              BY <3>1, <4>1, <4>2 DEF Backed, Listed, SInv, TypeOK
        <5>3. PICK g \in def'[list[e[2]]].deps : g[1] = f[1] /\ g[2] = f[2]
              BY <2>3, <5>1, <5>2
        <5>4. g[1] = Inverse[e[1]] /\ g[2] = m
              BY <5>1, <5>3
        <5>5. def'[list[e[2]]] # None
              BY <2>3, <5>2
        <5> QED
          BY <2>1, <3>1, <3>2, <5>4, <5>5 DEF Backed, Listed
      <4>3. CASE e[1] = "Requires" /\ \E f \in def[list[m]].deps : f[1] = "Requisite" /\ f[2] = e[2]
        <5>1. PICK g \in def'[list[m]].deps : g[1] = "Requisite" /\ g[2] = e[2]
              BY <2>3, <2>5, <3>1, <4>3
        <5>2. list[e[2]] # None => def'[list[e[2]]] # None
          <6>1. list[e[2]] # None => list[e[2]] \in Objects /\ def[list[e[2]]] # None
                BY <3>1, <4>1 DEF Backed, Listed, SInv, TypeOK
          <6> QED
            BY <2>3, <6>1
        <5> QED
          BY <2>1, <3>1, <3>2, <4>3, <5>1, <5>2 DEF Backed, Listed
      <4>4. CASE list[e[2]] = None
            BY <2>1, <3>1, <3>2, <4>4 DEF Backed, Listed
      <4> QED
        BY <3>1, <3>2, <4>2, <4>3, <4>4 DEF Backed, Listed
    <3> QED
      BY <2>2, <2>3, <2>5, <2>7, <3>1, <3>2
  <2> QED
    BY <2>6, <2>7
<1> QED
  BY <1>2, <1>3

LEMMA SettledKeep ==
  ASSUME LinkInv, UNCHANGED <<list, def>>, \A n \in Names : Settled(n)' => Settled(n)
  PROVE  LinkInv'
  BY DEF LinkInv, Backed, Listed

LEMMA NextLinkInv == ASSUME SInv, LinkInv, [Next]_vars PROVE LinkInv'
<1>1. ASSUME Quiet PROVE LinkInv'
  <2>1. \A n \in Names : Settled(n)' => Settled(n)
        BY <1>1 DEF Quiet, Settled, Listed
  <2> QED
    BY <1>1, <2>1, SettledKeep DEF Quiet
<1>2. ASSUME NEW t \in Threads, ReloadStep(t) PROVE LinkInv'
  <2>1. ASSUME NEW n \in Names, Link(t, n) PROVE LinkInv'
        BY <2>1, LinkLinkInv
  <2>2. CASE ReloadEnd(t)
    <3>1. UNCHANGED <<list, def>> /\ \A n \in Names : Settled(n)' => Settled(n)
          BY <2>2 DEF ReloadEnd, services, loading, Settled, Listed
    <3> QED
      BY <3>1, SettledKeep
  <2>3. ASSUME \A n \in Names : ~Settled(n)' PROVE LinkInv'
        BY <2>3 DEF LinkInv
  <2>4. CASE ReloadBegin(t)
    <3>1. writer' # None /\ place' = 1
          BY <2>4, ActorAssumption DEF ReloadBegin
    <3> QED
      BY <2>3, <3>1 DEF Settled
  <2>5. ASSUME writer # None, writer' = writer, place' # 6 PROVE LinkInv'
        BY <2>3, <2>5 DEF Settled
  <2>6. ASSUME pc[t] = "loading" PROVE writer # None
        BY <2>6, Writing
  <2>7. CASE UnitLoad(t)
        BY <2>5, <2>6, <2>7 DEF UnitLoad, Loading, lock
  <2>8. CASE DropInLoad(t)
        BY <2>5, <2>6, <2>8 DEF DropInLoad, Loading, lock
  <2>9. CASE NextPlace(t)
    <3>1. writer # None /\ writer' = writer /\ UNCHANGED services /\ place' = place + 1 /\ place \in 1..6
          /\ todo' = IF place < 4 THEN {n \in Names : disk[n][place + 1] # <<>>} ELSE {n \in Names : Listed(n)}
          BY <2>6, <2>9 DEF NextPlace, Loading, lock, SInv, TypeOK
    <3>2. CASE place' = 6
      <4>1. todo' = {n \in Names : Listed(n)} /\ list' = list
            BY <3>1, <3>2 DEF services
      <4> QED
        BY <2>3, <3>1, <4>1 DEF Settled, Listed
    <3> QED
      BY <2>5, <3>1, <3>2
  <2>10. ASSUME NEW n \in Names, UnitBegin(t, n) PROVE LinkInv'
    <3>1. Loading(t) /\ place \in {1, 2} /\ UNCHANGED <<lock, place>>
          BY <2>10 DEF UnitBegin
    <3> QED
      BY <2>5, <2>6, <3>1 DEF Loading, lock
  <2>11. ASSUME NEW n \in Names, DropInBegin(t, n) PROVE LinkInv'
        BY <2>5, <2>6, <2>11 DEF DropInBegin, Loading, lock
  <2>12. ASSUME NEW n \in Names, Prune(t, n) PROVE LinkInv'
        BY <2>5, <2>6, <2>12 DEF Prune, Loading, lock
  <2> QED
    BY <1>2, <2>1, <2>2, <2>4, <2>7, <2>8, <2>9, <2>10, <2>11, <2>12 DEF ReloadStep
<1> QED
  BY <1>1, <1>2, Steps

LEMMA LinkInvAlways == Spec => [](SInv /\ LinkInv)
<1>1. Init => SInv /\ LinkInv
      BY InitSInv DEF Init, LinkInv, Settled, Listed
<1>2. (SInv /\ LinkInv) /\ [Next]_vars => (SInv /\ LinkInv)'
      BY NextSInv, NextLinkInv
<1> QED
  BY <1>1, <1>2, PTL DEF Spec

\* While nobody reloads, every listed service has a definition and what runs is
\* listed (DefsThere): the loop that links has met every definition, and a
\* service that leaves the list is stopped and empty (daemons.go:253-425).
THEOREM RegistryDefsThere == Spec => []DefsThere
<1>1. SInv /\ LinkInv => DefsThere
  <2> SUFFICES ASSUME SInv, LinkInv, writer = None PROVE DefsThere
      BY DEF DefsThere
  <2>1. \A n \in Names : Listed(n) => Usable(list[n])
        BY DEF LinkInv, Settled, Usable
  <2>2. \A o \in Objects : up[o] => o \in Live
        BY LiveAre DEF SInv, Dead
  <2> QED
    BY <2>1, <2>2 DEF DefsThere
<1> QED
  BY <1>1, LinkInvAlways, PTL

\* While nobody reloads, the maps of the definitions agree (Agree): the loop
\* that links keeps what it linked before, whatever it links next
\* (daemons.go:261-425).
THEOREM RegistryAgree == Spec => []Agree
<1>1. LinkInv => Agree
      BY DEF LinkInv, Settled, Backed, Agree
<1> QED
  BY <1>1, LinkInvAlways, PTL

\* Only start(), stop() and the end of a service meet a nil definition so.
LEMMA StartNil == ASSUME NEW o \in Objects, Start(o), crash' = "nil def", Alive PROVE ~Usable(o)
  BY DEF Start, Alive, Set

\* A nil definition is met outside a reload only by a command that had found a
\* service which is not listed any more (NilDef): what is listed has a
\* definition, what runs is listed, and an entry of a definition leads to an
\* object that is listed (daemons.go:253-425, daemon.go:441).
THEOREM RegistryNilDef == Spec => NilDef
<1>1. ASSUME SInv, LinkInv, [Next]_vars, Alive, crash' = "nil def", writer = None
      PROVE  \E c \in Clients : pc[c] = "act" /\ pc'[c] = "idle" /\ held[c] \notin Live
  <2>1. \A n \in Names : Listed(n) => list[n] \in Objects /\ Usable(list[n]) /\ \A e \in def[list[n]].deps : Backed(n, e)
        BY <1>1 DEF LinkInv, Settled, Usable, Listed, SInv, TypeOK
  <2>2. \A o \in Objects : o \in Live => Usable(o) /\ Listed(Name(o)) /\ list[Name(o)] = o
        BY <1>1, <2>1, LiveAre, NameOf DEF Listed, SInv, Named
  <2>3. \A o \in Objects : up[o] => o \in Live
        BY <1>1, LiveAre DEF SInv, Dead
  <2>4. crash' # crash
        BY <1>1 DEF Alive
  <2>5. ASSUME NEW t \in Threads PROVE ~ReloadStep(t)
    <3>1. CASE ReloadBegin(t)
          BY <2>4, <3>1 DEF ReloadBegin
    <3>2. CASE Loading(t) /\ ReloadStep(t)
          BY <1>1, <3>2, Writing DEF Loading
    <3> QED
      BY <3>1, <3>2 DEF ReloadStep, UnitLoad, DropInLoad, NextPlace, ReloadEnd, UnitBegin, DropInBegin, Prune, Link
  <2>6. ASSUME NEW o \in Objects PROVE ~Ends(o)
        BY <1>1, <2>2, <2>3 DEF Ends, Alive
  <2>7. ASSUME NEW o \in Objects, NEW x \in Objects PROVE ~Needs(o, x)
    <3> SUFFICES ASSUME Needs(o, x) PROVE FALSE
        OBVIOUS
    <3>1. up[o] /\ Start(x)
          BY DEF Needs
    <3>2. PICK e \in def[o].deps : e[1] \in {"Requires", "Wants", "BindsTo", "Upholds"} /\ e[3] = x
          BY DEF Needs
    <3>3. o \in Live /\ Usable(o) /\ Listed(Name(o)) /\ list[Name(o)] = o
          BY <2>2, <2>3, <3>1
    <3>4. e[2] \in Names
          BY <1>1, <3>2, <3>3, DefTyped DEF Usable
    <3>5. e[3] = list[e[2]]
          BY <2>1, <3>2, <3>3, NameOf DEF Backed
    <3>6. Usable(x)
          BY <2>1, <3>2, <3>4, <3>5, NameOf DEF Listed
    <3> QED
      BY <1>1, <3>1, <3>6, StartNil
  <2>8. ASSUME NEW n \in Names PROVE ~BootStart(n)
        BY <1>1, <2>1, StartNil DEF BootStart, Alive
  <2>9. ASSUME NEW c \in Clients, NEW n \in Names PROVE ~ReloadCommand(c, n) /\ \A op \in Ops : ~Command(c, op, n)
        BY <1>1, <2>4 DEF ReloadCommand, Command, Alive
  <2>10. ~BootRead /\ ~BootDone /\ ~Edit /\ ~UNCHANGED vars /\ \A c \in Clients : ~Find(c)
        BY <2>4 DEF BootRead, BootDone, Edit, vars, Find
  <2>11. PICK c \in Clients : Act(c)
        BY <1>1, <2>5, <2>6, <2>7, <2>8, <2>9, <2>10 DEF Next
  <2>12. pc[c] = "act" /\ pc'[c] = "idle" /\ held[c] \in Objects
        BY <1>1, <2>11 DEF Act, SInv, Holding, TypeOK, Threads
  <2>13. ~Usable(held[c])
    <3>1. CASE Start(held[c])
          BY <1>1, <2>12, <3>1, StartNil
    <3>2. CASE Stop(held[c])
          BY <1>1, <3>2 DEF Stop, Alive
    <3> QED
      BY <2>4, <2>11, <3>1, <3>2 DEF Act
  <2> QED
    BY <2>2, <2>12, <2>13
<1>2. (SInv /\ LinkInv) /\ [Next]_vars =>
        [(Alive /\ crash' = "nil def") =>
           \/ writer # None
           \/ \E c \in Clients : pc[c] = "act" /\ pc'[c] = "idle" /\ held[c] \notin Live]_vars
      BY <1>1
<1> QED
  BY <1>2, LinkInvAlways, PTL DEF Spec, NilDef
==============================================================================
