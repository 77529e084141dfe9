------------------------------ MODULE UnitsProofs ------------------------------
(***************************************************************************)
(* Proofs about Units.tla: that the files of a service are read once,      *)
(* whatever links make one directory of two; that a duration is what its   *)
(* text says, however many terms and digits it has; that the reader keeps  *)
(* to its types; and that the definition it makes is what the files say.   *)
(*                                                                         *)
(* Durations are recursive functions, and what a statement says is one     *)
(* concatenation.  What they compute is proved by induction, with the set  *)
(* of the numbers a fact holds of in place of the fact: Least and what     *)
(* follows it.                                                             *)
(***************************************************************************)
EXTENDS Units, FiniteSetTheorems, SequenceTheorems, TLAPS

\* The directories that are none of the others.
Reals == {d \in Dirs : Real(d) = d}

\* What is due are different real directories, /etc before the others; what was
\* read are the files of those that are not due any more.
Due ==
  /\ dirs \in Seq(Reals)
  /\ \A i, j \in DOMAIN dirs : dirs[i] = dirs[j] => i = j
  /\ \A i \in DOMAIN dirs : dirs[i] = "etc" => i = 1 /\ read = <<>>

Behind ==
  /\ read \in Seq(Reals)
  /\ \A d \in Reals : (\E i \in DOMAIN read : read[i] = d) <=> (machine.files[d] # <<>> /\ \A i \in DOMAIN dirs : dirs[i] # d)
  /\ \A i, j \in DOMAIN read : read[i] = read[j] => i = j
  /\ \A i \in DOMAIN read : read[i] = "etc" => i = 1

\* The links of a container.
Linked == machine.links \subseteq Links /\ (machine.links \subseteq UsrLinks \/ machine.links \cap UsrLinks = {})

UInv == Linked /\ Due /\ Behind

------------------------------------------------------------------------------
(* The directories.                                                         *)

Ask == <<<<"/lib/systemd/system", <<"etc", "usr">>>>, <<"/usr/lib/systemd/system", <<"etc", "lib">>>>,
         <<"/lib/systemd", <<"etc", "usr">>>>, <<"/usr/lib/systemd", <<"etc", "lib">>>>,
         <<"/lib", <<"etc", "usr">>>>, <<"/usr/lib", <<"etc", "lib">>>>>>

LEMMA First == ASSUME NEW S \in SUBSET (1..6), S # {} PROVE \E i \in S : \A j \in S : i <= j
<1>1. ASSUME NEW n \in 1..6, n \in S, \A j \in S : j >= n PROVE \E i \in S : \A j \in S : i <= j
      BY <1>1
<1>2. CASE 1 \in S
      BY <1>1, <1>2
<1>3. CASE 1 \notin S /\ 2 \in S
      BY <1>1, <1>3
<1>4. CASE 1 \notin S /\ 2 \notin S /\ 3 \in S
      BY <1>1, <1>4
<1>5. CASE 1 \notin S /\ 2 \notin S /\ 3 \notin S /\ 4 \in S
      BY <1>1, <1>5
<1>6. CASE 1 \notin S /\ 2 \notin S /\ 3 \notin S /\ 4 \notin S /\ 5 \in S
      BY <1>1, <1>6
<1>7. CASE S \subseteq {6}
  <2>1. S = {6}
        BY <1>7
  <2> QED
    BY <1>1, <2>1
<1> QED
  BY <1>2, <1>3, <1>4, <1>5, <1>6, <1>7

\* Of the answers of GetSystemdPaths it gives one whose link is there.
LEMMA PathsFound ==
  ASSUME NEW links
  PROVE  IF \E i \in 1..6 : Ask[i][1] \in links
         THEN \E i \in 1..6 : Ask[i][1] \in links /\ Paths(links) = Ask[i][2]
         ELSE Paths(links) = <<"etc", "usr", "lib">>
<1> DEFINE found == {i \in DOMAIN Ask : Ask[i][1] \in links}
<1>1. DOMAIN Ask = 1..6
      BY DEF Ask
<1>2. Paths(links) = IF found = {} THEN <<"etc", "usr", "lib">> ELSE Ask[CHOOSE i \in found : \A j \in found : i <= j][2]
      BY DEF Paths, Ask
<1>3. CASE found = {}
      BY <1>1, <1>2, <1>3
<1>4. CASE found # {}
  <2>1. found \in SUBSET (1..6)
        BY <1>1
  <2>2. \E i \in found : \A j \in found : i <= j
        BY <1>4, <2>1, First
  <2> DEFINE k == CHOOSE i \in found : \A j \in found : i <= j
  <2>3. k \in found
        BY <2>2
  <2> HIDE DEF k
  <2>4. Paths(links) = Ask[k][2]
        BY <1>2, <1>4 DEF k
  <2> QED
    BY <1>1, <2>3, <2>4
<1> QED
  BY <1>3, <1>4

\* They are the real directories, /etc first.
LEMMA PathsReal ==
  ASSUME Linked
  PROVE  LET p == Paths(machine.links)
         IN  /\ p \in Seq(Reals) /\ \A d \in Reals : \E i \in DOMAIN p : p[i] = d
             /\ \A i, j \in DOMAIN p : p[i] = p[j] => i = j
             /\ \A i \in DOMAIN p : p[i] = "etc" => i = 1
<1>1. /\ Ask[1] = <<"/lib/systemd/system", <<"etc", "usr">>>> /\ Ask[2] = <<"/usr/lib/systemd/system", <<"etc", "lib">>>>
      /\ Ask[3] = <<"/lib/systemd", <<"etc", "usr">>>> /\ Ask[4] = <<"/usr/lib/systemd", <<"etc", "lib">>>>
      /\ Ask[5] = <<"/lib", <<"etc", "usr">>>> /\ Ask[6] = <<"/usr/lib", <<"etc", "lib">>>>
      BY DEF Ask
<1>2. \A d \in Links : \E i \in 1..6 : Ask[i][1] = d
  <2>1. {Ask[i][1] : i \in 1..6} = Links
    <3>1. \A i \in 1..6 : Ask[i][1] \in Links
          BY <1>1 DEF Links
    <3> QED
      BY <1>1, <3>1 DEF Links
  <2> QED
    BY <2>1
<1>3. \A i \in 1..6 : IF Ask[i][1] \in UsrLinks THEN Ask[i][2] = <<"etc", "lib">> ELSE Ask[i][2] = <<"etc", "usr">> /\ Ask[i][1] \in Links
      BY <1>1 DEF Links, UsrLinks
<1>4. UsrLinks \subseteq Links
      BY DEF Links, UsrLinks
<1>5. CASE machine.links = {}
  <2>1. Paths(machine.links) = <<"etc", "usr", "lib">>
        BY <1>5, PathsFound
  <2>2. Reals = {"etc", "usr", "lib"}
        BY <1>5 DEF Reals, Real, Dirs
  <2> QED
    BY <2>1, <2>2
<1>6. CASE machine.links # {} /\ machine.links \subseteq UsrLinks
  <2>1. \E i \in 1..6 : Ask[i][1] \in machine.links
        BY <1>2, <1>4, <1>6
  <2>2. PICK i \in 1..6 : Ask[i][1] \in machine.links /\ Paths(machine.links) = Ask[i][2]
        BY <2>1, PathsFound
  <2>3. Paths(machine.links) = <<"etc", "lib">>
        BY <1>3, <1>6, <2>2
  <2>4. Reals = {"etc", "lib"}
        BY <1>4, <1>6 DEF Reals, Real, Dirs
  <2> QED
    BY <2>3, <2>4
<1>7. CASE machine.links # {} /\ machine.links \cap UsrLinks = {}
  <2>1. \E i \in 1..6 : Ask[i][1] \in machine.links
        BY <1>2, <1>7 DEF Linked
  <2>2. PICK i \in 1..6 : Ask[i][1] \in machine.links /\ Paths(machine.links) = Ask[i][2]
        BY <2>1, PathsFound
  <2>3. Paths(machine.links) = <<"etc", "usr">>
        BY <1>3, <1>7, <2>2
  <2>4. Reals = {"etc", "usr"}
        BY <1>7 DEF Reals, Real, Dirs, Linked
  <2> QED
    BY <2>3, <2>4
<1> QED
  BY <1>5, <1>6, <1>7 DEF Linked

------------------------------------------------------------------------------
(* The steps.                                                               *)

LEMMA InitUInv == Init => UInv
<1> SUFFICES ASSUME Init PROVE UInv
    OBVIOUS
<1>1. Linked
  <2>1. PICK S \in Machines : machine \in S
        BY DEF Init
  <2> QED
    BY <2>1, MachineAssumption DEF MachineType, Linked
<1>2. dirs = Paths(machine.links) /\ read = <<>>
      BY DEF Init
<1>3. Due
      BY <1>1, <1>2, PathsReal DEF Due
<1>4. Behind
      BY <1>1, <1>2, PathsReal DEF Behind
<1> QED
  BY <1>1, <1>3, <1>4 DEF UInv

LEMMA OpenUInv == ASSUME UInv, Open PROVE UInv'
<1> DEFINE d == Real(Head(dirs))
<1>1. /\ dirs # <<>> /\ dirs' = Tail(dirs) /\ machine' = machine
      /\ read' = IF machine.files[d] = <<>> THEN read ELSE Append(read, d)
      BY DEF Open
<1>2. dirs \in Seq(Reals) /\ read \in Seq(Reals)
      BY DEF UInv, Due, Behind
<1>3. Head(dirs) = dirs[1] /\ 1 \in DOMAIN dirs /\ dirs[1] \in Reals /\ d = dirs[1]
      BY <1>1, <1>2 DEF Reals
<1>4. dirs' \in Seq(Reals) /\ \A i \in DOMAIN dirs' : i + 1 \in DOMAIN dirs /\ dirs'[i] = dirs[i + 1]
      BY <1>1, <1>2
<1>5. \A i \in DOMAIN dirs : i # 1 => i - 1 \in DOMAIN dirs' /\ dirs'[i - 1] = dirs[i]
      BY <1>1, <1>2
<1>6. Reals' = Reals
      BY <1>1 DEF Reals, Real
<1>7. \A i \in DOMAIN dirs' : dirs'[i] # d /\ dirs'[i] # "etc"
      BY <1>2, <1>3, <1>4 DEF UInv, Due
<1>8. \A x \in Reals : (\A i \in DOMAIN dirs' : dirs'[i] # x) <=> x = d \/ \A i \in DOMAIN dirs : dirs[i] # x
      BY <1>3, <1>4, <1>5, <1>7
<1>9. d # "etc" => \A i \in DOMAIN dirs : dirs[i] # "etc"
      BY <1>3 DEF UInv, Due
<1>10. Due'
  <2>1. \A i, j \in DOMAIN dirs' : dirs'[i] = dirs'[j] => i = j
        BY <1>2, <1>4 DEF UInv, Due
  <2> QED
    BY <1>4, <1>6, <1>7, <2>1 DEF Due
<1>11. \A i \in DOMAIN read : read[i] # d
       BY <1>2, <1>3 DEF UInv, Behind
<1>12. Behind'
  <2>1. CASE machine.files[d] = <<>>
        BY <1>1, <1>6, <1>8, <1>11, <2>1 DEF UInv, Behind
  <2>2. CASE machine.files[d] # <<>>
    <3>1. /\ read' \in Seq(Reals) /\ DOMAIN read' = DOMAIN read \cup {Len(read) + 1} /\ Len(read) + 1 \notin DOMAIN read
          /\ \A i \in DOMAIN read' : read'[i] = IF i = Len(read) + 1 THEN d ELSE read[i]
          BY <1>1, <1>2, <1>3, <2>2
    <3>2. \A x \in Reals : (\E i \in DOMAIN read' : read'[i] = x) <=> x = d \/ \E i \in DOMAIN read : read[i] = x
          BY <3>1
    <3>3. \A i, j \in DOMAIN read' : read'[i] = read'[j] => i = j
          BY <1>11, <3>1 DEF UInv, Behind
    <3>4. d = "etc" => Len(read) = 0
          BY <1>3 DEF UInv, Due
    <3>5. \A i \in DOMAIN read' : read'[i] = "etc" => i = 1
          BY <3>1, <3>4 DEF UInv, Behind
    <3>6. \A x \in Reals : (\E i \in DOMAIN read' : read'[i] = x)
                           <=> (machine.files[x] # <<>> /\ \A i \in DOMAIN dirs' : dirs'[i] # x)
          BY <1>8, <2>2, <3>2 DEF UInv, Behind
    <3> QED
      BY <1>1, <1>6, <3>1, <3>3, <3>5, <3>6 DEF Behind
  <2> QED
    BY <2>1, <2>2
<1> QED
  BY <1>1, <1>10, <1>12 DEF UInv, Linked

LEMMA NextUInv == ASSUME UInv, [Next]_vars PROVE UInv'
<1>1. CASE Open
      BY <1>1, OpenUInv
<1>2. CASE ~Open
  <2>1. UNCHANGED <<machine, dirs, read>>
        BY <1>2 DEF Next, vars, Comment, Continue, Header, Text, Assign, AssignTime, Refuse, Close, Rest
  <2> QED
    BY <2>1 DEF UInv, Linked, Due, Behind, Reals, Real
<1> QED
  BY <1>1, <1>2

\* Whatever links of /lib, /usr/lib and the directories below them lead to the
\* other side, and whatever files there are (common.go:9): when a service has been
\* loaded, the file of every directory was read, none twice, that of /etc first.
THEOREM UnitsReadsOnce == Spec => []ReadsOnce
<1>1. UInv => ReadsOnce
  <2> SUFFICES ASSUME UInv, Done PROVE ReadsOnce
      BY DEF ReadsOnce
  <2>1. dirs = <<>>
        BY DEF Done
  <2>2. ToSet(read) = {d \in Reals : machine.files[d] # <<>>}
        BY <2>1 DEF ToSet, UInv, Behind
  <2>3. {Real(e) : e \in Dirs} = Reals
        BY DEF UInv, Linked, Reals, Real, Dirs
  <2> QED
    BY <2>2, <2>3 DEF ReadsOnce, UInv, Behind
<1> QED
  BY <1>1, InitUInv, NextUInv, PTL DEF Spec

------------------------------------------------------------------------------
(* Induction, with a set in place of the predicate.                         *)

\* From the order by strict inclusion of the intervals 0..n.
LEMMA Least ==
  ASSUME NEW T \in SUBSET Nat, T # {}
  PROVE  \E m \in T : \A n \in T : m <= n
<1> DEFINE R == StrictSubsetOrdering(Nat)
           U == {0..n : n \in T}
<1>1. IsWellFoundedOn(R, FiniteSubsetsOf(Nat))
      BY FS_StrictSubsetOrderingWellFounded
<1> HIDE DEF R
<1>2. U \subseteq FiniteSubsetsOf(Nat) /\ U # {}
  <2>1. \A n \in T : 0..n \in FiniteSubsetsOf(Nat)
        BY FS_Interval DEF FiniteSubsetsOf
  <2> QED
    BY <2>1
<1>3. PICK x \in U : \A y \in U : <<y, x>> \notin R
  <2> HIDE DEF U
  <2> QED
    BY <1>1, <1>2, WFMin
<1>4. PICK m \in T : x = 0..m
      OBVIOUS
<1>5. ASSUME NEW n \in T, n < m PROVE FALSE
  <2>1. 0..n \in U /\ 0..n \subseteq 0..m /\ m \notin 0..n /\ m \in 0..m
        BY <1>5
  <2>2. <<0..n, x>> \in R
        BY <2>1, <1>4 DEF R, StrictSubsetOrdering
  <2> QED
    BY <2>1, <2>2, <1>3
<1> QED
  BY <1>5

LEMMA Induction ==
  ASSUME NEW S, 0 \in S, \A n \in Nat : n \in S => n + 1 \in S
  PROVE  \A n \in Nat : n \in S
<1> DEFINE T == Nat \ S
<1> SUFFICES ASSUME T # {} PROVE FALSE
    OBVIOUS
<1>1. PICK m \in T : \A n \in T : m <= n
      BY Least
<1>2. m # 0 /\ m - 1 \in Nat
      OBVIOUS
<1>3. m - 1 \in S
      BY <1>1, <1>2
<1>4. (m - 1) + 1 \in S
      BY <1>2, <1>3
<1> QED
  BY <1>4

\* Up to n only.
LEMMA InductionTo ==
  ASSUME NEW n \in Nat, NEW S, 0 \in S, \A i \in 1..n : i - 1 \in S => i \in S
  PROVE  \A i \in 0..n : i \in S
<1> DEFINE T == {i \in Nat : i <= n => i \in S}
<1>1. 0 \in T
      OBVIOUS
<1>2. ASSUME NEW i \in Nat, i \in T PROVE i + 1 \in T
  <2>1. SUFFICES ASSUME i + 1 <= n PROVE i + 1 \in S
        OBVIOUS
  <2>2. i + 1 \in 1..n /\ (i + 1) - 1 = i /\ i \in S
        BY <1>2, <2>1
  <2> QED
    BY <2>2
<1>3. \A i \in Nat : i \in T
  <2> HIDE DEF T
  <2> QED
    BY <1>1, <1>2, Induction
<1> QED
  BY <1>3

\* A function on 0..n may be defined by its value for 0 and its steps.
LEMMA Recursion ==
  ASSUME NEW X, NEW a \in X, NEW n \in Nat, NEW g \in [1..n -> [X -> X]]
  PROVE  \E f \in [0..n -> X] : f[0] = a /\ \A i \in 1..n : f[i] = g[i][f[i - 1]]
<1> DEFINE Good(f, k) == f \in [0..k -> X] /\ f[0] = a /\ \A i \in 1..k : f[i] = g[i][f[i - 1]]
           S == {k \in 0..n : \E f : Good(f, k)}
<1>1. 0 \in S
  <2>1. Good([i \in 0..0 |-> a], 0)
        OBVIOUS
  <2>2. \E f : Good(f, 0)
    <3> HIDE DEF Good
    <3> QED
      BY <2>1
  <2> HIDE DEF Good
  <2> QED
    BY <2>2
<1>2. ASSUME NEW k \in 1..n, k - 1 \in S PROVE k \in S
  <2>1. PICK f : Good(f, k - 1)
    <3> HIDE DEF Good
    <3> QED
      BY <1>2
  <2> DEFINE h == [i \in 0..k |-> IF i = k THEN g[k][f[k - 1]] ELSE f[i]]
  <2>2. h \in [0..k -> X]
    <3>1. k - 1 \in 0..k - 1 /\ f[k - 1] \in X
          BY <2>1
    <3>2. g[k][f[k - 1]] \in X
          BY <3>1
    <3> QED
      BY <2>1, <3>2
  <2>3. h[0] = a
        BY <2>1
  <2>4. ASSUME NEW i \in 1..k PROVE h[i] = g[i][h[i - 1]]
    <3>1. h[i - 1] = f[i - 1]
          OBVIOUS
    <3>2. CASE i = k
      <4>1. h[k] = g[k][f[k - 1]]
            OBVIOUS
      <4> QED
        BY <3>1, <3>2, <4>1
    <3>3. CASE i # k
      <4>1. i \in 1..k - 1 /\ h[i] = f[i]
            BY <3>3
      <4> QED
        BY <2>1, <3>1, <4>1
    <3> QED
      BY <3>2, <3>3
  <2> HIDE DEF h
  <2>5. Good(h, k)
        BY <2>2, <2>3, <2>4
  <2> HIDE DEF Good
  <2> QED
    BY <2>5
<1>3. n \in S
  <2> HIDE DEF S
  <2>1. \A i \in 0..n : i \in S
        BY <1>1, <1>2, InductionTo
  <2> QED
    BY <2>1
<1> QED
  BY <1>3

\* Of a set with a bound.
LEMMA Greatest ==
  ASSUME NEW n \in Nat, NEW S \in SUBSET (0..n), S # {}
  PROVE  \E m \in S : \A i \in S : m >= i
<1> DEFINE T == {n - i : i \in S}
<1>1. T \in SUBSET Nat /\ T # {}
  <2>1. \A i \in S : i \in 0..n /\ n - i \in Nat
        OBVIOUS
  <2>2. PICK i \in S : TRUE
        OBVIOUS
  <2>3. n - i \in T
        BY <2>2
  <2>4. T \subseteq Nat
        BY <2>1
  <2> HIDE DEF T
  <2> QED
    BY <2>3, <2>4
<1>2. PICK d \in T : \A e \in T : d <= e
      BY <1>1, Least
<1>3. PICK m \in S : d = n - m
      BY <1>2
<1>4. ASSUME NEW i \in S PROVE m >= i
  <2>1. d <= n - i
        BY <1>2
  <2> QED
    BY <1>3, <2>1
<1> QED
  BY <1>4

\* What holds of 0 and is passed on holds of all up to n.
LEMMA Inherited ==
  ASSUME NEW n \in Nat, NEW X, NEW u, u[0] \in X, \A i \in 1..n : u[i - 1] \in X => u[i] \in X
  PROVE  \A i \in 0..n : u[i] \in X
<1> DEFINE S == {i \in 0..n : u[i] \in X}
<1>1. 0 \in S /\ \A i \in 1..n : i - 1 \in S => i \in S
      OBVIOUS
<1>2. \A i \in 0..n : i \in S
  <2> HIDE DEF S
  <2> QED
    BY <1>1, InductionTo
<1> QED
  BY <1>2

------------------------------------------------------------------------------
(* What the recursive functions of Durations are.                           *)

\* The values of leadingInt and of d, and the three of leadingFraction.
Amounts   == [ok : BOOLEAN, v : 0..Half]
Fractions == [x : 0..Half, scale : Nat \ {0}, overflow : BOOLEAN]

LEMMA DigitTyped == ASSUME NEW r \in Amounts, NEW c \in 0..9 PROVE Digit(r, c) \in Amounts
<1>1. CASE ~r.ok \/ r.v > Half \div 10 \/ r.v * 10 + c > Half
      BY <1>1, WidthAssumption DEF Amounts, Digit, Error
<1>2. CASE ~(~r.ok \/ r.v > Half \div 10 \/ r.v * 10 + c > Half)
  <2>1. r.v * 10 + c \in 0..Half
        BY <1>2, WidthAssumption DEF Amounts
  <2> QED
    BY <1>2, <2>1 DEF Amounts, Digit, Value
<1> QED
  BY <1>1, <1>2

LEMMA FractionTyped == ASSUME NEW r \in Fractions, NEW c \in 0..9 PROVE Fraction(r, c) \in Fractions
<1> DEFINE drop == r.overflow \/ r.x > (Half - 1) \div 10 \/ r.x * 10 + c > Half
<1>1. CASE drop
      BY <1>1 DEF Fractions, Fraction
<1>2. CASE ~drop
  <2>1. r.x * 10 + c \in 0..Half /\ r.scale * 10 \in Nat \ {0}
        BY <1>2, WidthAssumption DEF Fractions
  <2> QED
    BY <1>2, <2>1 DEF Fractions, Fraction
<1> QED
  BY <1>1, <1>2

\* Each recursive function of Durations, NumberIs to AtoiIs: its value is the last
\* of a sequence of values of its type, each made from the one before.
LEMMA NumberIs ==
  ASSUME NEW d \in Digits
  PROVE  \E m \in [0..Len(d) -> Nat] :
           Number(d) = m[Len(d)] /\ m[0] = 0 /\ \A i \in 1..Len(d) : m[i] = 10 * m[i - 1] + d[i]
<1> DEFINE n == Len(d)
           X == Nat
           g == [i \in 1..n |-> [x \in X |-> 10 * x + d[i]]]
           B(f) == [i \in 0..n |-> IF i = 0 THEN 0 ELSE 10 * f[i - 1] + d[i]]
           u == CHOOSE f : f = B(f)
<1>1. n \in Nat /\ 0 \in X
      BY DEF Digits
<1>2. \A x \in X : \A i \in 1..n : 10 * x + d[i] \in X
      BY DEF Digits
<1>3. Number(d) = u[n]
      BY DEF Number
<1> HIDE DEF n, X
<1>4. PICK f \in [0..n -> X] : f[0] = 0 /\ \A i \in 1..n : f[i] = g[i][f[i - 1]]
  <2>1. g \in [1..n -> [X -> X]]
        BY <1>2
  <2> HIDE DEF g
  <2> QED
    BY <1>1, <2>1, Recursion
<1>5. f = B(f)
  <2>1. ASSUME NEW i \in 1..n PROVE f[i] = 10 * f[i - 1] + d[i]
    <3>1. f[i - 1] \in X
          BY <1>1
    <3> QED
      BY <1>4, <3>1
  <2> QED
    BY <1>1, <1>4, <2>1
<1>6. u = B(u)
      BY <1>5
<1> HIDE DEF u
<1>7. u[0] = 0 /\ \A i \in 1..n : u[i] = 10 * u[i - 1] + d[i]
  <2>1. \A i \in 0..n : u[i] = IF i = 0 THEN 0 ELSE 10 * u[i - 1] + d[i]
        BY <1>6
  <2> QED
    BY <1>1, <2>1
<1>8. u \in [0..n -> X]
  <2>1. u[0] \in X /\ \A i \in 1..n : u[i - 1] \in X => u[i] \in X
        BY <1>1, <1>2, <1>7
  <2>2. \A i \in 0..n : u[i] \in X
        BY <1>1, <2>1, Inherited
  <2> QED
    BY <1>6, <2>2
<1> QED
  BY <1>3, <1>7, <1>8 DEF n, X

LEMMA LeadingIntIs ==
  ASSUME NEW d \in Digits
  PROVE  \E r \in [0..Len(d) -> Amounts] :
           LeadingInt(d) = r[Len(d)] /\ r[0] = Value(0) /\ \A i \in 1..Len(d) : r[i] = Digit(r[i - 1], d[i])
<1> DEFINE n == Len(d)
           X == Amounts
           g == [i \in 1..n |-> [x \in X |-> Digit(x, d[i])]]
           B(f) == [i \in 0..n |-> IF i = 0 THEN Value(0) ELSE Digit(f[i - 1], d[i])]
           u == CHOOSE f : f = B(f)
<1>1. n \in Nat /\ Value(0) \in X
      BY WidthAssumption DEF Digits, Amounts, Value
<1>2. \A x \in X : \A i \in 1..n : Digit(x, d[i]) \in X
      BY DigitTyped DEF Digits
<1>3. LeadingInt(d) = u[n]
      BY DEF LeadingInt
<1> HIDE DEF n, X
<1>4. PICK f \in [0..n -> X] : f[0] = Value(0) /\ \A i \in 1..n : f[i] = g[i][f[i - 1]]
  <2>1. g \in [1..n -> [X -> X]]
        BY <1>2
  <2> HIDE DEF g
  <2> QED
    BY <1>1, <2>1, Recursion
<1>5. f = B(f)
  <2>1. ASSUME NEW i \in 1..n PROVE f[i] = Digit(f[i - 1], d[i])
    <3>1. f[i - 1] \in X
          BY <1>1
    <3> QED
      BY <1>4, <3>1
  <2> QED
    BY <1>1, <1>4, <2>1
<1>6. u = B(u)
      BY <1>5
<1> HIDE DEF u
<1>7. u[0] = Value(0) /\ \A i \in 1..n : u[i] = Digit(u[i - 1], d[i])
  <2>1. \A i \in 0..n : u[i] = IF i = 0 THEN Value(0) ELSE Digit(u[i - 1], d[i])
        BY <1>6
  <2> QED
    BY <1>1, <2>1
<1>8. u \in [0..n -> X]
  <2>1. u[0] \in X /\ \A i \in 1..n : u[i - 1] \in X => u[i] \in X
        BY <1>1, <1>2, <1>7
  <2>2. \A i \in 0..n : u[i] \in X
        BY <1>1, <2>1, Inherited
  <2> QED
    BY <1>6, <2>2
<1> QED
  BY <1>3, <1>7, <1>8 DEF n, X

LEMMA LeadingFractionIs ==
  ASSUME NEW d \in Digits
  PROVE  \E r \in [0..Len(d) -> Fractions] :
           LeadingFraction(d) = r[Len(d)] /\ r[0] = NoFraction /\ \A i \in 1..Len(d) : r[i] = Fraction(r[i - 1], d[i])
<1> DEFINE n == Len(d)
           X == Fractions
           g == [i \in 1..n |-> [x \in X |-> Fraction(x, d[i])]]
           B(f) == [i \in 0..n |-> IF i = 0 THEN NoFraction ELSE Fraction(f[i - 1], d[i])]
           u == CHOOSE f : f = B(f)
<1>1. n \in Nat /\ NoFraction \in X
      BY WidthAssumption DEF Digits, Fractions, NoFraction
<1>2. \A x \in X : \A i \in 1..n : Fraction(x, d[i]) \in X
      BY FractionTyped DEF Digits
<1>3. LeadingFraction(d) = u[n]
      BY DEF LeadingFraction
<1> HIDE DEF n, X
<1>4. PICK f \in [0..n -> X] : f[0] = NoFraction /\ \A i \in 1..n : f[i] = g[i][f[i - 1]]
  <2>1. g \in [1..n -> [X -> X]]
        BY <1>2
  <2> HIDE DEF g
  <2> QED
    BY <1>1, <2>1, Recursion
<1>5. f = B(f)
  <2>1. ASSUME NEW i \in 1..n PROVE f[i] = Fraction(f[i - 1], d[i])
    <3>1. f[i - 1] \in X
          BY <1>1
    <3> QED
      BY <1>4, <3>1
  <2> QED
    BY <1>1, <1>4, <2>1
<1>6. u = B(u)
      BY <1>5
<1> HIDE DEF u
<1>7. u[0] = NoFraction /\ \A i \in 1..n : u[i] = Fraction(u[i - 1], d[i])
  <2>1. \A i \in 0..n : u[i] = IF i = 0 THEN NoFraction ELSE Fraction(u[i - 1], d[i])
        BY <1>6
  <2> QED
    BY <1>1, <2>1
<1>8. u \in [0..n -> X]
  <2>1. u[0] \in X /\ \A i \in 1..n : u[i - 1] \in X => u[i] \in X
        BY <1>1, <1>2, <1>7
  <2>2. \A i \in 0..n : u[i] \in X
        BY <1>1, <2>1, Inherited
  <2> QED
    BY <1>6, <2>2
<1> QED
  BY <1>3, <1>7, <1>8 DEF n, X

LEMMA TensIs ==
  \E m \in [0..Places -> Nat \ {0}] :
       Tens = m /\ m[0] = 1 /\ \A i \in 1..Places : m[i] = 10 * m[i - 1]
<1> DEFINE n == Places
           X == Nat \ {0}
           g == [i \in 1..n |-> [x \in X |-> 10 * x]]
           B(f) == [i \in 0..n |-> IF i = 0 THEN 1 ELSE 10 * f[i - 1]]
           u == CHOOSE f : f = B(f)
<1>1. n \in Nat /\ 1 \in X
      BY WidthAssumption
<1>2. \A x \in X : \A i \in 1..n : 10 * x \in X
      OBVIOUS
<1>3. Tens = u
      BY DEF Tens
<1> HIDE DEF n, X
<1>4. PICK f \in [0..n -> X] : f[0] = 1 /\ \A i \in 1..n : f[i] = g[i][f[i - 1]]
  <2>1. g \in [1..n -> [X -> X]]
        BY <1>2
  <2> HIDE DEF g
  <2> QED
    BY <1>1, <2>1, Recursion
<1>5. f = B(f)
  <2>1. ASSUME NEW i \in 1..n PROVE f[i] = 10 * f[i - 1]
    <3>1. f[i - 1] \in X
          BY <1>1
    <3> QED
      BY <1>4, <3>1
  <2> QED
    BY <1>1, <1>4, <2>1
<1>6. u = B(u)
      BY <1>5
<1> HIDE DEF u
<1>7. u[0] = 1 /\ \A i \in 1..n : u[i] = 10 * u[i - 1]
  <2>1. \A i \in 0..n : u[i] = IF i = 0 THEN 1 ELSE 10 * u[i - 1]
        BY <1>6
  <2> QED
    BY <1>1, <2>1
<1>8. u \in [0..n -> X]
  <2>1. u[0] \in X /\ \A i \in 1..n : u[i - 1] \in X => u[i] \in X
        BY <1>1, <1>2, <1>7
  <2>2. \A i \in 0..n : u[i] \in X
        BY <1>1, <2>1, Inherited
  <2> QED
    BY <1>6, <2>2
<1> QED
  BY <1>3, <1>7, <1>8 DEF n, X

\* Powers of ten, up to that of Places.
LEMMA TensTyped ==
  /\ \A i \in 0..Places : Tens[i] \in Nat \ {0}
  /\ Tens[0] = 1
  /\ \A i \in 1..Places : Tens[i] = 10 * Tens[i - 1]
  BY TensIs

LEMMA TensSplit == ASSUME NEW l \in 0..Places PROVE Tens[Places] = Tens[Places - l] * Tens[l]
<1> DEFINE S == {i \in 0..Places : Tens[Places] = Tens[Places - i] * Tens[i]}
<1>1. Places \in Nat
      BY WidthAssumption
<1>2. 0 \in S
      BY <1>1, TensTyped
<1>3. ASSUME NEW i \in 1..Places, i - 1 \in S PROVE i \in S
  <2>1. /\ Tens[Places - (i - 1)] = 10 * Tens[Places - i]
        /\ Tens[i] = 10 * Tens[i - 1]
    <3>1. Places - (i - 1) \in 1..Places /\ (Places - (i - 1)) - 1 = Places - i
          BY <1>1
    <3> QED
      BY <3>1, TensTyped
  <2>2. Tens[Places - i] \in Nat /\ Tens[i - 1] \in Nat
        BY <1>1, TensTyped
  <2>3. Tens[Places] = Tens[Places - (i - 1)] * Tens[i - 1]
        BY <1>3
  <2>4. \A a, b \in Nat : (10 * a) * b = a * (10 * b)
        OBVIOUS
  <2>5. Tens[Places] = Tens[Places - i] * Tens[i]
        BY <2>1, <2>2, <2>3, <2>4
  <2> QED
    BY <2>5
<1>4. \A i \in 0..Places : i \in S
  <2> HIDE DEF S
  <2> QED
    BY <1>1, <1>2, <1>3, InductionTo
<1> QED
  BY <1>4

------------------------------------------------------------------------------
(* leadingInt is the number, or refuses it.                                 *)

\* A digit more than fits.
LEMMA TenTimes == ASSUME NEW x \in Nat, NEW c \in 0..9, x > Half \div 10 PROVE 10 * x + c > Half
<1>1. Half \in Nat
      BY WidthAssumption
<1>2. Half \div 10 \in Nat /\ Half <= 10 * (Half \div 10) + 9
      BY <1>1
<1>3. x >= Half \div 10 + 1
      BY <1>2
<1> QED
  BY <1>1, <1>2, <1>3

\* x is the number of the digits, until that is more than 2^63.
LEMMA IntRight ==
  ASSUME NEW d \in Digits
  PROVE  Number(d) \in Nat /\ LeadingInt(d) = IF Number(d) > Half THEN Error ELSE Value(Number(d))
<1> DEFINE n == Len(d)
<1>1. n \in Nat /\ \A i \in 1..n : d[i] \in 0..9
      BY DEF Digits
<1>2. PICK m \in [0..n -> Nat] : Number(d) = m[n] /\ m[0] = 0 /\ \A i \in 1..n : m[i] = 10 * m[i - 1] + d[i]
      BY NumberIs
<1>3. PICK r \in [0..n -> Amounts] :
        LeadingInt(d) = r[n] /\ r[0] = Value(0) /\ \A i \in 1..n : r[i] = Digit(r[i - 1], d[i])
      BY LeadingIntIs
<1> HIDE DEF n
<1> DEFINE Is(i) == r[i] = IF m[i] > Half THEN Error ELSE Value(m[i])
           S == {i \in 0..n : Is(i)}
<1>4. 0 \in S
      BY <1>1, <1>2, <1>3, WidthAssumption
<1>5. ASSUME NEW i \in 1..n, i - 1 \in S PROVE i \in S
  <2>1. m[i - 1] \in Nat /\ d[i] \in 0..9 /\ m[i] = 10 * m[i - 1] + d[i]
        BY <1>1, <1>2
  <2>2. Is(i - 1) /\ r[i] = Digit(r[i - 1], d[i])
        BY <1>3, <1>5
  <2>3. CASE m[i - 1] > Half
    <3>1. ~r[i - 1].ok
          BY <2>2, <2>3 DEF Error
    <3>2. r[i] = Error
          BY <2>2, <3>1 DEF Digit
    <3>3. m[i] > Half
          BY <2>1, <2>3, WidthAssumption
    <3> QED
      BY <3>2, <3>3
  <2>4. CASE m[i - 1] <= Half
    <3>1. r[i - 1].ok /\ r[i - 1].v = m[i - 1]
          BY <2>1, <2>2, <2>4, WidthAssumption DEF Value
    <3>2. r[i] = IF m[i - 1] > Half \div 10 \/ m[i - 1] * 10 + d[i] > Half THEN Error ELSE Value(m[i - 1] * 10 + d[i])
      <4>1. \A x, v, c : x.ok /\ x.v = v => Digit(x, c) = IF v > Half \div 10 \/ v * 10 + c > Half THEN Error ELSE Value(v * 10 + c)
            BY DEF Digit
      <4> QED
        BY <2>2, <3>1, <4>1
    <3>3. m[i - 1] > Half \div 10 => m[i] > Half
          BY <2>1, TenTimes
    <3>4. m[i - 1] * 10 + d[i] = m[i]
          BY <2>1
    <3>5. Is(i)
          BY <3>2, <3>3, <3>4
    <3> QED
      BY <3>5
  <2> QED
    BY <2>1, <2>3, <2>4, WidthAssumption
<1>6. \A i \in 0..n : i \in S
  <2> HIDE DEF S
  <2> QED
    BY <1>1, <1>4, <1>5, InductionTo
<1>7. n \in 0..n
      BY <1>1
<1> QED
  BY <1>2, <1>3, <1>6, <1>7

------------------------------------------------------------------------------
(* leadingFraction is the fraction without the digits that do not fit.      *)

\* r is what it makes of a fraction of n digits that is m / Tens[n]: there are
\* k = 1, 10, 100, ... times as many parts as it counts.
Truncated(r, m, n) ==
  /\ r.x < r.scale
  /\ r.overflow => 10 * r.scale > Half
  /\ \E k \in Nat \ {0} :
       Tens[n] = r.scale * k /\ r.x * k <= m /\ m < (r.x + 1) * k /\ (~r.overflow => k = 1)

\* A digit more: it is taken into f and scale, or passed over.
LEMMA FractionKeeps ==
  ASSUME NEW r \in Fractions, NEW c \in 0..9, NEW m \in Nat, NEW n \in 1..Places, Truncated(r, m, n - 1)
  PROVE  Truncated(Fraction(r, c), 10 * m + c, n)
<1>1. PICK k \in Nat \ {0} :
        Tens[n - 1] = r.scale * k /\ r.x * k <= m /\ m < (r.x + 1) * k /\ (~r.overflow => k = 1)
      BY DEF Truncated
<1> DEFINE x == r.x
           s == r.scale
           drop == r.overflow \/ x > (Half - 1) \div 10 \/ x * 10 + c > Half
<1>2. x \in Nat /\ s \in Nat \ {0} /\ x < s /\ Half \in Nat /\ Half > 10
      BY WidthAssumption DEF Truncated, Fractions
<1>3. Tens[n] = 10 * (s * k)
      BY <1>1, TensTyped
<1>4. CASE ~drop
  <2>1. k = 1 /\ m = x
    <3>1. k = 1
          BY <1>1, <1>4
    <3> QED
      BY <1>1, <1>2, <3>1
  <2> DEFINE q == Fraction(r, c)
  <2>2. q.x = x * 10 + c /\ q.scale = s * 10 /\ q.overflow = r.overflow /\ ~r.overflow
        BY <1>4 DEF Fraction, Fractions
  <2> HIDE DEF q
  <2>3. Tens[n] = q.scale * 1 /\ q.x * 1 <= 10 * m + c /\ 10 * m + c < (q.x + 1) * 1
        BY <1>2, <1>3, <2>1, <2>2
  <2>4. q.x < q.scale
        BY <1>2, <2>2
  <2> QED
    BY <2>2, <2>3, <2>4 DEF Truncated, q
<1>5. CASE drop
  <2> DEFINE q == Fraction(r, c)
  <2>1. q.x = x /\ q.scale = s /\ q.overflow = TRUE
        BY <1>5 DEF Fraction, Fractions
  <2> HIDE DEF q
  <2>2. 10 * s > Half
    <3>1. CASE r.overflow
          BY <3>1 DEF Truncated
    <3>2. CASE x > (Half - 1) \div 10
          BY <1>2, <3>2
    <3>3. CASE x * 10 + c > Half
          BY <1>2, <3>3
    <3> QED
      BY <1>5, <3>1, <3>2, <3>3
  <2> DEFINE k10 == 10 * k
  <2>3. Tens[n] = s * k10
        BY <1>2, <1>3
  <2>4. x * k10 <= 10 * m + c
    <3>1. x * k10 = 10 * (x * k) /\ x * k \in Nat
          BY <1>2
    <3> QED
      BY <1>1, <3>1
  <2>5. 10 * m + c < (x + 1) * k10
    <3>1. (x + 1) * k10 = 10 * ((x + 1) * k) /\ (x + 1) * k \in Nat
          BY <1>2
    <3> QED
      BY <1>1, <3>1
  <2>6. k10 \in Nat \ {0}
        OBVIOUS
  <2> HIDE DEF k10
  <2> QED
    BY <1>2, <2>1, <2>2, <2>3, <2>4, <2>5, <2>6 DEF Truncated, q
<1> QED
  BY <1>4, <1>5

\* f over scale is the fraction, but for the digits passed over.
LEMMA FractionRight ==
  ASSUME NEW d \in Digits, Len(d) <= Places
  PROVE  Number(d) \in Nat /\ LeadingFraction(d) \in Fractions /\ Truncated(LeadingFraction(d), Number(d), Len(d))
<1> DEFINE n == Len(d)
<1>1. n \in Nat /\ n <= Places /\ \A i \in 1..n : d[i] \in 0..9
      BY DEF Digits
<1>2. PICK m \in [0..n -> Nat] : Number(d) = m[n] /\ m[0] = 0 /\ \A i \in 1..n : m[i] = 10 * m[i - 1] + d[i]
      BY NumberIs
<1>3. PICK r \in [0..n -> Fractions] :
        LeadingFraction(d) = r[n] /\ r[0] = NoFraction /\ \A i \in 1..n : r[i] = Fraction(r[i - 1], d[i])
      BY LeadingFractionIs
<1> HIDE DEF n
<1> DEFINE S == {i \in 0..n : Truncated(r[i], m[i], i)}
<1>4. 0 \in S
  <2>1. Tens[0] = 1 * 1 /\ 0 * 1 <= m[0] /\ m[0] < (0 + 1) * 1
        BY <1>2, TensTyped
  <2>2. Truncated(r[0], m[0], 0)
        BY <1>3, <2>1 DEF Truncated, NoFraction
  <2> QED
    BY <1>1, <2>2
<1>5. ASSUME NEW i \in 1..n, i - 1 \in S PROVE i \in S
  <2>1. m[i - 1] \in Nat /\ r[i - 1] \in Fractions /\ d[i] \in 0..9 /\ i \in 1..Places /\ Truncated(r[i - 1], m[i - 1], i - 1)
        BY <1>1, <1>5, WidthAssumption
  <2>2. Truncated(Fraction(r[i - 1], d[i]), 10 * m[i - 1] + d[i], i)
        BY <2>1, FractionKeeps
  <2>3. Truncated(r[i], m[i], i)
        BY <1>2, <1>3, <2>2
  <2> QED
    BY <2>3
<1>6. \A i \in 0..n : i \in S
  <2> HIDE DEF S
  <2> QED
    BY <1>1, <1>4, <1>5, InductionTo
<1>7. n \in 0..n
      BY <1>1
<1> QED
  BY <1>2, <1>3, <1>6, <1>7 DEF n

------------------------------------------------------------------------------
(* A term is what it says, rounded down, or refused for what does not fit.  *)

LEMMA Product ==
  ASSUME NEW a \in Nat, NEW b \in Nat, NEW c \in Nat
  PROVE  a * c \in Nat /\ (a <= b => a * c <= b * c) /\ (a < b /\ c # 0 => a * c < b * c)
  OBVIOUS

LEMMA Quotient ==
  ASSUME NEW a \in Nat, NEW b \in Nat \ {0}
  PROVE  a \div b \in Nat /\ (a \div b) * b <= a /\ a < (a \div b + 1) * b
  OBVIOUS

\* Of a term with its digits and a unit: what it is said to be, over Tens[Places].
LEMMA MeantTyped ==
  ASSUME NEW u \in TermType, u.unit \in UnitMap
  PROVE  MeantBy(u) \in Nat
<1>1. Number(u.int) \in Nat /\ Number(u.frac) \in Nat
      BY IntRight DEF TermType
<1>2. Len(u.frac) \in 0..Places /\ u.unit \in Nat
  <2>1. u.frac \in Digits /\ Len(u.frac) <= Places
        BY DEF TermType
  <2>2. Len(u.frac) \in Nat
        BY <2>1 DEF Digits
  <2>3. u.unit \in 1..Half \div 10
        BY WidthAssumption
  <2> QED
    BY <2>1, <2>2, <2>3, WidthAssumption
<1>3. Tens[Places] \in Nat /\ Tens[Places - Len(u.frac)] \in Nat
      BY <1>2, TensTyped, WidthAssumption
<1> DEFINE a == Number(u.int) * Tens[Places]
           b == Number(u.frac) * Tens[Places - Len(u.frac)]
<1>4. a \in Nat /\ b \in Nat
      BY <1>1, <1>3, Product
<1> HIDE DEF a, b
<1>5. (a + b) * u.unit \in Nat
      BY <1>2, <1>4, Product
<1> QED
  BY <1>5 DEF MeantBy, a, b

\* A fraction of a unit loses less than one for the rounding, and less than one
\* for the digits that do not fit.
LEMMA FractionScaled ==
  ASSUME NEW f \in Fractions, NEW m \in Nat, NEW l \in 0..Places, Truncated(f, m, l), NEW unit \in UnitMap
  PROVE  LET q == (f.x * unit) \div f.scale
             e == Tens[Places - l]
         IN  q \in Nat /\ q * Tens[Places] <= (m * e) * unit /\ (m * e) * unit < (q + 2) * Tens[Places]
<1>1. PICK k \in Nat \ {0} : Tens[l] = f.scale * k /\ f.x * k <= m /\ m < (f.x + 1) * k /\ (~f.overflow => k = 1)
      BY DEF Truncated
<1> DEFINE x == f.x
           s == f.scale
           e == Tens[Places - l]
           q == (x * unit) \div s
<1>2. x \in Nat /\ s \in Nat \ {0} /\ unit \in Nat \ {0} /\ 10 * unit <= Half
      BY WidthAssumption DEF Fractions
<1>3. e \in Nat \ {0}
      BY TensTyped, WidthAssumption
<1>4. Tens[Places] = e * (s * k)
      BY <1>1, TensSplit
<1> DEFINE p == x * unit
<1>5. p \in Nat /\ q \in Nat /\ q * s <= p /\ p < (q + 1) * s
  <2>1. p \in Nat
        BY <1>2, Product
  <2> QED
    BY <1>2, <2>1, Quotient
<1> HIDE DEF x, s, e, q
<1> DEFINE ke == k * e
<1>6. ke \in Nat \ {0} /\ Tens[Places] = s * ke
  <2>1. ke \in Nat \ {0}
        BY <1>3
  <2>2. e * (s * k) = s * (k * e)
        BY <1>2, <1>3
  <2> QED
    BY <1>4, <2>1, <2>2
<1>7. q * Tens[Places] <= (m * e) * unit
  <2>1. q * (s * ke) = (q * s) * ke
        BY <1>2, <1>5, <1>6
  <2>2. (q * s) * ke <= p * ke
        BY <1>2, <1>5, <1>6, Product
  <2>3. p * ke = ((x * k) * e) * unit
        BY <1>2, <1>3
  <2>4. ((x * k) * e) * unit <= (m * e) * unit
    <3>1. x * k \in Nat /\ x * k <= m
          BY <1>1, <1>2, Product DEF x
    <3>2. (x * k) * e <= m * e /\ (x * k) * e \in Nat /\ m * e \in Nat
          BY <1>3, <3>1, Product
    <3> HIDE DEF ke, p
    <3> QED
      BY <1>2, <3>2, Product
  <2>5. q * (s * ke) \in Nat /\ p * ke \in Nat /\ (m * e) * unit \in Nat
        BY <1>2, <1>3, <1>5, <1>6
  <2> HIDE DEF p, ke
  <2> QED
    BY <1>6, <2>1, <2>2, <2>3, <2>4, <2>5
<1>8. (m * e) * unit < (q + 2) * Tens[Places]
  <2> DEFINE xk == (x + 1) * k
  <2>1. xk \in Nat /\ m < xk
        BY <1>1, <1>2, Product DEF x
  <2>2. (m * e) * unit < (xk * e) * unit
    <3>1. m * e < xk * e /\ m * e \in Nat /\ xk * e \in Nat
          BY <1>3, <2>1, Product
    <3> HIDE DEF xk
    <3> QED
      BY <1>2, <3>1, Product
  <2>3. (xk * e) * unit = (p + unit) * ke
        BY <1>2, <1>3
  <2>4. CASE f.overflow
    <3>1. unit < s
      <4>1. 10 * s > Half
            BY <2>4 DEF Truncated, s
      <4> QED
        BY <1>2, <4>1, WidthAssumption
    <3>2. p + unit <= (q + 2) * s /\ p + unit \in Nat /\ (q + 2) * s \in Nat
          BY <1>2, <1>5, <3>1
    <3>3. (p + unit) * ke <= ((q + 2) * s) * ke
      <4> HIDE DEF p, ke
      <4> QED
        BY <1>6, <3>2, Product
    <3>4. ((q + 2) * s) * ke = (q + 2) * (s * ke)
          BY <1>2, <1>5, <1>6
    <3>5. (m * e) * unit \in Nat /\ (p + unit) * ke \in Nat /\ (q + 2) * (s * ke) \in Nat
          BY <1>2, <1>3, <1>5, <1>6
    <3> HIDE DEF p, ke, xk
    <3> QED
      BY <1>6, <2>2, <2>3, <3>3, <3>4, <3>5
  <2>5. CASE ~f.overflow
    <3>1. k = 1 /\ m = x
      <4>1. k = 1
            BY <1>1, <2>5
      <4> QED
        BY <1>1, <1>2, <4>1 DEF x
    <3>2. (m * e) * unit = p * ke
          BY <1>2, <1>3, <3>1
    <3>3. p * ke < ((q + 2) * s) * ke
      <4>1. p < (q + 2) * s /\ (q + 2) * s \in Nat
            BY <1>2, <1>5
      <4> HIDE DEF p, ke
      <4> QED
        BY <1>5, <1>6, <4>1, Product
    <3>4. ((q + 2) * s) * ke = (q + 2) * (s * ke)
          BY <1>2, <1>5, <1>6
    <3> QED
      BY <1>6, <3>2, <3>3, <3>4
  <2> QED
    BY <2>4, <2>5
<1> QED
  BY <1>5, <1>7, <1>8 DEF x, s, e, q

\* r is a right answer for what means m with n terms; for n = 0 nothing was said.
Within(r, m, n) ==
  IF r.ok THEN r.v * Tens[Places] <= m /\ (n = 0 \/ m < (r.v + 2 * n) * Tens[Places]) ELSE m >= Half * Tens[Places]

LEMMA TermTyped == ASSUME NEW u \in TermType PROVE Term(u) \in Amounts
<1> DEFINE n == LeadingInt(u.int)
           f == LeadingFraction(u.frac)
<1>1. n \in Amounts /\ f \in Fractions
  <2>1. Number(u.int) \in Nat /\ n = IF Number(u.int) > Half THEN Error ELSE Value(Number(u.int))
        BY IntRight DEF TermType
  <2> QED
    BY <2>1, FractionRight, WidthAssumption DEF TermType, Amounts, Error, Value
<1> HIDE DEF n, f
<1>2. Error \in Amounts
      BY WidthAssumption DEF Amounts, Error
<1>5. Half \in Nat /\ (u.unit \in UnitMap => u.unit \in Nat \ {0})
  <2>1. Half \in Nat /\ (u.unit \in UnitMap => u.unit \in 1..Half \div 10)
        BY WidthAssumption
  <2> QED
    BY <2>1
<1>6. n.v \in Nat
      BY <1>1, <1>5 DEF Amounts
<1>3. CASE n.ok /\ u.unit \in UnitMap /\ Scaled(n, f, u.unit) <= Half
  <2>1. u.unit \in Nat /\ n.v \in Nat /\ f.x \in Nat /\ f.scale \in Nat \ {0}
        BY <1>1, <1>3, <1>5, <1>6 DEF Fractions
  <2>2. n.v * u.unit \in Nat /\ f.x * u.unit \in Nat
        BY <2>1, Product
  <2>3. Scaled(n, f, u.unit) \in Nat
        BY <2>1, <2>2, Quotient DEF Scaled
  <2>4. Value(Scaled(n, f, u.unit)) \in Amounts
        BY <1>3, <2>3, WidthAssumption DEF Amounts, Value
  <2> QED
    BY <1>2, <2>4 DEF Term, WithUnit, n, f
<1>4. CASE ~(n.ok /\ u.unit \in UnitMap /\ Scaled(n, f, u.unit) <= Half)
  <2>1. CASE ~n.ok \/ u.unit \notin UnitMap
        BY <1>2, <2>1 DEF Term, WithUnit, n, f
  <2>2. CASE n.ok /\ u.unit \in UnitMap
    <3>1. u.unit \in Nat /\ n.v \in Nat /\ f.x \in Nat /\ f.scale \in Nat \ {0}
          BY <1>1, <1>5, <1>6, <2>2 DEF Fractions
    <3>4. n.v * u.unit \in Nat /\ f.x * u.unit \in Nat
          BY <3>1, Product
    <3>2. Scaled(n, f, u.unit) \in Nat
          BY <3>1, <3>4, Quotient DEF Scaled
    <3>3. Scaled(n, f, u.unit) > Half
          BY <1>4, <2>2, <3>2, WidthAssumption
    <3> QED
      BY <1>2, <3>3 DEF Term, WithUnit, n, f
  <2> QED
    BY <2>1, <2>2
<1> QED
  BY <1>3, <1>4

\* A term is short of what it says by less than two nanoseconds, and refused if
\* and only if it does not fit.
LEMMA TermRight ==
  ASSUME NEW u \in TermType, u.unit \in UnitMap, HasDigits(u)
  PROVE  MeantBy(u) \in Nat /\ Within(Term(u), MeantBy(u), 1)
<1> DEFINE n == LeadingInt(u.int)
           f == LeadingFraction(u.frac)
           num == Number(u.int)
           unit == u.unit
           P == Tens[Places]
           e == Tens[Places - Len(u.frac)]
           m == Number(u.frac)
           q == (f.x * unit) \div f.scale
<1>1. num \in Nat /\ n = IF num > Half THEN Error ELSE Value(num)
      BY IntRight DEF TermType
<1>2. m \in Nat /\ f \in Fractions /\ Truncated(f, m, Len(u.frac)) /\ Len(u.frac) \in 0..Places
  <2>1. u.frac \in Digits /\ Len(u.frac) <= Places
        BY DEF TermType
  <2>2. Len(u.frac) \in 0..Places
        BY <2>1, WidthAssumption DEF Digits
  <2> QED
    BY <2>1, <2>2, FractionRight
<1>3. P \in Nat \ {0} /\ e \in Nat \ {0}
      BY <1>2, TensTyped, WidthAssumption
<1>4. unit \in Nat \ {0} /\ Half \in Nat /\ Half > 10
  <2>1. Half \in Nat /\ Half > 10 /\ unit \in 1..Half \div 10
        BY WidthAssumption
  <2> QED
    BY <2>1
<1>5. q \in Nat /\ q * P <= (m * e) * unit /\ (m * e) * unit < (q + 2) * P
      BY <1>2, FractionScaled
<1>6. MeantBy(u) = (num * P + m * e) * unit
      BY DEF MeantBy
<1>7. Term(u) = WithUnit(n, f, unit)
      BY DEF Term
<1>8. Scaled(n, f, unit) = n.v * unit + q
      BY DEF Scaled
<1>9. MeantBy(u) \in Nat
      BY MeantTyped
<1> HIDE DEF n, f, num, unit, P, e, m, q
<1> DEFINE A == num * unit
           B == (m * e) * unit
<1>10. A \in Nat /\ B \in Nat /\ m * e \in Nat
  <2>1. A \in Nat /\ m * e \in Nat
        BY <1>1, <1>2, <1>3, <1>4, Product
  <2> QED
    BY <1>4, <2>1, Product
<1>11. (num * P + m * e) * unit = A * P + B
  <2>1. \A a, b, c, d \in Nat : (a * c + b) * d = (a * d) * c + b * d
        OBVIOUS
  <2> QED
    BY <1>1, <1>3, <1>4, <1>10, <2>1
<1> HIDE DEF A, B
<1>12. MeantBy(u) = A * P + B
       BY <1>6, <1>11
<1>13. (A + q) * P <= MeantBy(u) /\ MeantBy(u) < ((A + q) + 2) * P
       BY <1>3, <1>5, <1>10, <1>12 DEF B
<1>14. A + q > Half => MeantBy(u) >= Half * P
  <2>1. SUFFICES ASSUME A + q > Half PROVE Half * P <= (A + q) * P
        BY <1>3, <1>4, <1>5, <1>9, <1>10, <1>13
  <2> QED
    BY <1>3, <1>4, <1>5, <1>10, <2>1, Product
<1>15. CASE num > Half
  <2>1. Term(u) = Error
        BY <1>1, <1>7, <1>15 DEF WithUnit, Error
  <2>2. A >= num
        BY <1>1, <1>4 DEF A
  <2>3. A + q > Half
        BY <1>1, <1>4, <1>5, <1>10, <1>15, <2>2
  <2> QED
    BY <1>9, <1>14, <2>1, <2>3 DEF Within, Error, P
<1>16. CASE num <= Half
  <2>1. n.ok /\ n.v = num
        BY <1>1, <1>4, <1>16 DEF Value
  <2>2. Term(u) = IF num > Half \div unit \/ A + q > Half THEN Error ELSE Value(A + q)
        BY <1>7, <1>8, <2>1 DEF WithUnit, A, unit
  <2>3. num > Half \div unit => A + q > Half
    <3>1. Half \div unit \in Nat /\ Half < (Half \div unit + 1) * unit
          BY <1>4, Quotient
    <3>2. num >= Half \div unit + 1 => num * unit >= (Half \div unit + 1) * unit
          BY <1>1, <1>4, <3>1, Product
    <3>3. num > Half \div unit => A > Half
          BY <1>1, <1>4, <1>10, <3>1, <3>2 DEF A
    <3> QED
      BY <1>4, <1>5, <1>10, <3>3
  <2>4. CASE A + q > Half
        BY <1>9, <1>14, <2>2, <2>4 DEF Within, Error, P
  <2>5. CASE A + q <= Half
    <3>1. Term(u).ok /\ Term(u).v = A + q
          BY <1>4, <1>5, <1>10, <2>2, <2>3, <2>5 DEF Value
    <3> QED
      BY <1>9, <1>13, <3>1 DEF Within, P
  <2> QED
    BY <1>4, <1>5, <1>10, <2>4, <2>5
<1> QED
  BY <1>1, <1>4, <1>15, <1>16

------------------------------------------------------------------------------
(* The sum of the terms.                                                    *)

LEMMA PlusTyped == ASSUME NEW d \in Amounts, NEW v \in Amounts PROVE Plus(d, v) \in Amounts
<1> DEFINE s == (d.v + v.v) % (2 * Half)
<1>1. Half \in Nat /\ Half > 0 /\ d.v \in Nat /\ v.v \in Nat
      BY WidthAssumption DEF Amounts
<1>2. s \in Nat
      BY <1>1
<1>3. CASE ~d.ok \/ ~v.ok \/ s > Half
      BY <1>1, <1>3 DEF Amounts, Plus, Error
<1>4. CASE d.ok /\ v.ok /\ s <= Half
  <2>1. s \in 0..Half /\ ~(s > Half)
        BY <1>1, <1>2, <1>4
  <2> QED
    BY <1>4, <2>1 DEF Amounts, Plus, Value
<1> QED
  BY <1>1, <1>2, <1>3, <1>4

Terms == Seq(TermType)

\* d after no term, after one, and so on.
LEMMA SumsIs ==
  ASSUME NEW s \in Terms
  PROVE  \E r \in [0..Len(s) -> Amounts] :
           Sums(s) = r /\ r[0] = Value(0) /\ \A i \in 1..Len(s) : r[i] = Plus(r[i - 1], Term(s[i]))
<1> DEFINE n == Len(s)
           X == Amounts
           g == [i \in 1..n |-> [x \in X |-> Plus(x, Term(s[i]))]]
           B(f) == [i \in 0..n |-> IF i = 0 THEN Value(0) ELSE Plus(f[i - 1], Term(s[i]))]
           u == CHOOSE f : f = B(f)
<1>1. n \in Nat /\ Value(0) \in X
      BY WidthAssumption DEF Amounts, Terms, Value
<1>2. \A x \in X : \A i \in 1..n : Plus(x, Term(s[i])) \in X
      BY PlusTyped, TermTyped DEF Terms
<1>3. Sums(s) = u
      BY DEF Sums
<1> HIDE DEF n, X
<1>4. PICK f \in [0..n -> X] : f[0] = Value(0) /\ \A i \in 1..n : f[i] = g[i][f[i - 1]]
  <2>1. g \in [1..n -> [X -> X]]
        BY <1>2
  <2> HIDE DEF g
  <2> QED
    BY <1>1, <2>1, Recursion
<1>5. f = B(f)
  <2>1. ASSUME NEW i \in 1..n PROVE f[i] = Plus(f[i - 1], Term(s[i]))
    <3>1. f[i - 1] \in X
          BY <1>1
    <3> QED
      BY <1>4, <3>1
  <2> QED
    BY <1>1, <1>4, <2>1
<1>6. u = B(u)
      BY <1>5
<1> HIDE DEF u
<1>7. u[0] = Value(0) /\ \A i \in 1..n : u[i] = Plus(u[i - 1], Term(s[i]))
  <2>1. \A i \in 0..n : u[i] = IF i = 0 THEN Value(0) ELSE Plus(u[i - 1], Term(s[i]))
        BY <1>6
  <2> QED
    BY <1>1, <2>1
<1>8. u \in [0..n -> X]
  <2>1. u[0] \in X /\ \A i \in 1..n : u[i - 1] \in X => u[i] \in X
        BY <1>1, <1>2, <1>7
  <2>2. \A i \in 0..n : u[i] \in X
        BY <1>1, <2>1, Inherited
  <2> QED
    BY <1>6, <2>2
<1> QED
  BY <1>3, <1>7, <1>8 DEF n, X

\* d is added to in 64 bits, and an error stays one.
LEMMA PlusRight ==
  ASSUME NEW d \in Amounts, NEW v \in Amounts, ~(d = Value(Half) /\ v = Value(Half))
  PROVE  Plus(d, v) = IF ~d.ok \/ ~v.ok \/ d.v + v.v > Half THEN Error ELSE Value(d.v + v.v)
<1>1. Half \in Nat /\ Half > 0 /\ d.v \in 0..Half /\ v.v \in 0..Half
      BY WidthAssumption DEF Amounts
<1>2. CASE ~d.ok \/ ~v.ok
      BY <1>2 DEF Plus
<1>3. CASE d.ok /\ v.ok
  <2>1. d.v + v.v < 2 * Half
    <3>1. d = [ok |-> d.ok, v |-> d.v] /\ v = [ok |-> v.ok, v |-> v.v]
          BY DEF Amounts
    <3>2. d.ok = TRUE /\ v.ok = TRUE
          BY <1>3 DEF Amounts
    <3>3. ~(d.v = Half /\ v.v = Half)
          BY <3>1, <3>2 DEF Value
    <3> QED
      BY <1>1, <3>3
  <2>2. (d.v + v.v) % (2 * Half) = d.v + v.v
    <3>1. \A a, b \in Nat : a < b => a % b = a
          OBVIOUS
    <3>2. d.v + v.v \in Nat /\ 2 * Half \in Nat
          BY <1>1
    <3> QED
      BY <2>1, <3>1, <3>2
  <2> QED
    BY <1>3, <2>2 DEF Plus
<1> QED
  BY <1>2, <1>3

LEMMA MeantIs ==
  ASSUME NEW t \in TextType, \A i \in DOMAIN t.terms : t.terms[i].unit \in UnitMap
  PROVE  \E m \in [0..Len(t.terms) -> Nat] :
           Meant(t) = m[Len(t.terms)] /\ m[0] = 0 /\ \A i \in 1..Len(t.terms) : m[i] = m[i - 1] + MeantBy(t.terms[i])
<1> DEFINE n == Len(t.terms)
           X == Nat
           g == [i \in 1..n |-> [x \in X |-> x + MeantBy(t.terms[i])]]
           B(f) == [i \in 0..n |-> IF i = 0 THEN 0 ELSE f[i - 1] + MeantBy(t.terms[i])]
           u == CHOOSE f : f = B(f)
<1>1. n \in Nat /\ 0 \in X
      BY DEF TextType
<1>2. \A x \in X : \A i \in 1..n : x + MeantBy(t.terms[i]) \in X
      BY MeantTyped DEF TextType
<1>3. Meant(t) = u[n]
      BY DEF Meant
<1> HIDE DEF n, X
<1>4. PICK f \in [0..n -> X] : f[0] = 0 /\ \A i \in 1..n : f[i] = g[i][f[i - 1]]
  <2>1. g \in [1..n -> [X -> X]]
        BY <1>2
  <2> HIDE DEF g
  <2> QED
    BY <1>1, <2>1, Recursion
<1>5. f = B(f)
  <2>1. ASSUME NEW i \in 1..n PROVE f[i] = f[i - 1] + MeantBy(t.terms[i])
    <3>1. f[i - 1] \in X
          BY <1>1
    <3> QED
      BY <1>4, <3>1
  <2> QED
    BY <1>1, <1>4, <2>1
<1>6. u = B(u)
      BY <1>5
<1> HIDE DEF u
<1>7. u[0] = 0 /\ \A i \in 1..n : u[i] = u[i - 1] + MeantBy(t.terms[i])
  <2>1. \A i \in 0..n : u[i] = IF i = 0 THEN 0 ELSE u[i - 1] + MeantBy(t.terms[i])
        BY <1>6
  <2> QED
    BY <1>1, <2>1
<1>8. u \in [0..n -> X]
  <2>1. u[0] \in X /\ \A i \in 1..n : u[i - 1] \in X => u[i] \in X
        BY <1>1, <1>2, <1>7
  <2>2. \A i \in 0..n : u[i] \in X
        BY <1>1, <2>1, Inherited
  <2> QED
    BY <1>6, <2>2
<1> QED
  BY <1>3, <1>7, <1>8 DEF n, X

LEMMA AtoiIs ==
  ASSUME NEW d \in Digits
  PROVE  \E r \in [0..Len(d) -> 0..Half - 1] :
           Atoi(d) = r[Len(d)] /\ r[0] = 0 /\ \A i \in 1..Len(d) : r[i] = Largest(r[i - 1] * 10 + d[i])
<1> DEFINE n == Len(d)
           X == 0..Half - 1
           g == [i \in 1..n |-> [x \in X |-> Largest(x * 10 + d[i])]]
           B(f) == [i \in 0..n |-> IF i = 0 THEN 0 ELSE Largest(f[i - 1] * 10 + d[i])]
           u == CHOOSE f : f = B(f)
<1>1. n \in Nat /\ 0 \in X
      BY WidthAssumption DEF Digits
<1>2. \A x \in X : \A i \in 1..n : Largest(x * 10 + d[i]) \in X
      BY WidthAssumption DEF Digits, Largest
<1>3. Atoi(d) = u[n]
      BY DEF Atoi
<1> HIDE DEF n, X
<1>4. PICK f \in [0..n -> X] : f[0] = 0 /\ \A i \in 1..n : f[i] = g[i][f[i - 1]]
  <2>1. g \in [1..n -> [X -> X]]
        BY <1>2
  <2> HIDE DEF g
  <2> QED
    BY <1>1, <2>1, Recursion
<1>5. f = B(f)
  <2>1. ASSUME NEW i \in 1..n PROVE f[i] = Largest(f[i - 1] * 10 + d[i])
    <3>1. f[i - 1] \in X
          BY <1>1
    <3> QED
      BY <1>4, <3>1
  <2> QED
    BY <1>1, <1>4, <2>1
<1>6. u = B(u)
      BY <1>5
<1> HIDE DEF u
<1>7. u[0] = 0 /\ \A i \in 1..n : u[i] = Largest(u[i - 1] * 10 + d[i])
  <2>1. \A i \in 0..n : u[i] = IF i = 0 THEN 0 ELSE Largest(u[i - 1] * 10 + d[i])
        BY <1>6
  <2> QED
    BY <1>1, <2>1
<1>8. u \in [0..n -> X]
  <2>1. u[0] \in X /\ \A i \in 1..n : u[i - 1] \in X => u[i] \in X
        BY <1>1, <1>2, <1>7
  <2>2. \A i \in 0..n : u[i] \in X
        BY <1>1, <2>1, Inherited
  <2> QED
    BY <1>6, <2>2
<1> QED
  BY <1>3, <1>7, <1>8 DEF n, X

\* A term is added: what a sum is short by adds up, and an overflow is seen.
LEMMA WithinPlus ==
  ASSUME NEW d \in Amounts, NEW v \in Amounts, NEW a \in Nat, NEW b \in Nat, NEW k \in Nat,
         Within(d, a, k), Within(v, b, 1), k = 0 => d = Value(0) /\ a = 0, ~(d = Value(Half) /\ v = Value(Half))
  PROVE  Within(Plus(d, v), a + b, k + 1)
<1> DEFINE P == Tens[Places]
           L == Half * P
<1>1. Half \in Nat /\ d.v \in Nat /\ v.v \in Nat
      BY WidthAssumption DEF Amounts
<1>2. P \in Nat \ {0}
      BY TensTyped, WidthAssumption
<1>3. L \in Nat
      BY <1>1, <1>2, Product
<1>4. Plus(d, v) = IF ~d.ok \/ ~v.ok \/ d.v + v.v > Half THEN Error ELSE Value(d.v + v.v)
      BY PlusRight
<1>5. CASE ~d.ok \/ ~v.ok
  <2>1. a >= L \/ b >= L
        BY <1>5 DEF Within
  <2>2. ~Plus(d, v).ok
        BY <1>4, <1>5 DEF Error
  <2>3. a + b >= L
    <3> HIDE DEF L
    <3> QED
      BY <1>3, <2>1
  <2> QED
    BY <2>2, <2>3 DEF Within
<1>6. CASE d.ok /\ v.ok
  <2> DEFINE D == d.v * P
             V == v.v * P
  <2>1. D \in Nat /\ V \in Nat
        BY <1>1, <1>2, Product
  <2>2. D <= a /\ V <= b /\ b < V + 2 * P /\ (k = 0 \/ a < D + 2 * k * P)
    <3>1. \A x, y, z \in Nat : (x + 2 * y) * z = x * z + 2 * y * z
          OBVIOUS
    <3>2. (v.v + 2 * 1) * P = V + 2 * P /\ (d.v + 2 * k) * P = D + 2 * k * P
          BY <1>1, <1>2, <3>1
    <3> HIDE DEF P
    <3> QED
      BY <1>6, <3>2 DEF Within, P
  <2>3. (d.v + v.v) * P = D + V
    <3>1. \A x, y, z \in Nat : (x + y) * z = x * z + y * z
          OBVIOUS
    <3> QED
      BY <1>1, <1>2, <3>1
  <2>4. CASE d.v + v.v > Half
    <3>1. ~Plus(d, v).ok
          BY <1>4, <2>4 DEF Error
    <3>2. L <= D + V
      <4>1. Half * P <= (d.v + v.v) * P
            BY <1>1, <1>2, <2>4, Product
      <4> QED
        BY <2>3, <4>1
    <3>3. a + b >= L
      <4> HIDE DEF L, D, V
      <4> QED
        BY <1>3, <2>1, <2>2, <3>2
    <3> QED
      BY <3>1, <3>3 DEF Within
  <2>5. CASE d.v + v.v <= Half
    <3>1. Plus(d, v).ok /\ Plus(d, v).v = d.v + v.v
          BY <1>1, <1>4, <1>6, <2>5 DEF Value
    <3>2. (d.v + v.v) * P <= a + b
      <4> HIDE DEF D, V
      <4> QED
        BY <2>1, <2>2, <2>3
    <3>3. a + b < (D + V) + 2 * (k + 1) * P
      <4>1. 2 * (k + 1) * P = 2 * k * P + 2 * P /\ 2 * k * P \in Nat /\ 2 * P \in Nat
            BY <1>2
      <4>2. CASE k = 0
        <5>1. a = 0 /\ 2 * (k + 1) * P = 2 * P
              BY <1>2, <4>2
        <5> HIDE DEF D, V, P
        <5> QED
          BY <2>1, <2>2, <4>1, <5>1
      <4>3. CASE k # 0
        <5> DEFINE K == 2 * k * P
        <5>1. K \in Nat /\ a < D + K /\ 2 * (k + 1) * P = K + 2 * P
              BY <2>2, <4>1, <4>3
        <5> HIDE DEF D, V, P, K
        <5> QED
          BY <2>1, <2>2, <4>1, <5>1
      <4> QED
        BY <4>2, <4>3
    <3>4. ((d.v + v.v) + 2 * (k + 1)) * P = (D + V) + 2 * (k + 1) * P
      <4>1. \A x, y, z \in Nat : (x + 2 * y) * z = x * z + 2 * y * z
            OBVIOUS
      <4> QED
        BY <1>1, <1>2, <2>3, <4>1
    <3> QED
      BY <3>1, <3>2, <3>3, <3>4 DEF Within
  <2> QED
    BY <1>1, <2>4, <2>5
<1> QED
  BY <1>5, <1>6 DEF Amounts

\* A text that is well formed and does not wrap has the sum it means.
LEMMA SumRight ==
  ASSUME NEW t \in TextType, WellFormed(t), ~WrapsToZero(t)
  PROVE  Meant(t) \in Nat /\ Sum(t.terms) \in Amounts /\ Within(Sum(t.terms), Meant(t), Len(t.terms))
<1> DEFINE n == Len(t.terms)
<1>1. t.terms \in Terms /\ n \in Nat /\ (\A i \in 1..n : t.terms[i] \in TermType)
      BY DEF TextType, Terms
<1>2. \A i \in 1..n : t.terms[i].unit \in UnitMap /\ HasDigits(t.terms[i])
      BY DEF WellFormed, TextType
<1>3. PICK r \in [0..n -> Amounts] :
        Sums(t.terms) = r /\ r[0] = Value(0) /\ \A i \in 1..n : r[i] = Plus(r[i - 1], Term(t.terms[i]))
      BY <1>1, SumsIs
<1>4. PICK m \in [0..n -> Nat] :
        Meant(t) = m[n] /\ m[0] = 0 /\ \A i \in 1..n : m[i] = m[i - 1] + MeantBy(t.terms[i])
  <2>1. \A i \in DOMAIN t.terms : t.terms[i].unit \in UnitMap
        BY <1>2 DEF TextType
  <2> QED
    BY <2>1, MeantIs
<1>5. Sum(t.terms) = r[n]
      BY <1>3 DEF Sum
<1>6. \A i \in 1..n : ~(r[i - 1] = Value(Half) /\ Term(t.terms[i]) = Value(Half))
  <2>1. DOMAIN t.terms = 1..n
        BY DEF TextType
  <2> QED
    BY <1>3, <2>1 DEF WrapsToZero
<1> HIDE DEF n
<1> DEFINE S == {i \in 0..n : Within(r[i], m[i], i)}
<1>7. 0 \in S
  <2>1. r[0].ok /\ r[0].v = 0 /\ m[0] = 0
        BY <1>3, <1>4 DEF Value
  <2>2. Tens[Places] \in Nat
        BY TensTyped, WidthAssumption
  <2>3. Within(r[0], m[0], 0)
        BY <2>1, <2>2 DEF Within
  <2> QED
    BY <1>1, <2>3
<1>8. ASSUME NEW i \in 1..n, i - 1 \in S PROVE i \in S
  <2> DEFINE v == Term(t.terms[i])
             b == MeantBy(t.terms[i])
  <2>1. t.terms[i] \in TermType /\ t.terms[i].unit \in UnitMap /\ HasDigits(t.terms[i])
        BY <1>1, <1>2
  <2>2. v \in Amounts /\ b \in Nat /\ Within(v, b, 1)
        BY <2>1, TermTyped, TermRight
  <2>3. i - 1 \in 0..n /\ r[i - 1] \in Amounts /\ m[i - 1] \in Nat /\ Within(r[i - 1], m[i - 1], i - 1)
        BY <1>1, <1>8
  <2>4. r[i] = Plus(r[i - 1], v) /\ m[i] = m[i - 1] + b
        BY <1>3, <1>4
  <2>5. i - 1 = 0 => r[i - 1] = Value(0) /\ m[i - 1] = 0
        BY <1>3, <1>4
  <2>6. ~(r[i - 1] = Value(Half) /\ v = Value(Half))
        BY <1>6
  <2> HIDE DEF v, b
  <2>7. Within(Plus(r[i - 1], v), m[i - 1] + b, (i - 1) + 1)
        BY <1>1, <2>2, <2>3, <2>5, <2>6, WithinPlus
  <2> QED
    BY <1>1, <2>4, <2>7
<1>9. \A i \in 0..n : i \in S
  <2> HIDE DEF S
  <2> QED
    BY <1>1, <1>7, <1>8, InductionTo
<1>10. n \in 0..n
       BY <1>1
<1> QED
  BY <1>4, <1>5, <1>9, <1>10 DEF n

\* A sum is an error as soon as one of its terms is.
LEMMA SumError ==
  ASSUME NEW s \in Terms, NEW j \in DOMAIN s, ~Term(s[j]).ok
  PROVE  Sum(s) = Error
<1> DEFINE n == Len(s)
<1>1. n \in Nat /\ j \in 1..n
      BY DEF Terms
<1>2. PICK r \in [0..n -> Amounts] :
        Sums(s) = r /\ r[0] = Value(0) /\ \A i \in 1..n : r[i] = Plus(r[i - 1], Term(s[i]))
      BY SumsIs
<1>3. Sum(s) = r[n]
      BY <1>2 DEF Sum
<1> HIDE DEF n
<1> DEFINE S == {i \in 0..n : i >= j => r[i] = Error}
<1>4. 0 \in S
      BY <1>1
<1>5. ASSUME NEW i \in 1..n, i - 1 \in S PROVE i \in S
  <2>1. CASE i < j
        BY <1>1, <2>1
  <2>2. CASE i = j
        BY <1>1, <1>2, <2>2 DEF Plus
  <2>3. CASE i > j
    <3>1. i - 1 \in Nat /\ i - 1 >= j
          BY <1>1, <2>3
    <3>2. ~r[i - 1].ok
          BY <1>5, <3>1 DEF Error
    <3> QED
      BY <1>2, <3>2 DEF Plus
  <2> QED
    BY <1>1, <2>1, <2>2, <2>3
<1>6. \A i \in 0..n : i \in S
  <2> HIDE DEF S
  <2> QED
    BY <1>1, <1>4, <1>5, InductionTo
<1>7. n \in 0..n /\ n >= j
      BY <1>1
<1> QED
  BY <1>3, <1>6, <1>7

------------------------------------------------------------------------------
(* Digits alone.                                                            *)

\* The number, or the largest there is.
LEMMA AtoiRight == ASSUME NEW d \in Digits PROVE Number(d) \in Nat /\ Atoi(d) = Largest(Number(d))
<1> DEFINE n == Len(d)
<1>1. n \in Nat /\ (\A i \in 1..n : d[i] \in 0..9) /\ Half \in Nat /\ Half > 10
      BY WidthAssumption DEF Digits
<1>2. PICK m \in [0..n -> Nat] : Number(d) = m[n] /\ m[0] = 0 /\ \A i \in 1..n : m[i] = 10 * m[i - 1] + d[i]
      BY NumberIs
<1>3. PICK r \in [0..n -> 0..Half - 1] :
        Atoi(d) = r[n] /\ r[0] = 0 /\ \A i \in 1..n : r[i] = Largest(r[i - 1] * 10 + d[i])
      BY AtoiIs
<1> HIDE DEF n
<1> DEFINE S == {i \in 0..n : r[i] = Largest(m[i])}
<1>4. 0 \in S
      BY <1>1, <1>2, <1>3 DEF Largest
<1>5. ASSUME NEW i \in 1..n, i - 1 \in S PROVE i \in S
  <2>1. m[i - 1] \in Nat /\ d[i] \in 0..9 /\ m[i] = 10 * m[i - 1] + d[i]
        BY <1>1, <1>2
  <2>2. r[i - 1] = Largest(m[i - 1]) /\ r[i] = Largest(r[i - 1] * 10 + d[i])
        BY <1>3, <1>5
  <2>3. \A x \in Nat : \A c \in 0..9 : Largest(Largest(x) * 10 + c) = Largest(10 * x + c)
        BY <1>1 DEF Largest
  <2>4. r[i] = Largest(m[i])
        BY <2>1, <2>2, <2>3
  <2> QED
    BY <2>4
<1>6. \A i \in 0..n : i \in S
  <2> HIDE DEF S
  <2> QED
    BY <1>1, <1>4, <1>5, InductionTo
<1>7. n \in 0..n
      BY <1>1
<1> QED
  BY <1>2, <1>3, <1>6, <1>7

LEMMA SignedTyped == ASSUME NEW x \in Nat PROVE Signed(x) \in -Half..Half - 1 /\ (x < Half => Signed(x) = x)
<1> DEFINE y == x % (2 * Half)
<1>1. Half \in Nat /\ 2 * Half \in Nat \ {0}
      BY WidthAssumption
<1>2. y \in Nat /\ y < 2 * Half /\ (x < 2 * Half => y = x)
  <2>1. \A b \in Nat \ {0} : x % b \in Nat /\ x % b < b /\ (x < b => x % b = x)
        OBVIOUS
  <2> QED
    BY <1>1, <2>1
<1>3. Signed(x) = IF y >= Half THEN y - 2 * Half ELSE y
      BY DEF Signed
<1> HIDE DEF y
<1> QED
  BY <1>1, <1>2, <1>3

LEMMA UnitlessRight ==
  ASSUME NEW t \in TextType, Unitless(t)
  PROVE  /\ Duration(t).ok /\ Duration(t).v \in -Half..Half - 1
         /\ t.terms # <<>> => LET s == Number(t.terms[1].int) * Second IN s < Half => Duration(t).v = s
<1>1. Half \in Nat /\ Half > 10 /\ Second \in Nat \ {0}
      BY WidthAssumption
<1>2. CASE t.terms = <<>>
  <2>1. Duration(t).ok /\ Duration(t).v = 0
        BY <1>2 DEF Duration, Value
  <2> QED
    BY <1>1, <1>2, <2>1
<1>3. CASE t.terms # <<>>
  <2> DEFINE d == t.terms[1].int
             m == Number(d)
             a == Atoi(d)
  <2>1. d \in Digits
    <3>1. t.terms[1] \in TermType
          BY <1>3 DEF TextType
    <3> QED
      BY <3>1 DEF TermType
  <2>2. m \in Nat /\ a = Largest(m)
        BY <2>1, AtoiRight
  <2>3. Duration(t).ok /\ Duration(t).v = Signed(Second * a)
        BY <1>3 DEF Duration, Value
  <2> HIDE DEF d, m, a
  <2>4. a \in Nat
        BY <1>1, <2>2 DEF Largest
  <2>5. Second * a \in Nat
        BY <1>1, <2>4
  <2>6. ASSUME m * Second < Half PROVE Signed(Second * a) = m * Second
    <3>1. m <= m * Second
          BY <1>1, <2>2
    <3>2. a = m
          BY <1>1, <2>2, <2>6, <3>1 DEF Largest
    <3>3. Second * a = m * Second
          BY <1>1, <2>2, <3>2
    <3> QED
      BY <2>5, <2>6, <3>3, SignedTyped
  <2>7. Signed(Second * a) \in -Half..Half - 1
        BY <2>5, SignedTyped
  <2> QED
    BY <2>3, <2>6, <2>7 DEF m, d
<1> QED
  BY <1>2, <1>3

------------------------------------------------------------------------------
(* A duration fits, and is what its text says.                              *)

LEMMA NegatedTyped ==
  ASSUME NEW d \in Amounts, NEW sign
  PROVE  Negated(d, sign).v \in -Half..Half - 1
<1>1. Half \in Nat /\ Half > 10 /\ d.v \in 0..Half
      BY WidthAssumption DEF Amounts
<1> QED
  BY <1>1 DEF Negated, Error, Value

LEMMA DurationTyped == ASSUME NEW t \in TextType PROVE Duration(t).v \in -Half..Half - 1
<1>1. Half \in Nat /\ Half > 10
      BY WidthAssumption
<1>2. CASE Unitless(t)
      BY <1>2, UnitlessRight
<1>3. CASE ~Unitless(t) /\ (Zero(t) \/ t.terms = <<>>)
      BY <1>1, <1>3 DEF Duration, Value, Error
<1>4. CASE ~Unitless(t) /\ ~Zero(t) /\ t.terms # <<>>
  <2>1. t.terms \in Terms /\ Len(t.terms) \in 0..Len(t.terms)
        BY DEF TextType, Terms
  <2>2. Sum(t.terms) \in Amounts
        BY <2>1, SumsIs DEF Sum
  <2>3. Duration(t) = Negated(Sum(t.terms), t.sign)
        BY <1>4 DEF Duration
  <2> QED
    BY <2>2, <2>3, NegatedTyped
<1> QED
  BY <1>2, <1>3, <1>4

\* What is refused, or "0" with a sign.
LEMMA IllFormedRight ==
  ASSUME NEW t \in TextType, ~Unitless(t), ~WellFormed(t)
  PROVE  Duration(t) = IF Zero(t) THEN Value(0) ELSE Error
<1>1. CASE Zero(t)
      BY <1>1 DEF Duration
<1>2. CASE ~Zero(t) /\ t.terms = <<>>
      BY <1>2 DEF Duration
<1>3. CASE ~Zero(t) /\ t.terms # <<>>
  <2>1. PICK j \in DOMAIN t.terms : ~(t.terms[j].unit \in UnitMap /\ HasDigits(t.terms[j]))
        BY <1>3 DEF WellFormed
  <2>2. ~Term(t.terms[j]).ok
        BY <2>1 DEF Term, WithUnit, Error
  <2>3. t.terms \in Terms
        BY DEF TextType, Terms
  <2>4. Sum(t.terms) = Error
        BY <2>2, <2>3, SumError
  <2> QED
    BY <1>3, <2>4 DEF Duration, Negated, Error
<1> QED
  BY <1>1, <1>2, <1>3

LEMMA WellFormedHasUnits == ASSUME NEW t \in TextType, WellFormed(t) PROVE ~Unitless(t) /\ ~Zero(t)
<1>1. t.terms # <<>> /\ Len(t.terms) \in Nat \ {0} /\ t.terms[1].unit \in UnitMap
      BY DEF WellFormed, TextType
<1>2. t.terms[1].unit # Missing
      BY <1>1, WidthAssumption DEF Missing
<1> QED
  BY <1>1, <1>2 DEF Unitless, Zero

LEMMA WellFormedRight ==
  ASSUME NEW t \in TextType, WellFormed(t), ~WrapsToZero(t)
  PROVE  (Duration(t).ok => Near(t, Duration(t).v)) /\ (Meant(t) < Half * Tens[Places] => Duration(t).ok)
<1> DEFINE d == Sum(t.terms)
           P == Tens[Places]
           n == Len(t.terms)
           m == Meant(t)
           r == Duration(t)
<1>1. m \in Nat /\ d \in Amounts /\ Within(d, m, n)
      BY SumRight
<1>2. n \in Nat \ {0} /\ t.terms[1].unit \in UnitMap
      BY DEF WellFormed, TextType
<1>3. ~Unitless(t) /\ ~Zero(t) /\ t.terms # <<>>
      BY WellFormedHasUnits DEF WellFormed
<1>4. r = Negated(d, t.sign)
      BY <1>3 DEF Duration
<1>5. Half \in Nat /\ P \in Nat \ {0} /\ d.v \in 0..Half
      BY <1>1, TensTyped, WidthAssumption DEF Amounts
<1>6. ASSUME r.ok PROVE Near(t, r.v)
  <2>1. d.ok /\ r.v = IF t.sign = "-" THEN -d.v ELSE d.v
        BY <1>4, <1>6 DEF Negated, Error, Value
  <2>2. (IF t.sign = "-" THEN -r.v ELSE r.v) = d.v
        BY <1>5, <2>1
  <2>3. d.v * P <= m /\ m < (d.v + 2 * n) * P
        BY <1>1, <1>2, <2>1 DEF Within
  <2> QED
    BY <2>2, <2>3 DEF Near
<1>7. ASSUME m < Half * P PROVE r.ok
  <2>1. Half * P \in Nat
        BY <1>5, Product
  <2>2. d.ok /\ d.v * P <= m
    <3> DEFINE L == Half * P
    <3>1. d.ok \/ m >= L
          BY <1>1 DEF Within
    <3>2. d.ok
      <4> HIDE DEF L, m
      <4>1. L \in Nat /\ m \in Nat /\ m < L
            BY <1>1, <1>7, <2>1 DEF L
      <4> QED
        BY <3>1, <4>1
    <3> QED
      BY <1>1, <3>2 DEF Within
  <2>3. d.v < Half
    <3>1. SUFFICES ASSUME d.v = Half PROVE FALSE
          BY <1>5
    <3> DEFINE L == Half * P
    <3>2. L \in Nat /\ m \in Nat /\ m < L /\ L <= m
          BY <1>1, <1>7, <2>1, <2>2, <3>1
    <3> HIDE DEF L, m
    <3> QED
      BY <3>2
  <2> QED
    BY <1>4, <1>5, <2>2, <2>3 DEF Negated, Value
<1> QED
  BY <1>6, <1>7

\* parseSystemdDuration is right about every text.
LEMMA DurationIsRight == ASSUME NEW t \in TextType PROVE Right(t, Duration(t))
<1>1. CASE Unitless(t)
  <2>1. ~WellFormed(t)
        BY <1>1, WellFormedHasUnits
  <2> QED
    BY <1>1, <2>1, UnitlessRight DEF Right
<1>2. CASE ~Unitless(t) /\ WellFormed(t) /\ ~WrapsToZero(t)
      BY <1>2, WellFormedRight DEF Right
<1>3. CASE ~Unitless(t) /\ WellFormed(t) /\ WrapsToZero(t)
      BY <1>3 DEF Right
<1>4. CASE ~Unitless(t) /\ ~WellFormed(t)
      BY <1>4, IllFormedRight DEF Right
<1> QED
  BY <1>1, <1>2, <1>3, <1>4

------------------------------------------------------------------------------
(* Words.                                                                   *)

Texts == Seq(Words)

LEMMA Blanks == "" \in Words /\ <<"">> \in Texts \ {<<>>} /\ <<"junk">> \in Texts \ {<<>>}
<1>1. "" \in Words /\ "junk" \in Words
      BY WordsAssumption
<1>2. \A x \in Words : <<x>> \in Texts \ {<<>>}
      BY DEF Texts
<1> QED
  BY <1>1, <1>2

Pieces == Seq(Texts)

\* Concatenation from the left, part by part.
LEMMA FlattenFrom ==
  ASSUME NEW s \in Pieces, NEW r \in [0..Len(s) -> Texts], r[0] = <<>>, \A i \in 1..Len(s) : r[i] = r[i - 1] \o s[i]
  PROVE  FlattenSeq(s) = r[Len(s)]
<1> DEFINE n == Len(s)
           B(f) == [i \in 1..n |-> IF i = 1 THEN s[i] ELSE f[i - 1] \o s[i]]
           u == CHOOSE f : f = B(f)
           v == [i \in 1..n |-> r[i]]
<1>1. n \in Nat /\ \A i \in 1..n : s[i] \in Texts
      BY DEF Pieces
<1>2. CASE n = 0
      BY <1>2 DEF FlattenSeq
<1>3. CASE n # 0
  <2>1. FlattenSeq(s) = u[n]
        BY <1>3 DEF FlattenSeq
  <2>2. v = B(v)
    <3>1. ASSUME NEW i \in 1..n PROVE v[i] = IF i = 1 THEN s[i] ELSE v[i - 1] \o s[i]
      <4>1. v[i] = r[i - 1] \o s[i]
            OBVIOUS
      <4>2. CASE i = 1
        <5>1. r[i - 1] = <<>>
              BY <4>2
        <5>2. <<>> \o s[i] = s[i]
              BY <1>1 DEF Texts
        <5> QED
          BY <4>1, <4>2, <5>1, <5>2
      <4>3. CASE i # 1
        <5>1. i - 1 \in 1..n
              BY <4>3
        <5> QED
          BY <4>1, <4>3, <5>1
      <4> QED
        BY <4>2, <4>3
    <3> HIDE DEF v
    <3>2. v = [i \in 1..n |-> v[i]]
          BY DEF v
    <3> QED
      BY <3>1, <3>2
  <2> HIDE DEF v
  <2>3. u = B(u)
        BY <2>2
  <2> HIDE DEF u
  <2>4. \A i \in 1..n : u[i] = IF i = 1 THEN s[i] ELSE u[i - 1] \o s[i]
        BY <2>3
  <2> DEFINE S == {i \in 0..n : i = 0 \/ u[i] = r[i]}
  <2>5. ASSUME NEW i \in 1..n, i - 1 \in S PROVE i \in S
    <3>1. r[i] = r[i - 1] \o s[i]
          OBVIOUS
    <3>2. CASE i = 1
      <4>1. r[i - 1] = <<>>
            BY <3>2
      <4>2. <<>> \o s[i] = s[i]
            BY <1>1 DEF Texts
      <4> QED
        BY <2>4, <3>1, <3>2, <4>1, <4>2
    <3>3. CASE i # 1
      <4>1. u[i - 1] = r[i - 1]
            BY <2>5, <3>3
      <4>2. u[i] = u[i - 1] \o s[i]
            BY <2>4, <3>3
      <4>3. u[i] = r[i]
            BY <3>1, <4>1, <4>2
      <4> QED
        BY <4>3
    <3> QED
      BY <1>1, <3>2, <3>3
  <2>6. \A i \in 0..n : i \in S
    <3>1. 0 \in S
          BY <1>1
    <3> HIDE DEF S
    <3> QED
      BY <1>1, <2>5, <3>1, InductionTo
  <2> QED
    BY <1>1, <1>3, <2>1, <2>6
<1> QED
  BY <1>2, <1>3

LEMMA FlattenRuns ==
  ASSUME NEW s \in Pieces
  PROVE  \E r \in [0..Len(s) -> Texts] : r[0] = <<>> /\ \A i \in 1..Len(s) : r[i] = r[i - 1] \o s[i]
<1> DEFINE n == Len(s)
           X == Texts
           none == <<>>
           g == [i \in 1..n |-> [x \in X |-> x \o s[i]]]
<1>1. n \in Nat /\ none \in X
      BY DEF Texts, Pieces
<1>2. \A x \in X : \A i \in 1..n : x \o s[i] \in X
      BY DEF Texts, Pieces
<1> HIDE DEF n, X, none
<1>3. PICK f \in [0..n -> X] : f[0] = none /\ \A i \in 1..n : f[i] = g[i][f[i - 1]]
  <2>1. g \in [1..n -> [X -> X]]
        BY <1>2
  <2> HIDE DEF g
  <2> QED
    BY <1>1, <2>1, Recursion
<1>4. ASSUME NEW i \in 1..n PROVE f[i] = f[i - 1] \o s[i]
  <2>1. f[i - 1] \in X
        BY <1>1
  <2> QED
    BY <1>3, <2>1
<1> QED
  BY <1>3, <1>4 DEF n, X, none

LEMMA FlattenNone == FlattenSeq(<<>>) = <<>>
  BY DEF FlattenSeq

LEMMA FlattenMore ==
  ASSUME NEW s \in Pieces, NEW x \in Texts
  PROVE  FlattenSeq(s) \in Texts /\ FlattenSeq(Append(s, x)) = FlattenSeq(s) \o x
<1> DEFINE n == Len(s)
           t == Append(s, x)
<1>1. n \in Nat /\ t \in Pieces /\ Len(t) = n + 1 /\ t[n + 1] = x /\ \A i \in 1..n : t[i] = s[i]
      BY DEF Pieces
<1>2. PICK r \in [0..Len(t) -> Texts] : r[0] = <<>> /\ \A i \in 1..Len(t) : r[i] = r[i - 1] \o t[i]
  <2> HIDE DEF t
  <2> QED
    BY <1>1, FlattenRuns
<1>3. FlattenSeq(t) = r[n + 1]
  <2> HIDE DEF t
  <2> QED
    BY <1>1, <1>2, FlattenFrom
<1> HIDE DEF t
<1> DEFINE q == [i \in 0..n |-> r[i]]
<1>4. q \in [0..n -> Texts] /\ q[0] = <<>> /\ q[n] = r[n]
      BY <1>1, <1>2
<1>5. ASSUME NEW i \in 1..n PROVE q[i] = q[i - 1] \o s[i]
  <2>1. i \in 1..Len(t) /\ i \in 0..n /\ i - 1 \in 0..n
        BY <1>1
  <2> QED
    BY <1>1, <1>2, <2>1
<1> HIDE DEF q
<1>6. FlattenSeq(s) = r[n]
      BY <1>4, <1>5, FlattenFrom
<1>7. r[n + 1] = r[n] \o x
  <2>1. n + 1 \in 1..Len(t) /\ (n + 1) - 1 = n
        BY <1>1
  <2> QED
    BY <1>1, <1>2, <2>1
<1>8. r[n] \in Texts
      BY <1>1, <1>2
<1> QED
  BY <1>3, <1>6, <1>7, <1>8 DEF t

\* What holds of no words, and of one more, holds of all.
LEMMA TextInduction ==
  ASSUME NEW S, <<>> \in S, \A a \in Texts : \A x \in Words : a \in S => Append(a, x) \in S
  PROVE  \A w \in Texts : w \in S
<1> SUFFICES ASSUME NEW w \in Texts PROVE w \in S
    OBVIOUS
<1> DEFINE n == Len(w)
           none == <<>>
           U(i) == SubSeq(w, 1, i)
           T == {i \in 0..n : U(i) \in S}
<1>1. n \in Nat /\ U(0) = none /\ U(n) = w
      BY DEF Texts
<1>2. \A i \in 1..n : U(i - 1) \in Texts /\ w[i] \in Words /\ U(i) = Append(U(i - 1), w[i])
      BY DEF Texts
<1>3. none \in S
      OBVIOUS
<1> HIDE DEF n, U, none
<1>4. 0 \in T /\ n \in 0..n
      BY <1>1, <1>3
<1>5. ASSUME NEW i \in 1..n, i - 1 \in T PROVE i \in T
  <2>1. Append(U(i - 1), w[i]) \in S
        BY <1>2, <1>5
  <2>2. U(i) \in S
        BY <1>2, <2>1
  <2>3. i \in 0..n
        BY <1>1
  <2> QED
    BY <2>2, <2>3
<1>6. \A i \in 0..n : i \in T
  <2> HIDE DEF T
  <2> QED
    BY <1>1, <1>4, <1>5, InductionTo
<1> QED
  BY <1>1, <1>4, <1>6

LEMMA TextFacts ==
  ASSUME NEW u \in Texts, NEW v \in Texts, NEW x \in Words
  PROVE  /\ <<>> \in Texts /\ u \o <<>> = u /\ <<>> \o u = u /\ u \o v \in Texts
         /\ Append(u, x) \in Texts /\ <<x>> \in Texts /\ u \o <<x>> = Append(u, x) /\ u \o Append(v, x) = Append(u \o v, x)
         /\ ToSet(Append(u, x)) = ToSet(u) \cup {x}
<1>1. /\ <<>> \in Texts /\ u \o <<>> = u /\ <<>> \o u = u /\ u \o v \in Texts
      /\ Append(u, x) \in Texts /\ <<x>> \in Texts /\ u \o <<x>> = Append(u, x)
      BY DEF Texts
<1>2. u \o Append(v, x) = Append(u \o v, x)
      BY DEF Texts
<1>3. ToSet(Append(u, x)) = ToSet(u) \cup {x}
  <2>1. Len(u) \in Nat /\ DOMAIN u = 1..Len(u) /\ DOMAIN Append(u, x) = 1..Len(u) + 1
        BY DEF Texts
  <2>2. Append(u, x)[Len(u) + 1] = x /\ \A i \in 1..Len(u) : Append(u, x)[i] = u[i]
        BY DEF Texts
  <2> QED
    BY <2>1, <2>2 DEF ToSet
<1> QED
  BY <1>1, <1>2, <1>3

LEMMA NamesMore ==
  ASSUME NEW w \in Texts, NEW x \in Words
  PROVE  /\ Names(<<>>) = <<>> /\ Names(w) \in Texts
         /\ Names(Append(w, x)) = IF x = "" THEN Names(w) ELSE Append(Names(w), x)
<1> DEFINE P(a) == [i \in 1..Len(a) |-> IF a[i] = "" THEN <<>> ELSE <<a[i]>>]
           y == IF x = "" THEN <<>> ELSE <<x>>
           t == Append(w, x)
<1>1. \A a \in Words : <<a>> \in Texts
      BY DEF Texts
<1>2. y \in Texts /\ <<>> \in Texts
      BY TextFacts
<1>3. Len(w) \in Nat /\ \A i \in 1..Len(w) : w[i] \in Words
      BY DEF Texts
<1>4. \A a \in Texts : P(a) \in Pieces /\ Len(P(a)) = Len(a)
  <2> SUFFICES ASSUME NEW a \in Texts PROVE P(a) \in Pieces /\ Len(P(a)) = Len(a)
      OBVIOUS
  <2> DEFINE m == Len(a)
             q == P(a)
  <2>1. m \in Nat /\ \A i \in 1..m : a[i] \in Words
        BY DEF Texts
  <2>2. q \in [1..m -> Texts]
        BY <1>1, <1>2, <2>1
  <2> HIDE DEF q, m
  <2>3. q \in Pieces /\ Len(q) = m
        BY <2>1, <2>2 DEF Pieces
  <2> QED
    BY <2>3 DEF q, m
<1>5. t \in Texts /\ Len(t) = Len(w) + 1 /\ t[Len(w) + 1] = x /\ \A i \in 1..Len(w) : t[i] = w[i]
      BY DEF Texts
<1>6. P(t) = Append(P(w), y)
  <2> DEFINE m == Len(w)
             p == P(w)
             q == P(t)
  <2>1. q \in Pieces /\ Len(q) = m + 1 /\ p \in Pieces /\ Len(p) = m
    <3> HIDE DEF P, t
    <3> QED
      BY <1>4, <1>5
  <2>2. m + 1 \in 1..m + 1 /\ 1..m \subseteq 1..m + 1
        BY <1>3
  <2>3. q[m + 1] = y /\ \A i \in 1..m : q[i] = p[i]
    <3> HIDE DEF t
    <3>1. \A i \in 1..m + 1 : q[i] = IF t[i] = "" THEN <<>> ELSE <<t[i]>>
          BY <1>5
    <3>2. \A i \in 1..m : p[i] = IF w[i] = "" THEN <<>> ELSE <<w[i]>>
          OBVIOUS
    <3> QED
      BY <1>5, <2>2, <3>1, <3>2
  <2> HIDE DEF P, p, q, t, y
  <2>4. q = Append(p, y)
    <3>1. m \in Nat /\ y \in Texts
          BY <1>2, <1>3
    <3> HIDE DEF m
    <3> QED
      BY <2>1, <2>3, <3>1 DEF Pieces
  <2> QED
    BY <2>4 DEF p, q
<1>7. Names(w) = FlattenSeq(P(w)) /\ Names(t) = FlattenSeq(P(t))
      BY DEF Names
<1>8. Names(<<>>) = <<>>
  <2>1. P(<<>>) = <<>>
        OBVIOUS
  <2> QED
    BY <2>1, FlattenNone DEF Names
<1> HIDE DEF P, y, t
<1>9. Names(w) \in Texts /\ Names(t) = Names(w) \o y
      BY <1>2, <1>4, <1>6, <1>7, FlattenMore
<1>10. Names(w) \o y = IF x = "" THEN Names(w) ELSE Append(Names(w), x)
       BY <1>9, TextFacts DEF y
<1> QED
  BY <1>8, <1>9, <1>10 DEF t

\* Two texts, one behind the other.
LEMMA NamesConcat == ASSUME NEW u \in Texts, NEW v \in Texts PROVE Names(u \o v) = Names(u) \o Names(v)
<1> DEFINE S == {w \in Texts : Names(u \o w) = Names(u) \o Names(w)}
<1>1. <<>> \in S
  <2>1. "" \in Words
        BY Blanks
  <2>2. Names(u) \in Texts /\ Names(<<>>) = <<>>
        BY <2>1, NamesMore
  <2> QED
    BY <2>1, <2>2, TextFacts
<1>2. ASSUME NEW a \in Texts, NEW x \in Words, a \in S PROVE Append(a, x) \in S
  <2>1. Append(a, x) \in Texts /\ u \o a \in Texts /\ u \o Append(a, x) = Append(u \o a, x)
    <3> HIDE DEF S
    <3>1. Append(a, x) \in Texts /\ u \o a \in Texts
          BY TextFacts
    <3>2. u \o Append(a, x) = Append(u \o a, x)
          BY TextFacts
    <3> QED
      BY <3>1, <3>2
  <2>2. Names(u \o Append(a, x)) = IF x = "" THEN Names(u \o a) ELSE Append(Names(u \o a), x)
        BY <2>1, NamesMore
  <2>3. Names(Append(a, x)) = IF x = "" THEN Names(a) ELSE Append(Names(a), x)
        BY NamesMore
  <2>4. Names(u) \in Texts /\ Names(a) \in Texts
        BY NamesMore
  <2>5. Names(u) \o Append(Names(a), x) = Append(Names(u) \o Names(a), x)
        BY <2>4, TextFacts
  <2> QED
    BY <1>2, <2>1, <2>2, <2>3, <2>5
<1>3. \A w \in Texts : w \in S
  <2> HIDE DEF S
  <2> QED
    BY <1>1, <1>2, TextInduction
<1> QED
  BY <1>3

LEMMA NamesSet == ASSUME NEW w \in Texts PROVE ToSet(Names(w)) = ToSet(w) \ {""}
<1> DEFINE S == {a \in Texts : ToSet(Names(a)) = ToSet(a) \ {""}}
<1>1. <<>> \in S
  <2>1. ToSet(<<>>) = {} /\ <<>> \in Texts
        BY DEF ToSet, Texts
  <2>2. Names(<<>>) = <<>>
        BY Blanks, NamesMore
  <2> QED
    BY <2>1, <2>2
<1>2. ASSUME NEW a \in Texts, NEW x \in Words, a \in S PROVE Append(a, x) \in S
  <2>1. Names(a) \in Texts /\ Names(Append(a, x)) = IF x = "" THEN Names(a) ELSE Append(Names(a), x)
        BY NamesMore
  <2>2. Append(a, x) \in Texts /\ ToSet(Append(a, x)) = ToSet(a) \cup {x} /\ ToSet(Append(Names(a), x)) = ToSet(Names(a)) \cup {x}
        BY <2>1, TextFacts
  <2> QED
    BY <1>2, <2>1, <2>2
<1>3. \A a \in Texts : a \in S
  <2> HIDE DEF S
  <2> QED
    BY <1>1, <1>2, TextInduction
<1> QED
  BY <1>3

LEMMA NamesNone == ASSUME NEW w \in Texts PROVE (Names(w) = <<>>) <=> Blank(w)
<1>1. Names(w) \in Texts
      BY Blanks, NamesMore
<1>2. \A a \in Texts : (a = <<>>) <=> (ToSet(a) = {})
  <2> SUFFICES ASSUME NEW a \in Texts PROVE (a = <<>>) <=> (ToSet(a) = {})
      OBVIOUS
  <2>1. (a = <<>>) <=> (Len(a) = 0)
        BY DEF Texts
  <2>2. Len(a) \in Nat /\ DOMAIN a = 1..Len(a)
        BY DEF Texts
  <2>3. (ToSet(a) = {}) <=> (Len(a) = 0)
    <3>1. ASSUME Len(a) # 0 PROVE a[1] \in ToSet(a)
          BY <2>2, <3>1 DEF ToSet
    <3> QED
      BY <2>2, <3>1 DEF ToSet
  <2> QED
    BY <2>1, <2>3
<1>3. (ToSet(w) \ {""} = {}) <=> Blank(w)
      BY DEF ToSet, Blank
<1> QED
  BY <1>1, <1>2, <1>3, NamesSet

\* Where TrimLeft and TrimRight cut.
LEMMA FirstWord ==
  ASSUME NEW w \in Texts, ~Blank(w)
  PROVE  \E k \in 1..Len(w) : TrimLeft(w) = SubSeq(w, k, Len(w)) /\ w[k] # "" /\ \A j \in 1..k - 1 : w[j] = ""
<1> DEFINE I == {i \in 1..Len(w) : w[i] # ""}
           k == SelectInSeq(w, LAMBDA x : x # "")
<1>1. Len(w) \in Nat /\ DOMAIN w = 1..Len(w) /\ \A i \in 1..Len(w) : w[i] \in Words
      BY DEF Texts
<1>2. I # {} /\ I \in SUBSET Nat
  <2>1. PICK i \in 1..Len(w) : w[i] # ""
        BY <1>1 DEF Blank
  <2>2. i \in I /\ I \subseteq 1..Len(w)
        BY <2>1
  <2> HIDE DEF I
  <2> QED
    BY <1>1, <2>2
<1>3. k = CHOOSE x \in I : \A y \in I : x =< y
      BY <1>2 DEF SelectInSeq, Min
<1>4. k \in I /\ \A y \in I : k =< y
  <2> HIDE DEF I, k
  <2>1. \E x \in I : \A y \in I : x =< y
        BY <1>2, Least
  <2> QED
    BY <1>3, <2>1
<1>5. TrimLeft(w) = SubSeq(w, k, Len(w))
      BY DEF TrimLeft
<1> HIDE DEF k
<1>6. k \in 1..Len(w) /\ w[k] # ""
      BY <1>4
<1>7. ASSUME NEW j \in 1..k - 1 PROVE w[j] = ""
  <2>1. j \in Nat /\ k \in Nat /\ ~(k =< j) /\ j \in 1..Len(w)
    <3> DEFINE n == Len(w)
    <3>1. n \in Nat /\ k \in 1..n
          BY <1>1, <1>6
    <3> HIDE DEF n
    <3>2. j \in 1..n /\ ~(k =< j)
          BY <3>1
    <3> QED
      BY <3>1, <3>2 DEF n
  <2> QED
    BY <1>4, <2>1
<1> QED
  BY <1>5, <1>6, <1>7

LEMMA LastWord ==
  ASSUME NEW w \in Texts, ~Blank(w)
  PROVE  \E k \in 1..Len(w) : TrimRight(w) = SubSeq(w, 1, k) /\ w[k] # "" /\ \A j \in k + 1..Len(w) : w[j] = ""
<1> DEFINE I == {i \in 1..Len(w) : w[i] # ""}
           k == SelectLastInSeq(w, LAMBDA x : x # "")
<1>1. Len(w) \in Nat /\ DOMAIN w = 1..Len(w) /\ \A i \in 1..Len(w) : w[i] \in Words
      BY DEF Texts
<1>2. I # {} /\ I \in SUBSET (0..Len(w))
  <2>1. PICK i \in 1..Len(w) : w[i] # ""
        BY <1>1 DEF Blank
  <2>2. i \in I /\ I \subseteq 1..Len(w)
        BY <2>1
  <2> HIDE DEF I
  <2> QED
    BY <1>1, <2>2
<1>3. k = CHOOSE x \in I : \A y \in I : x >= y
      BY <1>2 DEF SelectLastInSeq, Max
<1>4. k \in I /\ \A y \in I : k >= y
  <2> HIDE DEF I, k
  <2>1. \E x \in I : \A y \in I : x >= y
        BY <1>1, <1>2, Greatest
  <2> QED
    BY <1>3, <2>1
<1>5. TrimRight(w) = SubSeq(w, 1, k)
      BY DEF TrimRight
<1> HIDE DEF k
<1>6. k \in 1..Len(w) /\ w[k] # ""
      BY <1>4
<1>7. ASSUME NEW j \in k + 1..Len(w) PROVE w[j] = ""
  <2>1. j \in Nat /\ k \in Nat /\ ~(k >= j) /\ j \in 1..Len(w)
    <3> DEFINE n == Len(w)
    <3>1. n \in Nat /\ k \in 1..n /\ j \in k + 1..n
          BY <1>1, <1>6
    <3> HIDE DEF n
    <3>2. j \in 1..n /\ ~(k >= j)
          BY <3>1
    <3> QED
      BY <3>1, <3>2 DEF n
  <2> QED
    BY <1>4, <2>1
<1> QED
  BY <1>5, <1>6, <1>7

LEMMA NamesOne == ASSUME NEW x \in Words PROVE Names(<<x>>) = IF x = "" THEN <<>> ELSE <<x>>
<1> DEFINE none == <<>>
<1>1. none \in Texts /\ Append(none, x) = <<x>>
      BY DEF Texts
<1>2. Names(none) = none
      BY Blanks, NamesMore
<1>3. Names(Append(none, x)) = IF x = "" THEN Names(none) ELSE Append(Names(none), x)
  <2> HIDE DEF none
  <2> QED
    BY <1>1, NamesMore
<1> QED
  BY <1>1, <1>2, <1>3

\* A text in two parts.
LEMMA Cut ==
  ASSUME NEW w \in Texts, NEW k \in 0..Len(w)
  PROVE  LET a == SubSeq(w, 1, k)
             b == SubSeq(w, k + 1, Len(w))
         IN  /\ a \in Texts /\ b \in Texts /\ w = a \o b /\ Len(a) = k /\ Len(b) = Len(w) - k
             /\ \A j \in 1..k : a[j] = w[j]
             /\ \A j \in 1..Len(w) - k : b[j] = w[k + j]
<1> DEFINE n == Len(w)
           a == SubSeq(w, 1, k)
           b == SubSeq(w, k + 1, n)
<1>1. n \in Nat /\ k \in 0..n
      BY DEF Texts
<1>5. w \in [1..n -> Words]
      BY DEF Texts
<1>2. a \in Texts /\ Len(a) = k /\ \A j \in 1..k : a[j] = w[j]
      BY <1>1, <1>5 DEF Texts
<1>3. b \in Texts /\ Len(b) = n - k /\ \A j \in 1..n - k : b[j] = w[k + j]
  <2>1. b = [j \in 1..n - k |-> w[k + j]]
        BY <1>1, <1>5 DEF Texts
  <2>2. \A j \in 1..n - k : w[k + j] \in Words
    <3> HIDE DEF n
    <3>1. \A j \in 1..n - k : k + j \in 1..n
          BY <1>1
    <3> QED
      BY <1>5, <3>1
  <2>3. n - k \in Nat
        BY <1>1
  <2> HIDE DEF b, n
  <2> QED
    BY <2>1, <2>2, <2>3 DEF Texts
<1>4. w = a \o b
  <2> DEFINE c == a \o b
  <2> HIDE DEF a, b, n
  <2>1. c \in Texts /\ Len(c) = n
    <3>2. a \in Texts /\ b \in Texts
          BY <1>2, <1>3
    <3>1. c \in Texts /\ Len(c) = Len(a) + Len(b)
          BY <3>2 DEF Texts
    <3> HIDE DEF c
    <3> QED
      BY <1>1, <1>2, <1>3, <3>1
  <2>2. ASSUME NEW j \in 1..n PROVE c[j] = w[j]
    <3>1. CASE j \in 1..k
      <4>1. c[j] = a[j]
            BY <1>1, <1>2, <1>3, <3>1 DEF Texts
      <4> QED
        BY <1>2, <3>1, <4>1
    <3>2. CASE j \in k + 1..n
      <4>1. j - k \in 1..n - k /\ k + (j - k) = j
            BY <1>1, <3>2
      <4>2. c[j] = b[j - k]
            BY <1>1, <1>2, <1>3, <3>2 DEF Texts
      <4> QED
        BY <1>3, <4>1, <4>2
    <3>3. j \in 1..k \/ j \in k + 1..n
          BY <1>1
    <3> QED
      BY <3>1, <3>2, <3>3
  <2> HIDE DEF c
  <2>4. c \in [1..n -> Words]
        BY <2>1 DEF Texts
  <2>5. w = [j \in 1..n |-> w[j]] /\ c = [j \in 1..n |-> c[j]]
        BY <1>5, <2>4
  <2>3. w = c
        BY <2>2, <2>5
  <2> QED
    BY <2>3 DEF c
<1> QED
  BY <1>2, <1>3, <1>4

\* The words that are left are those that were there, and where the last was not
\* blank it is not.
LEMMA TrimLeftIs ==
  ASSUME NEW w \in Texts
  PROVE  /\ TrimLeft(w) \in Texts /\ Names(TrimLeft(w)) = Names(w)
         /\ (TrimLeft(w) = <<>>) <=> Blank(w)
         /\ (TrimLeft(w) = <<"true">>) <=> (Names(w) = <<"true">> /\ w[Len(w)] # "")
<1> DEFINE v == TrimLeft(w)
           n == Len(w)
<1>1. n \in Nat /\ DOMAIN w = 1..n /\ \A i \in 1..n : w[i] \in Words
      BY DEF Texts
<1>2. CASE Blank(w)
  <2>1. v = <<>> /\ Names(w) = <<>>
        BY <1>2, NamesNone DEF TrimLeft
  <2>2. <<>> # <<"true">> /\ <<>> \in Texts
        BY DEF Texts
  <2>3. Names(<<>>) = <<>>
        BY Blanks, NamesMore
  <2> QED
    BY <1>2, <2>1, <2>2, <2>3
<1>3. CASE ~Blank(w)
  <2>1. PICK k \in 1..n : v = SubSeq(w, k, n) /\ w[k] # "" /\ \A j \in 1..k - 1 : w[j] = ""
        BY <1>3, FirstWord
  <2> DEFINE a == SubSeq(w, 1, k - 1)
  <2> HIDE DEF v
  <2>2. /\ a \in Texts /\ v \in Texts /\ w = a \o v /\ Len(v) = n - k + 1 /\ v[1] = w[k] /\ v[Len(v)] = w[n] /\ Blank(a)
    <3>1. k - 1 \in 0..n /\ (k - 1) + 1 = k
          BY <1>1
    <3>5. v = SubSeq(w, (k - 1) + 1, n)
          BY <2>1, <3>1
    <3>2. /\ a \in Texts /\ v \in Texts /\ w = a \o v /\ Len(a) = k - 1 /\ Len(v) = n - (k - 1)
          /\ \A j \in 1..k - 1 : a[j] = w[j]
          /\ \A j \in 1..n - (k - 1) : v[j] = w[(k - 1) + j]
          BY <3>1, <3>5, Cut
    <3>3. v[1] = w[k] /\ v[n - (k - 1)] = w[n]
      <4> HIDE DEF a, n
      <4>1. /\ 1 \in 1..n - (k - 1) /\ n - (k - 1) \in 1..n - (k - 1) 
            /\ (k - 1) + 1 = k /\ (k - 1) + (n - (k - 1)) = n
            BY <1>1
      <4> QED
        BY <3>2, <4>1
    <3>4. Blank(a)
      <4> HIDE DEF a
      <4>1. DOMAIN a = 1..k - 1
            BY <3>2 DEF Texts
      <4> QED
        BY <2>1, <3>2, <4>1 DEF Blank
    <3> QED
      BY <1>1, <3>2, <3>3, <3>4
  <2>3. Names(a) = <<>> /\ Names(v) \in Texts
        BY <2>2, Blanks, NamesNone, NamesMore
  <2>4. Names(w) = Names(v)
    <3>1. Names(w) = Names(a) \o Names(v)
          BY <2>2, NamesConcat
    <3>2. <<>> \o Names(v) = Names(v)
          BY <2>3 DEF Texts
    <3> QED
      BY <2>3, <3>1, <3>2
  <2>5. v # <<>>
    <3>1. Len(v) # 0
          BY <1>1, <2>2
    <3> QED
      BY <3>1
  <2>6. ASSUME v = <<"true">> PROVE Names(w) = <<"true">> /\ w[n] # ""
    <3>1. v[1] = "true" /\ Len(v) = 1
          BY <2>6
    <3>2. "true" \in Words
          BY <1>1, <2>1, <2>2, <3>1
    <3>3. Names(v) = <<"true">>
          BY <2>6, <3>2, NamesOne
    <3> QED
      BY <2>2, <2>4, <3>1, <3>3
  <2>7. ASSUME Names(w) = <<"true">>, w[n] # "" PROVE v = <<"true">>
    <3> DEFINE m == Len(v)
               b == SubSeq(v, 1, m - 1)
               c == SubSeq(v, m, m)
               x == v[m]
    <3>1. m \in Nat /\ m >= 1 /\ \A i \in 1..m : v[i] \in Words
          BY <2>2, <1>1 DEF Texts
    <3>2. b \in Texts /\ v = b \o c /\ c = <<x>> /\ Len(b) = m - 1 /\ (m > 1 => b[1] = v[1])
      <4> DEFINE l == m - 1
      <4>1. l \in 0..m /\ l + 1 = m /\ m - l = 1 /\ 1 \in 1..m - l
            BY <3>1
      <4>2. c = SubSeq(v, l + 1, m)
            BY <4>1
      <4> HIDE DEF l
      <4> DEFINE d == SubSeq(v, 1, l)
                 e == SubSeq(v, l + 1, Len(v))
      <4>8. d \in Texts /\ e \in Texts /\ v = d \o e /\ Len(d) = l /\ Len(e) = Len(v) - l
            /\ (\A j \in 1..l : d[j] = v[j]) /\ (\A j \in 1..Len(v) - l : e[j] = v[l + j])
            BY <2>2, <4>1, Cut
      <4> HIDE DEF d, e
      <4>3. /\ b = d => b \in Texts /\ v = b \o c /\ Len(b) = l /\ \A j \in 1..l : b[j] = v[j]
            /\ c \in Texts /\ Len(c) = m - l /\ \A j \in 1..m - l : c[j] = v[l + j]
        <5>1. c = e
              BY <4>2 DEF e
        <5> QED
          BY <4>8, <5>1
      <4> HIDE DEF c
      <4>4. c[1] = x /\ Len(c) = 1 /\ c \in Texts
            BY <4>1, <4>3
      <4>5. c = <<x>>
        <5> HIDE DEF x
        <5> QED
          BY <4>4 DEF Texts
      <4>6. b = d
            BY DEF l, d
      <4>7. m > 1 => 1 \in 1..l
            BY <3>1 DEF l
      <4> HIDE DEF b
      <4>9. b \in Texts /\ v = b \o c /\ Len(b) = l /\ \A j \in 1..l : b[j] = v[j]
            BY <4>3, <4>6
      <4>10. m > 1 => b[1] = v[1]
             BY <4>7, <4>9
      <4>11. Len(b) = m - 1
             BY <4>9 DEF l
      <4> QED
        BY <4>5, <4>9, <4>10, <4>11
    <3>3. x \in Words /\ x # ""
      <4>1. m \in 1..m
            BY <3>1
      <4>2. x # ""
            BY <2>2, <2>7
      <4> HIDE DEF m
      <4> QED
        BY <3>1, <4>1, <4>2
    <3> HIDE DEF b, c, m, x
    <3>4. Names(v) = Append(Names(b), x) /\ Names(b) \in Texts
      <4>1. Names(c) = <<x>> /\ c \in Texts
            BY <3>2, <3>3, NamesOne, TextFacts
      <4>2. Names(v) = Names(b) \o Names(c)
            BY <3>2, <4>1, NamesConcat
      <4>3. Names(b) \in Texts
            BY <3>2, <3>3, NamesMore
      <4>4. Names(b) \o <<x>> = Append(Names(b), x)
            BY <3>3, <4>3, TextFacts
      <4> QED
        BY <4>1, <4>2, <4>3, <4>4
    <3>5. Names(b) = <<>>
      <4>1. Append(Names(b), x) = <<"true">>
            BY <2>4, <2>7, <3>4
      <4>2. Len(Names(b)) = 0
            BY <3>4, <4>1 DEF Texts
      <4> QED
        BY <3>4, <4>2 DEF Texts
    <3>6. m = 1
      <4>1. Blank(b)
            BY <3>2, <3>5, NamesNone
      <4>2. ASSUME m > 1 PROVE FALSE
        <5>1. DOMAIN b = 1..m - 1 /\ 1 \in 1..m - 1
              BY <3>1, <3>2, <4>2 DEF Texts
        <5> QED
          BY <2>1, <2>2, <3>2, <4>1, <4>2, <5>1 DEF Blank
      <4> QED
        BY <3>1, <4>2
    <3>7. v = <<x>> /\ Names(v) = <<x>>
      <4>1. b = <<>>
        <5>1. b \in Texts /\ Len(b) = 0
              BY <3>2, <3>6
        <5> QED
          BY <5>1, EmptySeq DEF Texts
      <4>2. <<>> \o <<x>> = <<x>>
        <5>1. \A y \in Words : <<y>> \in Texts
              BY DEF Texts
        <5>2. \A z \in Texts : <<>> \o z = z
              BY DEF Texts
        <5> QED
          BY <3>3, <5>1, <5>2
      <4>3. v = <<x>>
            BY <3>2, <4>1, <4>2
      <4> QED
        BY <3>3, <4>3, NamesOne
    <3> QED
      BY <2>4, <2>7, <3>7
  <2> QED
    BY <1>3, <2>2, <2>4, <2>5, <2>6, <2>7 DEF v
<1> QED
  BY <1>2, <1>3

\* Without its first word.
LEMMA NamesTail ==
  ASSUME NEW u \in Texts \ {<<>>}, NEW w \in Texts \ {<<>>}, u[1] = w[1], Names(u) = Names(w)
  PROVE  Names(Tail(u)) = Names(Tail(w))
<1> DEFINE x == w[1]
<1>1. \A a \in Texts \ {<<>>} : a[1] \in Words /\ Tail(a) \in Texts /\ a = <<a[1]>> \o Tail(a)
      BY DEF Texts
<1>2. x \in Words /\ u = <<x>> \o Tail(u) /\ w = <<x>> \o Tail(w) /\ Tail(u) \in Texts /\ Tail(w) \in Texts
      BY <1>1
<1> HIDE DEF x
<1>3. <<x>> \in Texts /\ Names(<<x>>) = IF x = "" THEN <<>> ELSE <<x>>
      BY <1>2, TextFacts, NamesOne
<1>4. Names(u) = Names(<<x>>) \o Names(Tail(u)) /\ Names(w) = Names(<<x>>) \o Names(Tail(w))
      BY <1>2, <1>3, NamesConcat
<1>5. Names(Tail(u)) \in Texts /\ Names(Tail(w)) \in Texts
      BY <1>2, NamesMore
<1>6. \A a, b \in Texts : <<>> \o a = <<>> \o b => a = b
      BY DEF Texts
<1>7. \A a, b \in Texts : <<x>> \o a = <<x>> \o b => a = b
  <2> SUFFICES ASSUME NEW a \in Texts, NEW b \in Texts, <<x>> \o a = <<x>> \o b PROVE a = b
      OBVIOUS
  <2>1. Tail(<<x>> \o a) = a /\ Tail(<<x>> \o b) = b
        BY <1>2 DEF Texts
  <2> QED
    BY <2>1
<1> QED
  BY <1>3, <1>4, <1>5, <1>6, <1>7

LEMMA TrimRightIs ==
  ASSUME NEW w \in Texts \ {<<>>}
  PROVE  LET u == TrimRight(w)
         IN  /\ u \in Texts \ {<<>>} /\ Names(u) = Names(w) /\ (Blank(u) <=> Blank(w))
             /\ (u[Len(u)] # "") <=> ~Blank(w)
             /\ Names(Tail(u)) = Names(Tail(w))
<1> DEFINE u == TrimRight(w)
           n == Len(w)
<1>1. n \in Nat /\ n >= 1 /\ DOMAIN w = 1..n /\ \A i \in 1..n : w[i] \in Words
      BY DEF Texts
<1>2. u \in Texts \ {<<>>}
  <2>1. CASE Blank(w)
        BY <2>1, Blanks DEF TrimRight
  <2>2. CASE ~Blank(w)
    <3>1. PICK k \in 1..n : u = SubSeq(w, 1, k)
          BY <2>2, LastWord
    <3> HIDE DEF u, n
    <3> QED
      BY <1>1, <3>1 DEF Texts, n
  <2> QED
    BY <2>1, <2>2
<1>3. CASE Blank(w)
  <2>1. u = <<"">>
        BY <1>3 DEF TrimRight
  <2> HIDE DEF u
  <2>2. w[1] = "" /\ u[1] = ""
    <3>1. 1 \in DOMAIN w
          BY <1>1
    <3> QED
      BY <1>3, <2>1, <3>1 DEF Blank
  <2>3. Names(u) = <<>> /\ Names(w) = <<>>
        BY <1>3, <2>1, Blanks, NamesNone, NamesOne
  <2>4. u[Len(u)] = "" /\ Blank(u)
    <3>1. Len(u) = 1
          BY <2>1
    <3> QED
      BY <1>2, <2>2, <2>3, <3>1, NamesNone
  <2> QED
    BY <1>2, <1>3, <2>2, <2>3, <2>4, NamesTail DEF u
<1>4. CASE ~Blank(w)
  <2>1. PICK k \in 1..n : u = SubSeq(w, 1, k) /\ w[k] # "" /\ \A j \in k + 1..n : w[j] = ""
        BY <1>4, LastWord
  <2> DEFINE b == SubSeq(w, k + 1, n)
  <2> HIDE DEF u
  <2>2. /\ b \in Texts /\ u \in Texts /\ w = u \o b /\ Len(u) = k /\ Len(b) = n - k
        /\ \A j \in 1..k : u[j] = w[j]
        /\ \A j \in 1..n - k : b[j] = w[k + j]
    <3>1. k \in 0..n
          BY <1>1
    <3> QED
      BY <2>1, <3>1, Cut
  <2>3. u[1] = w[1] /\ u[Len(u)] # ""
    <3>1. 1 \in 1..k /\ k \in 1..k
          BY <1>1
    <3> QED
      BY <2>1, <2>2, <3>1
  <2> HIDE DEF b
  <2>4. Blank(b)
    <3>1. DOMAIN b = 1..n - k
          BY <2>2 DEF Texts
    <3>2. \A j \in 1..n - k : k + j \in k + 1..n
      <4> HIDE DEF n
      <4> QED
        BY <1>1
    <3> QED
      BY <2>1, <2>2, <3>1, <3>2 DEF Blank
  <2>5. Names(w) = Names(u)
    <3>1. Names(b) = <<>> /\ Names(u) \in Texts
          BY <2>2, <2>4, Blanks, NamesNone, NamesMore
    <3>2. Names(w) = Names(u) \o Names(b)
          BY <2>2, NamesConcat
    <3>3. Names(u) \o <<>> = Names(u)
          BY <3>1 DEF Texts
    <3> QED
      BY <3>1, <3>2, <3>3
  <2>6. Blank(u) <=> Blank(w)
        BY <2>2, <2>5, NamesNone
  <2> QED
    BY <1>2, <1>4, <2>3, <2>5, <2>6, NamesTail DEF u
<1> QED
  BY <1>3, <1>4

------------------------------------------------------------------------------
(* Types.                                                                   *)

Lines == Seq(LineType)

\* A line of a file, and what is before it of the same value.
Parts == {l \in LineType : l.is \in Kinds}

\* Other words make it another line of a file.
LEMMA PartWords ==
  ASSUME NEW l \in Parts, NEW w \in Texts \ {<<>>}
  PROVE  /\ l.words \in Texts \ {<<>>} /\ l.text \in TextType /\ (l.is = "header" => l.name \in Sections)
         /\ [l EXCEPT !.words = w] \in Parts /\ [l EXCEPT !.is = "text", !.words = w] \in Parts
         /\ [l EXCEPT !.is = "open"] \in Parts /\ [l EXCEPT !.is = "header", !.name = "unknown"] \in Parts
<1> DEFINE q == [l EXCEPT !.words = w]
           t == [l EXCEPT !.is = "text", !.words = w]
           o == [l EXCEPT !.is = "open"]
           h == [l EXCEPT !.is = "header", !.name = "unknown"]
<1>1. /\ l \in AnyLine /\ l.is \in Kinds /\ (l.is = "header" => l.name \in Sections)
      /\ l.is = "assign" /\ l.more => l.name \notin DOMAIN Times
      BY DEF Parts, LineType
<1>2. l.words \in Texts \ {<<>>} /\ l.text \in TextType
      BY <1>1 DEF AnyLine, Texts
<1>3. q \in AnyLine /\ q.is = l.is /\ q.name = l.name /\ q.more = l.more
      BY <1>1 DEF AnyLine, Texts
<1>4. t \in AnyLine /\ t.is = "text" /\ o \in AnyLine /\ o.is = "open"
      BY <1>1 DEF AnyLine, Texts, Kinds
<1>5. h \in AnyLine /\ h.is = "header" /\ h.name \in Sections
  <2>1. "unknown" \in Labels /\ "header" \in Kinds \cup {"comment", "long"} /\ "unknown" \in Sections
        BY DEF Kinds, Sections, Labels
  <2> QED
    BY <1>1, <2>1 DEF AnyLine
<1> HIDE DEF q, t, o, h
<1>6. q \in Parts
      BY <1>1, <1>3 DEF Parts, LineType
<1>7. t \in Parts /\ o \in Parts
      BY <1>4 DEF Parts, LineType, Kinds
<1>8. h \in Parts
      BY <1>5 DEF Parts, LineType, Kinds
<1> QED
  BY <1>1, <1>2, <1>6, <1>7, <1>8 DEF q, t, o, h

LEMMA AsWordsTyped == ASSUME NEW l \in Parts PROVE AsWords(l) \in Texts
<1>1. l.words \in Texts \ {<<>>}
      BY Blanks, PartWords
<1>2. CASE l.is = "assign"
  <2>1. Tail(l.words) \in Texts
        BY <1>1 DEF Texts
  <2>2. \A a, b \in Texts : a \o b \in Texts
        BY DEF Texts
  <2>3. <<"junk">> \o Tail(l.words) \in Texts
        BY <2>1, <2>2, Blanks
  <2> QED
    BY <1>2, <2>3 DEF AsWords
<1>3. CASE l.is # "assign"
      BY <1>1, <1>3, Blanks DEF AsWords
<1> QED
  BY <1>2, <1>3

LEMMA JoinedTyped ==
  ASSUME NEW before, before = Nothing \/ before \in Parts, NEW l \in Parts
  PROVE  Joined(before, l) \in Parts
<1>1. CASE before = Nothing
  <2>1. before.is = "nothing"
        BY <1>1 DEF Nothing
  <2> QED
    BY <1>1, <2>1 DEF Joined
<1>2. CASE before \in Parts /\ before # Nothing
  <2> DEFINE w == before.words \o AsWords(l)
  <2>1. \A a \in Texts \ {<<>>}, b \in Texts : a \o b \in Texts \ {<<>>}
        BY DEF Texts
  <2>2. w \in Texts \ {<<>>}
    <3>1. before.words \in Texts \ {<<>>}
          BY <1>2, Blanks, PartWords
    <3> QED
      BY <2>1, <3>1, AsWordsTyped
  <2>3. [before EXCEPT !.words = @ \o AsWords(l)] \in Parts
        BY <1>2, <2>2, PartWords
  <2>4. [before EXCEPT !.is = "text", !.words = <<"junk">>] \in Parts
        BY <1>2, Blanks, PartWords
  <2>5. Opened(before, l) \in Parts
        BY <1>2, Blanks, PartWords DEF Opened
  <2> QED
    BY <1>2, <2>3, <2>4, <2>5 DEF Joined
<1> QED
  BY <1>1, <1>2

LEMMA LineTyped ==
  ASSUME TypeOK, At(Kinds)
  PROVE  Head(lines) \in Parts /\ Tail(lines) \in Lines /\ Line \in Parts
<1>1. lines \in Lines /\ lines # <<>>
      BY DEF TypeOK, At, Lines
<1>2. Head(lines) \in LineType /\ Tail(lines) \in Lines
      BY <1>1 DEF Lines
<1>3. Head(lines) \in Parts
      BY <1>2 DEF At, Parts
<1>4. concat = Nothing \/ concat \in Parts
      BY DEF TypeOK, Parts, Kinds
<1>5. [Head(lines) EXCEPT !.words = TrimRight(@)] \in Parts
  <2> DEFINE l == Head(lines)
             w == TrimRight(l.words)
  <2>1. w \in Texts \ {<<>>}
        BY <1>3, Blanks, PartWords, TrimRightIs
  <2> HIDE DEF w
  <2>2. [l EXCEPT !.words = w] \in Parts
        BY <1>3, <2>1, PartWords
  <2> QED
    BY <2>2 DEF w
<1>6. Line \in Parts
      BY <1>3, <1>4, <1>5, JoinedTyped DEF Line
<1> QED
  BY <1>2, <1>3, <1>6

\* The keys of a section are keys of the definition.
LEMMA KeysTyped ==
  ASSUME NEW s \in Sections
  PROVE  /\ Maps(s) \subseteq UnitMaps /\ Lists(s) \subseteq ServiceLists /\ Flags(s) \subseteq UnitFlags \cup ServiceFlags
         /\ Values(s) \subseteq UnitValues \cup ServiceValues /\ Timed(s) \subseteq DOMAIN Times
<1>1. InstallMaps \subseteq UnitMaps
      BY DEF InstallMaps, UnitMaps
<1> QED
  BY <1>1 DEF Maps, Lists, Flags, Values, Timed

\* A definition by its fields.
LEMMA DefFields ==
  ASSUME NEW d \in DefType
  PROVE  /\ d.maps \in [UnitMaps -> SUBSET Words] /\ d.lists \in [ServiceLists -> Seq(Texts)]
         /\ d.flags \in [UnitFlags \cup ServiceFlags -> BOOLEAN] /\ d.values \in [UnitValues \cup ServiceValues -> Texts]
         /\ d.times \in [TimeFields -> -Half..Half - 1]
         /\ \A f \in [UnitMaps -> SUBSET Words] : [d EXCEPT !.maps = f] \in DefType
         /\ \A f \in [ServiceLists -> Seq(Texts)] : [d EXCEPT !.lists = f] \in DefType
         /\ \A f \in [UnitFlags \cup ServiceFlags -> BOOLEAN] : [d EXCEPT !.flags = f] \in DefType
         /\ \A f \in [UnitValues \cup ServiceValues -> Texts] : [d EXCEPT !.values = f] \in DefType
         /\ \A f \in [TimeFields -> -Half..Half - 1] : [d EXCEPT !.times = f] \in DefType
  BY DEF DefType, Texts

\* An assignment leaves a definition.
LEMMA StoredTyped ==
  ASSUME def \in DefType, section \in Sections, NEW l \in Parts
  PROVE  Stored(l) \in DefType
<1> DEFINE v == TrimLeft(l.words)
           k == l.name
<1>1. v \in Texts
      BY Blanks, PartWords, TrimLeftIs
<1>2. ToSet(v) \subseteq Words
      BY <1>1 DEF ToSet, Texts
<1>3. \A s \in Seq(Texts) : Append(s, v) \in Seq(Texts)
      BY <1>1
<1> HIDE DEF v
<1>4. ASSUME k \in Maps(section) PROVE [def EXCEPT !.maps[k] = IF v = <<>> THEN {} ELSE @ \cup ToSet(v)] \in DefType
  <2> DEFINE f == [def.maps EXCEPT ![k] = IF v = <<>> THEN {} ELSE @ \cup ToSet(v)]
  <2>1. def.maps \in [UnitMaps -> SUBSET Words] /\ k \in UnitMaps
        BY <1>4, DefFields, KeysTyped
  <2>2. f \in [UnitMaps -> SUBSET Words]
        BY <1>2, <2>1
  <2> HIDE DEF f
  <2>3. [def EXCEPT !.maps = f] \in DefType
        BY <2>2, DefFields
  <2> QED
    BY <2>3 DEF f
<1>5. ASSUME k \in Lists(section) PROVE [def EXCEPT !.lists[k] = Append(@, v)] \in DefType
  <2> DEFINE f == [def.lists EXCEPT ![k] = Append(@, v)]
  <2>1. def.lists \in [ServiceLists -> Seq(Texts)] /\ k \in ServiceLists
        BY <1>5, DefFields, KeysTyped
  <2>2. f \in [ServiceLists -> Seq(Texts)]
    <3>1. Append(def.lists[k], v) \in Seq(Texts)
          BY <1>3, <2>1
    <3> QED
      BY <2>1, <3>1
  <2> HIDE DEF f
  <2>3. [def EXCEPT !.lists = f] \in DefType
        BY <2>2, DefFields
  <2> QED
    BY <2>3 DEF f
<1>6. ASSUME k \in Flags(section) PROVE [def EXCEPT !.flags[k] = v = <<"true">>] \in DefType
  <2> DEFINE f == [def.flags EXCEPT ![k] = v = <<"true">>]
  <2>1. def.flags \in [UnitFlags \cup ServiceFlags -> BOOLEAN] /\ k \in UnitFlags \cup ServiceFlags
        BY <1>6, DefFields, KeysTyped
  <2>2. f \in [UnitFlags \cup ServiceFlags -> BOOLEAN]
        BY <2>1
  <2> HIDE DEF f
  <2>3. [def EXCEPT !.flags = f] \in DefType
        BY <2>2, DefFields
  <2> QED
    BY <2>3 DEF f
<1>7. ASSUME k \in Values(section) PROVE [def EXCEPT !.values[k] = v] \in DefType
  <2> DEFINE f == [def.values EXCEPT ![k] = v]
  <2>1. def.values \in [UnitValues \cup ServiceValues -> Texts] /\ k \in UnitValues \cup ServiceValues
        BY <1>7, DefFields, KeysTyped
  <2>2. f \in [UnitValues \cup ServiceValues -> Texts]
        BY <1>1, <2>1
  <2> HIDE DEF f
  <2>3. [def EXCEPT !.values = f] \in DefType
        BY <2>2, DefFields
  <2> QED
    BY <2>3 DEF f
<1> QED
  BY <1>4, <1>5, <1>6, <1>7 DEF Stored, v

LEMMA ThreeDirs == Cardinality(Dirs) = 3
<1>1. IsFiniteSet({}) /\ Cardinality({}) = 0
      BY FS_EmptySet
<1>2. IsFiniteSet({"etc"}) /\ Cardinality({"etc"}) = 1
      BY FS_Singleton
<1>3. IsFiniteSet({"etc", "usr"}) /\ Cardinality({"etc", "usr"}) = 2
  <2>1. {"etc", "usr"} = {"etc"} \cup {"usr"}
        OBVIOUS
  <2> QED
    BY <1>2, <2>1, FS_AddElement
<1>4. Dirs = {"etc", "usr"} \cup {"lib"}
      BY DEF Dirs
<1> QED
  BY <1>3, <1>4, FS_AddElement

LEMMA NoDefTyped == NoDef \in DefType
<1>1. 0 \in -Half..Half - 1
      BY WidthAssumption
<1> QED
  BY <1>1 DEF NoDef, DefType

LEMMA InitTypeOK == Init => TypeOK
<1> SUFFICES ASSUME Init PROVE TypeOK
    OBVIOUS
<1>1. machine \in MachineType
  <2>1. PICK S \in Machines : machine \in S
        BY DEF Init
  <2> QED
    BY <2>1, MachineAssumption
<1>2. dirs \in Seq(Dirs) /\ Len(dirs) <= 3
  <2> DEFINE links == machine.links
  <2>1. dirs = Paths(links)
        BY DEF Init
  <2>2. \A i \in 1..6 : Ask[i][2] \in Seq(Dirs) /\ Len(Ask[i][2]) <= 3
    <3>1. Ask[1][2] = <<"etc", "usr">> /\ Ask[2][2] = <<"etc", "lib">> /\ Ask[3][2] = <<"etc", "usr">>
          /\ Ask[4][2] = <<"etc", "lib">> /\ Ask[5][2] = <<"etc", "usr">> /\ Ask[6][2] = <<"etc", "lib">>
          BY DEF Ask
    <3>2. \A i \in 1..6 : Ask[i][2] = <<"etc", "usr">> \/ Ask[i][2] = <<"etc", "lib">>
          BY <3>1
    <3>3. <<"etc", "usr">> \in Seq(Dirs) /\ Len(<<"etc", "usr">>) <= 3
          BY DEF Dirs
    <3>4. <<"etc", "lib">> \in Seq(Dirs) /\ Len(<<"etc", "lib">>) <= 3
          BY DEF Dirs
    <3> QED
      BY <3>2, <3>3, <3>4
  <2>3. <<"etc", "usr", "lib">> \in Seq(Dirs) /\ Len(<<"etc", "usr", "lib">>) <= 3
        BY DEF Dirs
  <2> HIDE DEF links
  <2>4. Paths(links) \in {<<"etc", "usr", "lib">>} \cup {Ask[i][2] : i \in 1..6}
        BY PathsFound
  <2> QED
    BY <2>1, <2>2, <2>3, <2>4
<1>3. "none" \in Sections /\ read \in Seq(Dirs)
      BY DEF Init, Sections
<1> QED
  BY <1>1, <1>2, <1>3, NoDefTyped, ThreeDirs DEF Init, TypeOK

LEMMA OpenTypeOK == ASSUME TypeOK, Open PROVE TypeOK'
<1> DEFINE d == Real(Head(dirs))
<1>1. dirs \in Seq(Dirs) /\ dirs # <<>> /\ Len(dirs) <= Cardinality(Dirs) /\ machine \in MachineType /\ read \in Seq(Dirs)
      BY DEF TypeOK, Open
<1>2. dirs' \in Seq(Dirs) /\ Len(dirs') <= Cardinality(Dirs)
      BY <1>1, ThreeDirs DEF Open
<1>3. d \in Dirs
  <2>1. Head(dirs) \in Dirs
        BY <1>1
  <2> QED
    BY <2>1 DEF Real, Dirs
<1>4. machine.files[d] \in Seq(LineType)
      BY <1>1, <1>3 DEF MachineType
<1> HIDE DEF d
<1>5. /\ lines' = IF machine.files[d] = <<>> THEN Closed ELSE machine.files[d]
      /\ read' = IF machine.files[d] = <<>> THEN read ELSE Append(read, d)
      /\ section' = "none" /\ concat' = Nothing /\ machine' = machine /\ def' = def
      BY DEF Open, d
<1>6. lines' = Closed \/ lines' \in Seq(LineType)
      BY <1>4, <1>5
<1>7. read' \in Seq(Dirs)
      BY <1>1, <1>3, <1>5
<1>8. "none" \in Sections
      BY DEF Sections
<1> QED
  BY <1>2, <1>5, <1>6, <1>7, <1>8 DEF TypeOK

LEMMA AssignTimeTypeOK == ASSUME TypeOK, AssignTime PROVE def' \in DefType
<1> DEFINE r == Duration(TimeText)
<1>1. At(Kinds) /\ Line.name \in Timed(section) /\ def \in DefType /\ section \in Sections
      BY DEF AssignTime, Whole, TypeOK
<1>2. TimeText \in TextType
  <2>1. Line.text \in TextType
        BY <1>1, Blanks, LineTyped, PartWords
  <2> QED
    BY <2>1 DEF TimeText, CutText, TextType
<1>3. r.v \in -Half..Half - 1
      BY <1>2, DurationTyped
<1>4. Line.name \in DOMAIN Times
      BY <1>1, KeysTyped
<1>5. Times[Line.name] \in TimeFields
      BY <1>4 DEF Times, TimeFields
<1> DEFINE f == Times[Line.name]
           g == [def.times EXCEPT ![f] = r.v]
<1>6. def' = [def EXCEPT !.times = g]
      BY DEF AssignTime
<1>7. def.times \in [TimeFields -> -Half..Half - 1]
      BY <1>1, DefFields
<1> HIDE DEF r, f
<1>8. g \in [TimeFields -> -Half..Half - 1]
      BY <1>3, <1>5, <1>7 DEF f
<1> HIDE DEF g
<1> QED
  BY <1>1, <1>6, <1>8, DefFields

LEMMA NextTypeOK == ASSUME TypeOK, [Next]_vars PROVE TypeOK'
<1>1. CASE Open
      BY <1>1, OpenTypeOK
<1>2. CASE Comment
  <2>1. Tail(lines) \in Seq(LineType)
        BY <1>2 DEF TypeOK, Comment, At
  <2> QED
    BY <1>2, <2>1 DEF TypeOK, Comment, Rest
<1>3. ASSUME Continue \/ Header \/ Text \/ Assign \/ AssignTime
      PROVE  At(Kinds) /\ UNCHANGED <<machine, dirs, read>> /\ lines' \in Seq(LineType)
  <2>1. At(Kinds) /\ lines' = Tail(lines) /\ UNCHANGED <<machine, dirs, read>>
        BY <1>3 DEF Continue, Header, Text, Assign, AssignTime, Whole, Rest
  <2> QED
    BY <2>1, LineTyped DEF Lines
<1>4. CASE Continue
  <2>1. Head(lines) \in Parts
        BY <1>3, <1>4, LineTyped
  <2>2. concat = Nothing \/ concat \in Parts
        BY DEF TypeOK, Parts, Kinds
  <2>3. concat' \in Parts
        BY <1>4, <2>1, <2>2, JoinedTyped DEF Continue
  <2>4. concat' \in LineType /\ concat'.is \in Kinds
        BY <2>3 DEF Parts
  <2> QED
    BY <1>3, <1>4, <2>4 DEF TypeOK, Continue
<1>5. CASE Header
  <2>1. Line \in Parts /\ Line.is = "header"
        BY <1>3, <1>5, LineTyped DEF Header, Whole
  <2>2. Line.name \in Sections
        BY <2>1, Blanks, PartWords
  <2> QED
    BY <1>3, <1>5, <2>2 DEF TypeOK, Header
<1>6. CASE Text
      BY <1>3, <1>6 DEF TypeOK, Text
<1>7. CASE Assign
  <2>1. Line \in Parts
        BY <1>3, <1>7, LineTyped
  <2>2. def' \in DefType
        BY <1>7, <2>1, StoredTyped DEF TypeOK, Assign
  <2> QED
    BY <1>3, <1>7, <2>2 DEF TypeOK, Assign
<1>8. CASE AssignTime
      BY <1>3, <1>8, AssignTimeTypeOK DEF TypeOK, AssignTime
<1>9. CASE Refuse
      BY <1>9, NoDefTyped DEF TypeOK, Refuse
<1>10. CASE Close
       BY <1>10 DEF TypeOK, Close
<1>11. CASE UNCHANGED vars
       BY <1>11 DEF TypeOK, vars
<1> QED
  BY <1>1, <1>2, <1>4, <1>5, <1>6, <1>7, <1>8, <1>9, <1>10, <1>11 DEF Next

\* The reader of unit files (unit.go:12) keeps to its types, of which one is a
\* width: whatever a duration says, the product and the sum of its terms are
\* taken in 64 bits and what is stored is in those of a time.Duration.
THEOREM UnitsTypeOK == Spec => []TypeOK
  BY InitTypeOK, NextTypeOK, PTL DEF Spec

\* Whatever terms, digits and units a text has (unit.go:479), what
\* parseSystemdDuration makes of it is what the text says, to two units in the
\* last place a term, and of what has a unit it refuses only what does not fit; but
\* for a sum that wraps to 0, and bare seconds that do not fit.  Digits with no unit
\* are seconds only where no blank is in or after them, and an error elsewhere.
THEOREM UnitsDurationRight == Spec => []DurationRight
<1>1. TypeOK => DurationRight
  <2> SUFFICES ASSUME TypeOK, NEW d \in ToSet(read), NEW l \in ToSet(machine.files[d])
               PROVE  Right(l.text, Duration(l.text))
      BY DEF DurationRight
  <2>1. d \in Dirs
        BY DEF TypeOK, ToSet
  <2>2. machine.files[d] \in Seq(LineType)
        BY <2>1 DEF TypeOK, MachineType
  <2>3. l \in LineType
        BY <2>2 DEF ToSet
  <2>4. l.text \in TextType
        BY <2>3 DEF LineType, AnyLine
  <2> QED
    BY <2>4, DurationIsRight
<1> QED
  BY <1>1, InitTypeOK, NextTypeOK, PTL DEF Spec

------------------------------------------------------------------------------
(* Lines and the statements they are of.                                    *)

\* A line that continues another, as it is or without what trails.
Alike(l, m) ==
  /\ l \in Parts /\ m \in Parts /\ l.is = m.is /\ l.name = m.name /\ l.text = m.text
  /\ Names(l.words) = Names(m.words) /\ Names(AsWords(l)) = Names(AsWords(m))

LEMMA AlikeTrimmed ==
  ASSUME NEW l \in Parts
  PROVE  Alike(l, l) /\ Alike([l EXCEPT !.words = TrimRight(@)], l)
<1> DEFINE u == TrimRight(l.words)
           m == [l EXCEPT !.words = u]
           J(w) == <<"junk">> \o Tail(w)
<1>1. l.words \in Texts \ {<<>>}
      BY Blanks, PartWords
<1>2. u \in Texts \ {<<>>} /\ Names(u) = Names(l.words) /\ Names(Tail(u)) = Names(Tail(l.words))
      BY <1>1, TrimRightIs
<1>3. Names(J(u)) = Names(J(l.words))
  <2>1. <<"junk">> \in Texts /\ \A w \in Texts \ {<<>>} : Tail(w) \in Texts
    <3>1. \A w \in Texts \ {<<>>} : Tail(w) \in Texts
          BY DEF Texts
    <3> QED
      BY <3>1, Blanks
  <2>2. \A w \in Texts \ {<<>>} : Names(J(w)) = Names(<<"junk">>) \o Names(Tail(w))
        BY <2>1, NamesConcat
  <2> HIDE DEF u
  <2> QED
    BY <1>1, <1>2, <2>2
<1> HIDE DEF u
<1>4. m \in Parts
      BY <1>2, PartWords
<1>5. m.is = l.is /\ m.name = l.name /\ m.text = l.text /\ m.words = u
  <2>1. l \in AnyLine
        BY DEF Parts, LineType
  <2> QED
    BY <2>1 DEF AnyLine
<1> HIDE DEF m, J
<1>6. Names(AsWords(m)) = Names(AsWords(l))
  <2>1. CASE l.is = "assign"
    <3>1. AsWords(m) = J(u) /\ AsWords(l) = J(l.words)
          BY <1>5, <2>1 DEF AsWords, J
    <3> QED
      BY <1>3, <3>1
  <2>2. CASE l.is # "assign"
        BY <1>2, <1>5, <2>2 DEF AsWords
  <2> QED
    BY <2>1, <2>2
<1>7. Alike(m, l)
      BY <1>2, <1>4, <1>5, <1>6 DEF Alike
<1> QED
  BY <1>7 DEF Alike, m, u

\* The first of some lines.
LEMMA MinIs ==
  ASSUME NEW S \in SUBSET Nat, S # {}
  PROVE  Min(S) \in S /\ \A j \in S : Min(S) <= j
<1>1. \E x \in S : \A y \in S : x <= y
      BY Least
<1> QED
  BY <1>1 DEF Min

LEMMA MinUnique ==
  ASSUME NEW S \in SUBSET Nat, NEW m \in S, \A j \in S : m <= j
  PROVE  Min(S) = m
<1>1. Min(S) \in S /\ Min(S) <= m
      BY MinIs
<1>2. m <= Min(S) /\ m \in Nat /\ Min(S) \in Nat
      BY <1>1
<1> QED
  BY <1>1, <1>2

LEMMA MaxUnique ==
  ASSUME NEW S \in SUBSET Nat, NEW m \in S, \A j \in S : j <= m
  PROVE  Max(S) = m
<1>1. \E x \in S : \A y \in S : x >= y
      OBVIOUS
<1>2. Max(S) \in S /\ \A y \in S : Max(S) >= y
      BY <1>1 DEF Max
<1>3. Max(S) \in Nat /\ Max(S) >= m /\ Max(S) <= m
      BY <1>2
<1> QED
  BY <1>3

\* Some lines of a file that may be parts of a statement.
Group(f, S) == S \in SUBSET Nat /\ \A j \in S : j \in 1..Len(f) /\ f[j] \in Parts

LEMMA PartTyped ==
  ASSUME NEW f \in Lines, NEW S, Group(f, S), NEW j
  PROVE  Part(f, S, j) \in Texts
<1>1. \A w \in Texts : Names(w) \in Texts
      BY Blanks, NamesMore
<1>2. ASSUME j \in S PROVE f[j].words \in Texts /\ AsWords(f[j]) \in Texts
  <2>1. f[j] \in Parts
        BY <1>2 DEF Group
  <2> QED
    BY <2>1, Blanks, PartWords, AsWordsTyped
<1> QED
  BY <1>1, <1>2, Blanks, TextFacts DEF Part

\* One line more.
LEMMA SaidMore ==
  ASSUME NEW f \in Lines, NEW S, Group(f, S), NEW e \in Nat
  PROVE  Said(f, S, 0) = <<>> /\ Said(f, S, e) \in Texts /\ Said(f, S, e + 1) = Said(f, S, e) \o Part(f, S, e + 1)
<1> DEFINE P(n) == [j \in 1..n |-> Part(f, S, j)]
           p == P(e)
           q == P(e + 1)
           x == Part(f, S, e + 1)
<1>1. \A j : Part(f, S, j) \in Texts
      BY PartTyped
<1>2. p \in Pieces /\ Len(p) = e /\ q \in Pieces /\ Len(q) = e + 1
      BY <1>1 DEF Pieces
<1>3. q[e + 1] = x /\ \A j \in 1..e : q[j] = p[j]
      OBVIOUS
<1>4. x \in Texts
      BY <1>1
<1>5. P(0) = <<>>
      OBVIOUS
<1>6. Said(f, S, 0) = <<>>
      BY <1>5, FlattenNone DEF Said
<1>7. Said(f, S, e) = FlattenSeq(p) /\ Said(f, S, e + 1) = FlattenSeq(q)
      BY DEF Said
<1> HIDE DEF P, p, q, x
<1>8. q = Append(p, x)
      BY <1>2, <1>3, <1>4 DEF Pieces
<1>9. FlattenSeq(p) \in Texts /\ FlattenSeq(q) = FlattenSeq(p) \o x
      BY <1>2, <1>4, <1>8, FlattenMore
<1> QED
  BY <1>6, <1>7, <1>9 DEF x

\* Lines that come later, or say nothing, change nothing.
LEMMA SaidSame ==
  ASSUME NEW f, NEW S, NEW T, NEW e, \A j \in 1..e : Part(f, S, j) = Part(f, T, j)
  PROVE  Said(f, S, e) = Said(f, T, e)
  BY DEF Said

LEMMA SaidNothing ==
  ASSUME NEW f \in Lines, NEW S, Group(f, S), NEW e \in Nat, S \cap (1..e) = {}
  PROVE  Said(f, S, e) = <<>>
<1> DEFINE T == {j \in 0..e : Said(f, S, j) = <<>>}
<1>1. 0 \in T
      BY SaidMore
<1>2. ASSUME NEW j \in 1..e, j - 1 \in T PROVE j \in T
  <2>1. j - 1 \in Nat /\ (j - 1) + 1 = j
        OBVIOUS
  <2>2. Said(f, S, j) = Said(f, S, j - 1) \o Part(f, S, j)
        BY <2>1, SaidMore
  <2>3. Part(f, S, j) = <<>>
        BY DEF Part
  <2>4. <<>> \o <<>> = <<>>
        BY Blanks, TextFacts
  <2> QED
    BY <1>2, <2>2, <2>3, <2>4
<1>3. \A j \in 0..e : j \in T
  <2> HIDE DEF T
  <2> QED
    BY <1>1, <1>2, InductionTo
<1> QED
  BY <1>3

\* c is what the reader has in hand when it has taken the lines S of f, of which
\* none is blank, up to line e.
Means(f, S, e, c) ==
  /\ S = {} => BlankText(c)
  /\ S # {} =>
       LET o == f[Min(S)]
       IN  CASE o.is = "assign" -> c.is = "assign" /\ c.name = o.name /\ c.text = o.text /\ Names(c.words) = Said(f, S, e)
             [] o.is \in {"header", "open"} ->
                  IF f[Max(S)].is = "header"
                  THEN c.is = "header" /\ c.name = IF S = {Min(S)} THEN o.name ELSE "unknown"
                  ELSE c.is = "open"
             [] OTHER -> c.is = "text" /\ ~Blank(c.words)

LEMMA JoinedCases ==
  ASSUME NEW c \in Parts, NEW l \in Parts
  PROVE  LET j == Joined(c, l)
         IN  /\ BlankText(c) => j = l
             /\ c.is = "assign" => j.is = "assign" /\ j.name = c.name /\ j.text = c.text /\ j.words = c.words \o AsWords(l)
             /\ c.is \in {"header", "open"} => /\ BlankText(l) => j = c
                                               /\ l.is = "header" => j.is = "header" /\ j.name = "unknown"
                                               /\ ~BlankText(l) /\ l.is # "header" => j.is = "open"
             /\ c.is = "text" /\ ~Blank(c.words) => j.is = "text" /\ j.words = <<"junk">>
<1>1. c \in AnyLine /\ c.is \in Kinds
      BY DEF Parts, LineType
<1>2. c # Nothing
      BY <1>1 DEF Nothing, Kinds
<1>3. /\ [c EXCEPT !.words = @ \o AsWords(l)].is = c.is
      /\ [c EXCEPT !.words = @ \o AsWords(l)].name = c.name
      /\ [c EXCEPT !.words = @ \o AsWords(l)].text = c.text
      /\ [c EXCEPT !.words = @ \o AsWords(l)].words = c.words \o AsWords(l)
      /\ [c EXCEPT !.is = "text", !.words = <<"junk">>].is = "text"
      /\ [c EXCEPT !.is = "text", !.words = <<"junk">>].words = <<"junk">>
      /\ [c EXCEPT !.is = "open"].is = "open"
      /\ [c EXCEPT !.is = "header", !.name = "unknown"].is = "header"
      /\ [c EXCEPT !.is = "header", !.name = "unknown"].name = "unknown"
      BY <1>1 DEF AnyLine
<1>4. CASE BlankText(c)
      BY <1>2, <1>4 DEF Joined, BlankText
<1>5. CASE c.is = "assign"
      BY <1>2, <1>3, <1>5 DEF Joined, BlankText
<1>6. CASE c.is \in {"header", "open"}
  <2>1. Joined(c, l) = Opened(c, l)
        BY <1>2, <1>6 DEF Joined, BlankText
  <2> QED
    BY <1>3, <1>6, <2>1 DEF Opened, BlankText
<1>7. CASE c.is = "text" /\ ~Blank(c.words)
      BY <1>2, <1>3, <1>7 DEF Joined, BlankText
<1> QED
  BY <1>1, <1>4, <1>5, <1>6, <1>7 DEF Kinds, BlankText

\* Joined takes the next line up: as the first of a statement, or as more of it.
LEMMA JoinedFirst ==
  ASSUME NEW f \in Lines, NEW e \in Nat, NEW l, f[e + 1] \in Parts, e + 1 \in 1..Len(f), Alike(l, f[e + 1])
  PROVE  Means(f, IF BlankText(f[e + 1]) THEN {} ELSE {e + 1}, e + 1, l)
<1> DEFINE o == f[e + 1]
           T == {e + 1}
<1>1. l \in Parts /\ o \in Parts /\ l.is = o.is /\ l.name = o.name /\ l.text = o.text /\ Names(l.words) = Names(o.words)
      BY DEF Alike
<1>2. l.words \in Texts /\ o.words \in Texts
      BY <1>1, Blanks, PartWords
<1>3. BlankText(l) <=> BlankText(o)
      BY <1>1, <1>2, NamesNone DEF BlankText
<1>4. CASE BlankText(o)
      BY <1>3, <1>4 DEF Means
<1>5. CASE ~BlankText(o)
  <2>1. Min(T) = e + 1 /\ Max(T) = e + 1
        BY MinUnique, MaxUnique
  <2>2. Group(f, T)
        BY DEF Group
  <2>3. Said(f, T, e + 1) = Names(o.words)
    <3>1. T \cap (1..e) = {}
          OBVIOUS
    <3> HIDE DEF T
    <3>2. Said(f, T, e) = <<>>
          BY <2>2, <3>1, SaidNothing
    <3>3. Said(f, T, e + 1) = Said(f, T, e) \o Part(f, T, e + 1)
          BY <2>2, SaidMore
    <3>4. Part(f, T, e + 1) = Names(o.words)
          BY <2>1 DEF Part, T
    <3>5. Names(o.words) \in Texts
          BY <1>2, Blanks, NamesMore
    <3> QED
      BY <3>2, <3>3, <3>4, <3>5, Blanks, TextFacts
  <2>4. l.is \notin {"assign", "header", "open"} => l.is = "text" /\ ~Blank(l.words)
        BY <1>1, <1>3, <1>5 DEF Parts, Kinds, BlankText
  <2> HIDE DEF o
  <2>5. f[Min(T)] = o /\ f[Max(T)] = o /\ T # {} /\ T = {Min(T)}
        BY <2>1 DEF o
  <2> HIDE DEF T
  <2>6. Means(f, T, e + 1, l)
        BY <1>1, <2>3, <2>4, <2>5 DEF Means
  <2> QED
    BY <1>5, <2>6 DEF o, T
<1> QED
  BY <1>4, <1>5

LEMMA JoinedNext ==
  ASSUME NEW f \in Lines, NEW e \in Nat, NEW l, f[e + 1] \in Parts, e + 1 \in 1..Len(f), Alike(l, f[e + 1]),
         NEW S \in SUBSET (1..e), S # {}, Group(f, S), NEW c \in Parts, Means(f, S, e, c)
  PROVE  Means(f, IF BlankText(f[e + 1]) THEN S ELSE S \cup {e + 1}, e + 1, Joined(c, l))
<1> DEFINE q == f[e + 1]
           T == IF BlankText(q) THEN S ELSE S \cup {e + 1}
           m == Min(S)
           o == f[m]
           j == Joined(c, l)
<1>1. l \in Parts /\ q \in Parts /\ l.is = q.is /\ Names(l.words) = Names(q.words) /\ Names(AsWords(l)) = Names(AsWords(q))
      BY DEF Alike
<1>2. BlankText(l) <=> BlankText(q)
  <2>1. l.words \in Texts /\ q.words \in Texts
        BY <1>1, Blanks, PartWords
  <2> QED
    BY <1>1, <2>1, NamesNone DEF BlankText
<1>3. m \in S /\ (\A i \in S : m <= i) /\ m \in 1..e
  <2>1. S \in SUBSET Nat
        OBVIOUS
  <2>2. m \in S /\ \A i \in S : m <= i
        BY <2>1, MinIs
  <2> QED
    BY <2>2
<1> HIDE DEF m
<1>4. T # {} /\ Min(T) = m /\ Group(f, T)
  <2>1. T \in SUBSET Nat /\ m \in T /\ \A i \in T : m <= i
        BY <1>3
  <2>2. Group(f, T)
        BY DEF Group
  <2> HIDE DEF T
  <2> QED
    BY <2>1, <2>2, MinUnique
<1>5. Said(f, T, e + 1) = Said(f, S, e) \o Names(AsWords(l))
  <2>1. \A i \in 1..e : Part(f, S, i) = Part(f, T, i)
    <3>1. \A i \in 1..e : i \in S <=> i \in T
          OBVIOUS
    <3> HIDE DEF T
    <3> QED
      BY <1>4, <3>1 DEF Part, m
  <2>2. Said(f, T, e) = Said(f, S, e)
    <3> HIDE DEF T
    <3> QED
      BY <2>1, SaidSame
  <2>3. Said(f, T, e + 1) = Said(f, T, e) \o Part(f, T, e + 1)
    <3> HIDE DEF T
    <3> QED
      BY <1>4, SaidMore
  <2>4. Part(f, T, e + 1) = Names(AsWords(l))
    <3>1. CASE BlankText(q)
      <4>1. e + 1 \notin T
            BY <3>1
      <4>2. AsWords(q) = q.words
            BY <3>1 DEF AsWords, BlankText
      <4>3. Names(q.words) = <<>>
            BY <1>1, <3>1, Blanks, PartWords, NamesNone DEF BlankText
      <4> HIDE DEF T
      <4> QED
        BY <1>1, <4>1, <4>2, <4>3 DEF Part
    <3>2. CASE ~BlankText(q)
      <4>1. e + 1 \in T /\ e + 1 # m
            BY <1>3, <3>2
      <4> HIDE DEF T
      <4> QED
        BY <1>1, <1>4, <4>1 DEF Part
    <3> QED
      BY <3>1, <3>2
  <2> HIDE DEF T
  <2> QED
    BY <2>2, <2>3, <2>4
<1>6. /\ o.is = "assign" => c.is = "assign" /\ c.name = o.name /\ c.text = o.text /\ Names(c.words) = Said(f, S, e)
      /\ o.is \in {"header", "open"} =>
           IF f[Max(S)].is = "header" THEN c.is = "header" /\ c.name = IF S = {m} THEN o.name ELSE "unknown" ELSE c.is = "open"
      /\ o.is \notin {"assign", "header", "open"} => c.is = "text" /\ ~Blank(c.words)
      BY DEF Means, m
<1>7. /\ c.is = "assign" => j.is = "assign" /\ j.name = c.name /\ j.text = c.text /\ j.words = c.words \o AsWords(l)
      /\ c.is \in {"header", "open"} => /\ BlankText(l) => j = c
                                        /\ l.is = "header" => j.is = "header" /\ j.name = "unknown"
                                        /\ ~BlankText(l) /\ l.is # "header" => j.is = "open"
      /\ c.is = "text" /\ ~Blank(c.words) => j.is = "text" /\ j.words = <<"junk">>
      BY <1>1, JoinedCases
<1>8. ~Blank(<<"junk">>)
  <2>1. <<"junk">> \in Texts /\ Names(<<"junk">>) = <<"junk">>
    <3>1. "junk" \in Words
          BY WordsAssumption
    <3> QED
      BY <3>1, Blanks, NamesOne
  <2>2. <<"junk">> # <<>>
        OBVIOUS
  <2> QED
    BY <2>1, <2>2, NamesNone
<1> HIDE DEF j, o
<1>9. f[Min(T)] = o
      BY <1>4 DEF o
<1>10. CASE o.is = "assign"
  <2>1. Names(j.words) = Names(c.words) \o Names(AsWords(l))
    <3>1. c.words \in Texts /\ AsWords(l) \in Texts
          BY <1>1, Blanks, PartWords, AsWordsTyped
    <3> QED
      BY <1>6, <1>7, <1>10, <3>1, NamesConcat
  <2> HIDE DEF T
  <2> QED
    BY <1>4, <1>5, <1>6, <1>7, <1>9, <1>10, <2>1 DEF Means, T, q, j
<1>11. CASE o.is \in {"header", "open"} /\ BlankText(q)
  <2>1. T = S /\ j = c
        BY <1>2, <1>6, <1>7, <1>11
  <2> HIDE DEF T
  <2> QED
    BY <1>4, <1>6, <1>9, <1>11, <2>1 DEF Means, T, q, j
<1>12. CASE o.is \in {"header", "open"} /\ ~BlankText(q)
  <2>1. IF q.is = "header" THEN j.is = "header" /\ j.name = "unknown" ELSE j.is = "open"
        BY <1>1, <1>2, <1>6, <1>7, <1>12
  <2>2. T \in SUBSET Nat /\ e + 1 \in T /\ (\A i \in T : i <= e + 1) /\ e + 1 # m
        BY <1>3, <1>12
  <2> HIDE DEF T
  <2>3. Max(T) = e + 1 /\ T # {m}
        BY <2>2, MaxUnique
  <2>4. f[Max(T)] = q
        BY <2>3
  <2> QED
    BY <1>4, <1>9, <1>12, <2>1, <2>3, <2>4 DEF Means, T, q, j
<1>13. CASE o.is \notin {"assign", "header", "open"}
  <2>1. j.is = "text" /\ j.words = <<"junk">>
        BY <1>6, <1>7, <1>13
  <2> HIDE DEF T
  <2> QED
    BY <1>4, <1>8, <1>9, <1>13, <2>1 DEF Means, T, q, j
<1> QED
  BY <1>10, <1>11, <1>12, <1>13

\* The lines of a statement that has not ended after p lines.
Pending(f, p) == {j \in 1..p : Counts(f, j) /\ \A d \in Ends(f) : ~(j <= d /\ d <= p)}
Hard(f, S)    == {j \in S : ~BlankText(f[j])}

\* What the reader has in hand of it.
Carried(f, p, c) == IF Pending(f, p) = {} THEN c = Nothing ELSE c \in Parts /\ Means(f, Hard(f, Pending(f, p)), p, c)

LEMMA PendingGroup ==
  ASSUME NEW f \in Lines, NEW p \in 0..Len(f)
  PROVE  Group(f, Pending(f, p)) /\ Group(f, Hard(f, Pending(f, p)))
<1>1. ASSUME NEW j \in Pending(f, p) PROVE j \in 1..Len(f) /\ f[j] \in Parts
  <2>1. Len(f) \in Nat /\ j \in 1..Len(f)
        BY DEF Pending, Lines
  <2>2. f[j] \in LineType
        BY <2>1 DEF Lines
  <2>3. f[j].is # "comment" /\ f[j].is # "long"
        BY <2>1 DEF Pending, Counts
  <2> QED
    BY <2>1, <2>2, <2>3 DEF Parts, LineType, AnyLine, Kinds
<1>2. Pending(f, p) \in SUBSET Nat
      BY DEF Pending
<1> QED
  BY <1>1, <1>2 DEF Group, Hard

LEMMA PendingSteps ==
  ASSUME NEW f \in Lines, NEW p \in Nat, p + 1 \in 1..Len(f), \A k \in 1..p + 1 : f[k].is # "long"
  PROVE  LET l == f[p + 1]
             e == p + 1
         IN  /\ l.is = "comment" => e \notin Ends(f) /\ Pending(f, e) = Pending(f, p)
             /\ l.is # "comment" /\ l.more => e \notin Ends(f) /\ Pending(f, e) = Pending(f, p) \cup {e}
             /\ l.is # "comment" /\ ~l.more => e \in Ends(f) /\ Pending(f, e) = {} /\ Run(f, e) = Pending(f, p) \cup {e}
<1> DEFINE l == f[p + 1]
           e == p + 1
<1>1. DOMAIN f = 1..Len(f) /\ Ends(f) \in SUBSET Nat
      BY DEF Lines, Ends
<1>2. Counts(f, e) <=> l.is # "comment"
      BY DEF Counts
<1>3. e \in Ends(f) <=> (l.is # "comment" /\ ~l.more)
      BY <1>1, <1>2 DEF Ends
<1>4. \A j \in 1..e : j \in 1..p \/ j = e
      OBVIOUS
<1>5. \A d \in Ends(f) : d <= e <=> (d <= p \/ d = e)
      BY <1>1
<1> HIDE DEF l
<1>6. CASE l.is = "comment"
  <2>1. e \notin Ends(f)
        BY <1>3, <1>6
  <2>2. \A j \in 1..p : j \in 1..e
        OBVIOUS
  <2>3. Pending(f, e) = Pending(f, p)
        BY <1>2, <1>4, <1>5, <1>6, <2>1, <2>2 DEF Pending
  <2> QED
    BY <1>6, <2>1, <2>3 DEF l
<1>7. CASE l.is # "comment" /\ l.more
  <2>1. e \notin Ends(f)
        BY <1>3, <1>7
  <2>2. \A d \in Ends(f) : ~(e <= d /\ d <= e)
    <3>1. \A d \in Ends(f) : e <= d /\ d <= e => d = e
          BY <1>1
    <3> QED
      BY <2>1, <3>1
  <2>3. e \in 1..e /\ \A j \in 1..p : j \in 1..e
        OBVIOUS
  <2>4. Pending(f, e) = Pending(f, p) \cup {e}
        BY <1>2, <1>4, <1>5, <1>7, <2>1, <2>2, <2>3 DEF Pending
  <2> QED
    BY <1>7, <2>1, <2>4 DEF l
<1>8. CASE l.is # "comment" /\ ~l.more
  <2>1. e \in Ends(f)
        BY <1>3, <1>8
  <2>2. \A j \in 1..e : j <= e /\ e <= e
        OBVIOUS
  <2>3. Pending(f, e) = {}
        BY <2>1, <2>2 DEF Pending
  <2>4. \A d \in Ends(f) : (d < e <=> d <= p) /\ ~(e <= d /\ d < e)
        BY <1>1
  <2>5. e \in 1..e /\ \A j \in 1..p : j \in 1..e
        OBVIOUS
  <2>6. Run(f, e) = Pending(f, p) \cup {e}
        BY <1>2, <1>4, <1>8, <2>4, <2>5 DEF Pending, Run
  <2> QED
    BY <1>8, <2>1, <2>3, <2>6 DEF l
<1> QED
  BY <1>6, <1>7, <1>8 DEF l

\* One line more in hand.
LEMMA CarriedJoined ==
  ASSUME NEW f \in Lines, NEW p \in Nat, p + 1 \in 1..Len(f), f[p + 1] \in Parts, NEW c, Carried(f, p, c),
         NEW l, Alike(l, f[p + 1])
  PROVE  Joined(c, l) \in Parts /\ Means(f, Hard(f, Pending(f, p) \cup {p + 1}), p + 1, Joined(c, l))
<1> DEFINE S == Hard(f, Pending(f, p))
           q == f[p + 1]
<1>1. Hard(f, Pending(f, p) \cup {p + 1}) = IF BlankText(q) THEN S ELSE S \cup {p + 1}
      BY DEF Hard
<1>2. S \in SUBSET (1..p) /\ Group(f, S)
  <2>1. p \in 0..Len(f)
        BY DEF Lines
  <2> QED
    BY <2>1, PendingGroup DEF Hard, Pending
<1>3. l \in Parts /\ (c = Nothing \/ c \in Parts)
      BY DEF Alike, Carried
<1>4. Joined(c, l) \in Parts
      BY <1>3, JoinedTyped
<1>5. CASE S = {}
  <2>1. Joined(c, l) = l
    <3>1. CASE c = Nothing
          BY <3>1 DEF Joined, Nothing
    <3>2. CASE c \in Parts
      <4>1. c # Nothing
            BY <3>2 DEF Nothing, Parts, Kinds
      <4>2. BlankText(c)
            BY <1>5, <4>1 DEF Carried, Means
      <4> QED
        BY <1>3, <3>2, <4>2, JoinedCases
    <3> QED
      BY <1>3, <3>1, <3>2
  <2>2. Means(f, IF BlankText(q) THEN {} ELSE {p + 1}, p + 1, l)
        BY JoinedFirst
  <2> HIDE DEF S, q
  <2>3. (IF BlankText(q) THEN S ELSE S \cup {p + 1}) = IF BlankText(q) THEN {} ELSE {p + 1}
        BY <1>5
  <2> QED
    BY <1>1, <1>4, <2>1, <2>2, <2>3
<1>6. CASE S # {}
  <2>1. Pending(f, p) # {}
        BY <1>6 DEF Hard
  <2>2. c \in Parts /\ Means(f, S, p, c)
        BY <2>1 DEF Carried
  <2> HIDE DEF S
  <2>3. Means(f, IF BlankText(q) THEN S ELSE S \cup {p + 1}, p + 1, Joined(c, l))
        BY <1>2, <1>6, <2>2, JoinedNext
  <2> QED
    BY <1>1, <1>4, <2>3
<1> QED
  BY <1>5, <1>6

\* The line that is made of what is in hand and a last line q.
Made(c, q) == IF c = Nothing THEN q ELSE Joined(c, [q EXCEPT !.words = TrimRight(@)])

LEMMA MadeMeans ==
  ASSUME NEW f \in Lines, NEW p \in Nat, p + 1 \in 1..Len(f), \A k \in 1..p + 1 : f[k].is # "long",
         f[p + 1] \in Parts, ~f[p + 1].more, NEW c, Carried(f, p, c)
  PROVE  /\ p + 1 \in Ends(f) /\ Made(c, f[p + 1]) \in Parts
         /\ Means(f, Solid(f, p + 1), p + 1, Made(c, f[p + 1])) /\ Group(f, Solid(f, p + 1))
<1> DEFINE q == f[p + 1]
           e == p + 1
           t == [q EXCEPT !.words = TrimRight(@)]
<1>1. q.is # "comment"
      BY DEF Parts, Kinds
<1>2. e \in Ends(f) /\ Run(f, e) = Pending(f, p) \cup {e}
      BY <1>1, PendingSteps
<1>3. Solid(f, e) = Hard(f, Pending(f, p) \cup {e})
      BY <1>2 DEF Solid, Hard, BlankText
<1>4. Alike(q, q) /\ Alike(t, q)
      BY AlikeTrimmed
<1>5. Joined(c, q) \in Parts /\ Means(f, Solid(f, e), e, Joined(c, q))
      BY <1>3, <1>4, CarriedJoined
<1>6. Joined(c, t) \in Parts /\ Means(f, Solid(f, e), e, Joined(c, t))
      BY <1>3, <1>4, CarriedJoined
<1>7. c = Nothing => Joined(c, q) = q
      BY DEF Joined
<1>8. Group(f, Solid(f, e))
  <2>1. p \in 0..Len(f)
        BY DEF Lines
  <2>2. Group(f, Pending(f, p))
        BY <2>1, PendingGroup
  <2> QED
    BY <1>2, <2>2 DEF Group, Solid
<1> QED
  BY <1>2, <1>5, <1>6, <1>7, <1>8 DEF Made

\* What the line says of the statement.
LEMMA MadeSays ==
  ASSUME NEW f \in Lines, NEW e \in Ends(f), NEW l \in Parts, Means(f, Solid(f, e), e, l), Group(f, Solid(f, e))
  PROVE  /\ l.is = "assign" <=> e \in Assigns(f)
         /\ l.is = "header" <=> e \in Headers(f)
         /\ e \in Headers(f) => l.name = Heading(f, e)
         /\ e \in Assigns(f) => /\ l.name = Opening(f, e).name /\ l.text = Opening(f, e).text
                                /\ Names(l.words) = Said(f, Solid(f, e), e)
<1> DEFINE S == Solid(f, e)
           o == f[Min(S)]
<1>1. l.is \in Kinds
      BY DEF Parts
<1>2. o = Opening(f, e)
      BY DEF Opening
<1>3. e \in Assigns(f) <=> S # {} /\ o.is = "assign"
      BY <1>2 DEF Assigns
<1>4. e \in Headers(f) <=> S # {} /\ o.is \in {"header", "open"} /\ f[Max(S)].is = "header"
      BY <1>2 DEF Headers
<1>5. S # {} => Heading(f, e) = IF S = {Min(S)} THEN o.name ELSE "unknown"
  <2>1. S \in SUBSET Nat /\ S \subseteq 1..e
        BY DEF Group, Solid, Run
  <2> HIDE DEF S
  <2>2. ASSUME NEW j \in 1..e, S = {j} PROVE Min(S) = j
    <3>1. j \in S /\ \A i \in S : j <= i
          BY <2>2
    <3> QED
      BY <2>1, <3>1, MinUnique
  <2>3. S # {} => Min(S) \in 1..e
        BY <2>1, MinIs
  <2> QED
    BY <1>2, <2>2, <2>3 DEF Heading, S
<1>6. /\ S = {} => l.is = "text"
      /\ S # {} => /\ o.is = "assign" => l.is = "assign" /\ l.name = o.name /\ l.text = o.text /\ Names(l.words) = Said(f, S, e)
                   /\ o.is \in {"header", "open"} =>
                        IF f[Max(S)].is = "header"
                        THEN l.is = "header" /\ l.name = IF S = {Min(S)} THEN o.name ELSE "unknown"
                        ELSE l.is = "open"
                   /\ o.is \notin {"assign", "header", "open"} => l.is = "text"
      BY DEF Means, BlankText
<1> HIDE DEF S, o
<1> QED
  BY <1>2, <1>3, <1>4, <1>5, <1>6 DEF S

\* A flag is on if it says so and no more.
LEMMA MadeBare ==
  ASSUME NEW f \in Lines, NEW p \in Nat, p + 1 \in 1..Len(f), \A k \in 1..p + 1 : f[k].is # "long",
         f[p + 1] \in Parts, ~f[p + 1].more, NEW c, Carried(f, p, c), Made(c, f[p + 1]).is = "assign"
  PROVE  LET l == Made(c, f[p + 1])
         IN  (TrimLeft(l.words) = <<"true">>) <=> (Names(l.words) = <<"true">> /\ Bare(f, p + 1))
<1> DEFINE q == f[p + 1]
           e == p + 1
           t == [q EXCEPT !.words = TrimRight(@)]
           l == Made(c, q)
<1>1. q.is # "comment" /\ q.words \in Texts \ {<<>>}
      BY Blanks, PartWords DEF Parts, Kinds
<1>2. e \in Ends(f) /\ Run(f, e) = Pending(f, p) \cup {e}
      BY <1>1, PendingSteps
<1>3. l \in Parts /\ l.words \in Texts \ {<<>>}
  <2>1. l \in Parts
        BY MadeMeans
  <2> QED
    BY <2>1, Blanks, PartWords
<1>4. (TrimLeft(l.words) = <<"true">>) <=> (Names(l.words) = <<"true">> /\ l.words[Len(l.words)] # "")
  <2> HIDE DEF l
  <2> QED
    BY <1>3, TrimLeftIs
<1>5. CASE Pending(f, p) = {}
  <2>1. l = q
        BY <1>5 DEF Carried, Made
  <2>2. Run(f, e) = {e}
        BY <1>2, <1>5
  <2> HIDE DEF l
  <2> QED
    BY <1>4, <2>1, <2>2 DEF Bare, l
<1>6. CASE Pending(f, p) # {}
  <2>1. c \in Parts /\ c # Nothing
        BY <1>6 DEF Carried, Nothing, Parts, Kinds
  <2>2. l = Joined(c, t)
        BY <2>1 DEF Made
  <2>3. Bare(f, e) <=> ~Blank(q.words)
    <3>1. e \notin Pending(f, p)
          BY DEF Pending
    <3>2. Run(f, e) # {e}
          BY <1>2, <1>6, <3>1
    <3> QED
      BY <3>2 DEF Bare
  <2>4. t \in Parts /\ t.is = q.is
        BY AlikeTrimmed DEF Alike
  <2>5. t.words = TrimRight(q.words)
    <3>1. q \in AnyLine
          BY DEF Parts, LineType
    <3> QED
      BY <3>1 DEF AnyLine
  <2> DEFINE u == TrimRight(q.words)
  <2>6. u \in Texts \ {<<>>} /\ ((u[Len(u)] # "") <=> ~Blank(q.words))
        BY <1>1, TrimRightIs
  <2> HIDE DEF l, t, u
  <2>7. CASE BlankText(c)
    <3>1. l.words = u
          BY <2>1, <2>2, <2>4, <2>5, <2>7, JoinedCases DEF u
    <3> QED
      BY <1>4, <2>3, <2>6, <3>1 DEF l
  <2>8. CASE c.is = "assign"
    <3>1. l.words = c.words \o AsWords(t)
          BY <2>1, <2>2, <2>4, <2>8, JoinedCases
    <3>2. c.words \in Texts \ {<<>>} /\ AsWords(t) \in Texts
          BY <2>1, <2>4, Blanks, PartWords, AsWordsTyped
    <3>3. CASE q.is \in {"text", "open"}
      <4>1. AsWords(t) = u
            BY <2>4, <2>5, <3>3 DEF AsWords, u
      <4>2. \A a \in Texts, b \in Texts \ {<<>>} : (a \o b)[Len(a \o b)] = b[Len(b)]
            BY DEF Texts
      <4>3. l.words[Len(l.words)] = u[Len(u)]
        <5>1. l.words = c.words \o u
              BY <3>1, <4>1
        <5>2. (c.words \o u)[Len(c.words \o u)] = u[Len(u)]
              BY <2>6, <3>2, <4>2
        <5> QED
          BY <5>1, <5>2
      <4> QED
        BY <1>4, <2>3, <2>6, <4>3 DEF l
    <3>4. CASE q.is \notin {"text", "open"}
      <4>1. "junk" \in ToSet(AsWords(t))
        <5>1. AsWords(t)[1] = "junk"
          <6>1. t.words \in Texts \ {<<>>}
                BY <2>5, <2>6 DEF u
          <6>2. \A w \in Texts \ {<<>>} : (<<"junk">> \o Tail(w))[1] = "junk"
                BY DEF Texts
          <6> QED
            BY <2>4, <3>4, <6>1, <6>2 DEF AsWords, Parts, Kinds
        <5>2. AsWords(t) # <<>>
          <6>1. t.words \in Texts \ {<<>>}
                BY <2>5, <2>6 DEF u
          <6>2. \A w \in Texts \ {<<>>} : <<"junk">> \o Tail(w) # <<>>
                BY DEF Texts
          <6> QED
            BY <2>4, <3>4, <6>1, <6>2 DEF AsWords, Parts, Kinds
        <5>3. \A w \in Texts \ {<<>>} : 1 \in DOMAIN w
              BY DEF Texts
        <5> QED
          BY <3>2, <5>1, <5>2, <5>3 DEF ToSet
      <4>2. "junk" \in ToSet(l.words)
        <5>1. \A a \in Texts, b \in Texts : ToSet(b) \subseteq ToSet(a \o b)
          <6> SUFFICES ASSUME NEW a \in Texts, NEW b \in Texts, NEW i \in DOMAIN b PROVE b[i] \in ToSet(a \o b)
              BY DEF ToSet
          <6>1. Len(a) + i \in DOMAIN (a \o b) /\ (a \o b)[Len(a) + i] = b[i]
                BY DEF Texts
          <6> QED
            BY <6>1 DEF ToSet
        <5> QED
          BY <3>1, <3>2, <4>1, <5>1
      <4>3. "junk" \in ToSet(Names(l.words))
            BY <1>3, <4>2, NamesSet
      <4>4. Names(l.words) # <<"true">>
        <5>1. "junk" \notin ToSet(<<"true">>)
              BY DEF ToSet
        <5> QED
          BY <4>3, <5>1
      <4> QED
        BY <1>4, <4>4 DEF l
    <3> QED
      BY <3>3, <3>4
  <2>9. BlankText(c) \/ c.is = "assign"
    <3>1. l.is = "assign"
          BY DEF l
    <3>2. c.is \in Kinds
          BY <2>1 DEF Parts
    <3>3. /\ c.is \in {"header", "open"} => l = c \/ l.is \in {"header", "open"}
          /\ c.is = "text" /\ ~Blank(c.words) => l.is = "text"
          BY <2>1, <2>2, <2>4, JoinedCases
    <3> QED
      BY <3>1, <3>2, <3>3 DEF Kinds, BlankText
  <2> QED
    BY <2>7, <2>8, <2>9
<1> QED
  BY <1>5, <1>6

------------------------------------------------------------------------------
(* Assignments and the definition they make.                                *)

\* s comes after all of A.
Later(A, s) == ~Before(s, s) /\ \A a \in A : Before(a, s) /\ ~Before(s, a) /\ a # s

\* The line l is what s says, but for a duration.
Tells(l, s) ==
  /\ l \in Parts /\ l.name = s.key /\ Names(l.words) = s.words
  /\ (TrimLeft(l.words) = <<"true">>) <=> (s.words = <<"true">> /\ s.bare)

LEMMA TellsWords ==
  ASSUME NEW l, NEW s, Tells(l, s)
  PROVE  LET v == TrimLeft(l.words)
         IN  v \in Texts /\ Names(v) = s.words /\ ((v = <<>>) <=> (s.words = <<>>)) /\ ToSet(v) \ {""} = ToSet(s.words)
<1> DEFINE w == l.words
           v == TrimLeft(w)
<1>1. w \in Texts /\ Names(w) = s.words
      BY Blanks, PartWords DEF Tells
<1> HIDE DEF w
<1>2. v \in Texts /\ Names(v) = Names(w) /\ ((v = <<>>) <=> Blank(w))
      BY <1>1, TrimLeftIs
<1>3. Blank(w) <=> (Names(w) = <<>>)
      BY <1>1, NamesNone
<1> HIDE DEF v
<1>4. ToSet(v) \ {""} = ToSet(Names(v))
      BY <1>2, NamesSet
<1> QED
  BY <1>1, <1>2, <1>3, <1>4 DEF v, w

\* No key does two things in a section.
LEMMA KeysApart ==
  ASSUME NEW s, NEW k
  PROVE  /\ k \in Maps(s) => k \notin Lists(s) /\ k \notin Flags(s) /\ k \notin Values(s) /\ k \notin Timed(s)
         /\ k \in Lists(s) => k \notin Flags(s) /\ k \notin Values(s) /\ k \notin Timed(s)
         /\ k \in Flags(s) => k \notin Values(s) /\ k \notin Timed(s)
         /\ k \in Values(s) => k \notin Timed(s)
<1>1. CASE s = "unit"
  <2>1. Maps(s) = UnitMaps /\ Lists(s) = {} /\ Flags(s) = UnitFlags /\ Values(s) = UnitValues /\ Timed(s) = {}
        BY <1>1 DEF Maps, Lists, Flags, Values, Timed
  <2>2. UnitMaps \cap UnitFlags = {} /\ UnitMaps \cap UnitValues = {} /\ UnitFlags \cap UnitValues = {}
        BY DEF UnitMaps, UnitFlags, UnitValues
  <2> QED
    BY <2>1, <2>2
<1>2. CASE s = "service"
  <2>1. Maps(s) = {} /\ Lists(s) = ServiceLists /\ Flags(s) = ServiceFlags /\ Values(s) = ServiceValues /\ Timed(s) = DOMAIN Times
        BY <1>2 DEF Maps, Lists, Flags, Values, Timed
  <2>2. ServiceLists \cap ServiceFlags = {} /\ ServiceLists \cap ServiceValues = {} /\ ServiceFlags \cap ServiceValues = {}
        BY DEF ServiceLists, ServiceFlags, ServiceValues, Limits
  <2>3. DOMAIN Times = {"RestartSec", "TimeoutSec", "TimeoutStopSec"}
        BY DEF Times
  <2>4. ServiceLists \cap DOMAIN Times = {} /\ ServiceFlags \cap DOMAIN Times = {} /\ ServiceValues \cap DOMAIN Times = {}
        BY <2>3 DEF ServiceLists, ServiceFlags, ServiceValues, Limits
  <2> QED
    BY <2>1, <2>2, <2>4
<1>3. CASE s # "unit" /\ s # "service"
      BY <1>3 DEF Maps, Lists, Flags, Values, Timed
<1> QED
  BY <1>1, <1>2, <1>3

\* What the names v leave of a map.
Filled(v, names) == IF v = <<>> THEN {} ELSE names \cup ToSet(v)

LEMMA MapsMore ==
  ASSUME NEW A, NEW s, Later(A, s), NEW l, Tells(l, s), NEW w, MapsSay(A, w), NEW d,
         \A k \in UnitMaps :
           d.maps[k] = IF k = s.key /\ k \in Maps(s.sec) THEN Filled(TrimLeft(l.words), w.maps[k]) ELSE w.maps[k]
  PROVE  MapsSay(A \cup {s}, d)
<1> DEFINE Live(S) == {b \in S : \A c \in S : Before(b, c) => c.words # <<>>}
           All(S)  == UNION {ToSet(a.words) : a \in Live(S)}
<1> SUFFICES ASSUME NEW k \in UnitMaps PROVE d.maps[k] \ {""} = All(To(A \cup {s}, Maps, k))
    BY DEF MapsSay
<1> DEFINE S == To(A, Maps, k)
           T == To(A \cup {s}, Maps, k)
           v == TrimLeft(l.words)
<1>1. w.maps[k] \ {""} = All(S)
      BY DEF MapsSay
<1>2. CASE ~(k = s.key /\ k \in Maps(s.sec))
  <2>1. T = S
        BY <1>2 DEF To
  <2>2. d.maps[k] = w.maps[k]
        BY <1>2
  <2> HIDE DEF S, T, All
  <2> QED
    BY <1>1, <2>1, <2>2 DEF T
<1>3. CASE k = s.key /\ k \in Maps(s.sec)
  <2>1. T = S \cup {s} /\ S \subseteq A
        BY <1>3 DEF To
  <2>2. ((v = <<>>) <=> (s.words = <<>>)) /\ ToSet(v) \ {""} = ToSet(s.words)
        BY TellsWords
  <2>3. d.maps[k] = IF v = <<>> THEN {} ELSE w.maps[k] \cup ToSet(v)
        BY <1>3 DEF Filled
  <2> HIDE DEF S, T, v
  <2>4. \A b \in S : Before(b, s) /\ ~Before(s, b)
        BY <2>1 DEF Later
  <2>5. CASE s.words = <<>>
    <3>1. Live(T) = {s}
          BY <2>1, <2>4, <2>5 DEF Later
    <3>2. All(T) = ToSet(s.words)
          BY <3>1
    <3>3. ToSet(s.words) = {}
          BY <2>5 DEF ToSet
    <3> QED
      BY <2>2, <2>3, <2>5, <3>2, <3>3 DEF T
  <2>6. CASE s.words # <<>>
    <3>1. Live(T) = Live(S) \cup {s}
          BY <2>1, <2>4, <2>6 DEF Later
    <3>2. All(T) = All(S) \cup ToSet(s.words)
      <4> HIDE DEF Live
      <4> QED
        BY <3>1
    <3>3. d.maps[k] = w.maps[k] \cup ToSet(v)
          BY <2>2, <2>3, <2>6
    <3> HIDE DEF All
    <3>4. d.maps[k] \ {""} = All(S) \cup ToSet(s.words)
          BY <1>1, <2>2, <3>3
    <3> QED
      BY <3>2, <3>4 DEF T
  <2> QED
    BY <2>5, <2>6
<1> QED
  BY <1>2, <1>3

LEMMA ListsMore ==
  ASSUME NEW A, NEW s, Later(A, s), NEW l, Tells(l, s), NEW w \in DefType, ListsSay(A, w), NEW d,
         \A k \in ServiceLists :
           d.lists[k] = IF k = s.key /\ k \in Lists(s.sec) THEN Append(w.lists[k], TrimLeft(l.words)) ELSE w.lists[k]
  PROVE  ListsSay(A \cup {s}, d)
<1> DEFINE Fits(S, q, by) == /\ by \in [1..Len(q) -> S]
                             /\ \A n \in 1..Len(q) : Names(q[n]) = by[n].words
                             /\ \A m, n \in 1..Len(q) : m < n => Before(by[m], by[n])
                             /\ \A a \in S : \E n \in 1..Len(q) : by[n] = a
<1> SUFFICES ASSUME NEW k \in ServiceLists PROVE \E by : Fits(To(A \cup {s}, Lists, k), d.lists[k], by)
    BY DEF ListsSay
<1> DEFINE S == To(A, Lists, k)
           T == To(A \cup {s}, Lists, k)
           v == TrimLeft(l.words)
           q == w.lists[k]
           p == d.lists[k]
<1>1. PICK by : Fits(S, q, by)
      BY DEF ListsSay
<1>2. CASE ~(k = s.key /\ k \in Lists(s.sec))
  <2>1. T = S
        BY <1>2 DEF To
  <2>2. p = q
        BY <1>2
  <2> HIDE DEF S, T, p, q, Fits
  <2> QED
    BY <1>1, <2>1, <2>2 DEF T, p
<1>3. CASE k = s.key /\ k \in Lists(s.sec)
  <2>1. T = S \cup {s} /\ S \subseteq A
        BY <1>3 DEF To
  <2>2. p = Append(q, v)
        BY <1>3
  <2>3. q \in Pieces /\ v \in Texts /\ Names(v) = s.words
    <3>1. w.lists \in [ServiceLists -> Seq(Texts)]
          BY DefFields
    <3> QED
      BY <3>1, TellsWords DEF Pieces
  <2> DEFINE n == Len(q)
             c == [i \in 1..n + 1 |-> IF i = n + 1 THEN s ELSE by[i]]
  <2> HIDE DEF S, T, p, q, v
  <2>4. n \in Nat /\ Len(p) = n + 1 /\ p[n + 1] = v /\ \A i \in 1..n : p[i] = q[i]
        BY <2>2, <2>3 DEF Pieces
  <2> HIDE DEF n
  <2>5. \A i \in 1..n : c[i] = by[i] /\ by[i] \in S
        BY <1>1, <2>4 DEF n
  <2>6. c[n + 1] = s
        BY <2>4
  <2>8. \A i \in 1..n + 1 : i \in 1..n \/ i = n + 1
        BY <2>4
  <2>7. c \in [1..n + 1 -> T]
    <3>1. ASSUME NEW i \in 1..n + 1 PROVE (IF i = n + 1 THEN s ELSE by[i]) \in T
          BY <2>1, <2>5, <2>8
    <3> QED
      BY <3>1
  <2> HIDE DEF c
  <2>9. \A i \in 1..n + 1 : Names(p[i]) = c[i].words
        BY <1>1, <2>3, <2>4, <2>5, <2>6, <2>8 DEF n
  <2>10. ASSUME NEW i \in 1..n + 1, NEW j \in 1..n + 1, i < j PROVE Before(c[i], c[j])
    <3>1. i \in 1..n
          BY <2>4, <2>10
    <3>2. CASE j \in 1..n
          BY <1>1, <2>5, <2>10, <3>1, <3>2 DEF n
    <3>3. CASE j = n + 1
          BY <2>1, <2>5, <2>6, <3>1, <3>3 DEF Later
    <3> QED
      BY <2>8, <3>2, <3>3
  <2>11. ASSUME NEW a \in T PROVE \E i \in 1..n + 1 : c[i] = a
    <3>1. CASE a = s
      <4>1. n + 1 \in 1..n + 1
            BY <2>4
      <4> QED
        BY <2>6, <3>1, <4>1
    <3>2. CASE a \in S
      <4>1. PICK i \in 1..n : by[i] = a
            BY <1>1, <3>2 DEF n
      <4>2. i \in 1..n + 1
            BY <2>4
      <4> QED
        BY <2>5, <4>1, <4>2
    <3> QED
      BY <2>1, <3>1, <3>2
  <2>12. Fits(T, p, c)
         BY <2>4, <2>7, <2>9, <2>10, <2>11
  <2> HIDE DEF Fits
  <2> QED
    BY <2>12 DEF T, p
<1> QED
  BY <1>2, <1>3

LEMMA LastIsFinal ==
  ASSUME NEW S, NEW s, Later(S, s)
  PROVE  \A a : Final(a, S \cup {s}) <=> a = s
  BY DEF Final, Later

LEMMA FlagsMore ==
  ASSUME NEW A, NEW s, Later(A, s), NEW l, Tells(l, s), NEW w, FlagsSay(A, w), NEW d,
         \A k \in UnitFlags \cup ServiceFlags :
           d.flags[k] = IF k = s.key /\ k \in Flags(s.sec) THEN TrimLeft(l.words) = <<"true">> ELSE w.flags[k]
  PROVE  FlagsSay(A \cup {s}, d)
<1> DEFINE On(a) == a.words = <<"true">> /\ a.bare
<1> SUFFICES ASSUME NEW k \in UnitFlags \cup ServiceFlags
             PROVE  d.flags[k] = \E a \in A \cup {s} : Final(a, To(A \cup {s}, Flags, k)) /\ On(a)
    BY DEF FlagsSay
<1> DEFINE S == To(A, Flags, k)
           T == To(A \cup {s}, Flags, k)
<1>1. w.flags[k] = \E a \in A : Final(a, S) /\ On(a)
      BY DEF FlagsSay
<1>2. S \subseteq A /\ Later(S, s)
      BY DEF To, Later
<1>3. CASE ~(k = s.key /\ k \in Flags(s.sec))
  <2>1. T = S
        BY <1>3 DEF To
  <2>2. d.flags[k] = w.flags[k]
        BY <1>3
  <2> HIDE DEF S, T, On
  <2>3. (\E a \in A : Final(a, S) /\ On(a)) <=> (\E a \in A \cup {s} : Final(a, T) /\ On(a))
        BY <1>2, <2>1 DEF Final
  <2> QED
    BY <1>1, <2>2, <2>3 DEF T
<1>4. CASE k = s.key /\ k \in Flags(s.sec)
  <2>1. T = S \cup {s}
        BY <1>4 DEF To
  <2>2. d.flags[k] = (TrimLeft(l.words) = <<"true">>)
        BY <1>4
  <2>3. (TrimLeft(l.words) = <<"true">>) <=> On(s)
        BY DEF Tells
  <2> HIDE DEF S, T, On
  <2>4. \A a : Final(a, T) <=> a = s
        BY <1>2, <2>1, LastIsFinal
  <2>5. On(s) <=> (\E a \in A \cup {s} : Final(a, T) /\ On(a))
        BY <2>4
  <2> QED
    BY <2>2, <2>3, <2>5 DEF T
<1> QED
  BY <1>3, <1>4

LEMMA ValuesMore ==
  ASSUME NEW A, NEW s, Later(A, s), NEW l, Tells(l, s), NEW w, ValuesSay(A, w), NEW d,
         \A k \in UnitValues \cup ServiceValues :
           d.values[k] = IF k = s.key /\ k \in Values(s.sec) THEN TrimLeft(l.words) ELSE w.values[k]
  PROVE  ValuesSay(A \cup {s}, d)
<1> DEFINE Fits(S, v) == IF S = {} THEN v = <<>> ELSE \E a \in S : Final(a, S) /\ Names(v) = a.words
<1> SUFFICES ASSUME NEW k \in UnitValues \cup ServiceValues PROVE Fits(To(A \cup {s}, Values, k), d.values[k])
    BY DEF ValuesSay
<1> DEFINE S == To(A, Values, k)
           T == To(A \cup {s}, Values, k)
<1>1. Fits(S, w.values[k])
      BY DEF ValuesSay
<1>2. S \subseteq A /\ Later(S, s)
      BY DEF To, Later
<1>3. CASE ~(k = s.key /\ k \in Values(s.sec))
  <2>1. T = S
        BY <1>3 DEF To
  <2>2. d.values[k] = w.values[k]
        BY <1>3
  <2> HIDE DEF S, T, Fits
  <2> QED
    BY <1>1, <2>1, <2>2 DEF T
<1>4. CASE k = s.key /\ k \in Values(s.sec)
  <2>1. T = S \cup {s}
        BY <1>4 DEF To
  <2>2. d.values[k] = TrimLeft(l.words) /\ Names(TrimLeft(l.words)) = s.words
        BY <1>4, TellsWords
  <2> HIDE DEF S, T
  <2>3. Final(s, T)
        BY <1>2, <2>1, LastIsFinal
  <2>4. Fits(T, d.values[k])
        BY <2>1, <2>2, <2>3
  <2> HIDE DEF Fits
  <2> QED
    BY <2>4 DEF T
<1> QED
  BY <1>3, <1>4

\* Times change by assignments to keys of their own.
LEMMA TimesMore ==
  ASSUME NEW A, NEW s, Later(A, s), NEW w, TimesSay(A, w), NEW d,
         \A t \in TimeFields :
           d.times[t] = IF s.key \in Timed(s.sec) /\ t = Times[s.key] THEN Duration(s.text).v ELSE w.times[t]
  PROVE  TimesSay(A \cup {s}, d)
<1> DEFINE Of(B, t)   == {a \in B : a.key \in Timed(a.sec) /\ Times[a.key] = t}
           Fits(S, v) == IF S = {} THEN v = 0 ELSE \E a \in S : Final(a, S) /\ v = Duration(a.text).v
<1> SUFFICES ASSUME NEW t \in TimeFields PROVE Fits(Of(A \cup {s}, t), d.times[t])
    BY DEF TimesSay
<1> DEFINE S == Of(A, t)
           T == Of(A \cup {s}, t)
<1>1. Fits(S, w.times[t])
      BY DEF TimesSay
<1>2. S \subseteq A /\ Later(S, s)
      BY DEF Later
<1>3. CASE ~(s.key \in Timed(s.sec) /\ t = Times[s.key])
  <2>1. T = S
        BY <1>3
  <2>2. d.times[t] = w.times[t]
        BY <1>3
  <2> HIDE DEF S, T, Fits
  <2> QED
    BY <1>1, <2>1, <2>2 DEF T
<1>4. CASE s.key \in Timed(s.sec) /\ t = Times[s.key]
  <2>1. T = S \cup {s}
        BY <1>4
  <2>2. d.times[t] = Duration(s.text).v
        BY <1>4
  <2> HIDE DEF S, T, Of
  <2>3. Final(s, T)
        BY <1>2, <2>1, LastIsFinal
  <2>4. Fits(T, d.times[t])
        BY <2>1, <2>2, <2>3
  <2> HIDE DEF Fits
  <2> QED
    BY <2>4 DEF T
<1> QED
  BY <1>3, <1>4

\* What an assignment leaves, field by field.
LEMMA StoredFields ==
  ASSUME def \in DefType, section \in Sections, NEW l \in Parts
  PROVE  LET v == TrimLeft(l.words)
             d == Stored(l)
             Hit(k, K) == k = l.name /\ k \in K
         IN  /\ \A k \in UnitMaps :
                  d.maps[k] = IF Hit(k, Maps(section)) THEN Filled(v, def.maps[k]) ELSE def.maps[k]
             /\ \A k \in ServiceLists : d.lists[k] = IF Hit(k, Lists(section)) THEN Append(def.lists[k], v) ELSE def.lists[k]
             /\ \A k \in UnitFlags \cup ServiceFlags :
                  d.flags[k] = IF Hit(k, Flags(section)) THEN v = <<"true">> ELSE def.flags[k]
             /\ \A k \in UnitValues \cup ServiceValues :
                  d.values[k] = IF Hit(k, Values(section)) THEN v ELSE def.values[k]
             /\ d.times = def.times
<1> DEFINE v == TrimLeft(l.words)
           n == l.name
<1>1. /\ def.maps \in [UnitMaps -> SUBSET Words] /\ def.lists \in [ServiceLists -> Seq(Texts)]
      /\ def.flags \in [UnitFlags \cup ServiceFlags -> BOOLEAN] /\ def.values \in [UnitValues \cup ServiceValues -> Texts]
      BY DefFields
<1>2. \A F : /\ [def EXCEPT !.maps = F].maps = F /\ [def EXCEPT !.maps = F].lists = def.lists /\ [def EXCEPT !.maps = F].flags = def.flags
             /\ [def EXCEPT !.maps = F].values = def.values /\ [def EXCEPT !.maps = F].times = def.times
             /\ [def EXCEPT !.lists = F].lists = F /\ [def EXCEPT !.lists = F].maps = def.maps /\ [def EXCEPT !.lists = F].flags = def.flags
             /\ [def EXCEPT !.lists = F].values = def.values /\ [def EXCEPT !.lists = F].times = def.times
             /\ [def EXCEPT !.flags = F].flags = F /\ [def EXCEPT !.flags = F].maps = def.maps /\ [def EXCEPT !.flags = F].lists = def.lists
             /\ [def EXCEPT !.flags = F].values = def.values /\ [def EXCEPT !.flags = F].times = def.times
             /\ [def EXCEPT !.values = F].values = F /\ [def EXCEPT !.values = F].maps = def.maps /\ [def EXCEPT !.values = F].lists = def.lists
             /\ [def EXCEPT !.values = F].flags = def.flags /\ [def EXCEPT !.values = F].times = def.times
      BY DEF DefType
<1>3. /\ Maps(section) \subseteq UnitMaps /\ Lists(section) \subseteq ServiceLists /\ Flags(section) \subseteq UnitFlags \cup ServiceFlags
      /\ Values(section) \subseteq UnitValues \cup ServiceValues
      BY KeysTyped
<1> HIDE DEF v
<1>4. CASE n \in Maps(section)
  <2> DEFINE F == [def.maps EXCEPT ![n] = Filled(v, @)]
  <2>3. n \notin Lists(section) /\ n \notin Flags(section) /\ n \notin Values(section)
        BY <1>4, KeysApart
  <2>1. Stored(l) = [def EXCEPT !.maps = F]
        BY <1>4, <2>3 DEF Stored, Filled, v
  <2>2. \A k \in UnitMaps : F[k] = IF k = n THEN Filled(v, def.maps[k]) ELSE def.maps[k]
        BY <1>1
  <2> HIDE DEF F
  <2> QED
    BY <1>2, <1>4, <2>1, <2>2, <2>3 DEF v
<1>5. CASE n \in Lists(section)
  <2> DEFINE F == [def.lists EXCEPT ![n] = Append(@, v)]
  <2>3. n \notin Maps(section) /\ n \notin Flags(section) /\ n \notin Values(section)
        BY <1>5, KeysApart
  <2>1. Stored(l) = [def EXCEPT !.lists = F]
        BY <1>5, <2>3 DEF Stored, v
  <2>2. \A k \in ServiceLists : F[k] = IF k = n THEN Append(def.lists[k], v) ELSE def.lists[k]
        BY <1>1
  <2> HIDE DEF F
  <2> QED
    BY <1>2, <1>5, <2>1, <2>2, <2>3 DEF v
<1>6. CASE n \in Flags(section)
  <2> DEFINE F == [def.flags EXCEPT ![n] = v = <<"true">>]
  <2>3. n \notin Maps(section) /\ n \notin Lists(section) /\ n \notin Values(section)
        BY <1>6, KeysApart
  <2>1. Stored(l) = [def EXCEPT !.flags = F]
        BY <1>6, <2>3 DEF Stored, v
  <2>2. \A k \in UnitFlags \cup ServiceFlags : F[k] = IF k = n THEN v = <<"true">> ELSE def.flags[k]
        BY <1>1
  <2> HIDE DEF F
  <2> QED
    BY <1>2, <1>6, <2>1, <2>2, <2>3 DEF v
<1>7. CASE n \in Values(section)
  <2> DEFINE F == [def.values EXCEPT ![n] = v]
  <2>3. n \notin Maps(section) /\ n \notin Lists(section) /\ n \notin Flags(section)
        BY <1>7, KeysApart
  <2>1. Stored(l) = [def EXCEPT !.values = F]
        BY <1>7, <2>3 DEF Stored, v
  <2>2. \A k \in UnitValues \cup ServiceValues : F[k] = IF k = n THEN v ELSE def.values[k]
        BY <1>1
  <2> HIDE DEF F
  <2> QED
    BY <1>2, <1>7, <2>1, <2>2, <2>3 DEF v
<1>8. CASE n \notin Maps(section) /\ n \notin Lists(section) /\ n \notin Flags(section) /\ n \notin Values(section)
  <2>1. Stored(l) = def
        BY <1>8 DEF Stored
  <2> QED
    BY <1>8, <2>1
<1> QED
  BY <1>4, <1>5, <1>6, <1>7, <1>8

LEMMA SaysStored ==
  ASSUME def \in DefType, section \in Sections, NEW A, NEW s, Later(A, s), NEW l, Tells(l, s), s.sec = section,
         s.key \notin Timed(section), Says(A, def)
  PROVE  Says(A \cup {s}, Stored(l))
<1> DEFINE d == Stored(l)
<1>1. l \in Parts /\ l.name = s.key
      BY DEF Tells
<1>2. MapsSay(A \cup {s}, d)
  <2>1. \A k \in UnitMaps :
           d.maps[k] = IF k = s.key /\ k \in Maps(s.sec) THEN Filled(TrimLeft(l.words), def.maps[k]) ELSE def.maps[k]
        BY <1>1, StoredFields
  <2> HIDE DEF d
  <2> QED
    BY <2>1, MapsMore DEF Says
<1>3. ListsSay(A \cup {s}, d)
  <2>1. \A k \in ServiceLists :
           d.lists[k] = IF k = s.key /\ k \in Lists(s.sec) THEN Append(def.lists[k], TrimLeft(l.words)) ELSE def.lists[k]
        BY <1>1, StoredFields
  <2> HIDE DEF d
  <2> QED
    BY <2>1, ListsMore DEF Says
<1>4. FlagsSay(A \cup {s}, d)
  <2>1. \A k \in UnitFlags \cup ServiceFlags :
           d.flags[k] = IF k = s.key /\ k \in Flags(s.sec) THEN TrimLeft(l.words) = <<"true">> ELSE def.flags[k]
        BY <1>1, StoredFields
  <2> HIDE DEF d
  <2> QED
    BY <2>1, FlagsMore DEF Says
<1>5. ValuesSay(A \cup {s}, d)
  <2>1. \A k \in UnitValues \cup ServiceValues :
           d.values[k] = IF k = s.key /\ k \in Values(s.sec) THEN TrimLeft(l.words) ELSE def.values[k]
        BY <1>1, StoredFields
  <2> HIDE DEF d
  <2> QED
    BY <2>1, ValuesMore DEF Says
<1>6. TimesSay(A \cup {s}, d)
  <2>1. d.times = def.times
        BY <1>1, StoredFields
  <2>2. \A t \in TimeFields :
           d.times[t] = IF s.key \in Timed(s.sec) /\ t = Times[s.key] THEN Duration(s.text).v ELSE def.times[t]
        BY <2>1
  <2> HIDE DEF d
  <2> QED
    BY <2>2, TimesMore DEF Says
<1> QED
  BY <1>2, <1>3, <1>4, <1>5, <1>6 DEF Says

LEMMA SaysTimed ==
  ASSUME def \in DefType, section \in Sections, NEW A, NEW s, Later(A, s), NEW l, Tells(l, s), s.sec = section,
         s.key \in Timed(section), Says(A, def)
  PROVE  Says(A \cup {s}, [def EXCEPT !.times[Times[l.name]] = Duration(s.text).v])
<1> DEFINE t == Times[s.key]
           x == Duration(s.text).v
           F == [def.times EXCEPT ![t] = x]
           d == [def EXCEPT !.times = F]
<1>1. d.maps = def.maps /\ d.lists = def.lists /\ d.flags = def.flags /\ d.values = def.values /\ d.times = F
      BY DEF DefType
<1>2. def.times \in [TimeFields -> -Half..Half - 1]
      BY DefFields
<1>3. \A k \in TimeFields : F[k] = IF k = t THEN x ELSE def.times[k]
  <2> HIDE DEF t, x
  <2> QED
    BY <1>2
<1>4. [def EXCEPT !.times[Times[l.name]] = Duration(s.text).v] = d
      BY DEF Tells
<1>5. s.key \notin Maps(s.sec) /\ s.key \notin Lists(s.sec) /\ s.key \notin Flags(s.sec) /\ s.key \notin Values(s.sec)
      BY KeysApart
<1> HIDE DEF t, x, F, d
<1>6. MapsSay(A \cup {s}, d)
      BY <1>1, <1>5, MapsMore DEF Says
<1>7. ListsSay(A \cup {s}, d)
      BY <1>1, <1>5, ListsMore DEF Says
<1>8. FlagsSay(A \cup {s}, d)
      BY <1>1, <1>5, FlagsMore DEF Says
<1>9. ValuesSay(A \cup {s}, d)
      BY <1>1, <1>5, ValuesMore DEF Says
<1>10. TimesSay(A \cup {s}, d)
  <2>1. \A k \in TimeFields :
           d.times[k] = IF s.key \in Timed(s.sec) /\ k = Times[s.key] THEN Duration(s.text).v ELSE def.times[k]
        BY <1>1, <1>3 DEF t, x
  <2> QED
    BY <2>1, TimesMore DEF Says
<1> QED
  BY <1>4, <1>6, <1>7, <1>8, <1>9, <1>10 DEF Says

------------------------------------------------------------------------------
(* What the files say, and the reader on its way through them.              *)

LEMMA EndsTyped ==
  ASSUME NEW f \in Lines
  PROVE  /\ Len(f) \in Nat /\ Ends(f) \in SUBSET (1..Len(f))
         /\ Headers(f) \subseteq Ends(f) /\ Assigns(f) \subseteq Ends(f)
  BY DEF Lines, Ends, Headers, Assigns

LEMMA SectionMore ==
  ASSUME NEW f \in Lines, NEW e \in Nat
  PROVE  Section(f, 1) = "none" /\ Section(f, e + 1) = IF e \in Headers(f) THEN Heading(f, e) ELSE Section(f, e)
<1> DEFINE H(x) == {h \in Headers(f) : h < x}
<1>1. Headers(f) \in SUBSET Nat /\ \A h \in Headers(f) : h >= 1
      BY EndsTyped
<1>2. H(1) = {}
      BY <1>1
<1>3. CASE e \in Headers(f)
  <2>1. e \in H(e + 1) /\ (\A h \in H(e + 1) : h <= e) /\ H(e + 1) \in SUBSET Nat
        BY <1>1, <1>3
  <2>2. Section(f, e + 1) = IF H(e + 1) = {} THEN "none" ELSE Heading(f, Max(H(e + 1)))
        BY DEF Section
  <2> HIDE DEF H
  <2>3. Max(H(e + 1)) = e
        BY <2>1, MaxUnique
  <2> QED
    BY <1>2, <1>3, <2>1, <2>2, <2>3 DEF Section, H
<1>4. CASE e \notin Headers(f)
  <2>1. H(e + 1) = H(e)
        BY <1>1, <1>4
  <2> QED
    BY <1>2, <1>4, <2>1 DEF Section
<1> QED
  BY <1>3, <1>4

\* A duration that is not one.
Wrong(f, e) == Opening(f, e).name \in Timed(Section(f, e)) /\ ~Duration(Timing(f, e)).ok

\* What file i says, what it says up to line p, and what of the first n files is
\* not taken back.
Every(i)   == {Statement(i, e) : e \in Assigns(File(i))}
Upto(i, p) == {Statement(i, e) : e \in {x \in Assigns(File(i)) : x <= p}}
Past(n)    == UNION {Every(i) : i \in {j \in 1..n : \A k \in j..n : ~Refused(File(k))}}

LEMMA PastMore ==
  ASSUME NEW n \in Nat \ {0}
  PROVE  /\ Past(0) = {} /\ (Refused(File(n)) => Past(n) = {})
         /\ ~Refused(File(n)) => Past(n) = Past(n - 1) \cup Every(n)
<1> DEFINE K(m) == {j \in 1..m : \A k \in j..m : ~Refused(File(k))}
<1>1. \A m : Past(m) = UNION {Every(i) : i \in K(m)}
      BY DEF Past
<1>2. K(0) = {}
      OBVIOUS
<1>3. \A j \in 1..n : n \in j..n
      OBVIOUS
<1>4. CASE Refused(File(n))
  <2>1. K(n) = {}
        BY <1>3, <1>4
  <2> QED
    BY <1>1, <1>2, <1>4, <2>1
<1>5. CASE ~Refused(File(n))
  <2>1. \A j \in 1..n : \A k \in j..n : k \in j..n - 1 \/ k = n
        OBVIOUS
  <2>2. \A j \in 1..n - 1 : j \in 1..n /\ \A k \in j..n - 1 : k \in j..n
        OBVIOUS
  <2>3. n \in 1..n /\ \A j \in 1..n : j \in 1..n - 1 \/ j = n
        OBVIOUS
  <2>4. \A k \in n..n : k = n
        OBVIOUS
  <2>5. K(n) = K(n - 1) \cup {n}
        BY <1>5, <2>1, <2>2, <2>3, <2>4
  <2> HIDE DEF K
  <2> QED
    BY <1>1, <1>2, <1>5, <2>5
<1> QED
  BY <1>4, <1>5

LEMMA UptoMore ==
  ASSUME NEW i, File(i) \in Lines, NEW p \in Nat
  PROVE  /\ Upto(i, 0) = {}
         /\ Upto(i, p + 1) = IF p + 1 \in Assigns(File(i)) THEN Upto(i, p) \cup {Statement(i, p + 1)} ELSE Upto(i, p)
         /\ (\A e \in Assigns(File(i)) : e <= p) => Upto(i, p) = Every(i)
<1> DEFINE A == Assigns(File(i))
           U(q) == {x \in A : x <= q}
<1>1. A \in SUBSET Nat /\ \A e \in A : e >= 1
      BY EndsTyped
<1>2. \A q : Upto(i, q) = {Statement(i, e) : e \in U(q)}
      BY DEF Upto
<1>3. Every(i) = {Statement(i, e) : e \in A}
      BY DEF Every
<1> HIDE DEF A
<1>4. \A e \in A : e \in Nat /\ ~(e <= 0) /\ (e <= p + 1 <=> (e <= p \/ e = p + 1))
      BY <1>1
<1>5. U(0) = {} /\ ((\A e \in A : e <= p) => U(p) = A)
      BY <1>4
<1>6. p + 1 <= p + 1
      OBVIOUS
<1>7. p + 1 \in A => U(p + 1) = U(p) \cup {p + 1}
      BY <1>4, <1>6
<1>8. p + 1 \notin A => U(p + 1) = U(p)
      BY <1>4
<1> HIDE DEF U
<1>9. CASE p + 1 \in A
  <2>1. Upto(i, p + 1) = Upto(i, p) \cup {Statement(i, p + 1)}
        BY <1>2, <1>7, <1>9
  <2> QED
    BY <1>2, <1>3, <1>5, <1>9, <2>1 DEF A
<1>10. CASE p + 1 \notin A
  <2>1. Upto(i, p + 1) = Upto(i, p)
        BY <1>2, <1>8, <1>10
  <2> QED
    BY <1>2, <1>3, <1>5, <1>10, <2>1 DEF A
<1> QED
  BY <1>9, <1>10

\* A statement comes after all before it.
LEMMA StatementLater ==
  ASSUME NEW n \in Nat \ {0}, \A i \in 1..n : File(i) \in Lines, NEW p \in Nat
  PROVE  Later(Past(n - 1) \cup Upto(n, p), Statement(n, p + 1))
<1> DEFINE s == Statement(n, p + 1)
<1>1. s.at[1] = n /\ s.at[2] = p + 1
      BY DEF Statement
<1>2. ASSUME NEW a \in Past(n - 1) PROVE a.at[1] \in Nat /\ a.at[1] < n
  <2>1. PICK i \in 1..n - 1 : a \in Every(i)
        BY DEF Past
  <2>2. a.at[1] = i
        BY <2>1 DEF Every, Statement
  <2> QED
    BY <2>2
<1>3. ASSUME NEW a \in Upto(n, p) PROVE a.at[1] = n /\ a.at[2] \in Nat /\ a.at[2] < p + 1
  <2>1. PICK e \in Assigns(File(n)) : e <= p /\ a = Statement(n, e)
        BY DEF Upto
  <2>2. a.at[1] = n /\ a.at[2] = e
        BY <2>1 DEF Statement
  <2>3. e \in Nat
        BY EndsTyped
  <2> QED
    BY <2>1, <2>2, <2>3
<1> HIDE DEF s
<1> QED
  BY <1>1, <1>2, <1>3 DEF Later, Before, s

LEMMA SaysNothing == Says({}, NoDef)
<1>1. MapsSay({}, NoDef)
      BY DEF MapsSay, To, NoDef
<1>2. ListsSay({}, NoDef)
  <2> SUFFICES ASSUME NEW k \in ServiceLists
               PROVE  LET S == To({}, Lists, k)
                          s == NoDef.lists[k]
                      IN  \E by \in [1..Len(s) -> S] :
                            /\ \A n \in 1..Len(s) : Names(s[n]) = by[n].words
                            /\ \A m, n \in 1..Len(s) : m < n => Before(by[m], by[n])
                            /\ \A a \in S : \E n \in 1..Len(s) : by[n] = a
      BY DEF ListsSay
  <2>1. NoDef.lists[k] = <<>> /\ To({}, Lists, k) = {}
        BY DEF NoDef, To
  <2>2. Len(<<>>) = 0 /\ 1..0 = {}
        OBVIOUS
  <2>3. [i \in {} |-> {}] \in [{} -> {}]
        OBVIOUS
  <2> QED
    BY <2>1, <2>2, <2>3
<1>3. FlagsSay({}, NoDef)
      BY DEF FlagsSay, NoDef
<1>4. ValuesSay({}, NoDef)
      BY DEF ValuesSay, To, NoDef
<1>5. TimesSay({}, NoDef)
      BY DEF TimesSay, NoDef
<1> QED
  BY <1>1, <1>2, <1>3, <1>4, <1>5 DEF Says

\* The reader after p lines of the last file.
Reading(p) ==
  LET n == Len(read)
      f == File(n)
  IN  /\ read # <<>> /\ p \in 0..Len(f) /\ lines = SubSeq(f, p + 1, Len(f))
      /\ \A k \in 1..p : f[k].is # "long"
      /\ section = Section(f, p + 1)
      /\ Carried(f, p, concat)
      /\ \A e \in Assigns(f) : e <= p => ~Wrong(f, e)
      /\ Says(Past(n - 1) \cup Upto(n, p), def)

\* Between two files the definition is what those read so far say; in the middle
\* of one it is that and what its statements up to here say.
MInv == IF lines = Closed THEN Says(Past(Len(read)), def) ELSE \E p \in Nat : Reading(p)

LEMMA FilesTyped ==
  ASSUME TypeOK
  PROVE  Len(read) \in Nat /\ (\A i \in 1..Len(read) : File(i) \in Lines) /\ Closed \notin Lines
<1>1. Len(read) \in Nat /\ \A i \in 1..Len(read) : read[i] \in Dirs
      BY DEF TypeOK
<1>2. \A i \in 1..Len(read) : File(i) \in Lines
      BY <1>1 DEF TypeOK, MachineType, File, Lines
<1>3. Closed \notin Lines
  <2>1. 1 \in 1..Len(Closed) /\ Closed[1].is = "closed"
        BY DEF Closed
  <2>2. \A f \in Lines : \A i \in 1..Len(f) : f[i].is # "closed"
    <3> SUFFICES ASSUME NEW f \in Lines, NEW i \in 1..Len(f) PROVE f[i].is # "closed"
        OBVIOUS
    <3>1. f[i] \in LineType
          BY DEF Lines
    <3> QED
      BY <3>1 DEF LineType, AnyLine, Kinds
  <2> QED
    BY <2>1, <2>2
<1> QED
  BY <1>1, <1>2, <1>3

LEMMA Unmoved ==
  ASSUME UNCHANGED <<machine, read>>
  PROVE  /\ \A i : File(i)' = File(i)
         /\ \A i : Past(i)' = Past(i)
         /\ \A i, p : Upto(i, p)' = Upto(i, p)
<1>1. \A i : File(i)' = File(i)
      BY DEF File
<1>2. \A i, e : Statement(i, e)' = Statement(i, e)
      BY <1>1 DEF Statement
<1>3. \A i : Every(i)' = Every(i)
      BY <1>1, <1>2 DEF Every
<1> QED
  BY <1>1, <1>2, <1>3 DEF Past, Upto

LEMMA NextLine ==
  ASSUME TypeOK, NEW p \in Nat, Reading(p)
  PROVE  LET f == File(Len(read))
         IN  /\ Len(read) \in Nat \ {0} /\ f \in Lines
             /\ lines = <<>> => p = Len(f)
             /\ lines # <<>> => p + 1 \in 1..Len(f) /\ Head(lines) = f[p + 1] /\ Tail(lines) = SubSeq(f, (p + 1) + 1, Len(f))
<1> DEFINE f == File(Len(read))
<1>1. Len(read) \in Nat \ {0}
  <2>1. read \in Seq(Dirs) /\ read # <<>>
        BY DEF TypeOK, Reading
  <2> QED
    BY <2>1
<1>2. f \in Lines
      BY <1>1, FilesTyped
<1>3. p \in 0..Len(f) /\ lines = SubSeq(f, p + 1, Len(f))
      BY DEF Reading
<1> HIDE DEF f
<1>4. Len(f) \in Nat
      BY <1>2 DEF Lines
<1>5. p + 1 > Len(f) => lines = <<>>
      BY <1>2, <1>3, <1>4 DEF Lines
<1>6. ASSUME p + 1 <= Len(f) PROVE lines # <<>> /\ Head(lines) = f[p + 1] /\ Tail(lines) = SubSeq(f, (p + 1) + 1, Len(f))
  <2>1. f \in Seq(LineType) /\ p + 1 \in 1..Len(f) /\ Len(f) \in (p + 1)..Len(f)
        BY <1>2, <1>4, <1>6 DEF Lines
  <2>2. Head(SubSeq(f, p + 1, Len(f))) = f[p + 1] /\ Tail(SubSeq(f, p + 1, Len(f))) = SubSeq(f, (p + 1) + 1, Len(f))
        BY <2>1, HeadTailOfSubSeq
  <2>3. Len(SubSeq(f, p + 1, Len(f))) = Len(f) - (p + 1) + 1
        BY <2>1
  <2>4. Len(<<>>) = 0 /\ Len(f) - (p + 1) + 1 # 0
        BY <1>4, <1>6
  <2> QED
    BY <1>3, <2>2, <2>3, <2>4
<1> QED
  BY <1>1, <1>2, <1>3, <1>4, <1>5, <1>6 DEF f

\* The line that ends a statement.
LEMMA WholeLine ==
  ASSUME TypeOK, NEW p \in Nat, Reading(p), NEW is, Whole(is)
  PROVE  LET f == File(Len(read))
             e == p + 1
         IN  /\ Line \in Parts /\ Line.is = is
             /\ e \in Ends(f) /\ Pending(f, e) = {}
             /\ is = "assign" <=> e \in Assigns(f)
             /\ is = "header" <=> e \in Headers(f)
             /\ is = "header" => Line.name = Heading(f, e)
             /\ is = "assign" => /\ Line.name = Opening(f, e).name /\ TimeText = Timing(f, e)
                                 /\ Tells(Line, Statement(Len(read), e))
<1> DEFINE f == File(Len(read))
           e == p + 1
           s == Statement(Len(read), e)
<1>1. lines # <<>> /\ Head(lines).is \in Kinds /\ ~Head(lines).more /\ Line.is = is
      BY DEF Whole, At, Kinds
<1>2. Len(read) \in Nat \ {0} /\ f \in Lines /\ e \in 1..Len(f) /\ Head(lines) = f[e]
      BY <1>1, NextLine
<1>3. f[e] \in Parts /\ ~f[e].more /\ f[e].is # "comment" /\ f[e].is # "long"
  <2>1. f[e] \in LineType
        BY <1>2 DEF Lines
  <2> QED
    BY <1>1, <1>2, <2>1 DEF Parts, Kinds
<1>4. (\A k \in 1..e : f[k].is # "long") /\ Carried(f, p, concat)
  <2>1. (\A k \in 1..p : f[k].is # "long") /\ Carried(f, p, concat)
        BY DEF Reading
  <2>2. \A k \in 1..e : k \in 1..p \/ k = e
        OBVIOUS
  <2> QED
    BY <1>3, <2>1, <2>2
<1>5. Line = Made(concat, f[e])
      BY <1>2 DEF Line, Made
<1> HIDE DEF f
<1>6. e \in Ends(f) /\ Line \in Parts /\ Means(f, Solid(f, e), e, Line) /\ Group(f, Solid(f, e))
      BY <1>2, <1>3, <1>4, <1>5, MadeMeans
<1>7. Pending(f, e) = {}
      BY <1>2, <1>3, <1>4, PendingSteps
<1>8. /\ is = "assign" <=> e \in Assigns(f)
      /\ is = "header" <=> e \in Headers(f)
      /\ e \in Headers(f) => Line.name = Heading(f, e)
      /\ e \in Assigns(f) => /\ Line.name = Opening(f, e).name /\ Line.text = Opening(f, e).text
                             /\ Names(Line.words) = Said(f, Solid(f, e), e)
      BY <1>1, <1>2, <1>6, MadeSays
<1>9. is = "assign" => ((TrimLeft(Line.words) = <<"true">>) <=> (Names(Line.words) = <<"true">> /\ Bare(f, e)))
      BY <1>1, <1>2, <1>3, <1>4, <1>5, MadeBare
<1>10. s.key = Opening(f, e).name /\ s.words = Said(f, Solid(f, e), e) /\ s.bare = Bare(f, e)
       BY DEF Statement, f
<1> HIDE DEF s
<1>11. is = "assign" => Tells(Line, s)
       BY <1>6, <1>8, <1>9, <1>10 DEF Tells
<1>12. concat = Nothing <=> Run(f, e) = {e}
  <2>1. Run(f, e) = Pending(f, p) \cup {e}
        BY <1>2, <1>3, <1>4, PendingSteps
  <2>2. e \notin Pending(f, p)
        BY DEF Pending
  <2>3. concat = Nothing <=> Pending(f, p) = {}
    <3>1. Nothing \notin Parts
          BY DEF Nothing, Parts, Kinds
    <3> QED
      BY <1>4, <3>1 DEF Carried
  <2> QED
    BY <2>1, <2>2, <2>3
<1>13. is = "assign" => TimeText = Timing(f, e)
       BY <1>8, <1>12 DEF TimeText, Timing
<1> QED
  BY <1>1, <1>6, <1>7, <1>8, <1>11, <1>13 DEF f, s

\* One line more.
LEMMA Taken ==
  ASSUME TypeOK, TypeOK', NEW p \in Nat, Reading(p), Rest, lines # <<>>, Head(lines).is # "long",
         section' = Section(File(Len(read)), (p + 1) + 1), Carried(File(Len(read)), p + 1, concat'),
         p + 1 \in Assigns(File(Len(read))) => ~Wrong(File(Len(read)), p + 1),
         Says(Past(Len(read) - 1) \cup Upto(Len(read), p + 1), def')
  PROVE  MInv'
<1> DEFINE n == Len(read)
           f == File(n)
           e == p + 1
<1>1. f \in Lines /\ e \in 1..Len(f) /\ Head(lines) = f[e] /\ Tail(lines) = SubSeq(f, e + 1, Len(f)) /\ e \in Nat /\ Len(f) \in Nat
      BY NextLine, EndsTyped
<1>2. UNCHANGED <<machine, read>> /\ lines' = Tail(lines)
      BY DEF Rest
<1>3. Len(read)' = n /\ File(Len(read))' = f /\ Past(Len(read) - 1)' = Past(n - 1) /\ Upto(Len(read), e)' = Upto(n, e) /\ read' # <<>>
  <2>1. read # <<>>
        BY DEF Reading
  <2>2. /\ \A i : File(i)' = File(i)
        /\ \A i : Past(i)' = Past(i)
        /\ \A i, q : Upto(i, q)' = Upto(i, q)
        BY <1>2, Unmoved
  <2> QED
    BY <1>2, <2>1, <2>2
<1>4. lines' \in Lines
  <2>1. f \in Seq(LineType) /\ e + 1 \in 1..Len(f) + 1
        BY <1>1 DEF Lines
  <2>2. SubSeq(f, e + 1, Len(f)) \in Seq(LineType)
        BY <2>1
  <2> QED
    BY <1>1, <1>2, <2>2 DEF Lines
<1>5. lines' # Closed
      BY <1>4, FilesTyped
<1>6. \A k \in 1..e : f[k].is # "long"
  <2>1. \A k \in 1..p : f[k].is # "long"
        BY DEF Reading
  <2>2. \A k \in 1..e : k \in 1..p \/ k = e
        OBVIOUS
  <2> QED
    BY <1>1, <2>1, <2>2
<1>7. \A x \in Assigns(f) : x <= e => ~Wrong(f, x)
  <2>1. \A x \in Assigns(f) : x <= p => ~Wrong(f, x)
        BY DEF Reading
  <2>2. \A x \in Assigns(f) : x <= e => x <= p \/ x = e
        BY <1>1, EndsTyped
  <2> QED
    BY <2>1, <2>2
<1>8. e \in 0..Len(f)
      BY <1>1
<1> HIDE DEF f, n, e
<1>9. Reading(e)'
      BY <1>1, <1>2, <1>3, <1>6, <1>7, <1>8 DEF Reading, f, n, e
<1> QED
  BY <1>1, <1>5, <1>9 DEF MInv

\* A comment leaves what is in hand.
LEMMA CarriedOn ==
  ASSUME NEW f \in Lines, NEW p \in Nat, p + 1 \in 1..Len(f), Pending(f, p + 1) = Pending(f, p), NEW c, Carried(f, p, c)
  PROVE  Carried(f, p + 1, c)
<1> DEFINE S == Hard(f, Pending(f, p))
<1>1. Group(f, S) /\ p + 1 \notin S
  <2>1. p \in 0..Len(f)
        BY EndsTyped
  <2>2. p + 1 \notin Pending(f, p)
        BY DEF Pending
  <2> QED
    BY <2>1, <2>2, PendingGroup DEF Hard
<1>2. Said(f, S, p + 1) = Said(f, S, p)
  <2>1. Said(f, S, p) \in Texts /\ Said(f, S, p + 1) = Said(f, S, p) \o Part(f, S, p + 1)
        BY <1>1, SaidMore
  <2>2. Part(f, S, p + 1) = <<>>
        BY <1>1 DEF Part
  <2> QED
    BY <2>1, <2>2, Blanks, TextFacts
<1> HIDE DEF S
<1>3. Means(f, S, p, c) => Means(f, S, p + 1, c)
      BY <1>2 DEF Means
<1> QED
  BY <1>3 DEF Carried, S

LEMMA InitMInv == ASSUME Init PROVE MInv
<1>1. Len(read) = 0
      BY DEF Init
<1>2. Past(0) = {}
      BY DEF Past
<1> QED
  BY <1>1, <1>2, SaysNothing DEF Init, MInv

LEMMA OpenMInv == ASSUME TypeOK, TypeOK', MInv, Open PROVE MInv'
<1> DEFINE d == Real(Head(dirs))
<1>0. PICK n, file : n = Len(read) /\ file = machine.files[d]
      OBVIOUS
<1>1. lines = Closed /\ machine' = machine /\ def' = def /\ section' = "none" /\ concat' = Nothing
      BY DEF Open
<1>2. n \in Nat /\ Says(Past(n), def)
      BY <1>0, <1>1, FilesTyped DEF MInv
<1>3. CASE file = <<>>
  <2>1. lines' = Closed /\ read' = read
        BY <1>0, <1>3 DEF Open
  <2>2. Past(Len(read))' = Past(n)
    <3>1. \A i : Past(i)' = Past(i)
          BY <1>1, <2>1, Unmoved
    <3> QED
      BY <1>0, <2>1, <3>1
  <2> QED
    BY <1>1, <1>2, <2>1, <2>2 DEF MInv
<1>4. CASE file # <<>>
  <2>1. lines' = file /\ read' = Append(read, d)
        BY <1>0, <1>4 DEF Open
  <2>2. Len(read') = n + 1 /\ read'[n + 1] = d /\ (\A i \in 1..n : read'[i] = read[i]) /\ read' # <<>>
    <3>1. read \in Seq(Dirs)
          BY DEF TypeOK
    <3> QED
      BY <1>0, <2>1, <3>1
  <2>3. File(n + 1)' = file /\ \A i \in 1..n : File(i)' = File(i)
        BY <1>0, <1>1, <2>2 DEF File
  <2>4. file \in Lines
    <3>1. \A i \in 1..Len(read') : File(i)' \in Lines
      <4>1. (\A i \in 1..Len(read) : File(i) \in Lines)'
            BY FilesTyped, PTL
      <4> QED
        BY <4>1
    <3>2. n + 1 \in 1..Len(read')
          BY <1>2, <2>2
    <3> QED
      BY <2>3, <3>1, <3>2
  <2>5. Past(n)' = Past(n)
    <3>1. \A i \in 1..n : \A e : Statement(i, e)' = Statement(i, e)
          BY <2>3 DEF Statement
    <3>2. \A i \in 1..n : Every(i)' = Every(i)
          BY <2>3, <3>1 DEF Every
    <3>3. \A j \in 1..n : \A k \in j..n : File(k)' = File(k)
      <4>1. \A j \in 1..n : \A k \in j..n : k \in 1..n
            BY <1>2
      <4> QED
        BY <2>3, <4>1
    <3>4. {j \in 1..n : \A k \in j..n : ~Refused(File(k)')} = {j \in 1..n : \A k \in j..n : ~Refused(File(k))}
          BY <3>3
    <3> QED
      BY <3>2, <3>4 DEF Past
  <2>6. Upto(n + 1, 0)' = {}
    <3>1. Assigns(file) \in SUBSET Nat /\ \A e \in Assigns(file) : ~(e <= 0)
      <4> QED
        BY <2>4, EndsTyped
    <3> QED
      BY <2>3, <3>1 DEF Upto
  <2>7. lines' # Closed
        BY <2>1, <2>4, FilesTyped
    <2>8. Len(file) \in Nat /\ lines' = SubSeq(file, 0 + 1, Len(file)) /\ Section(file, 0 + 1) = "none"
        /\ \A e \in Assigns(file) : ~(e <= 0)
    <3>1. file \in Seq(LineType)
          BY <2>4 DEF Lines
    <3>2. Section(file, 1) = "none"
          BY <2>4, SectionMore
    <3> QED
      BY <2>1, <2>4, <3>1, <3>2, SubSeqFull, EndsTyped
  <2>9. Carried(file, 0, Nothing)
        BY DEF Carried, Pending
  <2>10. Says(Past(n) \cup {}, def)
         BY <1>2
  <2>11. Len(read)' = n + 1 /\ (n + 1) - 1 = n /\ 0 \in 0..Len(file) /\ 1..0 = {}
         BY <1>2, <2>2, <2>8
  <2>12. Reading(0)'
         BY <1>1, <2>2, <2>3, <2>5, <2>6, <2>8, <2>9, <2>10, <2>11 DEF Reading
  <2> QED
    BY <2>7, <2>12 DEF MInv
<1> QED
  BY <1>3, <1>4

LEMMA CommentMInv == ASSUME TypeOK, TypeOK', MInv, Comment PROVE MInv'
<1>1. lines # Closed /\ lines # <<>> /\ Head(lines).is = "comment" /\ Rest /\ UNCHANGED <<section, concat, def>>
      BY DEF Comment, At
<1>2. PICK p \in Nat : Reading(p)
      BY <1>1 DEF MInv
<1> DEFINE n == Len(read)
           f == File(n)
           e == p + 1
<1>3. n \in Nat \ {0} /\ f \in Lines /\ e \in 1..Len(f) /\ Head(lines) = f[e]
      BY <1>1, <1>2, NextLine
<1>4. (\A k \in 1..p : f[k].is # "long") /\ section = Section(f, e) /\ Carried(f, p, concat) /\ Says(Past(n - 1) \cup Upto(n, p), def)
      BY <1>2 DEF Reading
<1>5. \A k \in 1..e : f[k].is # "long"
  <2>1. \A k \in 1..e : k \in 1..p \/ k = e
        OBVIOUS
  <2> QED
    BY <1>1, <1>3, <1>4, <2>1
<1> HIDE DEF f
<1>6. e \notin Ends(f) /\ Pending(f, e) = Pending(f, p)
      BY <1>1, <1>3, <1>5, PendingSteps
<1>7. e \notin Headers(f) /\ e \notin Assigns(f)
      BY <1>3, <1>6, EndsTyped
<1>8. Section(f, e + 1) = Section(f, e)
      BY <1>3, <1>7, SectionMore
<1>9. Carried(f, e, concat')
      BY <1>1, <1>3, <1>4, <1>6, CarriedOn
<1>10. Upto(n, e) = Upto(n, p)
       BY <1>3, <1>7, UptoMore DEF f
<1> QED
  BY <1>1, <1>2, <1>4, <1>7, <1>8, <1>9, <1>10, Taken DEF f

LEMMA ContinueMInv == ASSUME TypeOK, TypeOK', MInv, Continue PROVE MInv'
<1>1. /\ lines # Closed /\ lines # <<>> /\ Head(lines).is \in Kinds /\ Head(lines).more /\ Rest
      /\ UNCHANGED <<section, def>> /\ concat' = Joined(concat, Head(lines))
      BY DEF Continue, At, Kinds
<1>2. PICK p \in Nat : Reading(p)
      BY <1>1 DEF MInv
<1> DEFINE n == Len(read)
           f == File(n)
           e == p + 1
<1>3. n \in Nat \ {0} /\ f \in Lines /\ e \in 1..Len(f) /\ Head(lines) = f[e]
      BY <1>1, <1>2, NextLine
<1>4. (\A k \in 1..p : f[k].is # "long") /\ section = Section(f, e) /\ Carried(f, p, concat) /\ Says(Past(n - 1) \cup Upto(n, p), def)
      BY <1>2 DEF Reading
<1>5. f[e] \in Parts /\ f[e].is # "comment" /\ f[e].is # "long"
  <2>1. f[e] \in LineType
        BY <1>3 DEF Lines
  <2> QED
    BY <1>1, <1>3, <2>1 DEF Parts, Kinds
<1>6. \A k \in 1..e : f[k].is # "long"
  <2>1. \A k \in 1..e : k \in 1..p \/ k = e
        OBVIOUS
  <2> QED
    BY <1>4, <1>5, <2>1
<1> HIDE DEF f
<1>7. e \notin Ends(f) /\ Pending(f, e) = Pending(f, p) \cup {e}
      BY <1>1, <1>3, <1>5, <1>6, PendingSteps
<1>8. e \notin Headers(f) /\ e \notin Assigns(f)
      BY <1>3, <1>7, EndsTyped
<1>9. Section(f, e + 1) = Section(f, e)
      BY <1>3, <1>8, SectionMore
<1>10. Carried(f, e, concat')
  <2>1. Alike(f[e], f[e])
        BY <1>5, AlikeTrimmed
  <2>2. Joined(concat, f[e]) \in Parts /\ Means(f, Hard(f, Pending(f, p) \cup {e}), e, Joined(concat, f[e]))
        BY <1>3, <1>4, <1>5, <2>1, CarriedJoined
  <2> QED
    BY <1>1, <1>3, <1>7, <2>2 DEF Carried
<1>11. Upto(n, e) = Upto(n, p)
       BY <1>3, <1>8, UptoMore DEF f
<1> QED
  BY <1>1, <1>2, <1>3, <1>4, <1>5, <1>8, <1>9, <1>10, <1>11, Taken DEF f

\* The last line of a statement leaves nothing in hand.
LEMMA WholeTaken ==
  ASSUME TypeOK, TypeOK', MInv, NEW is, Whole(is), Rest, concat' = Nothing,
         section' = IF is = "header" THEN Line.name ELSE section,
         is = "assign" => ~(Line.name \in Timed(section) /\ ~Duration(TimeText).ok),
         IF is = "assign"
         THEN \A A, s : /\ Later(A, s) /\ Tells(Line, s) /\ s.text = TimeText /\ s.sec = section /\ Says(A, def)
                         => Says(A \cup {s}, def')
         ELSE def' = def
  PROVE  MInv'
<1>1. lines # Closed /\ lines # <<>> /\ Head(lines).is \in Kinds
      BY DEF Whole, At, Kinds
<1>2. PICK p \in Nat : Reading(p)
      BY <1>1 DEF MInv
<1> DEFINE n == Len(read)
           f == File(n)
           e == p + 1
           s == Statement(n, e)
<1>3. n \in Nat \ {0} /\ f \in Lines /\ (\A i \in 1..n : File(i) \in Lines) /\ e \in Nat
      BY <1>1, <1>2, NextLine, FilesTyped
<1>4. section = Section(f, e) /\ Says(Past(n - 1) \cup Upto(n, p), def)
      BY <1>2 DEF Reading
<1>5. /\ Pending(f, e) = {}
      /\ is = "assign" <=> e \in Assigns(f)
      /\ is = "header" <=> e \in Headers(f)
      /\ is = "header" => Line.name = Heading(f, e)
      /\ is = "assign" => Line.name = Opening(f, e).name /\ TimeText = Timing(f, e) /\ Tells(Line, s)
      BY <1>2, WholeLine
<1>6. s.sec = section /\ s.text = Timing(f, e)
      BY <1>4 DEF Statement
<1>7. Upto(n, e) = IF is = "assign" THEN Upto(n, p) \cup {s} ELSE Upto(n, p)
      BY <1>3, <1>5, UptoMore
<1>8. Later(Past(n - 1) \cup Upto(n, p), s)
      BY <1>3, StatementLater
<1> HIDE DEF f, s
<1>9. section' = Section(f, e + 1)
      BY <1>3, <1>4, <1>5, SectionMore
<1>10. Carried(f, e, concat')
       BY <1>5 DEF Carried
<1>11. e \in Assigns(f) => ~Wrong(f, e)
       BY <1>4, <1>5 DEF Wrong
<1>12. Says(Past(n - 1) \cup Upto(n, e), def')
  <2>1. CASE is = "assign"
    <3>1. Says((Past(n - 1) \cup Upto(n, p)) \cup {s}, def')
          BY <1>4, <1>5, <1>6, <1>8, <2>1
    <3>2. Past(n - 1) \cup Upto(n, e) = (Past(n - 1) \cup Upto(n, p)) \cup {s}
          BY <1>7, <2>1
    <3> QED
      BY <3>1, <3>2
  <2>2. CASE is # "assign"
        BY <1>4, <1>7, <2>2
  <2> QED
    BY <2>1, <2>2
<1>13. Head(lines).is # "long"
       BY <1>1 DEF Kinds
<1> QED
  BY <1>1, <1>2, <1>9, <1>10, <1>11, <1>12, <1>13, Taken DEF f

LEMMA AssignMInv == ASSUME TypeOK, TypeOK', MInv, Assign PROVE MInv'
<1> DEFINE l == Line
<1>1. /\ Whole("assign") /\ Rest /\ concat' = Nothing /\ section' = section
      /\ l.name \notin Timed(section) /\ def' = Stored(l)
      BY DEF Assign
<1>2. def \in DefType /\ section \in Sections
      BY DEF TypeOK
<1> HIDE DEF l
<1>3. ASSUME NEW A, NEW s, Later(A, s), Tells(l, s), s.sec = section, Says(A, def) PROVE Says(A \cup {s}, def')
  <2>1. s.key \notin Timed(section)
        BY <1>1, <1>3 DEF Tells
  <2> QED
    BY <1>1, <1>2, <1>3, <2>1, SaysStored
<1> QED
  BY <1>1, <1>3, WholeTaken DEF l

LEMMA AssignTimeMInv == ASSUME TypeOK, TypeOK', MInv, AssignTime PROVE MInv'
<1> DEFINE l == Line
           t == TimeText
<1>1. /\ Whole("assign") /\ Rest /\ concat' = Nothing /\ section' = section
      /\ l.name \in Timed(section) /\ Duration(t).ok /\ def' = [def EXCEPT !.times[Times[l.name]] = Duration(t).v]
      BY DEF AssignTime
<1>2. def \in DefType /\ section \in Sections
      BY DEF TypeOK
<1> HIDE DEF l, t
<1>3. ASSUME NEW A, NEW s, Later(A, s), Tells(l, s), s.text = t, s.sec = section, Says(A, def) PROVE Says(A \cup {s}, def')
  <2>1. s.key \in Timed(section)
        BY <1>1, <1>3 DEF Tells
  <2>2. Says(A \cup {s}, [def EXCEPT !.times[Times[l.name]] = Duration(s.text).v])
        BY <1>2, <1>3, <2>1, SaysTimed
  <2> QED
    BY <1>1, <1>3, <2>2
<1> QED
  BY <1>1, <1>3, WholeTaken DEF l, t

\* A file with an error, and all before it, is as if it had not been read.
LEMMA RefuseMInv == ASSUME TypeOK, MInv, Refuse PROVE MInv'
<1>1. Whole("assign") /\ Line.name \in Timed(section) /\ ~Duration(TimeText).ok
      /\ lines' = Closed /\ def' = NoDef /\ UNCHANGED <<machine, read>>
      BY DEF Refuse
<1>2. PICK p \in Nat : Reading(p)
      BY <1>1 DEF MInv, Whole, At
<1>3. PICK n : n = Len(read)
      OBVIOUS
<1>4. n \in Nat \ {0}
      BY <1>2, <1>3, NextLine
<1>5. Refused(File(n))
  <2>1. p + 1 \in Assigns(File(n)) /\ Line.name = Opening(File(n), p + 1).name /\ TimeText = Timing(File(n), p + 1)
        BY <1>1, <1>2, <1>3, WholeLine
  <2>2. section = Section(File(n), p + 1)
        BY <1>2, <1>3 DEF Reading
  <2> QED
    BY <1>1, <2>1, <2>2 DEF Refused
<1>6. Past(n) = {}
      BY <1>4, <1>5, PastMore
<1>7. Past(n)' = Past(n)
      BY <1>1, Unmoved
<1>8. Past(Len(read))' = {}
      BY <1>1, <1>3, <1>6, <1>7
<1> QED
  BY <1>1, <1>8, SaysNothing DEF MInv

\* What is left unread says nothing.
LEMMA CloseMInv == ASSUME TypeOK, MInv, Close PROVE MInv'
<1>1. lines' = Closed /\ UNCHANGED <<machine, read, def>> /\ (lines = <<>> \/ (lines # <<>> /\ Head(lines).is = "long"))
      BY DEF Close, At
<1>2. lines # Closed
      BY DEF Close, At, Closed
<1>3. PICK p \in Nat : Reading(p)
      BY <1>2 DEF MInv
<1>4. PICK n, f : n = Len(read) /\ f = File(n)
      OBVIOUS
<1>5. /\ n \in Nat \ {0} /\ f \in Lines
      /\ lines = <<>> => p = Len(f)
      /\ lines # <<>> => p + 1 \in 1..Len(f) /\ Head(lines) = f[p + 1]
      BY <1>3, <1>4, NextLine
<1>6. (\A e \in Assigns(f) : e <= p => ~Wrong(f, e)) /\ Says(Past(n - 1) \cup Upto(n, p), def)
      BY <1>3, <1>4 DEF Reading
<1>7. \A e \in Assigns(f) : e <= p
  <2> SUFFICES ASSUME NEW e \in Assigns(f) PROVE e <= p
      OBVIOUS
  <2>1. e \in 1..Len(f) /\ e \in Ends(f)
        BY <1>5, EndsTyped
  <2>2. \A k \in 1..e : f[k].is # "long"
        BY <2>1 DEF Ends, Counts
  <2>3. CASE lines = <<>>
        BY <1>5, <2>1, <2>3
  <2>4. CASE lines # <<>>
    <3>1. f[p + 1].is = "long"
          BY <1>1, <1>5, <2>4
    <3>2. p + 1 \notin 1..e
          BY <2>2, <3>1
    <3> QED
      BY <2>1, <3>2
  <2> QED
    BY <2>3, <2>4
<1>8. ~Refused(f)
      BY <1>6, <1>7 DEF Refused, Wrong
<1>9. Past(n) = Past(n - 1) \cup Every(n)
      BY <1>4, <1>5, <1>8, PastMore
<1>10. Upto(n, p) = Every(n)
       BY <1>4, <1>5, <1>7, UptoMore
<1>11. Past(n)' = Past(n)
       BY <1>1, Unmoved
<1>12. Says(Past(n), def)
       BY <1>6, <1>9, <1>10
<1>13. Past(Len(read))' = Past(n)
       BY <1>1, <1>4, <1>11
<1> QED
  BY <1>1, <1>12, <1>13 DEF MInv

LEMMA StillMInv == ASSUME MInv, UNCHANGED vars PROVE MInv'
<1>1. UNCHANGED <<machine, read, lines, section, concat, def>>
      BY DEF vars
<1>2. /\ \A i : File(i)' = File(i)
      /\ \A i : Past(i)' = Past(i)
      /\ \A i, q : Upto(i, q)' = Upto(i, q)
      BY <1>1, Unmoved
<1>3. CASE lines = Closed
      BY <1>1, <1>2, <1>3 DEF MInv
<1>4. CASE lines # Closed
  <2>1. PICK p \in Nat : Reading(p)
        BY <1>4 DEF MInv
  <2>2. Reading(p)'
        BY <1>1, <1>2, <2>1 DEF Reading
  <2> QED
    BY <1>1, <1>4, <2>2 DEF MInv
<1> QED
  BY <1>3, <1>4

LEMMA NextMInv == ASSUME TypeOK, TypeOK', MInv, [Next]_vars PROVE MInv'
<1>1. CASE Header
      BY <1>1, WholeTaken DEF Header
<1>2. CASE Text
  <2>1. PICK is \in {"text", "open"} : Whole(is)
        BY <1>2 DEF Text
  <2> QED
    BY <1>2, <2>1, WholeTaken DEF Text
<1> QED
  BY <1>1, <1>2, OpenMInv, CommentMInv, ContinueMInv, AssignMInv, AssignTimeMInv, RefuseMInv, CloseMInv, StillMInv DEF Next

\* loadUnitFile (unit.go:12) goes through the files line by line; the definition it
\* ends with is what the files say as wholes, however many lines, comments and
\* continued lines they have, headers in the middle of others among them, and
\* whatever file it refused on the way.
THEOREM UnitsMeaning == Spec => []Meaning
<1>1. ASSUME MInv, TypeOK PROVE Meaning
  <2> SUFFICES ASSUME lines = Closed PROVE Says(Kept, def)
      BY DEF Meaning, Done
  <2>1. DOMAIN read = 1..Len(read)
        BY DEF TypeOK
  <2>2. Kept = Past(Len(read))
        BY <2>1 DEF Kept, Past, Every
  <2> QED
    BY <1>1, <2>2 DEF MInv
<1> QED
  BY <1>1, InitTypeOK, NextTypeOK, InitMInv, NextMInv, PTL DEF Spec
================================================================================
