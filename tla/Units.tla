--------------------------------- MODULE Units ---------------------------------
(***************************************************************************)
(* What a service's definition is made of: the directories that are looked *)
(* in (GetSystemdPaths of src/common/common.go), and loadUnitFile of       *)
(* src/systemd/daemons/unit.go, which takes a file line by line into the   *)
(* definition there is.  Meaning, at the end, says what the files mean     *)
(* without going through them.                                             *)
(*                                                                         *)
(* Which files a reload reads for which service is in Registry.tla; here   *)
(* one service is read from the directories of a container for the first   *)
(* time.  Left out: quotes around a value, %i, upper and lower case.       *)
(***************************************************************************)
EXTENDS Durations, FiniteSets

CONSTANTS
  Words,    \* words of a value, "" among them: what is between two blanks
  Machines  \* the containers looked at, in groups; see MachineType

(***************************************************************************)
(* The keys of a section, by what they do to the definition.               *)
(***************************************************************************)
UnitMaps == {"Wants", "WantedBy", "Requires", "RequiredBy", "Requisite", "RequisiteOf", "BindsTo", "BoundBy", "PartOf",
             "ConsistsOf", "Upholds", "UpheldBy", "Conflicts", "ConflictedBy", "Before", "After", "OnFailure", "OnSuccess"}
InstallMaps  == {"RequiredBy", "WantedBy", "UpheldBy"}
ServiceLists == {"ExecStart", "ExecStop", "ExecStartPre", "ExecStartPost", "ExecStopPre", "ExecStopPost", "ExecCondition",
                 "Environment", "EnvironmentFile"}
UnitFlags    == {"StopWhenUnneeded"}
ServiceFlags == {"RemainAfterExit"}
UnitValues   == {"Description", "FailureAction", "SuccessAction"}
Limits       == {"LimitCPU", "LimitFSIZE", "LimitDATA", "LimitSTACK", "LimitCORE", "LimitRSS", "LimitNOFILE", "LimitAS",
                 "LimitNPROC", "LimitMEMLOCK", "LimitLOCKS", "LimitSIGPENDING", "LimitMSGQUEUE", "LimitNICE",
                 "LimitRTPRIO", "LimitRTTIME"}
ServiceValues == {"Type", "PIDFile", "ExecReload", "Restart", "WorkingDirectory", "User", "Group"} \cup Limits
\* The field of the definition a duration goes to.
Times == [RestartSec |-> "RestartSleep", TimeoutSec |-> "StopTimeout", TimeoutStopSec |-> "StopTimeout"]
TimeFields == {"RestartSleep", "StopTimeout"}

Sections == {"none", "unit", "service", "install", "unknown"}
Maps(s)    == CASE s = "unit" -> UnitMaps [] s = "install" -> InstallMaps [] OTHER -> {}
Lists(s)   == IF s = "service" THEN ServiceLists ELSE {}
Flags(s)   == CASE s = "unit" -> UnitFlags [] s = "service" -> ServiceFlags [] OTHER -> {}
Values(s)  == CASE s = "unit" -> UnitValues [] s = "service" -> ServiceValues [] OTHER -> {}
Timed(s)   == IF s = "service" THEN DOMAIN Times ELSE {}

\* A line: a comment, a header (its name is a section), one that begins as a
\* header does and does not end so ("open"), "name=words", other text (never the
\* name of a key), or one longer than the scanner's buffer.  Only the first two
\* have brackets at their ends.  A duration has its text besides, and is all on
\* its line.  A name that is no key's is "".  more: it ends in \.
Kinds    == {"header", "open", "assign", "text"}
Labels   == Sections \cup {""} \cup UNION {Maps(s) \cup Lists(s) \cup Flags(s) \cup Values(s) \cup Timed(s) : s \in Sections}
AnyLine  == [is : Kinds \cup {"comment", "long"}, name : Labels, words : Seq(Words) \ {<<>>}, text : TextType, more : BOOLEAN]
LineType == {l \in AnyLine : /\ l.is = "header" => l.name \in Sections
                             /\ l.is = "assign" /\ l.more => l.name \notin DOMAIN Times}

\* A container: its links, and the unit's file in each directory that has one.
Dirs   == {"etc", "usr", "lib"}
Links  == {"/lib/systemd/system", "/usr/lib/systemd/system", "/lib/systemd", "/usr/lib/systemd", "/lib", "/usr/lib"}
UsrLinks == {"/usr/lib/systemd/system", "/usr/lib/systemd", "/usr/lib"}
MachineType == [links : SUBSET Links, files : [Dirs -> Seq(LineType)]]

\* junk: any word that is no other.
ASSUME WordsAssumption == {"", "junk"} \subseteq Words

\* Links are from one side to the other, not both ways.
ASSUME MachineAssumption ==
  \A S \in Machines : S \subseteq MachineType /\ \A m \in S : m.links \subseteq UsrLinks \/ m.links \cap UsrLinks = {}

VARIABLES
  machine,
  dirs,     \* directories still to be looked in
  lines,    \* what is left of the file that is read, or Closed
  section,
  concat,   \* the lines before that ended in \ , as one line; Nothing if none did
  def,      \* the definition
  read      \* history: the real directories whose file was read

vars == <<machine, dirs, lines, section, concat, def, read>>

Closed  == <<[is |-> "closed"]>>
Nothing == [is |-> "nothing"]

DefType == [maps : [UnitMaps -> SUBSET Words], lists : [ServiceLists -> Seq(Seq(Words))],
            flags : [UnitFlags \cup ServiceFlags -> BOOLEAN], values : [UnitValues \cup ServiceValues -> Seq(Words)],
            times : [TimeFields -> -Half..Half - 1]]
NoDef == [maps |-> [k \in UnitMaps |-> {}], lists |-> [k \in ServiceLists |-> <<>>],
          flags |-> [k \in UnitFlags \cup ServiceFlags |-> FALSE], values |-> [k \in UnitValues \cup ServiceValues |-> <<>>],
          times |-> [f \in TimeFields |-> 0]]

TypeOK ==
  /\ machine \in MachineType
  /\ dirs \in Seq(Dirs) /\ Len(dirs) <= Cardinality(Dirs)
  /\ lines = Closed \/ lines \in Seq(LineType)
  /\ section \in Sections
  /\ concat = Nothing \/ (concat \in LineType /\ concat.is \in Kinds)
  /\ def \in DefType
  /\ read \in Seq(Dirs)

\* Variant: the link of a parent directory is not looked for.
PathsShallow(links) == IF links \cap {"/lib/systemd/system", "/usr/lib/systemd/system"} = {} THEN <<"etc", "usr", "lib">> ELSE <<"etc", "lib">>

(***************************************************************************)
(* GetSystemdPaths: a link of either side, from the deepest to the         *)
(* shallowest, leaves that side out.                                       *)
(***************************************************************************)
Paths(links) ==
  LET usr == <<"etc", "usr">>
      lib == <<"etc", "lib">>
      ask == <<<<"/lib/systemd/system", usr>>, <<"/usr/lib/systemd/system", lib>>, <<"/lib/systemd", usr>>,
               <<"/usr/lib/systemd", lib>>, <<"/lib", usr>>, <<"/usr/lib", lib>>>>
      found == {i \in DOMAIN ask : ask[i][1] \in links}
  IN  IF found = {} THEN <<"etc", "usr", "lib">> ELSE ask[CHOOSE i \in found : \A j \in found : i <= j][2]

\* The directory a path leads to.
Real(d) ==
  CASE d = "lib" /\ machine.links \cap (Links \ UsrLinks) # {} -> "usr"
    [] d = "usr" /\ machine.links \cap UsrLinks # {}           -> "lib"
    [] OTHER -> d

------------------------------------------------------------------------------
(* Lines.                                                                   *)

Init ==
  /\ \E S \in Machines : machine \in S
  /\ dirs = Paths(machine.links)
  /\ lines = Closed /\ section = "none" /\ concat = Nothing
  /\ def = NoDef /\ read = <<>>

Blank(words)     == \A i \in DOMAIN words : words[i] = ""
TrimLeft(words)  == IF Blank(words) THEN <<>> ELSE SubSeq(words, SelectInSeq(words, LAMBDA w : w # ""), Len(words))
TrimRight(words) == IF Blank(words) THEN <<"">> ELSE SubSeq(words, 1, SelectLastInSeq(words, LAMBDA w : w # ""))

\* What a line is in the middle of a value: a header or a key is a word there.
AsWords(l) ==
  CASE l.is = "header" -> <<"junk">> [] l.is = "assign" -> <<"junk">> \o Tail(l.words) [] OTHER -> l.words

BlankText(l) == l.is = "text" /\ Blank(l.words)

\* Variant: two headers on one line leave the section as it was.
OpenedText(before, l) == IF BlankText(l) THEN before ELSE [before EXCEPT !.is = "text", !.words = <<"junk">>]

\* A bracket at the beginning: with one at the end it is a header of no known name.
Opened(before, l) ==
  CASE BlankText(l)    -> before
    [] l.is = "header" -> [before EXCEPT !.is = "header", !.name = "unknown"]
    [] OTHER           -> [before EXCEPT !.is = "open"]

Joined(before, l) ==
  CASE before = Nothing -> l
    [] before # Nothing /\ BlankText(before) -> l
    [] before # Nothing /\ before.is = "assign" -> [before EXCEPT !.words = @ \o AsWords(l)]
    [] before # Nothing /\ before.is \in {"header", "open"} -> Opened(before, l)
    [] OTHER -> [before EXCEPT !.is = "text", !.words = <<"junk">>]

\* The line that s.Text() makes with the lines before it.
Line ==
  LET l == Head(lines)
  IN  IF concat = Nothing THEN l ELSE Joined(concat, [l EXCEPT !.words = TrimRight(@)])

\* A duration has only blank lines before it; the blanks after it are cut off then.
CutText(t) == [t EXCEPT !.blank = IF @ = "after" THEN "none" ELSE @]
TimeText   == IF concat = Nothing THEN Line.text ELSE CutText(Line.text)

At(kinds)  == lines # Closed /\ lines # <<>> /\ Head(lines).is \in kinds
Whole(is)  == At(Kinds) /\ ~Head(lines).more /\ Line.is = is
Rest       == lines' = Tail(lines) /\ UNCHANGED <<machine, dirs, read>>

Open ==
  LET d == Real(Head(dirs))
      file == machine.files[d]
  IN  /\ lines = Closed /\ dirs # <<>>
      /\ dirs' = Tail(dirs)
      /\ lines' = IF file = <<>> THEN Closed ELSE file
      /\ read' = IF file = <<>> THEN read ELSE Append(read, d)
      /\ section' = "none" /\ concat' = Nothing
      /\ UNCHANGED <<machine, def>>

Comment == At({"comment"}) /\ Rest /\ UNCHANGED <<section, concat, def>>

Continue ==
  /\ At(Kinds) /\ Head(lines).more
  /\ concat' = Joined(concat, Head(lines))
  /\ Rest /\ UNCHANGED <<section, def>>

Header == Whole("header") /\ section' = Line.name /\ concat' = Nothing /\ Rest /\ UNCHANGED def

Text == (Whole("text") \/ Whole("open")) /\ concat' = Nothing /\ Rest /\ UNCHANGED <<section, def>>

\* Variant: an empty value empties a list as well, and adds nothing to a map.
StoredResets(l) ==
  LET v == TrimLeft(l.words)
      k == l.name
  IN  CASE k \in Maps(section)   -> [def EXCEPT !.maps[k] = @ \cup ToSet(v)]
        [] k \in Lists(section)  -> [def EXCEPT !.lists[k] = IF v = <<>> THEN <<>> ELSE Append(@, v)]
        [] k \in Flags(section)  -> [def EXCEPT !.flags[k] = v = <<"true">>]
        [] k \in Values(section) -> [def EXCEPT !.values[k] = v]
        [] OTHER -> def

\* A key of a map with no value empties it; one of a list only adds to it.
Stored(l) ==
  LET v == TrimLeft(l.words)
      k == l.name
  IN  CASE k \in Maps(section)   -> [def EXCEPT !.maps[k] = IF v = <<>> THEN {} ELSE @ \cup ToSet(v)]
        [] k \in Lists(section)  -> [def EXCEPT !.lists[k] = Append(@, v)]
        [] k \in Flags(section)  -> [def EXCEPT !.flags[k] = v = <<"true">>]
        [] k \in Values(section) -> [def EXCEPT !.values[k] = v]
        [] OTHER -> def

Assign ==
  /\ Whole("assign") /\ Line.name \notin Timed(section)
  /\ def' = Stored(Line) /\ concat' = Nothing /\ Rest /\ UNCHANGED section

AssignTime ==
  /\ Whole("assign") /\ Line.name \in Timed(section)
  /\ LET r == Duration(TimeText)
     IN  r.ok /\ def' = [def EXCEPT !.times[Times[Line.name]] = r.v]
  /\ concat' = Nothing /\ Rest /\ UNCHANGED section

\* Variant: the definition stays, half filled.
RefuseKeeps ==
  /\ Whole("assign") /\ Line.name \in Timed(section) /\ ~Duration(TimeText).ok
  /\ lines' = Closed
  /\ UNCHANGED <<machine, dirs, section, concat, def, read>>

\* The error ends the load, and Reload takes back what was there before it:
\* nothing, the first time.
Refuse ==
  /\ Whole("assign") /\ Line.name \in Timed(section) /\ ~Duration(TimeText).ok
  /\ lines' = Closed /\ def' = NoDef
  /\ UNCHANGED <<machine, dirs, section, concat, read>>

\* The end, or a line that is too long, which nobody asks the scanner about.
Close ==
  /\ lines = <<>> \/ At({"long"})
  /\ lines' = Closed
  /\ UNCHANGED <<machine, dirs, section, concat, def, read>>

Done == lines = Closed /\ dirs = <<>>

Next == Open \/ Comment \/ Continue \/ Header \/ Text \/ Assign \/ AssignTime \/ Refuse \/ Close

Spec == Init /\ [][Next]_vars

------------------------------------------------------------------------------
(* What the files mean, each looked at as a whole.                          *)

File(i) == machine.files[read[i]]

\* Lines after one that is too long do not count, nor do comments.  A statement
\* is a run of lines of which only the last does not continue.
Counts(f, j) == f[j].is # "comment" /\ \A k \in 1..j : f[k].is # "long"
Ends(f)      == {e \in DOMAIN f : Counts(f, e) /\ ~f[e].more}
Run(f, e)    == {j \in 1..e : Counts(f, j) /\ \A d \in Ends(f) : ~(j <= d /\ d < e)}

\* Without its blank lines, and the first of the others.
Solid(f, e)   == {j \in Run(f, e) : ~BlankText(f[j])}
Opening(f, e) == f[Min(Solid(f, e))]

\* From one bracket to another: a header, but of no section if lines are between them.
Headers(f)    == {e \in Ends(f) : /\ Solid(f, e) # {} /\ Opening(f, e).is \in {"header", "open"}
                                  /\ f[Max(Solid(f, e))].is = "header"}
Heading(f, e) == IF \E j \in 1..e : Solid(f, e) = {j} THEN Opening(f, e).name ELSE "unknown"
Assigns(f) == {e \in Ends(f) : Solid(f, e) # {} /\ Opening(f, e).is = "assign"}
Section(f, e) == LET H == {h \in Headers(f) : h < e} IN IF H = {} THEN "none" ELSE Heading(f, Max(H))

\* The words that are not blank, and those of a statement up to line e, of which
\* the lines S are not blank.
Names(words)  == FlattenSeq([i \in 1..Len(words) |-> IF words[i] = "" THEN <<>> ELSE <<words[i]>>])
Part(f, S, j) == IF j \notin S THEN <<>> ELSE IF j = Min(S) THEN Names(f[j].words) ELSE Names(AsWords(f[j]))
Said(f, S, e) == FlattenSeq([j \in 1..e |-> Part(f, S, j)])

\* No blank comes after them: of a line that continues another they are cut off.
Bare(f, e) == IF Run(f, e) = {e} THEN f[e].words[Len(f[e].words)] # "" ELSE ~Blank(f[e].words)

Timing(f, e) == IF Run(f, e) = {e} THEN Opening(f, e).text ELSE CutText(Opening(f, e).text)

Statement(i, e) ==
  LET f == File(i)
  IN  [at |-> <<i, e>>, sec |-> Section(f, e), key |-> Opening(f, e).name, words |-> Said(f, Solid(f, e), e), bare |-> Bare(f, e),
       text |-> Timing(f, e)]

Refused(f) == \E e \in Assigns(f) : Opening(f, e).name \in Timed(Section(f, e)) /\ ~Duration(Timing(f, e)).ok

\* What was read and not taken back: the files after the last that has an error.
Kept ==
  UNION {{Statement(i, e) : e \in Assigns(File(i))} : i \in {j \in DOMAIN read : \A k \in j..Len(read) : ~Refused(File(k))}}

Before(a, b) == a.at[1] < b.at[1] \/ (a.at[1] = b.at[1] /\ a.at[2] < b.at[2])

To(as, keys(_), k) == {a \in as : a.key = k /\ k \in keys(a.sec)}
Final(a, S)        == a \in S /\ \A b \in S : b = a \/ Before(b, a)

\* The names assigned since the map was last emptied, in either section that has it.
MapsSay(as, what) ==
  \A k \in UnitMaps :
    LET S == To(as, Maps, k)
    IN  what.maps[k] \ {""} = UNION {ToSet(a.words) : a \in {b \in S : \A c \in S : Before(b, c) => c.words # <<>>}}

\* All values, in order.
ListsSay(as, what) ==
  \A k \in ServiceLists :
    LET S == To(as, Lists, k)
        s == what.lists[k]
    IN  \E by \in [1..Len(s) -> S] :
          /\ \A n \in 1..Len(s) : Names(s[n]) = by[n].words
          /\ \A m, n \in 1..Len(s) : m < n => Before(by[m], by[n])
          /\ \A a \in S : \E n \in 1..Len(s) : by[n] = a

\* Of the rest the last value.
FlagsSay(as, what) ==
  \A k \in UnitFlags \cup ServiceFlags :
    what.flags[k] = \E a \in as : Final(a, To(as, Flags, k)) /\ a.words = <<"true">> /\ a.bare
ValuesSay(as, what) ==
  \A k \in UnitValues \cup ServiceValues :
    LET S == To(as, Values, k)
    IN  IF S = {} THEN what.values[k] = <<>> ELSE \E a \in S : Final(a, S) /\ Names(what.values[k]) = a.words
TimesSay(as, what) ==
  \A t \in TimeFields :
    LET S == {a \in as : a.key \in Timed(a.sec) /\ Times[a.key] = t}
    IN  IF S = {} THEN what.times[t] = 0 ELSE \E a \in S : Final(a, S) /\ what.times[t] = Duration(a.text).v

\* What assignments make of a definition.
Says(as, what) ==
  MapsSay(as, what) /\ ListsSay(as, what) /\ FlagsSay(as, what) /\ ValuesSay(as, what) /\ TimesSay(as, what)

\* loadUnitFile reads what the files say (unit.go:12), comments, continued
\* lines, headers and lost ends of files included, and keeps nothing of a file
\* it refused.  A flag with a blank after it is off.
Meaning == Done => Says(Kept, def)

\* parseSystemdDuration (unit.go:479): the durations of the files that were read
\* are what their texts say, or an error where they say nothing that fits.
DurationRight ==
  \A d \in ToSet(read) : \A l \in ToSet(machine.files[d]) :
    l.is = "assign" /\ l.name \in DOMAIN Times => Right(l.text, Duration(l.text))

\* GetSystemdPaths (common.go:9): whatever links make one directory of two, the
\* file of a directory is read, and read once, that of /etc first; lists double
\* otherwise.
ReadsOnce ==
  Done =>
    /\ ToSet(read) = {d \in {Real(e) : e \in Dirs} : machine.files[d] # <<>>}
    /\ \A i, j \in DOMAIN read : read[i] = read[j] => i = j
    /\ \A i \in DOMAIN read : read[i] = "etc" => i = 1
==============================================================================
