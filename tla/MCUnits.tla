-------------------------------- MODULE MCUnits --------------------------------
(* Instances of Units: files line by line, durations, links of directories.   *)
EXTENDS Units

MCWords == {"", "b", "c", "true", "junk"}
MCUnitMap == {1, 5, 12}

NoText == [sign |-> "none", terms |-> <<>>, blank |-> "none"]
L(is, name, words, more) == [is |-> is, name |-> name, words |-> words, text |-> NoText, more |-> more]
T(name, text) == [is |-> "assign", name |-> name, words |-> <<"junk">>, text |-> text, more |-> FALSE]

UnitHead    == L("header", "unit", <<"junk">>, FALSE)
ServiceHead == L("header", "service", <<"junk">>, FALSE)
InstallHead == L("header", "install", <<"junk">>, FALSE)

Term1(int, unit) == [int |-> int, dot |-> FALSE, frac |-> <<>>, unit |-> unit]
Five     == [sign |-> "none", terms |-> <<Term1(<<5>>, Missing)>>, blank |-> "none"]
FiveAnd  == [Five EXCEPT !.blank = "after"]
Infinity == [sign |-> "none", terms |-> <<Term1(<<>>, Unknown)>>, blank |-> "none"]

\* Lines of [Unit] and [Install]: a map with names, with a blank at the end, with
\* none, and continued; of [Service]: a list, also continued, and a duration.
UnitLines ==
  {L("comment", "", <<"">>, FALSE), L("text", "", <<"">>, FALSE), L("text", "", <<"b", "">>, FALSE), L("text", "", <<"">>, TRUE),
   InstallHead, L("assign", "WantedBy", <<"">>, FALSE), L("assign", "WantedBy", <<"c", "">>, FALSE),
   L("assign", "WantedBy", <<"b">>, TRUE), L("assign", "Requires", <<"b", "c">>, FALSE),
   L("assign", "StopWhenUnneeded", <<"true">>, FALSE), L("assign", "StopWhenUnneeded", <<"true", "">>, FALSE),
   L("assign", "StopWhenUnneeded", <<"">>, TRUE)}
ServiceLines ==
  {L("comment", "", <<"">>, TRUE), L("text", "", <<"c">>, TRUE), L("header", "unknown", <<"junk">>, FALSE),
   L("header", "service", <<"junk">>, TRUE), L("assign", "ExecStart", <<"">>, FALSE), L("assign", "ExecStart", <<"b">>, TRUE),
   L("assign", "ExecStart", <<"c">>, FALSE), L("assign", "Restart", <<"b">>, FALSE), L("long", "", <<"">>, FALSE),
   T("TimeoutSec", Five), T("TimeoutStopSec", Infinity)}

\* Headers over several lines, and blank lines that continue before a duration.
BrokenLines ==
  {L("header", "service", <<"junk">>, TRUE), L("header", "unknown", <<"junk">>, FALSE), L("open", "", <<"junk">>, TRUE),
   L("text", "", <<"">>, TRUE), L("assign", "ExecStart", <<"c">>, TRUE), L("assign", "ExecStart", <<"c">>, FALSE),
   T("TimeoutSec", Five), T("TimeoutSec", FiveAnd)}

UpTo(S, n) == UNION {[1..k -> S] : k \in 0..n}

FilesOnly(f, g) == [links |-> {}, files |-> [etc |-> f, usr |-> <<>>, lib |-> g]]
UnitFiles    == {FilesOnly(<<UnitHead>> \o f, <<>>) : f \in UpTo(UnitLines, 4)}
ServiceFiles == {FilesOnly(<<ServiceHead>> \o f, <<>>) : f \in UpTo(ServiceLines, 4)}
BrokenFiles  == {FilesOnly(<<ServiceHead>> \o f, <<>>) : f \in UpTo(BrokenLines, 4)}
\* Two files of a service: the second begins with no section and no line.
TwoFiles == {FilesOnly(<<ServiceHead>> \o f, <<L("assign", "ExecStart", <<"c">>, FALSE), ServiceHead>> \o g) :
               f \in UpTo(ServiceLines, 2), g \in UpTo(ServiceLines, 1)}

Single(text) == FilesOnly(<<ServiceHead, T("RestartSec", text)>>, <<>>)
Ints  == UpTo({0, 1, 2, 8}, 3) \cup {<<1, 2, 9>>, <<1, 2, 8, 0>>, <<2, 5, 6>>}
Fracs == {<<>>, <<0>>, <<5>>, <<9>>, <<0, 9>>, <<1, 2, 9>>, <<1, 3, 5>>}
TermsOf(I, F, U) ==
  {[int |-> i, dot |-> TRUE, frac |-> f, unit |-> u] : i \in I, f \in F, u \in U}
  \cup {[int |-> i, dot |-> FALSE, frac |-> <<>>, unit |-> u] : i \in I \ {<<>>}, u \in U}
OneTerm  == TermsOf(Ints, Fracs, MCUnitMap \cup {Missing, Unknown})
FewTerms == TermsOf({<<>>, <<0>>, <<6>>, <<1, 2>>, <<1, 2, 8>>}, {<<>>, <<9>>}, MCUnitMap)
Texts ==
  {[sign |-> s, terms |-> <<t>>, blank |-> "none"] : s \in {"none", "-"}, t \in OneTerm}
  \cup {[sign |-> s, terms |-> <<t, u>>, blank |-> "none"] : s \in {"none", "+", "-"}, t \in FewTerms, u \in FewTerms}
  \cup {[sign |-> s, terms |-> ts, blank |-> "none"] : s \in {"none", "-"}, ts \in [1..3 -> {Term1(<<6, 4>>, 1), Term1(<<1, 2, 8>>, 1)}]}
  \cup {[sign |-> s, terms |-> <<>>, blank |-> "none"] : s \in {"none", "+", "-"}}
  \cup {[sign |-> s, terms |-> <<t>>, blank |-> b] :
          s \in {"none", "+", "-"}, t \in TermsOf({<<>>, <<0, 0>>, <<1, 2>>}, {<<5>>}, MCUnitMap \cup {Missing, Unknown}), b \in {"inner", "after"}}
  \cup {[sign |-> s, terms |-> <<Term1(<<0>>, Missing)>>, blank |-> "after"] : s \in {"none", "+", "-"}}

Layouts == {[links |-> k, files |-> [etc |-> e, usr |-> IF k \cap UsrLinks = {} THEN f ELSE <<>>,
                                     lib |-> IF k \subseteq UsrLinks THEN f ELSE <<>>]] :
              k \in SUBSET UsrLinks \cup SUBSET (Links \ UsrLinks),
              e \in {<<>>, <<UnitHead>>},
              f \in {<<>>, <<ServiceHead, L("assign", "ExecStart", <<"b">>, FALSE)>>}}

MCMachines == {UnitFiles, ServiceFiles, BrokenFiles, TwoFiles, {Single(t) : t \in Texts}, Layouts}

==============================================================================
