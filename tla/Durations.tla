------------------------------- MODULE Durations -------------------------------
(***************************************************************************)
(* parseSystemdDuration of src/systemd/daemons/unit.go: the value of       *)
(* RestartSec=, TimeoutSec= and TimeoutStopSec= in the 64 bits of a        *)
(* time.Duration, here in fewer: Half stands for 2^63.                     *)
(*                                                                         *)
(* A text is what its scanner sees when blanks are gone and the names of   *)
(* units are replaced: a sign and terms of digits, a fraction and a unit;  *)
(* and, as digits alone are looked for before that, where blanks were: in  *)
(* it, or only after it (those before it are never part of a value).       *)
(* A fraction of a unit is rounded down; float64 may be a nanosecond off.  *)
(***************************************************************************)
EXTENDS Integers, Sequences, SequencesExt

CONSTANTS
  Half,    \* 2^63
  Second,  \* time.Second
  UnitMap, \* unitMap: the lengths of the units that have a name
  Places   \* bound: digits of a fraction

\* A year, the longest unit, is 2^63 div 292.
ASSUME WidthAssumption ==
  Half \in Nat /\ Half > 10 /\ Second \in 1..Half /\ UnitMap \subseteq 1..Half \div 10 /\ Places \in Nat

Digits  == Seq(0..9)
Missing == 0   \* no unit
Unknown == -1  \* a unit that is not in unitMap

\* Only the last term may lack its unit: digits that follow it would be its own.
TermType == [int : Digits, dot : BOOLEAN, frac : {f \in Digits : Len(f) <= Places}, unit : UnitMap \cup {Missing, Unknown}]
TextType == [sign : {"none", "+", "-"}, terms : Seq(TermType), blank : {"none", "inner", "after"}]

Error    == [ok |-> FALSE, v |-> 0]
Value(v) == [ok |-> TRUE, v |-> v]

\* x = x*10 + c, unless it overflows or has already.
Digit(r, c) == IF ~r.ok \/ r.v > Half \div 10 \/ r.v * 10 + c > Half THEN Error ELSE Value(r.v * 10 + c)

LeadingInt(digits) ==
  LET upTo[i \in 0..Len(digits)] == IF i = 0 THEN Value(0) ELSE Digit(upTo[i - 1], digits[i])
  IN  upTo[Len(digits)]

\* Digits that do not fit are passed over.
Fraction(r, c) ==
  IF r.overflow \/ r.x > (Half - 1) \div 10 \/ r.x * 10 + c > Half
  THEN [r EXCEPT !.overflow = TRUE]
  ELSE [r EXCEPT !.x = @ * 10 + c, !.scale = @ * 10]

NoFraction == [x |-> 0, scale |-> 1, overflow |-> FALSE]

LeadingFraction(digits) ==
  LET upTo[i \in 0..Len(digits)] == IF i = 0 THEN NoFraction ELSE Fraction(upTo[i - 1], digits[i])
  IN  upTo[Len(digits)]

HasDigits(t) == t.int \o t.frac # <<>>

\* v *= unit and the part of a unit that f is.
Scaled(n, f, unit) == n.v * unit + (f.x * unit) \div f.scale

\* Variant: whole units are not held against the width.
WithUnitWraps(n, f, unit) ==
  IF ~n.ok \/ unit \notin UnitMap \/ Scaled(n, f, unit) % (2 * Half) > Half
  THEN Error
  ELSE Value(Scaled(n, f, unit) % (2 * Half))

WithUnit(n, f, unit) ==
  IF ~n.ok \/ unit \notin UnitMap \/ n.v > Half \div unit \/ Scaled(n, f, unit) > Half
  THEN Error
  ELSE Value(Scaled(n, f, unit))

Term(t) == IF HasDigits(t) THEN WithUnit(LeadingInt(t.int), LeadingFraction(t.frac), t.unit) ELSE Error

\* d += v in 64 bits without a sign.
Plus(d, v) == IF ~d.ok \/ ~v.ok \/ (d.v + v.v) % (2 * Half) > Half THEN Error ELSE Value((d.v + v.v) % (2 * Half))

\* d after each term.
Sums(terms) ==
  LET upTo[i \in 0..Len(terms)] == IF i = 0 THEN Value(0) ELSE Plus(upTo[i - 1], Term(terms[i]))
  IN  upTo
Sum(terms) == Sums(terms)[Len(terms)]

\* Variant: the product is taken without its sign.
SignedNot(x) == x % (2 * Half)

Signed(x) == IF x % (2 * Half) >= Half THEN (x % (2 * Half)) - 2 * Half ELSE x % (2 * Half)

\* Digits alone, without a blank, or nothing at all: seconds; strconv.Atoi gives
\* the largest integer for what is larger, and the product is not checked.
Unitless(t) ==
  t.sign = "none" /\ t.blank = "none"
  /\ (t.terms = <<>> \/ (Len(t.terms) = 1 /\ ~t.terms[1].dot /\ t.terms[1].unit = Missing /\ t.terms[1].int # <<>>))
Largest(x) == IF x >= Half THEN Half - 1 ELSE x
Atoi(digits) ==
  LET upTo[i \in 0..Len(digits)] == IF i = 0 THEN 0 ELSE Largest(upTo[i - 1] * 10 + digits[i])
  IN  upTo[Len(digits)]

\* What is left of the sign is "0".
Zero(t) == Len(t.terms) = 1 /\ ~t.terms[1].dot /\ t.terms[1].int = <<0>> /\ t.terms[1].unit = Missing

\* The sign, at the end.
Negated(d, sign) ==
  IF ~d.ok \/ (sign # "-" /\ d.v > Half - 1) THEN Error ELSE Value(IF sign = "-" THEN -d.v ELSE d.v)

Duration(t) ==
  CASE Unitless(t)   -> Value(IF t.terms = <<>> THEN 0 ELSE Signed(Second * Atoi(t.terms[1].int)))
    [] ~Unitless(t) /\ Zero(t) -> Value(0)
    [] ~Unitless(t) /\ ~Zero(t) /\ t.terms = <<>> -> Error
    [] OTHER -> Negated(Sum(t.terms), t.sign)

------------------------------------------------------------------------------
(* What a text means: a rational number, here its numerator over            *)
(* Tens[Places].                                                            *)

Tens[n \in 0..Places] == IF n = 0 THEN 1 ELSE 10 * Tens[n - 1]

Number(digits) ==
  LET upTo[i \in 0..Len(digits)] == IF i = 0 THEN 0 ELSE 10 * upTo[i - 1] + digits[i]
  IN  upTo[Len(digits)]

MeantBy(u) == (Number(u.int) * Tens[Places] + Number(u.frac) * Tens[Places - Len(u.frac)]) * u.unit
Meant(t) ==
  LET upTo[i \in 0..Len(t.terms)] == IF i = 0 THEN 0 ELSE upTo[i - 1] + MeantBy(t.terms[i])
  IN  upTo[Len(t.terms)]

WellFormed(t) == t.terms # <<>> /\ \A i \in DOMAIN t.terms : LET u == t.terms[i] IN u.unit \in UnitMap /\ HasDigits(u)

\* d is 2^63, and so is a term that is added to it: 2^64 is 0.
WrapsToZero(t) == \E i \in DOMAIN t.terms : Sums(t.terms)[i - 1] = Value(Half) /\ Term(t.terms[i]) = Value(Half)

\* v is what t says, to two nanoseconds a term.
Near(t, v) ==
  LET a == IF t.sign = "-" THEN -v ELSE v
  IN  a * Tens[Places] <= Meant(t) /\ Meant(t) < (a + 2 * Len(t.terms)) * Tens[Places]

\* r is a right answer for t: seconds for digits that no blank follows, what the
\* terms add up to, an error for anything else, digits and a blank among it.
Right(t, r) ==
  CASE Unitless(t)   -> r.ok /\ (t.terms # <<>> => LET s == Number(t.terms[1].int) * Second IN s < Half => r.v = s)
    [] WellFormed(t) /\ ~WrapsToZero(t) -> (r.ok => Near(t, r.v)) /\ (Meant(t) < Half * Tens[Places] => r.ok)
    [] WellFormed(t) /\ WrapsToZero(t)  -> TRUE
    [] OTHER -> r = IF Zero(t) THEN Value(0) ELSE Error
==============================================================================
