----------------------------- MODULE MCRegistry ------------------------------
(***************************************************************************)
(* Instances of Registry for TLC: services a and b.                        *)
(***************************************************************************)
EXTENDS Registry, TLC

CONSTANTS a, b, c1, c2

TwoNames == a :> 1 @@ b :> 2

File(kind, deps) == [kind |-> kind, deps |-> deps, to |-> a]
Good(deps)       == <<File("good", deps)>>
Null             == <<File("null", {})>>
Gone             == <<>>

Unit(etc, lib, dropIns) == <<etc, lib, dropIns, <<>> >>
Pair(x, y)              == a :> x @@ b :> y

OfLib(deps) == Unit(Gone, Good(deps), Gone)

\* Units that name each other, in one map and in the inverse one.
Both == Pair(OfLib({<<"Requires", b>>, <<"Requisite", b>>}), OfLib({<<"RequiredBy", a>>, <<"OnFailure", a>>}))
\* b loses its unit; a masks its own; the file of a is broken and has drop-ins.
Less   == Pair(OfLib({}), Unit(Gone, Gone, Gone))
Masked == Pair(Unit(Null, Good({<<"Requires", b>>}), Gone), OfLib({}))
Broken == Pair(Unit(Good({}), <<File("bad", {})>>, Gone), Unit(Gone, Good({<<"Wants", a>>}), Gone))
DropIn == Pair(Unit(Gone, Good({<<"Requires", b>>}), <<File("bad", {}), File("good", {<<"Wants", b>>})>>), OfLib({}))
\* a comes to name itself.
Selfish == Pair(OfLib({<<"Wants", a>>, <<"Wants", b>>}), OfLib({}))
Alias  == Pair(Unit(<<File("link", {})>>, Good({}), Gone), Unit(<<File("link", {})>>, Gone, Gone))
\* a has b as a Requisite, as b says; a comes to be read from the unit of b before b is.
Taken  == Pair(Unit(<<[File("link", {}) EXCEPT !.to = b]>>, Gone, Gone), OfLib({<<"RequisiteOf", a>>}))
Mutual  == Pair(OfLib({}), OfLib({<<"RequisiteOf", a>>}))

Begin(x)  == <<"start", x>>
Reload    == <<"reload", a>>
One(ops)  == [c \in Clients |-> IF c = c1 THEN ops ELSE {}]
Two(x, y) == c1 :> x @@ c2 :> y

Scenario(first, then, ops) == [disk |-> first, edits |-> then, wants |-> {a, b}, may |-> ops]

\* A service loses its unit, a unit or drop-ins break, a unit is another's
\* alias or comes to name itself; one is masked and unmasked; two clients miss a service and reload.
AllScenarios ==
  {Scenario(Both, <<Less>>, One({Reload, Begin(b)})), Scenario(Both, <<Broken>>, One({Reload, <<"stop", a>>})),
   Scenario(DropIn, <<Both>>, One({Reload})), Scenario(Both, <<DropIn>>, One({Reload, <<"disable", a>>})),
   Scenario(Alias, <<Both>>, One({Reload, <<"enable", a>>})),
   Scenario(Both, <<Masked>>, One({Reload, <<"mask", a>>, <<"unmask", a>>})),
   Scenario(DropIn, <<Selfish>>, Two({Reload}, {Begin(b)})),
   Scenario(Mutual, <<Taken>>, One({Reload, Begin(b)})),
   Scenario(Less, <<>>, Two({Begin(b)}, {Begin(b)}))}

RequisiteScenarios == {Scenario(Both, <<>>, One({Begin(a)}))}
==============================================================================
