------------------------------- MODULE MCBnb -------------------------------
(***************************************************************************)
(* Instances of the branch-and-bound engine for TLC.                       *)
(***************************************************************************)
EXTENDS BnbProperties, RoundingCuts

MCValues == 0 .. 2 * Unit
Row(a1, a2, lo, hi) ==
    [indices |-> <<1, 2>>, coefficients |-> <<a1 * Unit, a2 * Unit>>, lower |-> lo, upper |-> hi]
Bounded(hi, types, c, offset, q, rws) ==
    [lower |-> [v \in Vars |-> 0], upper |-> [v \in Vars |-> hi],
     types |-> types, linear |-> [v \in Vars |-> c[v] * Unit], offset |-> offset, quadratic |-> q,
     rows |-> rws, nonlinear |-> FALSE]

AllInteger == <<"integer", "integer">>
NoQuadratic == [e \in {} |-> 0]
\* max x1 + x2 with x1 + x2 <= 3/2: the relaxation is fractional.
Packing == Bounded(2 * Unit, AllInteger, <<-1, -1>>, 0, NoQuadratic,
                   {Row(1, 1, -Inf, Unit + Unit \div 2)})
\* 2 x1 + 2 x2 = 1: feasible when relaxed, no integral point.
Parity == Bounded(Unit, <<"binary", "binary">>, <<1, 2>>, 0, NoQuadratic,
                  {Row(2, 2, Unit, Unit)})
\* min x1^2 - x1 - x2 with x2 continuous and x1 + x2 <= 3/2.
Quadratic == Bounded(Unit, <<"integer", "continuous">>, <<-1, -1>>, 0,
                     [e \in {<<1, 1>>} |-> 2],
                     {Row(1, 1, -Inf, Unit + Unit \div 2)})
\* Fractional bounds around the integer 1.
Gapped == [Bounded(2 * Unit, AllInteger, <<-2, 1>>, 0, NoQuadratic, {}) EXCEPT
             !.lower = [v \in Vars |-> Unit \div 2],
             !.upper = [v \in Vars |-> Unit + Unit \div 2]]
\* An integer variable fixed at a fraction: there is nothing to branch on.
Stuck == [Gapped EXCEPT !.upper = [v \in Vars |-> Unit \div 2]]
\* Half-integral costs: optimal values need not be integral.
HalfCosts == [Packing EXCEPT !.linear = [v \in Vars |-> -(Unit \div 2)]]
Crossed == [Packing EXCEPT !.lower = [v \in Vars |-> Unit], !.upper = [v \in Vars |-> 0]]
Continuous == [Packing EXCEPT !.types = <<"continuous", "continuous">>]
\* max 3 x1 + 3 x2 with x1 + 2 x2 <= 5/2: a child's rounding beats nodes
\* that are still open.
Steep == [Packing EXCEPT !.linear = [v \in Vars |-> -3 * Unit],
                         !.rows = {Row(1, 2, -Inf, 2 * Unit + Unit \div 2)}]
MCModels ==
    {Packing, HalfCosts, Parity, Quadratic, Gapped, Stuck, Crossed, Continuous, Steep}

\* The rounding cuts, or cuts that are not well formed.
Malformed == [indices |-> <<2, 1>>, coefficients |-> <<1, 1>>, lower |-> 0, upper |-> Inf]
OfferedCuts(m, x) == {RoundingCuts(m, x), RoundingCuts(m, x) \cup {Malformed}}

\* A family of small problems: every objective over -1 .. 1 with one of the
\* rows above, and two of the special models.
Objectives == [Vars -> -1 .. 1]
Family(hi, rws) ==
    {[Packing EXCEPT !.linear = [v \in Vars |-> c[v] * Unit], !.rows = {r}, !.upper = [v \in Vars |-> hi]] :
        c \in Objectives, r \in rws}
MCFamily == MCModels \cup
    Family(2 * Unit, {Row(1, 1, -Inf, Unit + Unit \div 2), Row(2, -1, Unit, Inf),
                      Row(2, 2, Unit, 3 * Unit)})

\* A dual bound below every optimum, and a point outside every box.
SlackDuals == {-11 * Unit}
OutsidePoints == {[v \in Vars |-> 2 * Unit]}
TolerantValues == {0, Unit \div 2, Unit - 1, Unit, Unit + 1, 2 * Unit}
TolerantModels == {Quadratic} \cup
    {[Packing EXCEPT !.upper = [v \in Vars |-> Unit], !.linear = c] :
        c \in {<<-Unit, -Unit>>, <<Unit, -Unit>>}}
=============================================================================
