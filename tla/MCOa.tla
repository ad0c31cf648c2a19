-------------------------------- MODULE MCOa --------------------------------
(***************************************************************************)
(* Instances of outer approximation for TLC: x1 is integer, and x2, if     *)
(* there is one, continuous.                                               *)
(***************************************************************************)
EXTENDS OaProperties

CONSTANT Upper      \* the upper bound of every variable

GridValues == 0 .. Upper

Zeros == [v \in Vars |-> 0]
Row(coefficients, lo, hi) ==
    [indices |-> [k \in Vars |-> k], coefficients |-> [k \in Vars |-> coefficients[k]],
     lower |-> lo, upper |-> hi]
NoPart == <<0, 0>>

\* Tables of the oracle: zero, the distance to a center squared, and its slope.
Zero == [x \in Points |-> 0]
Flat == [x \in Points |-> Zeros]
Squares(center, scale) ==
    [x \in Points |-> scale * Sum([v \in Vars |-> (x[v] - center[v]) * (x[v] - center[v])])]
Slope(center, scale) ==
    [x \in Points |-> [v \in Vars |-> 2 * scale * (x[v] - center[v])]]

Nonlinear(linear, rws, objective, gradient, values, jacobian) ==
    [lower |-> Zeros, upper |-> [v \in Vars |-> Upper], types |-> [v \in Vars |-> IF v = 1 THEN "integer" ELSE "continuous"],
     linear |-> [v \in Vars |-> linear[v] * Unit], offset |-> 0,
     quadratic |-> [e \in {} |-> 0], rows |-> rws, nonlinear |-> TRUE,
     oracle |-> [objective |-> objective, gradient |-> gradient,
                 values |-> [row \in rws |-> values],
                 jacobian |-> [row \in rws |-> jacobian], singular |-> {}]]

\* max 2 x1 + x2 inside a circle of radius sqrt(3/2).
Disk == Nonlinear(<<-2, -1>>, {Row(NoPart, -Inf, Unit + Unit \div 2)}, Zero, Flat,
                  Squares(Zeros, 1), Slope(Zeros, 1))
\* min (x1 - 1/2)^2 + (x2 - 1/2)^2 - x2 with x1 + x2 <= 2.
HalfPoint == [v \in Vars |-> Unit \div 2]
Bowl == Nonlinear(<<0, -1>>, {Row(<<Unit, Unit>>, -Inf, 2 * Unit)},
                  Squares(HalfPoint, 2), Slope(HalfPoint, 2), Zero, Flat)
\* The same with derivatives that are not finite where x1 = 0.
Kinked == [Bowl EXCEPT !.oracle.singular = {x \in Points : x[1] = 0}]
\* (x1 - 1/2)^2 + (x2 - 1/2)^2 <= 0: one relaxed point, no integral one.
Pinhole == Nonlinear(<<-1, -1>>, {Row(NoPart, -Inf, 0)}, Zero, Flat,
                     Squares(HalfPoint, 1), Slope(HalfPoint, 1))
\* A row no point satisfies.
Empty == Nonlinear(<<-1, -1>>, {Row(NoPart, -Inf, -Unit)}, Zero, Flat,
                   Squares(Zeros, 1), Slope(Zeros, 1))
\* Models outer approximation refuses.
Unsupported == {[Disk EXCEPT !.nonlinear = FALSE],
             [Disk EXCEPT !.types = [v \in Vars |-> "continuous"]],
             [Disk EXCEPT !.quadratic = [e \in {<<1, 1>>} |-> 2]],
             [Disk EXCEPT !.lower = [v \in Vars |-> 2 * Upper]]}
SplitModels == {Disk, Bowl, Kinked, Pinhole, Empty} \cup Unsupported

\* x1 + x1^2 + x2^2 <= 3/2: both parts of the row are busy.
Mixed == Nonlinear(<<-1, -1>>, {Row(<<Unit, 0>>, -Inf, Unit + Unit \div 2)}, Zero, Flat,
                   Squares(Zeros, 1), Slope(Zeros, 1))
MixedModels == {Mixed}

OriginBelow == {-6 * Unit * Unit}
ExactDuals == {0}
SlackDuals == {0, -2}
SlackEpigraphs == {0, -Unit}
=============================================================================
