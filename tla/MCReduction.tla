---------------------------- MODULE MCReduction ----------------------------
(***************************************************************************)
(* Programs of reductions for TLC: vectors that leave a block partly       *)
(* filled, fill it, take two, and are too long for the count of blocks.    *)
(***************************************************************************)
EXTENDS ReductionProperties

NotANumber == -999999

Dot(x, y) == [kind |-> "dot", x |-> x, y |-> y]
Norm(x) == [kind |-> "norm_inf", x |-> x, y |-> x]
Ones(n) == [i \in 1 .. n |-> 1]
Powers(n) == [i \in 1 .. n |-> 2 ^ i]
Signs(n) == [i \in 1 .. n |-> IF i % 2 = 0 THEN i ELSE -2 * i]

AllPrograms == {
    \* two parts, then one: the second part of the buffer is stale
    <<Dot(Powers(7), Ones(7)), Norm(Signs(3))>>,
    <<Norm(Signs(5)), Dot(Powers(4), Signs(4))>>,
    \* one part, then two: the buffer grows
    <<Norm(<<-3>>), Dot(Powers(6), Signs(6))>>,
    \* NaN alone in a block, and among numbers
    <<Norm(<<NaN, NaN, NaN, NaN, -2>>), Norm(<<NaN, 1, NaN>>), Norm(<<NaN>>)>>,
    \* nothing to fold, and too much
    <<Dot(<<>>, <<>>), Norm(<<>>), Dot(Ones(8), Powers(8))>>}
=============================================================================
