------------------------ MODULE ReductionProperties ------------------------
(***************************************************************************)
(* What dot and norm_inf promise whatever order the threads run in.        *)
(***************************************************************************)
EXTENDS CudaReduction

\* The sum or the largest magnitude by definition; NaN entries do not count
\* for the latter, as for the CPU backend's std::max (cpu_ops.cpp:346-364).
Expected(call) ==
    FoldFunction(LAMBDA a, b : Fold(call.kind, a, b), 0,
                 [i \in 0 .. Size(call) - 1 |-> Entry(call, i)])

\* A reduction that returns a value returns that of its own vectors, whatever
\* the threads' order, the vector's length and the parts an earlier call or a
\* failed one left in the buffer (cuda_ops.cu:160-188, 407-451, 668-677).
ResultsAreTotals ==
    \A k \in DOMAIN results : results[k] \in {Thrown, <<Expected(program[k])>>}

\* The cells of shared memory a thread may read and write before it reaches
\* its next barrier, and whether it is between two barriers.
Between(d) ==
    \/ place[d] \in {"load", "fetched"}
    \/ place[d] = "level" /\ Synchronised(d)
Folds(d) == tid(d) < stride[d]
Writes(d) == IF place[d] = "load" \/ Folds(d) THEN {tid(d)} ELSE {}
Reads(d) ==
    IF place[d] = "load" THEN {}
    ELSE IF Folds(d) THEN {tid(d), tid(d) + stride[d]}
    ELSE {tid(d)}

\* Two threads of a block that are between the same two barriers never touch
\* one cell of sdata when one of them writes it, and a thread touches only
\* cells and parts that are there (cuda_ops.cu:165-171, 181-187, 668-677).
NoDataRace ==
    \A d \in threads :
        /\ BlockOf(d) \in DOMAIN buffer
        /\ Between(d) => Reads(d) \cup Writes(d) \subseteq 0 .. Block - 1
        /\ \A e \in Peers(d) \ {d} :
              Between(d) /\ Between(e) => Writes(d) \cap (Reads(e) \cup Writes(e)) = {}

\* Every call returns: no thread waits at a barrier for one that has left, and
\* the host's copy does not wait for ever (cuda_ops.cu:167-170, 423, 444).
CallsReturn == <>[](Len(results) = Len(program))
=============================================================================
