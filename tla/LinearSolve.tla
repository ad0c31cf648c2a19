---------------------------- MODULE LinearSolve ----------------------------
(***************************************************************************)
(* solve_linear_system of the CPU and the CUDA backend: BiCGSTAB from      *)
(* entry to result (backend/cpu_ops.cpp, cuda/cuda_ops.cu), in exact       *)
(* arithmetic over any field.                                              *)
(*                                                                         *)
(* The backends differ in one point: CUDA builds the answer in the         *)
(* caller's vector, which it clears before it reads the right-hand side.   *)
(***************************************************************************)
EXTENDS SparseMatrix

CONSTANTS
    Requests,         \* the calls solve_linear_system may get
    Matrices,         \* the square ones among their matrices
    Apply(_, _),      \* a matrix times a vector (csr_matvec, multiply)
    Dot(_, _),        \* inner product
    Norm(_)           \* largest magnitude

ASSUME OperatorAssumption ==
    \A m \in Matrices :
        /\ m.rows \in Nat /\ m.columns = m.rows
        /\ Apply(m, Origin(m.rows)) = Origin(m.rows)
        /\ \A x, y \in Vectors(m.rows) :
              /\ Apply(m, x) \in Vectors(m.rows)
              /\ Dot(x, y) \in Scalars /\ Norm(x) \in Nat
              /\ \A a \in Scalars :
                    Apply(m, More(x, a, y)) = More(Apply(m, x), a, Apply(m, y))

\* create_matrix and set_values refuse before solve_linear_system does.
Refused(q) ==
    LET m == q.matrix
    IN  \/ ~ValidPattern(m) \/ Len(m.values) # Len(m.column_indices)
        \/ m.rows # m.columns
        \/ q.rhs_size # m.rows \/ q.solution_size # m.rows
        \/ q.tolerance < 0 \/ q.iteration_limit < 0

ASSUME RequestAssumption ==
    \A q \in Requests : ~Refused(q) =>
        /\ q.matrix \in Matrices /\ q.rhs \in Vectors(q.rhs_size)
        /\ q.rhs_size = q.matrix.rows /\ q.tolerance \in Int

VARIABLES
    request, pc,
    iter, x,              \* iterations done, and the solution so far
    r, r_hat, p, v,
    rho, rho_prev, alpha, omega,
    result                \* [converged, iterations, residual]

work == <<iter, x, r, r_hat, p, v, rho, rho_prev, alpha, omega>>
vars == <<request, pc, work, result>>

-----------------------------------------------------------------------------
A == request.matrix
size == A.rows

\* fill(solution, 0) before copy(rhs, r): a vector that is both is lost.
Overwritten == request.backend = "cuda" /\ request.aliased
b == IF Overwritten THEN Origin(size) ELSE request.rhs

Small(y) == Norm(y) <= request.tolerance
\* The residual by definition.
Residual(rhs, y) == Less(rhs, One, Apply(A, y))

-----------------------------------------------------------------------------
(* One iteration, up to the test that ends it.                             *)

\* Mutant: beta without alpha / omega.
PlainBeta == Over(rho, rho_prev)
Beta == Times(Over(rho, rho_prev), Over(alpha, omega))
Direction == IF iter = 0 THEN r ELSE More(r, Beta, Less(p, omega, v))
Image == Apply(A, Direction)
Denominator == Dot(r_hat, Image)
Alpha == Over(rho, Denominator)
s == Less(r, Alpha, Image)
t == Apply(A, s)
Omega == Over(Dot(t, s), Dot(t, t))

HalfStep == More(x, Alpha, Direction)
\* Mutant: the second half of the step is forgotten.
HalfStepOnly == HalfStep
FullStep == More(HalfStep, Omega, s)
Remaining == Less(s, Omega, t)

Init ==
    /\ request \in Requests /\ pc = "call"
    /\ iter = 0 /\ x = <<>> /\ r = <<>> /\ r_hat = <<>> /\ p = <<>> /\ v = <<>>
    /\ rho = Zero /\ rho_prev = One /\ alpha = One /\ omega = One
    /\ result = [converged |-> FALSE, iterations |-> 0, residual |-> 0]

Return(converged, iterations, residual) ==
    /\ result' = [converged |-> converged, iterations |-> iterations,
                  residual |-> residual]
    /\ pc' = "returned"

Refuse ==
    /\ pc = "call" /\ Refused(request)
    /\ pc' = "thrown"
    /\ UNCHANGED <<request, work, result>>

AlreadySolved ==
    /\ pc = "call" /\ ~Refused(request) /\ Small(b)
    /\ x' = Origin(size)
    /\ Return(TRUE, 0, Norm(b))
    /\ UNCHANGED <<request, iter, r, r_hat, p, v, rho, rho_prev, alpha, omega>>

Begin ==
    /\ pc = "call" /\ ~Refused(request) /\ ~Small(b)
    /\ x' = Origin(size) /\ r' = b /\ r_hat' = b
    /\ p' = Origin(size) /\ v' = Origin(size)
    /\ rho' = Dot(b, b)
    /\ pc' = "loop"
    /\ UNCHANGED <<request, iter, rho_prev, alpha, omega, result>>

OutOfIterations ==
    /\ pc = "loop" /\ iter >= request.iteration_limit
    /\ pc' = "measure"
    /\ UNCHANGED <<request, work, result>>

\* Leaving the loop by a breakdown.
Break ==
    /\ result' = [result EXCEPT !.iterations = iter + 1]
    /\ pc' = "measure"
    /\ UNCHANGED <<request, iter, r, r_hat, p, v, rho, rho_prev, alpha, omega>>

Iterating == pc = "loop" /\ iter < request.iteration_limit

RhoBreaks == Iterating /\ rho = Zero /\ Break /\ UNCHANGED x

AlphaBreaks ==
    /\ Iterating /\ rho # Zero /\ Denominator = Zero
    /\ Break /\ UNCHANGED x

HalfDone == Iterating /\ rho # Zero /\ Denominator # Zero
EarlyExit ==
    /\ HalfDone /\ Small(s)
    /\ x' = HalfStep
    /\ Return(TRUE, iter + 1, Norm(s))
    /\ UNCHANGED <<request, iter, r, r_hat, p, v, rho, rho_prev, alpha, omega>>

TBreaks ==
    /\ HalfDone /\ ~Small(s) /\ Dot(t, t) = Zero
    /\ Break /\ UNCHANGED x

OmegaBreaks ==
    /\ HalfDone /\ ~Small(s) /\ Dot(t, t) # Zero /\ Omega = Zero
    /\ x' = HalfStep
    /\ Break

Whole == HalfDone /\ ~Small(s) /\ Dot(t, t) # Zero /\ Omega # Zero
Converge ==
    /\ Whole /\ Small(Remaining)
    /\ x' = FullStep
    /\ Return(TRUE, iter + 1, Norm(Remaining))
    /\ UNCHANGED <<request, iter, r, r_hat, p, v, rho, rho_prev, alpha, omega>>

Continue ==
    /\ Whole /\ ~Small(Remaining)
    /\ x' = FullStep /\ r' = Remaining
    /\ p' = Direction /\ v' = Image
    /\ rho' = Dot(r_hat, Remaining) /\ rho_prev' = rho
    /\ alpha' = Alpha /\ omega' = Omega
    /\ iter' = iter + 1
    /\ result' = [result EXCEPT !.iterations = iter + 1]
    /\ UNCHANGED <<request, pc, r_hat>>

Measure ==
    /\ pc = "measure"
    /\ Return(FALSE, result.iterations, Norm(Residual(b, x)))
    /\ UNCHANGED <<request, work>>

Iterate ==
    \/ OutOfIterations \/ RhoBreaks \/ AlphaBreaks \/ EarlyExit
    \/ TBreaks \/ OmegaBreaks \/ Converge \/ Continue
Step == Refuse \/ AlreadySolved \/ Begin \/ Iterate \/ Measure
Finished == pc \in {"thrown", "returned"} /\ UNCHANGED vars
Next == Step \/ Finished

Spec == Init /\ [][Next]_vars /\ WF_vars(Step)
=============================================================================
