--------------------------- MODULE CudaReduction ---------------------------
(***************************************************************************)
(* dot and norm_inf of the CUDA backend (cuda/cuda_ops.cu): the host       *)
(* launches a kernel whose threads each bring one entry into their block's *)
(* shared memory and fold it there by a tree, a barrier after every level; *)
(* thread 0 of a block leaves the block's part in a device buffer that is  *)
(* kept from call to call, and the host folds the parts.                   *)
(*                                                                         *)
(* Threads run in any order between barriers, and reading two cells and    *)
(* writing one are separate steps.  Entries are integers or NaN; sums are  *)
(* exact, so the order of a sum does not show.                             *)
(***************************************************************************)
EXTENDS Integers, Sequences, Functions

CONSTANTS
    Programs,         \* sequences of calls a host makes on one backend
    Block,            \* BLOCK, a power of two
    IntMax,           \* the largest int
    NaN,              \* the integer that stands for NaN, the magnitude of no number
    Garbage,          \* what a new device buffer holds
    Faults            \* whether the CUDA runtime may refuse memory, a launch or a copy

\* A call: two vectors of one length; norm_inf ignores the second.  A sum
\* with NaN in it is left out.
Reductions ==
    {call \in [kind : {"dot", "norm_inf"}, x : Seq(Int), y : Seq(Int)] :
        /\ Len(call.x) = Len(call.y)
        /\ call.kind = "dot" => NaN \notin Range(call.x) \cup Range(call.y)}

\* A power of two is a number whose only odd divisor is 1.
ASSUME ReductionAssumption ==
    /\ Block \in Nat \ {0}
    /\ \A m \in 1 .. Block : Block % m = 0 => m = 1 \/ m % 2 = 0
    /\ NaN \in Int /\ NaN < 0
    /\ IntMax \in Nat /\ Garbage \in Int /\ Faults \in BOOLEAN
    /\ Programs \subseteq Seq(Reductions)

VARIABLES
    program, results,     \* the calls, and the answers of those that returned
    host,                 \* "idle", or "waiting" in cudaMemcpy for the kernel
    buffer,               \* d_reduce_buf_, over 0 .. reduce_capacity_ - 1
    threads,              \* of the kernel: pairs of a block and a threadIdx
    place, arrived,       \* where a thread is, and the barriers it has reached
    stride, sdata, held   \* s, its cell of sdata, and what it read but not yet wrote

kernel == <<threads, place, arrived, stride, sdata, held>>
vars == <<program, results, host, buffer, kernel>>

-----------------------------------------------------------------------------
(* The call that is being answered.                                        *)
Call == program[Len(results) + 1]
Size(call) == Len(call.x)
Thrown == <<>>                     \* instead of an answer <<value>>

Larger(a, b) == IF a < b THEN b ELSE a
fmax(a, b) == IF a = NaN THEN b ELSE IF b = NaN THEN a ELSE Larger(a, b)
fabs(a) == IF a = NaN THEN NaN ELSE IF a < 0 THEN -a ELSE a
Fold(kind, a, b) == IF kind = "dot" THEN a + b ELSE fmax(a, b)

\* Entry i, from 0; a thread past the end of the vector brings a zero.
Entry(call, i) ==
    IF i >= Size(call) THEN 0
    ELSE IF call.kind = "dot" THEN call.x[i + 1] * call.y[i + 1] ELSE fabs(call.x[i + 1])

Grid(n) == (n + Block - 1) \div Block
GridOverflows(n) == n + Block - 1 > IntMax

\* The host's loop over the parts; std::max(result, v) keeps result if v is NaN.
\* Mutant: over everything the buffer holds.
HostFoldAll(call, parts) ==
    FoldFunction(LAMBDA a, b : Fold(call.kind, a, b), 0, parts)
HostFold(call, parts) ==
    FoldFunctionOnSet(LAMBDA a, b : Fold(call.kind, a, b), 0, parts, 0 .. Grid(Size(call)) - 1)

-----------------------------------------------------------------------------
Init ==
    /\ program \in Programs /\ results = <<>> /\ host = "idle"
    /\ buffer = <<>>
    /\ threads = {} /\ place = <<>> /\ arrived = <<>> /\ stride = <<>>
    /\ sdata = <<>> /\ held = <<>>

Calling == host = "idle" /\ Len(results) < Len(program)
Return(answer) == results' = Append(results, answer)

ReturnZero ==
    /\ Calling /\ Size(Call) = 0
    /\ Return(<<0>>)
    /\ UNCHANGED <<program, host, buffer, kernel>>

\* A count of blocks that overflows is undefined: the build that wraps asks
\* for a buffer of a negative size, and cudaMalloc refuses it.
CountOverflows ==
    /\ Calling /\ GridOverflows(Size(Call))
    /\ Return(Thrown)
    /\ UNCHANGED <<program, host, buffer, kernel>>

\* ensure_reduce_capacity: the old buffer is freed after the new one is there.
Required == 0 .. Grid(Size(Call)) - 1
AllocationFails ==
    /\ Calling /\ Size(Call) > 0 /\ Faults
    /\ ~(Required \subseteq DOMAIN buffer)
    /\ Return(Thrown)
    /\ UNCHANGED <<program, host, buffer, kernel>>

EnsureCapacity ==
    buffer' = IF Required \subseteq DOMAIN buffer THEN buffer
              ELSE [i \in Required |-> Garbage]

LaunchFails ==
    /\ Calling /\ Size(Call) > 0 /\ Faults
    /\ EnsureCapacity
    /\ Return(Thrown)
    /\ UNCHANGED <<program, host, kernel>>

Launch ==
    /\ Calling /\ Size(Call) > 0
    /\ EnsureCapacity
    /\ threads' = Required \X (0 .. Block - 1)
    /\ place' = [d \in threads' |-> "load"]
    /\ arrived' = [d \in threads' |-> 0]
    /\ stride' = [d \in threads' |-> Block \div 2]
    /\ sdata' = [d \in threads' |-> Garbage]
    /\ held' = [d \in threads' |-> Garbage]
    /\ host' = "waiting"
    /\ UNCHANGED <<program, results>>

\* cudaMemcpy waits for the kernel.
KernelDone ==
    /\ host = "waiting"
    /\ \A d \in threads : place[d] = "done"
CallEnds ==
    /\ host' = "idle"
    /\ threads' = {} /\ place' = <<>> /\ arrived' = <<>> /\ stride' = <<>>
    /\ sdata' = <<>> /\ held' = <<>>
    /\ UNCHANGED <<program, buffer>>

CopyBack ==
    /\ KernelDone
    /\ Return(<<HostFold(Call, buffer)>>)
    /\ CallEnds

\* check_cuda throws, and the parts stay in the buffer.
CopyFails ==
    /\ KernelDone /\ Faults
    /\ Return(Thrown)
    /\ CallEnds

-----------------------------------------------------------------------------
(* A thread of kernel_dot or kernel_abs_max.                               *)
BlockOf(d) == d[1]
tid(d) == d[2]
Peers(d) == {e \in threads : BlockOf(e) = BlockOf(d)}
Partner(d) == <<BlockOf(d), tid(d) + stride[d]>>

\* Mutant: no __syncthreads.
NeverWaits(d) == TRUE
\* __syncthreads: every thread of the block has reached the barrier.
Synchronised(d) == \A e \in Peers(d) : arrived[e] >= arrived[d]

\* The way to the next barrier.
ReachBarrier(d) ==
    /\ arrived' = [arrived EXCEPT ![d] = @ + 1]
    /\ place' = [place EXCEPT ![d] = "level"]

\* Mutant: a thread past the end of the vector leaves at once.
LoadOrLeave(d) ==
    /\ place[d] = "load"
    /\ sdata' = [sdata EXCEPT ![d] = Entry(Call, BlockOf(d) * Block + tid(d))]
    /\ IF BlockOf(d) * Block + tid(d) < Size(Call) THEN ReachBarrier(d)
       ELSE place' = [place EXCEPT ![d] = "done"] /\ UNCHANGED arrived
    /\ UNCHANGED <<program, results, host, buffer, threads, stride, held>>
Load(d) ==
    /\ place[d] = "load"
    /\ sdata' = [sdata EXCEPT ![d] = Entry(Call, BlockOf(d) * Block + tid(d))]
    /\ ReachBarrier(d)
    /\ UNCHANGED <<program, results, host, buffer, threads, stride, held>>

AtLevel(d) == place[d] = "level" /\ Synchronised(d) /\ stride[d] > 0
Halve(d) == stride' = [stride EXCEPT ![d] = @ \div 2]

Skip(d) ==
    /\ AtLevel(d) /\ tid(d) >= stride[d]
    /\ Halve(d) /\ ReachBarrier(d)
    /\ UNCHANGED <<program, results, host, buffer, threads, sdata, held>>

Fetch(d) ==
    /\ AtLevel(d) /\ tid(d) < stride[d]
    /\ held' = [held EXCEPT ![d] = Fold(Call.kind, sdata[d], sdata[Partner(d)])]
    /\ place' = [place EXCEPT ![d] = "fetched"]
    /\ UNCHANGED <<program, results, host, buffer, threads, arrived, stride, sdata>>

Store(d) ==
    /\ place[d] = "fetched"
    /\ sdata' = [sdata EXCEPT ![d] = held[d]]
    /\ Halve(d) /\ ReachBarrier(d)
    /\ UNCHANGED <<program, results, host, buffer, threads, held>>

Exit(d) ==
    /\ place[d] = "level" /\ Synchronised(d) /\ stride[d] = 0
    /\ buffer' = IF tid(d) = 0 THEN [buffer EXCEPT ![BlockOf(d)] = sdata[d]] ELSE buffer
    /\ place' = [place EXCEPT ![d] = "done"]
    /\ UNCHANGED <<program, results, host, threads, arrived, stride, sdata, held>>

Thread(d) == Load(d) \/ Skip(d) \/ Fetch(d) \/ Store(d) \/ Exit(d)

-----------------------------------------------------------------------------
Host == ReturnZero \/ CountOverflows \/ AllocationFails \/ LaunchFails \/ Launch
        \/ CopyBack \/ CopyFails
\* cudaMemcpy spins while the kernel runs; in the end nothing is left to call.
Spin == (host = "waiting" \/ Len(results) = Len(program)) /\ UNCHANGED vars
Next == Host \/ Spin \/ \E d \in threads : Thread(d)

\* The host goes on when it can; a launched thread is scheduled eventually.
Fairness ==
    /\ WF_vars(Host)
    /\ \A b \in 0 .. IntMax, t \in 0 .. Block - 1 :
          WF_vars(<<b, t>> \in threads /\ Thread(<<b, t>>))

Spec == Init /\ [][Next]_vars /\ Fairness
=============================================================================
