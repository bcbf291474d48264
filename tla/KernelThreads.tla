--------------------------- MODULE KernelThreads ---------------------------
(***************************************************************************)
(* The kernel engine that runs on the CPU alone, kernel/                   *)
(* retryix_kernel_module.c: a kernel with its arguments, and executions    *)
(* whose vector addition is split among eight threads.                     *)
(*                                                                         *)
(* Arrays hold, element by element, who computed them.  Callers set size   *)
(* and pointers where a kernel expects them, and arrays are at least as    *)
(* long as the size says.                                                  *)
(*                                                                         *)
(* A thread may fail to be created, which nothing tests: its part stays    *)
(* undone, and waiting, refused for its null handle, ends at once.  The    *)
(* call then returns while the other threads run on, with arguments that   *)
(* were on the stack of the call.                                          *)
(***************************************************************************)
EXTENDS Integers

CONSTANTS
  KernelNames,   \* among "vector_add", "vector_mul", "dot_product", "other"
  SmallWork,     \* work that one thread does alone, 1000
  WorkSizes,     \* global work sizes, and values of n
  MaxRuns,       \* bound: executions
  MaxMissing     \* bound: threads of an execution that cannot be created

ASSUME KernelAssumption == /\ KernelNames \subseteq {"vector_add", "vector_mul", "dot_product", "other"}
                           /\ SmallWork \in Nat /\ WorkSizes \subseteq Nat /\ MaxRuns \in Nat
                           /\ MaxMissing \in Nat

VARIABLES
  kernel,        \* the kernel object
  g_active_kernels, g_completed_executions,
  caller,        \* where retryix_kernel_execute stands
  workers,       \* of each thread, the next element and the end of its range
  abandoned,     \* threads run whose call has returned
  output         \* args[2]: what each element holds

kernelVars == <<kernel, g_active_kernels, g_completed_executions, caller, workers, abandoned,
                output>>

NumThreads == 8
Workers == 0 .. NumThreads - 1
Elements == 0 .. 15
ArgIndexes == 0 .. 3
Pointers == 0 .. 2     \* the arguments that are arrays; the last one is n

NoKernel == [name |-> "none", is_svm |-> [i \in ArgIndexes |-> FALSE], n |-> 0, arg_count |-> 0]
NoRun == [at |-> "idle", global |-> 0, n |-> 0, kind |-> "none", created |-> 0,
          missing |-> 0]
NotStarted == [next |-> 0, end |-> 0]
Old == [e \in Elements |-> "old"]

KernelInit ==
  /\ kernel = NoKernel
  /\ g_active_kernels = 0 /\ g_completed_executions = 0
  /\ caller = NoRun
  /\ workers = [t \in Workers |-> NotStarted]
  /\ abandoned = FALSE
  /\ output = Old

Between == caller.at \in {"idle", "returned"}

(* Sources that are empty are refused. *)
retryix_kernel_create_from_source(name) ==
  /\ kernel = NoKernel
  /\ kernel' = [NoKernel EXCEPT !.name = name]
  /\ g_active_kernels' = g_active_kernels + 1
  /\ UNCHANGED <<g_completed_executions, caller, workers, abandoned, output>>

Counted(i) == IF i >= kernel.arg_count THEN i + 1 ELSE kernel.arg_count

retryix_kernel_set_scalar_arg(n) ==
  /\ Between /\ kernel # NoKernel
  /\ kernel' = [kernel EXCEPT !.n = n, !.is_svm[3] = FALSE, !.arg_count = Counted(3)]
  /\ UNCHANGED <<g_active_kernels, g_completed_executions, caller, workers, abandoned, output>>

retryix_kernel_set_svm_arg(i) ==
  /\ Between /\ kernel # NoKernel
  /\ kernel' = [kernel EXCEPT !.is_svm[i] = TRUE, !.arg_count = Counted(i)]
  /\ UNCHANGED <<g_active_kernels, g_completed_executions, caller, workers, abandoned, output>>

Complete(k) == k.arg_count >= 4 /\ \A i \in Pointers : k.is_svm[i]

Lesser(a, b) == IF a < b THEN a ELSE b
ChunkSize == caller.global \div NumThreads

(* Where one thread does all the work the loop is one step of the caller. *)
Alone == ~(ChunkSize > 0 /\ caller.global > SmallWork)
Todo == 0 .. Lesser(caller.n, caller.global) - 1

(* The local size of retryix_kernel_execute_1d plays no part. *)
retryix_kernel_execute(global) ==
  /\ Between /\ kernel # NoKernel
  /\ global > 0
  /\ g_completed_executions < MaxRuns
  /\ caller' = [at |-> "dispatch", global |-> global, created |-> 0, missing |-> 0,
                n |-> kernel.n, kind |-> IF Complete(kernel) THEN kernel.name ELSE "other"]
  /\ output' = Old
  /\ workers' = [t \in Workers |-> NotStarted]
  /\ UNCHANGED <<kernel, g_active_kernels, g_completed_executions, abandoned>>

(* Any kernel returns success, also one that lacks arguments or is not known. *)
Dispatch ==
  /\ caller.at = "dispatch"
  /\ \/ /\ caller.kind = "vector_add" /\ ~Alone
        /\ caller' = [caller EXCEPT !.at = "create"]
        /\ UNCHANGED <<output, g_completed_executions>>
     \/ /\ caller.kind = "vector_add" => Alone
        /\ output' = [e \in Elements |-> IF caller.kind # "other" /\ e \in Todo
                                            THEN caller.kind ELSE output[e]]
        /\ caller' = [caller EXCEPT !.at = "returned"]
        /\ g_completed_executions' = g_completed_executions + 1
  /\ UNCHANGED <<kernel, g_active_kernels, workers, abandoned>>

(* Fault: the last thread does not take the remainder. *)
Chunk_Even(t) == [next |-> t * ChunkSize, end |-> (t + 1) * ChunkSize]

(* The last thread takes what the division leaves. *)
Chunk(t) ==
  [next |-> t * ChunkSize,
   end |-> IF t = NumThreads - 1 THEN caller.global ELSE (t + 1) * ChunkSize]

CreateThread ==
  /\ caller.at = "create"
  /\ \E failures \in 0 .. 1 :
       /\ caller.missing + failures <= MaxMissing
       /\ workers' = IF failures = 1 THEN workers
                     ELSE [workers EXCEPT ![caller.created] = Chunk(caller.created)]
       /\ caller' = [caller EXCEPT !.created = @ + 1, !.missing = @ + failures,
                        !.at = IF caller.created + 1 = NumThreads THEN "wait" ELSE @]
  /\ UNCHANGED <<kernel, g_active_kernels, g_completed_executions, abandoned, output>>

Running(t) == workers[t].next < Lesser(workers[t].end, caller.n)

vector_add_thread(t) ==
  /\ Running(t)
  /\ output' = [output EXCEPT ![workers[t].next] = "vector_add"]
  /\ workers' = [workers EXCEPT ![t].next = @ + 1]
  /\ UNCHANGED <<kernel, g_active_kernels, g_completed_executions, caller, abandoned>>

(* Their arguments may be anything by now, and with them what they write and where. *)
AbandonedThread ==
  /\ abandoned
  /\ output' = [e \in Elements |-> "anything"]
  /\ UNCHANGED <<kernel, g_active_kernels, g_completed_executions, caller, workers, abandoned>>

WaitForMultipleObjects ==
  /\ caller.at = "wait"
  /\ \/ /\ caller.missing = 0
        /\ \A t \in Workers : ~Running(t)
        /\ UNCHANGED <<workers, abandoned>>
     \/ /\ caller.missing > 0
        /\ abandoned' = (abandoned \/ \E t \in Workers : Running(t))
        /\ workers' = [t \in Workers |-> NotStarted]
  /\ caller' = [caller EXCEPT !.at = "returned"]
  /\ g_completed_executions' = g_completed_executions + 1
  /\ UNCHANGED <<kernel, g_active_kernels, output>>

KernelNext ==
  \/ \E name \in KernelNames : retryix_kernel_create_from_source(name)
  \/ \E i \in Pointers : retryix_kernel_set_svm_arg(i)
  \/ \E size \in WorkSizes : retryix_kernel_set_scalar_arg(size) \/ retryix_kernel_execute(size)
  \/ Dispatch \/ CreateThread \/ WaitForMultipleObjects
  \/ \E t \in Workers : vector_add_thread(t)
  \/ AbandonedThread

KernelSpec == KernelInit /\ [][KernelNext]_kernelVars

KernelTypeOK ==
  /\ kernel.name \in KernelNames \cup {"none"}
  /\ kernel.arg_count \in 0 .. 4
  /\ g_active_kernels \in 0 .. 1 /\ g_completed_executions \in 0 .. MaxRuns
  /\ caller.at \in {"idle", "dispatch", "create", "wait", "returned"}
  /\ caller.missing \in 0 .. MaxMissing /\ abandoned \in BOOLEAN
  /\ output \in [Elements -> KernelNames \cup {"old", "anything"}]

(* When an execution of a complete kernel has returned, exactly the elements *)
(* below both sizes were computed, by that kernel, whichever way the threads *)
(* shared them out and raced; and two threads never have one element to do.  *)
(* Provided that each of its threads was created: otherwise it returns       *)
(* success as well, with a part of the results missing, and leaves threads   *)
(* behind that disturb it and the executions after it.                       *)
ResultsAreComplete ==
  /\ caller.at = "returned" /\ caller.missing = 0 /\ ~abandoned =>
       \A e \in Elements :
         output[e] = IF caller.kind # "other" /\ e \in Todo THEN caller.kind ELSE "old"
  /\ \A t, u \in Workers :
       t < u /\ workers[u] # NotStarted => workers[t].end <= workers[u].next
=============================================================================
