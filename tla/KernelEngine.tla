---------------------------- MODULE KernelEngine ----------------------------
(***************************************************************************)
(* The kernel engine of src/modules/retryix_kernel_module.c on top of the  *)
(* Vulkan engine: kernel objects with their arguments, the dispatch on     *)
(* names that a kernel or its source contains, and a vector addition that  *)
(* runs on the GPU or, where that fails, on the CPU.                       *)
(*                                                                         *)
(* Memory is modelled by the blocks of the heap.  A scalar argument is a   *)
(* copy in a block of the engine, an SVM argument a block of the caller.   *)
(* malloc and calloc are taken to succeed.  The counts of kernels and of   *)
(* executions are only printed, and left out.                              *)
(***************************************************************************)
EXTENDS VulkanCompute

CONSTANTS
  Handles,       \* kernel objects
  Blocks,        \* blocks of the heap
  Programs,      \* [name, mentions]: a kernel's name and the names in its source
  Sizes,         \* values of n, and of global_work_size
  None

Args == 0 .. 3

(* kernel_object_t, without the text of the source and the sizes. *)
KernelObjects ==
  [program : Programs, args : [Args -> Blocks \cup {None}], is_svm : [Args -> BOOLEAN],
   arg_count : 0 .. 4]

(* An execution of execute_vector_add, with the n it read from its argument. *)
Executions == [kernel : Handles, gws : Sizes \cup {0}, n : Sizes \cup {0}]

(* The heap has room for finitely many blocks; None is no block, no kernel and
   no execution. *)
ASSUME BlocksAssumption == IsFiniteSet(Blocks) /\ Sizes \subseteq Nat
ASSUME NoneAssumption == None \notin Blocks \cup KernelObjects \cup Executions

VARIABLES
  kernels,       \* the kernel objects, None before they are created
  heap,          \* [owner, value] of every block
  execution,     \* the vector addition in progress: [kernel, gws, n]
  last           \* what the last execution did; None while one runs

kernelVars == <<kernels, heap, execution, last>>

vars == <<vkVars, kernelVars>>

(* In the order of the tests in retryix_kernel_execute. *)
Kinds == <<"vector_add", "vector_mul", "dot_product", "saxpy", "vector_scale",
           "process">>

(* The arguments a kernel takes as SVM pointers, and the one that is n. *)
SvmArgs(kind) ==
  CASE kind \in {"vector_add", "vector_mul", "dot_product"} -> {0, 1, 2}
    [] kind \in {"saxpy", "vector_scale"}                   -> {1, 2}
    [] kind = "process"                                     -> {0}
    [] OTHER                                                -> {}

SizeArg(kind) == IF kind = "process" THEN 1 ELSE 3

Free == [owner |-> "nobody", value |-> 0]

Init ==
  /\ VkInit
  /\ kernels = [h \in Handles |-> None]
  /\ heap = [b \in Blocks |-> Free]
  /\ execution = None
  /\ last = None

Idle == execution = None

Owned(who) == {b \in Blocks : heap[b].owner = who}

retryix_kernel_create_from_source(h) ==
  /\ Idle
  /\ kernels[h] = None
  /\ \E p \in Programs :
       kernels' = [kernels EXCEPT ![h] =
                     [program |-> p, args |-> [i \in Args |-> None],
                      is_svm |-> [i \in Args |-> FALSE], arg_count |-> 0]]
  /\ UNCHANGED <<vkVars, heap, execution, last>>
-----------------------------------------------------------------------------
(* Bound: the caller has one block at a time. *)
retryix_mem_alloc ==
  /\ Idle
  /\ Owned("caller") = {}
  /\ \E b \in Owned("nobody") :
       heap' = [heap EXCEPT ![b] = [owner |-> "caller", value |-> 0]]
  /\ UNCHANGED <<vkVars, kernels, execution, last>>

Created == {h \in Handles : kernels[h] # None}

(* Callers free what no kernel has for an argument. *)
retryix_mem_free(b) ==
  /\ Idle
  /\ b \in Owned("caller")
  /\ \A h \in Created, i \in Args : kernels[h].args[i] # b
  /\ heap' = [heap EXCEPT ![b] = Free]
  /\ UNCHANGED <<vkVars, kernels, execution, last>>

(***************************************************************************)
(* Callers set the arguments in order, scalars and SVM pointers where the  *)
(* kernel has them, and may set them again.                                *)
(***************************************************************************)
MaySet(h, i) == kernels[h] # None /\ i <= kernels[h].arg_count

WithArg(k, i, b, svm) ==
  [program   |-> k.program,
   args      |-> [k.args EXCEPT ![i] = b],
   is_svm    |-> [k.is_svm EXCEPT ![i] = svm],
   arg_count |-> IF i >= k.arg_count THEN i + 1 ELSE k.arg_count]

(* Fault: the copy that an argument held is kept. *)
retryix_kernel_set_scalar_arg_Leak(h, i, v) ==
  /\ Idle
  /\ MaySet(h, i)
  /\ i \notin SvmArgs(kernels[h].program.name)
  /\ \E b \in Owned("nobody") :
       /\ heap' = [heap EXCEPT ![b] = [owner |-> "engine", value |-> v]]
       /\ kernels' = [kernels EXCEPT ![h] = WithArg(@, i, b, FALSE)]
  /\ UNCHANGED <<vkVars, execution, last>>

(* The block that the argument held is freed, the copy goes into a new one. *)
retryix_kernel_set_scalar_arg(h, i, v) ==
  /\ Idle
  /\ MaySet(h, i)
  /\ i \notin SvmArgs(kernels[h].program.name)
  /\ \E b \in Owned("nobody") \cup ({kernels[h].args[i]} \ {None}) :
       /\ heap' = [c \in Blocks |->
                     IF c = b THEN [owner |-> "engine", value |-> v]
                     ELSE IF c = kernels[h].args[i] THEN Free ELSE heap[c]]
       /\ kernels' = [kernels EXCEPT ![h] = WithArg(@, i, b, FALSE)]
  /\ UNCHANGED <<vkVars, execution, last>>

retryix_kernel_set_svm_arg(h, i) ==
  /\ Idle
  /\ MaySet(h, i)
  /\ i \in SvmArgs(kernels[h].program.name)
  /\ \E b \in Owned("caller") :
       kernels' = [kernels EXCEPT ![h] = WithArg(@, i, b, TRUE)]
  /\ UNCHANGED <<vkVars, heap, execution, last>>
-----------------------------------------------------------------------------
(* The branch that runs: the first kind that is the name of the kernel or
   found in its source. *)
Dispatched(p) ==
  LET named == {i \in DOMAIN Kinds : Kinds[i] \in {p.name} \cup p.mentions}
  IN  IF named = {} THEN "generic" ELSE Kinds[Min(named)]

(* The test of the arguments that opens every branch but the generic one. *)
Ready(k, kind) ==
  /\ k.arg_count >= SizeArg(kind) + 1
  /\ \A i \in SvmArgs(kind) : k.is_svm[i]

Size(k, kind) == heap[k.args[SizeArg(kind)]].value

Lesser(m, n) == IF m < n THEN m ELSE n

(***************************************************************************)
(* An execution that stays on the CPU, or that finds its arguments missing *)
(* and computes nothing.  Either returns SUCCESS.                          *)
(***************************************************************************)
ExecuteOnCpu(h, gws) ==
  /\ Idle
  /\ gpu.pc = "idle"
  /\ kernels[h] # None
  /\ gws # 0
  /\ LET k    == kernels[h]
         kind == Dispatched(k.program)
         runs == kind # "generic" /\ Ready(k, kind)
     IN  /\ ~(runs /\ kind = "vector_add")
         /\ last' = [program |-> k.program, gws |-> gws, kind |-> kind, runs |-> runs,
                     n |-> IF runs THEN Size(k, kind) ELSE 0,
                     elements |-> IF runs THEN 1 .. Lesser(Size(k, kind), gws) ELSE {},
                     served |-> TRUE]
  /\ UNCHANGED <<vkVars, kernels, heap, execution>>

ExecuteVectorAdd(h, gws) ==
  /\ Idle
  /\ kernels[h] # None
  /\ gws # 0
  /\ Dispatched(kernels[h].program) = "vector_add"
  /\ Ready(kernels[h], "vector_add")
  /\ execution' = [kernel |-> h, gws |-> gws, n |-> Size(kernels[h], "vector_add")]
  /\ last' = None
  /\ VectorAdd
  /\ UNCHANGED <<kernels, heap>>

(* Fault: nothing is computed where the GPU fails. *)
Computed_NoFallback(n, gws) == IF gpu.ok /\ gpu.served THEN 1 .. n ELSE {}

(* The elements that are sure to hold their sums.  The GPU computes n, the CPU
   no more than the work size, and none is sure where the GPU was not fed or
   its result not fetched, which the engine does not notice. *)
Computed(n, gws) ==
  IF ~gpu.ok THEN 1 .. Lesser(n, gws) ELSE IF gpu.served THEN 1 .. n ELSE {}

(* Fault: the execution is not taken off the engine. *)
FinishVectorAdd_Keep ==
  /\ gpu.pc = "return"
  /\ gpu' = [gpu EXCEPT !.pc = "idle"]
  /\ last' = [program |-> kernels[execution.kernel].program, gws |-> execution.gws,
              kind |-> "vector_add", runs |-> TRUE, n |-> execution.n,
              elements |-> Computed(execution.n, execution.gws), served |-> gpu.served]
  /\ UNCHANGED <<attemptVars, g_vk_ctx, live, stale, kernels, heap, execution>>

(* The rest of execute_vector_add and of retryix_kernel_execute. *)
FinishVectorAdd ==
  /\ gpu.pc = "return"
  /\ gpu' = [gpu EXCEPT !.pc = "idle"]
  /\ last' = [program |-> kernels[execution.kernel].program, gws |-> execution.gws,
              kind |-> "vector_add", runs |-> TRUE, n |-> execution.n,
              elements |-> Computed(execution.n, execution.gws), served |-> gpu.served]
  /\ execution' = None
  /\ UNCHANGED <<attemptVars, g_vk_ctx, live, stale, kernels, heap>>

EngineStep == (VulkanStep /\ UNCHANGED kernelVars) \/ FinishVectorAdd

Next ==
  \/ \E h \in Handles :
       \/ retryix_kernel_create_from_source(h)
       \/ \E i \in Args : \/ retryix_kernel_set_svm_arg(h, i)
                          \/ \E v \in Sizes : retryix_kernel_set_scalar_arg(h, i, v)
       \/ \E gws \in Sizes \cup {0} : ExecuteOnCpu(h, gws) \/ ExecuteVectorAdd(h, gws)
  \/ retryix_mem_alloc
  \/ \E b \in Blocks : retryix_mem_free(b)
  \/ (retryix_vulkan_compute_init \/ retryix_vulkan_compute_cleanup) /\ UNCHANGED kernelVars
  \/ EngineStep

Spec == Init /\ [][Next]_vars

(* An execution is one call, which runs. *)
FairSpec == Spec /\ WF_vars(EngineStep)
-----------------------------------------------------------------------------
TypeOK ==
  /\ \A h \in Created : kernels[h].arg_count \in 0 .. 4
  /\ \A b \in Blocks : heap[b].owner \in {"nobody", "engine", "caller"}
  /\ execution # None <=> gpu.pc # "idle"
  /\ gpu.ok \in BOOLEAN /\ gpu.served \in BOOLEAN
  /\ g_vk_ctx.device \in 0 .. attempts /\ g_vk_ctx.cached \in 0 .. attempts
  /\ \A o \in live : o.of \in 1 .. attempts

(* The arguments that are set to copies of scalars. *)
ScalarArgs ==
  {ha \in Created \X Args :
     kernels[ha[1]].args[ha[2]] # None /\ ~kernels[ha[1]].is_svm[ha[2]]}

(***************************************************************************)
(* However calls are mixed, an argument that is set refers to a live       *)
(* block, an SVM argument to one of the caller and a scalar to a copy that *)
(* no other argument has, and the engine owns no block besides: what is    *)
(* set again is freed once, and the caller's memory never.                 *)
(***************************************************************************)
ArgumentsAreOwned ==
  /\ \A h \in Created, i \in Args :
       LET b == kernels[h].args[i]
       IN  /\ b # None <=> i < kernels[h].arg_count
           /\ b # None => heap[b].owner = IF kernels[h].is_svm[i] THEN "caller"
                                                                 ELSE "engine"
  /\ Cardinality(Owned("engine")) = Cardinality(ScalarArgs)

LiveKinds == {o.kind : o \in live}

(***************************************************************************)
(* A call that has returned has given back what it took, at whatever step  *)
(* it failed: no buffer and no memory is left of a vector addition, no     *)
(* part of a pipeline that was not completed, and nothing but a loaded     *)
(* library of an initialisation that failed.                               *)
(***************************************************************************)
CallsUnwind ==
  gpu.pc = "idle" =>
    /\ LiveKinds \cap {"buffer", "memory"} = {}
    /\ ~g_vk_ctx.pipeline_ready => LiveKinds \cap PipelineKinds = {}
    /\ ~g_vk_ctx.initialized => LiveKinds \cap {"instance", "device", "command_pool"} = {}

(***************************************************************************)
(* Every handle passed to the driver belongs to a live object of a live    *)
(* device, but for the two ways in which the code does pass a dead one: it *)
(* was initialised again over a pipeline it still had cached, or the       *)
(* second vkEnumeratePhysicalDevices failed, unnoticed, at some attempt.   *)
(* In particular the physical_device that a failed attempt or a cleanup    *)
(* leaves in the context is picked anew before it is used.                 *)
(***************************************************************************)
HandlesAreLive == stale => restarted \/ mislisted

(***************************************************************************)
(* An execution with its arguments in place runs the kernel that was       *)
(* asked for, on at least the elements that its work size and n allow,     *)
(* whichever of the calls the code looks at failed on the GPU path and     *)
(* however often, and also when the descriptor pool is used up.            *)
(*                                                                         *)
(* Exempt are the executions for which the code has no such answer: where  *)
(* the result of one of the three vkMapMemory or of vkQueueWaitIdle, which *)
(* it ignores, was a failure, retryix_kernel_execute still says SUCCESS;   *)
(* kernels whose source names another one; and a program that has passed   *)
(* the driver a dead handle.                                               *)
(***************************************************************************)
ExecutionsCompute ==
  /\ last # None
  /\ last.runs /\ last.served /\ ~stale
  /\ last.program.mentions \subseteq {last.program.name}
  =>
    /\ last.kind = last.program.name
    /\ 1 .. Lesser(last.n, last.gws) \subseteq last.elements

(* Every execution returns. *)
ExecutionsEnd == execution # None ~> execution = None
=============================================================================
