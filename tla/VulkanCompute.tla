---------------------------- MODULE VulkanCompute ----------------------------
(***************************************************************************)
(* The Vulkan engine of src/kernel/retryix_kernel_vulkan_compute.c, as one *)
(* thread drives it: a context that is created on demand, a pipeline that  *)
(* is built once and cached, and a vector addition that creates its        *)
(* buffers for each call.  Every call to the driver may fail, and the code *)
(* has to give back what it has by then.                                   *)
(*                                                                         *)
(* The driver is modelled by the objects that live.  An object carries the *)
(* number of the attempt at initialisation it was made in, which names its *)
(* instance and its device.  malloc is taken to succeed, and so are the    *)
(* look-ups of functions that the code does not test.                      *)
(***************************************************************************)
EXTENDS Integers, FiniteSetsExt, Sequences

CONSTANTS
  MaxSets,       \* maxSets of the descriptor pool: 100 in the code
  MaxAttempts,   \* bound: attempts to create an instance
  MaxCommands    \* bound: command buffers the driver hands out

VARIABLES
  machine,       \* [gpu, host_visible]: what the machine has; never changes
  g_vk_ctx,      \* without its physical_device
  physical_device, \* whether that field of g_vk_ctx is set; it is never reset
  live,          \* the driver's objects
  attempts,      \* attempts at initialisation so far
  stale,         \* a handle of a dead object was passed to the driver
  restarted,     \* the engine was initialised after a cleanup
  mislisted,     \* the listing of devices failed, which nobody looked at
  gpu            \* the call in progress: [pc, ok, set, served]

(* What only an attempt at initialisation changes. *)
attemptVars == <<machine, attempts, restarted, mislisted, physical_device>>

vkVars == <<attemptVars, g_vk_ctx, live, stale, gpu>>

Object(kind, no) == [kind |-> kind, of |-> attempts, no |-> no]

Objects(kinds) == {Object(k, 0) : k \in kinds}

Cached(kind) == [kind |-> kind, of |-> g_vk_ctx.cached, no |-> 0]

Own(kind) == [kind |-> kind, of |-> g_vk_ctx.device, no |-> 0]

(* Handles may be passed while they, their device and their instance live. *)
Usable(handles) ==
  \A h \in handles :
    /\ h \in live
    /\ \A k \in {"instance", "device"} : [kind |-> k, of |-> h.of, no |-> 0] \in live

(* Command buffers that the pool holds; they go when it does. *)
Commands == {o \in live : o.kind = "command" /\ o.of = g_vk_ctx.device}

Pass(handles) == stale' = (stale \/ ~Usable(handles))

VkInit ==
  /\ machine \in [gpu : {"none", "no_queue", "compute"}, host_visible : BOOLEAN]
  /\ g_vk_ctx = [initialized |-> FALSE, device |-> 0,
                 pipeline_ready |-> FALSE, cached |-> 0]
  /\ live = {}
  /\ attempts = 0
  /\ stale = FALSE
  /\ restarted = FALSE
  /\ mislisted = FALSE
  /\ physical_device = FALSE
  /\ gpu = [pc |-> "idle", ok |-> FALSE, set |-> 0, served |-> TRUE]
-----------------------------------------------------------------------------
InitOrder == <<"library", "functions", "instance", "devices", "gpu", "device",
               "command_pool">>

PipelineOrder == <<"spv", "shader", "dsl", "layout", "pipeline", "dpool">>

ContextKinds == {"library", "instance", "device", "command_pool"}

PipelineKinds == {"shader", "dsl", "layout", "pipeline", "dpool"}

(* The steps that were done when step failed could not be, or all. *)
DoneBefore(order, failed) ==
  {order[i] : i \in {j \in DOMAIN order : \A k \in 1 .. j : order[k] # failed}}

(* What init destroys on its way out; the library stays loaded. *)
InitUndoes(failed) ==
  CASE failed = "functions"                  -> {"library"}
    [] failed \in {"devices", "gpu", "device"} -> {"instance"}
    [] failed = "command_pool"               -> {"instance", "device"}
    [] OTHER                                 -> {}

(* What may be picked from a listing: whether a GPU is. *)
MayPick(listing) ==
  CASE listing = "devices" -> {machine.gpu # "none"}
    [] listing = "nothing" -> {FALSE}
    [] listing = "junk"    -> BOOLEAN

(***************************************************************************)
(* The second vkEnumeratePhysicalDevices fills the list of devices.  Its   *)
(* result is not looked at: after a failure the list may be empty, or junk *)
(* that is passed on to the driver and from which anything may be picked.  *)
(* Where nothing is picked the field keeps what it had: a device of an     *)
(* instance that an earlier attempt or a cleanup has destroyed, and what   *)
(* the driver says of that one may be anything.                            *)
(***************************************************************************)
SelectGpu(failed) ==
  \E listing \in {"devices", "nothing", "junk"} : \E picked \in MayPick(listing) :
    /\ ~picked /\ ~physical_device => failed = "gpu"
    /\ picked /\ listing = "devices" => (failed = "gpu" <=> machine.gpu = "no_queue")
    /\ physical_device' = (physical_device \/ picked)
    /\ mislisted' = (mislisted \/ listing # "devices")
    /\ stale' = (stale \/ listing = "junk" \/ (physical_device /\ ~picked))

(***************************************************************************)
(* retryix_vulkan_compute_init.  Any step may fail at any time.            *)
(***************************************************************************)
ComputeInit(failed) ==
  /\ ~g_vk_ctx.initialized
  /\ attempts < MaxAttempts
  /\ attempts' = attempts + 1
  /\ IF failed \in {"gpu", "device", "command_pool", "none"}
     THEN SelectGpu(failed)
     ELSE UNCHANGED <<stale, mislisted, physical_device>>
  /\ LET kinds == (DoneBefore(InitOrder, failed) \cap ContextKinds) \ InitUndoes(failed)
     IN  live' = live \cup {[kind |-> k, of |-> attempts', no |-> 0] : k \in kinds}
  /\ g_vk_ctx' = [g_vk_ctx EXCEPT
                    !.initialized = (failed = "none"),
                    !.device = IF failed \in {"command_pool", "none"} THEN attempts' ELSE @]
  /\ restarted' = (restarted \/ g_vk_ctx.pipeline_ready)
  /\ UNCHANGED machine

(* An init that a program asks for before it uses the engine. *)
retryix_vulkan_compute_init ==
  /\ gpu.pc = "idle"
  /\ \E failed \in {InitOrder[i] : i \in DOMAIN InitOrder} \cup {"none"} : ComputeInit(failed)
  /\ UNCHANGED gpu

(***************************************************************************)
(* Cleanup forgets the pipeline: neither are its objects destroyed nor is  *)
(* pipeline_ready reset.                                                   *)
(***************************************************************************)
retryix_vulkan_compute_cleanup ==
  /\ gpu.pc = "idle"
  /\ g_vk_ctx.initialized
  /\ Pass({Own("command_pool")})
  /\ live' = live \ ({Own(k) : k \in ContextKinds} \cup Commands)
  /\ g_vk_ctx' = [g_vk_ctx EXCEPT !.initialized = FALSE]
  /\ UNCHANGED <<attemptVars, gpu>>
-----------------------------------------------------------------------------
(* retryix_vulkan_vector_add is called. *)
VectorAdd ==
  /\ gpu.pc = "idle"
  /\ gpu' = [pc |-> IF ~g_vk_ctx.initialized THEN "init"
                    ELSE IF g_vk_ctx.pipeline_ready THEN "set" ELSE "pipeline",
             ok |-> FALSE, set |-> 0, served |-> TRUE]
  /\ UNCHANGED <<attemptVars, g_vk_ctx, live, stale>>

GiveUp == gpu' = [gpu EXCEPT !.pc = "return"]

InitOnDemand ==
  /\ gpu.pc = "init"
  /\ \E failed \in {InitOrder[i] : i \in DOMAIN InitOrder} \cup {"none"} :
       /\ ComputeInit(failed)
       /\ gpu' = [gpu EXCEPT !.pc = IF failed # "none" THEN "return"
                                    ELSE IF g_vk_ctx.pipeline_ready THEN "set"
                                    ELSE "pipeline"]

(* The bound on attempts, as a machine on which no more succeed. *)
InitExhausted ==
  /\ gpu.pc = "init"
  /\ attempts = MaxAttempts
  /\ GiveUp
  /\ UNCHANGED <<attemptVars, g_vk_ctx, live, stale>>

(* What ensure_pipeline_ready has created when it returns: all or nothing. *)
PipelineLeft(failed) == IF failed = "none" THEN PipelineKinds ELSE {}

(* Fault: the pipeline is marked as ready before it is. *)
EnsurePipelineReady_Early ==
  /\ gpu.pc = "pipeline"
  /\ \E failed \in {PipelineOrder[i] : i \in DOMAIN PipelineOrder} \cup {"none"} :
       /\ live' = live \cup Objects(PipelineLeft(failed))
       /\ g_vk_ctx' = [g_vk_ctx EXCEPT !.pipeline_ready = TRUE, !.cached = attempts]
       /\ gpu' = [gpu EXCEPT !.pc = IF failed = "none" THEN "set" ELSE "return"]
  /\ Pass({Own("device")})
  /\ UNCHANGED attemptVars

(* ensure_pipeline_ready.  A call that got here has just the device of the
   last attempt. *)
EnsurePipelineReady ==
  /\ gpu.pc = "pipeline"
  /\ \E failed \in {PipelineOrder[i] : i \in DOMAIN PipelineOrder} \cup {"none"} :
       /\ live' = live \cup Objects(PipelineLeft(failed))
       /\ g_vk_ctx' = IF failed = "none"
                      THEN [g_vk_ctx EXCEPT !.pipeline_ready = TRUE, !.cached = attempts]
                      ELSE g_vk_ctx
       /\ gpu' = [gpu EXCEPT !.pc = IF failed = "none" THEN "set" ELSE "return"]
  /\ Pass({Own("device")})
  /\ UNCHANGED attemptVars

Sets == {o \in live : o.kind = "set" /\ o.of = g_vk_ctx.cached}

(* Fault: where the pool is used up, the call tries again. *)
AllocateDescriptorSet_Retry ==
  /\ gpu.pc = "set"
  /\ Pass({Own("device"), Cached("dpool"), Cached("dsl")})
  /\ \/ /\ Cardinality(Sets) < MaxSets
        /\ LET no == CHOOSE i \in 1 .. MaxSets : \A s \in Sets : s.no # i
           IN  /\ live' = live \cup {[kind |-> "set", of |-> g_vk_ctx.cached, no |-> no]}
               /\ gpu' = [gpu EXCEPT !.pc = "buffers", !.set = no]
     \/ UNCHANGED <<gpu, live>>
  /\ UNCHANGED <<attemptVars, g_vk_ctx>>

(* A descriptor set from the cached pool, which has room for MaxSets. *)
AllocateDescriptorSet ==
  /\ gpu.pc = "set"
  /\ Pass({Own("device"), Cached("dpool"), Cached("dsl")})
  /\ \/ /\ Cardinality(Sets) < MaxSets
        /\ LET no == CHOOSE i \in 1 .. MaxSets : \A s \in Sets : s.no # i
           IN  /\ live' = live \cup {[kind |-> "set", of |-> g_vk_ctx.cached, no |-> no]}
               /\ gpu' = [gpu EXCEPT !.pc = "buffers", !.set = no]
     \/ GiveUp /\ UNCHANGED live
  /\ UNCHANGED <<attemptVars, g_vk_ctx>>

Parts(kind, I) == {[kind |-> kind, of |-> g_vk_ctx.device, no |-> i] : i \in I}

(* Fault: the allocation that fails leaves its own buffer behind. *)
BuffersUndone_Own(i, failed) ==
  LET below == 1 .. i - 1
  IN  CASE failed \in {"buffer", "memory"} -> Parts("buffer", below) \cup Parts("memory", below)
        [] failed = "type"   -> Parts("buffer", 1 .. i)
        [] failed = "bind"   -> Parts("buffer", 1 .. i) \cup Parts("memory", 1 .. i)

(***************************************************************************)
(* What the loop destroys when a step of buffer i fails.  Where no memory  *)
(* type fits, it destroys the buffers only.                                *)
(***************************************************************************)
BuffersUndone(i, failed) ==
  LET below == 1 .. i - 1
  IN  CASE failed = "buffer" -> Parts("buffer", below) \cup Parts("memory", below)
        [] failed = "type"   -> Parts("buffer", 1 .. i)
        [] failed = "memory" -> Parts("buffer", 1 .. i) \cup Parts("memory", below)
        [] failed = "bind"   -> Parts("buffer", 1 .. i) \cup Parts("memory", 1 .. i)

BuffersMade(i, failed) ==
  Parts("buffer", 1 .. IF failed = "buffer" THEN i - 1 ELSE i)
    \cup Parts("memory", 1 .. IF failed = "bind" THEN i ELSE i - 1)

(***************************************************************************)
(* The loop that creates, backs and binds the three buffers.  They are     *)
(* alike, so the driver names the same memory types for each of them.  No  *)
(* failure gives the descriptor set back.                                  *)
(***************************************************************************)
CreateBuffers ==
  /\ gpu.pc = "buffers"
  /\ Pass({Own("device")})
  /\ \/ /\ machine.host_visible
        /\ live' = live \cup Parts("buffer", 1 .. 3) \cup Parts("memory", 1 .. 3)
        /\ gpu' = [gpu EXCEPT !.pc = "commands"]
     \/ \E i \in 1 .. 3, failed \in {"buffer", "type", "memory", "bind"} :
          /\ failed = "type" => ~machine.host_visible
          /\ i > 1 \/ failed \in {"memory", "bind"} => machine.host_visible
          /\ live' = live \cup (BuffersMade(i, failed) \ BuffersUndone(i, failed))
          /\ GiveUp
  /\ UNCHANGED <<attemptVars, g_vk_ctx>>

(***************************************************************************)
(* From the upload to the download.  The steps that fail jump to the end   *)
(* of the function, where buffers, memory and descriptor set are given     *)
(* back; the command buffer stays in its pool.                             *)
(*                                                                         *)
(* The results of vkQueueWaitIdle and of the three vkMapMemory are not     *)
(* looked at.  After a map that failed the code copies through the pointer *)
(* of an earlier map, or through none it ever set: the call goes on, if    *)
(* the copy does not end the process, but what it computes from or hands   *)
(* back is not what it should be.                                          *)
(***************************************************************************)
RunCommands ==
  /\ gpu.pc = "commands"
  /\ Pass({Own("device"), Own("command_pool"), Cached("pipeline"), Cached("layout"),
           [kind |-> "set", of |-> g_vk_ctx.cached, no |-> gpu.set]})
  /\ \E failed \in {"command", "begin", "end", "submit", "none"},
        uploaded \in BOOLEAN, waited \in BOOLEAN, downloaded \in BOOLEAN :
       /\ failed # "command" => Cardinality(Commands) < MaxCommands
       /\ live' = (live \cup (IF failed = "command" THEN {}
                              ELSE Parts("command", {Cardinality(Commands) + 1})))
                    \ (Parts("buffer", 1 .. 3) \cup Parts("memory", 1 .. 3)
                         \cup {[kind |-> "set", of |-> g_vk_ctx.cached, no |-> gpu.set]})
       /\ gpu' = [pc |-> "return", ok |-> failed = "none", set |-> 0,
                  served |-> uploaded /\ (failed = "none" => waited /\ downloaded)]
  /\ UNCHANGED <<attemptVars, g_vk_ctx>>

VulkanStep ==
  \/ InitOnDemand \/ InitExhausted \/ EnsurePipelineReady
  \/ AllocateDescriptorSet \/ CreateBuffers \/ RunCommands
=============================================================================
