----------------------------- MODULE HostBlocks -----------------------------
(***************************************************************************)
(* The blocks of memory that the small services hand to their callers: the *)
(* quick SVM allocations of core/retryix_api.c over svm/retryix_svm.c, the *)
(* counted ones of memory/retryix_memory_simple_new.c, and those of the    *)
(* zero-copy, topology, bridge and Android modules.                        *)
(*                                                                         *)
(* A block knows the heap it came from; whoever gives it back chooses a    *)
(* deallocator, from what it knows at that time.  Callers give back each   *)
(* block once, to the service that it came from.                           *)
(***************************************************************************)
EXTENDS Integers, FiniteSets

CONSTANTS
  Blocks,
  ClLevels,        \* SVM levels of the device: "none", or one with clSVMAlloc
  MaxAllocs        \* bound: retryix_mem_alloc calls

ASSUME BlocksAssumption ==
  IsFiniteSet(Blocks) /\ "no context" \notin ClLevels /\ MaxAllocs \in Nat

VARIABLES
  block,           \* of each block, its heap and who handed it out
  context,         \* the SVM contexts: of the API, and of the caller itself
  mem_stats,       \* g_mem_stats: the two counters that are compared
  topology,        \* g_topology_discovered
  damaged,         \* a block went to a deallocator of another heap
  regular          \* history: no block was other than its deallocator takes it to be

heapVars == <<block, context, mem_stats, topology, damaged, regular>>

Contexts == {"api", "own"}
Bridged == {"nvidia", "amd", "intel", "universal"}
Unused == [heap |-> "none", owner |-> "nobody"]
NoContext == [level |-> "no context", allocation_count |-> 0]
Live(owner) == {b \in Blocks : block[b].owner = owner}

HeapInit ==
  /\ block = [b \in Blocks |-> Unused]
  /\ context = [c \in Contexts |-> NoContext]
  /\ mem_stats = [alloc_count |-> 0, free_count |-> 0]
  /\ topology = FALSE
  /\ damaged = FALSE
  /\ regular = TRUE

Handed(b, heap, owner) ==
  /\ block[b] = Unused
  /\ block' = [block EXCEPT ![b] = [heap |-> heap, owner |-> owner]]
  /\ UNCHANGED <<topology, damaged>>

Returned(b, heap) ==
  /\ block' = [block EXCEPT ![b] = Unused]
  /\ damaged' = (damaged \/ block[b].heap # heap)
  /\ UNCHANGED topology

(* malloc and free on behalf of a service that keeps no account. *)
Malloc(b, owner) ==
  Handed(b, "malloc", owner) /\ UNCHANGED <<context, mem_stats, regular>>
Free(b, owners) ==
  /\ block[b].owner \in owners
  /\ Returned(b, "malloc") /\ UNCHANGED <<context, mem_stats, regular>>
-----------------------------------------------------------------------------
(* SVM contexts. *)

Settled(c) == regular' = (regular /\ Live(c) = {})

(* Not created where the device tells no capabilities. *)
retryix_svm_create_context(c, level) ==
  /\ context[c] = NoContext
  /\ context' = [context EXCEPT ![c].level = level]
  /\ Settled(c)
  /\ UNCHANGED <<block, mem_stats, topology, damaged>>

retryix_svm_destroy_context ==
  /\ context["own"] # NoContext
  /\ context' = [context EXCEPT !["own"] = NoContext]
  /\ Settled("own")
  /\ UNCHANGED <<block, mem_stats, topology, damaged>>

(* The API forgets its context, and does not free it. *)
retryix_api_cleanup ==
  /\ context' = [context EXCEPT !["api"] = NoContext]
  /\ Settled("api")
  /\ UNCHANGED <<block, mem_stats, topology, damaged>>

Grain(c) == context[c].level \notin {"no context", "none"}

(* clSVMAlloc, or malloc where there is none or it fails. *)
retryix_svm_alloc(c, b, cl) ==
  /\ context[c] # NoContext
  /\ Handed(b, IF Grain(c) /\ cl THEN "cl" ELSE "malloc", c)
  /\ context' = [context EXCEPT ![c].allocation_count = @ + 1]
  /\ regular' = (regular /\ (Grain(c) => cl))
  /\ UNCHANGED <<mem_stats>>

(* Which deallocator follows from the context alone; the count stops at zero. *)
(* Fault: every block of a context goes to free, also those of OpenCL. *)
Deallocator_Host(c) == "malloc"
Deallocator(c) == IF Grain(c) THEN "cl" ELSE "malloc"

retryix_svm_free(c, b) ==
  /\ context[c] # NoContext
  /\ block[b].owner = c
  /\ Returned(b, Deallocator(c))
  /\ context' = [context EXCEPT ![c].allocation_count = IF @ > 0 THEN @ - 1 ELSE 0]
  /\ UNCHANGED <<mem_stats, regular>>

(* Without a context, or when it gave nothing, the block is malloc's. *)
retryix_quick_svm_alloc(b) ==
  \/ \E cl \in BOOLEAN : retryix_svm_alloc("api", b, cl)
  \/ /\ Handed(b, "malloc", "api")
     /\ regular' = (regular /\ context["api"] = NoContext)
     /\ UNCHANGED <<context, mem_stats>>

retryix_quick_svm_free(b) ==
  \/ retryix_svm_free("api", b)
  \/ context["api"] = NoContext /\ Free(b, {"api"})
-----------------------------------------------------------------------------
(* Counted blocks. *)

retryix_mem_alloc(b) ==
  /\ mem_stats.alloc_count < MaxAllocs
  /\ Handed(b, "malloc", "counted")
  /\ mem_stats' = [mem_stats EXCEPT !.alloc_count = @ + 1]
  /\ UNCHANGED <<context, regular>>

retryix_mem_free(b) ==
  /\ block[b].owner = "counted"
  /\ Returned(b, "malloc")
  /\ mem_stats' = [mem_stats EXCEPT !.free_count = @ + 1]
  /\ UNCHANGED <<context, regular>>

(* What these report, from the counters alone, is a leak. *)
retryix_memory_validate == mem_stats.alloc_count = mem_stats.free_count
-----------------------------------------------------------------------------
(* Zero-copy networking. *)

(* A transfer's handle lives until it is waited for, once. *)
retryix_zerocopy_dma_transfer_async(b) == Malloc(b, "transfer")
retryix_zerocopy_dma_wait(b) == Free(b, {"transfer"})
retryix_zerocopy_create_net_buffer(b) == Malloc(b, "net buffer")
retryix_zerocopy_destroy_net_buffer(b) == Free(b, {"net buffer"})

(* There is nothing to give a distributed block back to. *)
retryix_zerocopy_create_distributed_svm(b) == Malloc(b, "distributed")

ZeroCopy(b) ==
  \/ retryix_zerocopy_dma_transfer_async(b) \/ retryix_zerocopy_dma_wait(b)
  \/ retryix_zerocopy_create_net_buffer(b) \/ retryix_zerocopy_destroy_net_buffer(b)
  \/ retryix_zerocopy_create_distributed_svm(b)
-----------------------------------------------------------------------------
(* Topology. *)

retryix_svm_discover_topology ==
  /\ ~topology
  /\ topology' = TRUE
  /\ UNCHANGED <<block, context, mem_stats, damaged, regular>>

(* Under five names, of which the other four call the first. *)
topology_svm_alloc(b) == topology /\ Malloc(b, "topology")

(* Of the aligned heap, which topology_svm_free does not tell from the other. *)
retryix_svm_alloc_aligned(b) ==
  topology /\ Handed(b, "aligned", "aligned") /\ UNCHANGED <<context, mem_stats, regular>>

topology_svm_free(b) ==
  /\ block[b].owner \in {"topology", "aligned"}
  /\ Returned(b, "malloc")
  /\ regular' = (regular /\ block[b].owner = "topology")
  /\ UNCHANGED <<context, mem_stats>>

topology_create_context(b) == Malloc(b, "topology context")
topology_destroy_context(b) == Free(b, {"topology context"})
retryix_svm_create_memory_domain(b) ==
  Live("topology context") # {} /\ Malloc(b, "domain")
retryix_svm_destroy_memory_domain(b) == Free(b, {"domain"})

Topology(b) ==
  \/ topology_svm_alloc(b) \/ topology_svm_free(b) \/ retryix_svm_alloc_aligned(b)
  \/ topology_create_context(b) \/ topology_destroy_context(b)
  \/ retryix_svm_create_memory_domain(b) \/ retryix_svm_destroy_memory_domain(b)
-----------------------------------------------------------------------------
(* Bridges: the vendor only chooses the message; any of them frees for all. *)

bridge_alloc_unified(b, vendor) == Malloc(b, vendor)
retryix_unified_coordinate_allocation(b) == \E v \in Bridged : bridge_alloc_unified(b, v)
bridge_free_unified(b) == Free(b, Bridged)

(* ION or not, Android's blocks are malloc's. *)
retryix_android_svm_alloc(b) == Malloc(b, "android")
retryix_android_svm_free(b) == Free(b, {"android"})

HeapNext ==
  \/ \E c \in Contexts, level \in ClLevels : retryix_svm_create_context(c, level)
  \/ retryix_svm_destroy_context \/ retryix_api_cleanup
  \/ retryix_svm_discover_topology
  \/ \E b \in Blocks :
       \/ \E cl \in BOOLEAN : retryix_svm_alloc("own", b, cl)
       \/ retryix_svm_free("own", b)
       \/ retryix_quick_svm_alloc(b) \/ retryix_quick_svm_free(b)
       \/ retryix_mem_alloc(b) \/ retryix_mem_free(b)
       \/ ZeroCopy(b) \/ Topology(b)
       \/ retryix_unified_coordinate_allocation(b) \/ bridge_free_unified(b)
       \/ retryix_android_svm_alloc(b) \/ retryix_android_svm_free(b)

HeapSpec == HeapInit /\ [][HeapNext]_heapVars

HeapTypeOK ==
  /\ \A b \in Blocks : block[b].heap \in {"none", "malloc", "cl", "aligned"}
  /\ \A c \in Contexts : context[c].level \in {"no context"} \cup ClLevels
  /\ \A c \in Contexts : context[c].allocation_count \in 0 .. Cardinality(Blocks)
  /\ mem_stats.alloc_count \in 0 .. MaxAllocs
  /\ topology \in BOOLEAN

(* While no SVM allocation had to fall back to malloc and no context came or  *)
(* went under live blocks, and no aligned block was given to the plain free,  *)
(* every block goes back to the heap it came from,                            *)
(* although only the context chooses the deallocator, and a context counts    *)
(* its live blocks.  The counters of the simple manager differ by the blocks  *)
(* that are live, so it reports a leak exactly when there is one.             *)
HeapConsistent ==
  /\ regular => /\ ~damaged
                /\ \A c \in Contexts : context[c] # NoContext =>
                     context[c].allocation_count = Cardinality(Live(c))
  /\ mem_stats.alloc_count - mem_stats.free_count = Cardinality(Live("counted"))
  /\ retryix_memory_validate <=> Live("counted") = {}
=============================================================================
