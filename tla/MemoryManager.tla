--------------------------- MODULE MemoryManager ---------------------------
(***************************************************************************)
(* The memory manager of src/memory/retryix_memory.c: a growing array of   *)
(* descriptors, each of which owns a host block and an OpenCL buffer.      *)
(*                                                                         *)
(* The host heap and the OpenCL runtime are modelled by what the manager   *)
(* can ask of them: which blocks and buffers are live, and how often each  *)
(* buffer is mapped.  Both may refuse any request, and reuse addresses.    *)
(***************************************************************************)
EXTENDS Integers, FiniteSets, Sequences, Sums

CONSTANTS
  Addrs,                 \* addresses of host blocks
  Buffers,               \* handles of OpenCL buffers
  Sizes,                 \* sizes that callers ask for
  SIZE_WIDTH,            \* size_t wraps here
  BASE_ALIGNMENT,        \* base_alignment, as the device reports it
  PREFERRED_ALIGNMENT,
  INITIAL_CAPACITY,      \* descriptor_capacity after init: 128 in the code
  NoContext,             \* g_memory_context is NULL
  Lost,                  \* ctx->descriptors is NULL after a failed realloc
  MaxAllocs,             \* bound: allocations in the life of a context
  MaxTransfers           \* bound: transfers in the life of a context

ASSUME SizeAssumption ==
  /\ SIZE_WIDTH \in Nat \ {0} /\ INITIAL_CAPACITY \in Nat \ {0}
  /\ Sizes \subseteq 1 .. SIZE_WIDTH - 1
  /\ BASE_ALIGNMENT \in Nat \ {0} /\ PREFERRED_ALIGNMENT \in Nat \ {0}
  /\ SIZE_WIDTH % BASE_ALIGNMENT = 0 /\ SIZE_WIDTH % PREFERRED_ALIGNMENT = 0

Descriptors ==
  [host_ptr : Addrs, device_mem : Buffers, size : Nat, asked : Nat,
   zero_copy : BOOLEAN, is_mapped : BOOLEAN, ref_count : {1}]

Contexts ==
  [descriptors : Seq(Descriptors) \cup {Lost}, capacity : Nat,
   total_allocated : Int, host_allocated : Int, peak_allocated : Int,
   alloc_count : Nat, free_count : Nat, transfer_count : Nat]

ASSUME NullAssumption == NoContext \notin Contexts /\ Lost \notin Seq(Descriptors)

VARIABLES
  g_memory_context,   \* NoContext, or a record of the fields of the struct
  heap,               \* live host blocks
  buffers,            \* live OpenCL buffers
  mappings,           \* how many times the runtime has each buffer mapped
  cleaning,           \* retryix_memory_cleanup is in its loop
  crashed             \* the process went through a null array

vars == <<g_memory_context, heap, buffers, mappings, cleaning, crashed>>

ctx == g_memory_context

EmptyContext ==
  [descriptors     |-> <<>>,
   capacity        |-> INITIAL_CAPACITY,
   total_allocated |-> 0,
   host_allocated  |-> 0,
   peak_allocated  |-> 0,
   alloc_count     |-> 0,
   free_count      |-> 0,
   transfer_count  |-> 0]

Init ==
  /\ g_memory_context = NoContext
  /\ heap = {}
  /\ buffers = {}
  /\ mappings = [b \in Buffers |-> 0]
  /\ cleaning = FALSE
  /\ crashed = FALSE

(* The API calls below are made on a manager that is initialised. *)
Usable ==
  /\ ctx # NoContext
  /\ ctx.descriptors # Lost
  /\ ~cleaning
  /\ ~crashed

memory_init ==
  /\ g_memory_context = NoContext
  /\ ~crashed
  /\ g_memory_context' = EmptyContext
  /\ UNCHANGED <<heap, buffers, mappings, cleaning, crashed>>
-----------------------------------------------------------------------------
(* Fault: rounds to the alignment below. *)
aligned_size_Down(size, zero_copy) ==
  LET alignment == IF zero_copy THEN PREFERRED_ALIGNMENT ELSE BASE_ALIGNMENT
  IN  size - (size % alignment)

(* (size + alignment - 1) & ~(alignment - 1), in size_t. *)
aligned_size(size, zero_copy) ==
  LET alignment == IF zero_copy THEN PREFERRED_ALIGNMENT ELSE BASE_ALIGNMENT
      sum       == (size + alignment - 1) % SIZE_WIDTH
  IN  sum - (sum % alignment)

Descriptor(p, b, size, asked, zero_copy) ==
  [host_ptr |-> p, device_mem |-> b, size |-> size, asked |-> asked,
   zero_copy |-> zero_copy, is_mapped |-> FALSE, ref_count |-> 1]

Full == Len(ctx.descriptors) >= ctx.capacity

(***************************************************************************)
(* An allocation that gets its block and its buffer.  One that does not    *)
(* gives back what it got and changes nothing: clCreateBuffer refuses a    *)
(* size of 0, which a size that wraps is rounded to.                       *)
(***************************************************************************)
memory_alloc(size, zero_copy) ==
  /\ Usable
  /\ ctx.alloc_count < MaxAllocs
  /\ aligned_size(size, zero_copy) # 0
  /\ \E p \in Addrs \ heap, b \in Buffers \ buffers :
       LET granted == aligned_size(size, zero_copy)
           total   == ctx.total_allocated + granted
       IN  /\ mappings[b] = 0
           /\ heap' = heap \cup {p}
           /\ buffers' = buffers \cup {b}
           /\ g_memory_context' =
                [ctx EXCEPT
                   !.descriptors = Append(@, Descriptor(p, b, granted, size, zero_copy)),
                   !.capacity = IF Full THEN 2 * @ ELSE @,
                   !.total_allocated = total,
                   !.host_allocated = @ + granted,
                   !.peak_allocated = IF total > @ THEN total ELSE @,
                   !.alloc_count = @ + 1]
  /\ UNCHANGED <<mappings, cleaning, crashed>>

(***************************************************************************)
(* An allocation for which the array has to grow, and cannot.  The block   *)
(* and the buffer are given back, but the array pointer is overwritten.    *)
(***************************************************************************)
memory_alloc_realloc_fails ==
  /\ Usable
  /\ Full
  /\ g_memory_context' = [ctx EXCEPT !.descriptors = Lost, !.capacity = 2 * @]
  /\ UNCHANGED <<heap, buffers, mappings, cleaning, crashed>>

(* Whatever the manager is asked then goes through the null array. *)
UseLostArray ==
  /\ ctx # NoContext
  /\ ctx.descriptors = Lost
  /\ ~crashed
  /\ crashed' = TRUE
  /\ UNCHANGED <<g_memory_context, heap, buffers, mappings, cleaning>>
-----------------------------------------------------------------------------
Indices == DOMAIN ctx.descriptors

(* find_memory_descriptor: the first that matches. *)
Finds(p, i) ==
  /\ ctx.descriptors[i].host_ptr = p
  /\ \A j \in 1 .. i - 1 : ctx.descriptors[j].host_ptr # p

(* Fault: the last entry is dropped instead of moved into the gap. *)
Removed_Last(i) ==
  SubSeq(ctx.descriptors, 1, Len(ctx.descriptors) - 1)

(* The last entry is moved into the gap. *)
Removed(i) ==
  LET n == Len(ctx.descriptors)
  IN  SubSeq([ctx.descriptors EXCEPT ![i] = ctx.descriptors[n]], 1, n - 1)

(* Fault: the entry stays in the array. *)
Release_Keep(i) ==
  LET d == ctx.descriptors[i]
  IN  /\ heap' = heap \ {d.host_ptr}
      /\ buffers' = buffers \ {d.device_mem}
      /\ g_memory_context' =
           [ctx EXCEPT !.total_allocated = @ - d.size,
                       !.host_allocated = @ - d.size,
                       !.free_count = @ + 1]

(* Fault: a mapping that cannot be undone makes free give up. *)
Release_Busy(i) ==
  LET d == ctx.descriptors[i]
  IN  /\ ~d.is_mapped
      /\ heap' = heap \ {d.host_ptr}
      /\ buffers' = buffers \ {d.device_mem}
      /\ g_memory_context' =
           [ctx EXCEPT !.total_allocated = @ - d.size,
                       !.host_allocated = @ - d.size,
                       !.free_count = @ + 1,
                       !.descriptors = Removed(i)]

(***************************************************************************)
(* What free does to the descriptor it finds.  The reference count is 1    *)
(* and nothing raises it.  A mapped buffer is passed to unmap, but with no *)
(* queue, which unmap refuses: the mapping stays.                          *)
(***************************************************************************)
Release(i) ==
  LET d == ctx.descriptors[i]
  IN  /\ d.ref_count = 1
      /\ heap' = heap \ {d.host_ptr}
      /\ buffers' = buffers \ {d.device_mem}
      /\ g_memory_context' =
           [ctx EXCEPT !.total_allocated = @ - d.size,
                       !.host_allocated = @ - d.size,
                       !.free_count = @ + 1,
                       !.descriptors = Removed(i)]

memory_free(p) ==
  /\ Usable
  /\ \E i \in Indices : Finds(p, i) /\ Release(i)
  /\ UNCHANGED <<mappings, cleaning, crashed>>

(* Fault: a buffer that is mapped is mapped once more. *)
memory_map_Again(p) ==
  /\ Usable
  /\ \E i \in Indices :
       /\ Finds(p, i)
       /\ mappings[ctx.descriptors[i].device_mem] < 2
       /\ mappings' = [mappings EXCEPT ![ctx.descriptors[i].device_mem] = @ + 1]
       /\ g_memory_context' = [ctx EXCEPT !.descriptors[i].is_mapped = TRUE]
  /\ UNCHANGED <<heap, buffers, cleaning, crashed>>

memory_map(p) ==
  /\ Usable
  /\ \E i \in Indices :
       /\ Finds(p, i)
       /\ ~ctx.descriptors[i].is_mapped
       /\ mappings' = [mappings EXCEPT ![ctx.descriptors[i].device_mem] = @ + 1]
       /\ g_memory_context' = [ctx EXCEPT !.descriptors[i].is_mapped = TRUE]
  /\ UNCHANGED <<heap, buffers, cleaning, crashed>>

(* Fault: the runtime is called for buffers that are not mapped. *)
memory_unmap_Unchecked(p) ==
  /\ Usable
  /\ \E i \in Indices :
       /\ Finds(p, i)
       /\ mappings' = [mappings EXCEPT ![ctx.descriptors[i].device_mem] = @ - 1]
       /\ g_memory_context' = [ctx EXCEPT !.descriptors[i].is_mapped = FALSE]
  /\ UNCHANGED <<heap, buffers, cleaning, crashed>>

memory_unmap(p) ==
  /\ Usable
  /\ \E i \in Indices :
       /\ Finds(p, i)
       /\ ctx.descriptors[i].is_mapped
       /\ mappings' = [mappings EXCEPT ![ctx.descriptors[i].device_mem] = @ - 1]
       /\ g_memory_context' = [ctx EXCEPT !.descriptors[i].is_mapped = FALSE]
  /\ UNCHANGED <<heap, buffers, cleaning, crashed>>

(* copy_to_device and copy_from_device: zero-copy memory needs no transfer. *)
memory_copy(p) ==
  /\ Usable
  /\ ctx.transfer_count < MaxTransfers
  /\ \E i \in Indices : Finds(p, i) /\ ~ctx.descriptors[i].zero_copy
  /\ g_memory_context' = [ctx EXCEPT !.transfer_count = @ + 1]
  /\ UNCHANGED <<heap, buffers, mappings, cleaning, crashed>>

(***************************************************************************)
(* Cleanup frees the first descriptor until none is left, then the array.  *)
(***************************************************************************)
memory_cleanup ==
  /\ Usable
  /\ cleaning' = TRUE
  /\ UNCHANGED <<g_memory_context, heap, buffers, mappings, crashed>>

CleanupFree ==
  /\ cleaning
  /\ Len(ctx.descriptors) > 0
  /\ \E i \in Indices : Finds(ctx.descriptors[1].host_ptr, i) /\ Release(i)
  /\ UNCHANGED <<mappings, cleaning, crashed>>

CleanupDone ==
  /\ cleaning
  /\ ctx.descriptors = <<>>
  /\ g_memory_context' = NoContext
  /\ cleaning' = FALSE
  /\ UNCHANGED <<heap, buffers, mappings, crashed>>

CleanupStep == CleanupFree \/ CleanupDone

Next ==
  \/ memory_init
  \/ \E size \in Sizes, zero_copy \in BOOLEAN : memory_alloc(size, zero_copy)
  \/ memory_alloc_realloc_fails
  \/ UseLostArray
  \/ \E p \in Addrs : \/ memory_free(p) \/ memory_map(p)
                      \/ memory_unmap(p) \/ memory_copy(p)
  \/ memory_cleanup
  \/ CleanupStep

Spec == Init /\ [][Next]_vars

(* cleanup is a loop of one call: once entered, it runs. *)
FairSpec == Spec /\ WF_vars(CleanupStep)
-----------------------------------------------------------------------------
TypeOK ==
  /\ heap \subseteq Addrs
  /\ buffers \subseteq Buffers
  /\ mappings \in [Buffers -> Nat]
  /\ cleaning \in BOOLEAN
  /\ crashed \in BOOLEAN
  /\ \/ ctx = NoContext
     \/ /\ ctx.descriptors = Lost \/ ctx.descriptors \in Seq(Descriptors)
        /\ ctx.capacity \in Nat
        /\ ctx.total_allocated \in Nat
        /\ ctx.host_allocated \in Nat
        /\ ctx.peak_allocated \in Nat
        /\ ctx.alloc_count \in Nat
        /\ ctx.free_count \in Nat
        /\ ctx.transfer_count \in Nat

HasArray == ctx # NoContext /\ ctx.descriptors # Lost

SizesOf(s) == [i \in 1 .. Len(s) |-> s[i].size]
SumOfSizes(s) == SeqSum(SizesOf(s))

(***************************************************************************)
(* The counters describe the blocks that exist: the byte counts are those  *)
(* of the live descriptors, allocations minus frees is their number, the   *)
(* peak is at least the total, and the array holds them all.               *)
(***************************************************************************)
Accounting ==
  HasArray =>
    /\ ctx.total_allocated = SumOfSizes(ctx.descriptors)
    /\ ctx.host_allocated = ctx.total_allocated
    /\ ctx.alloc_count - ctx.free_count = Len(ctx.descriptors)
    /\ ctx.peak_allocated >= ctx.total_allocated
    /\ Len(ctx.descriptors) <= ctx.capacity

(***************************************************************************)
(* Every live block and every live buffer belongs to exactly one           *)
(* descriptor, and every descriptor has both; without a manager there are  *)
(* none.  So nothing leaks over any sequence of calls, cleanup included,   *)
(* nothing is freed twice, and the first descriptor found for an address   *)
(* is the only one.                                                        *)
(***************************************************************************)
Ownership ==
  /\ ctx = NoContext => heap = {} /\ buffers = {}
  /\ HasArray =>
       /\ heap = {ctx.descriptors[i].host_ptr : i \in Indices}
       /\ buffers = {ctx.descriptors[i].device_mem : i \in Indices}
       /\ Cardinality(heap) = Len(ctx.descriptors)
       /\ Cardinality(buffers) = Len(ctx.descriptors)

(***************************************************************************)
(* A block is never smaller than the caller asked for, in particular not   *)
(* when rounding up wraps, and never of size 0, which retryix_memory_      *)
(* validate reports as an error.                                           *)
(***************************************************************************)
BlocksLargeEnough ==
  HasArray => \A i \in Indices :
                /\ ctx.descriptors[i].size > 0
                /\ ctx.descriptors[i].size >= ctx.descriptors[i].asked

(***************************************************************************)
(* is_mapped is what the runtime thinks: a live buffer is mapped once or   *)
(* not at all, however map, unmap and free are mixed.                      *)
(***************************************************************************)
MappingTracked ==
  HasArray => \A i \in Indices :
                mappings[ctx.descriptors[i].device_mem]
                  = IF ctx.descriptors[i].is_mapped THEN 1 ELSE 0

(* Cleanup ends, with the manager gone. *)
CleanupEnds == cleaning ~> (ctx = NoContext)

(***************************************************************************)
(* The comment in retryix_memory_free: a mapped buffer is unmapped before  *)
(* it is released.                                                         *)
(***************************************************************************)
UnmappedBeforeRelease ==
  \A b \in Buffers \ buffers : mappings[b] = 0
=============================================================================
