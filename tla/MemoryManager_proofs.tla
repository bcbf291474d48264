------------------------ MODULE MemoryManager_proofs ------------------------
(***************************************************************************)
(* Proofs about the memory manager, for any addresses, sizes, alignments   *)
(* and initial capacity, and any number of allocations.                    *)
(***************************************************************************)
EXTENDS MemoryManager, NumberLaws, SequenceTheorems

Types ==
  /\ heap \subseteq Addrs /\ IsFiniteSet(heap)
  /\ buffers \subseteq Buffers /\ IsFiniteSet(buffers)
  /\ mappings \in [Buffers -> Nat]
  /\ ctx \in Contexts \cup {NoContext}
  /\ cleaning \in BOOLEAN
  /\ cleaning => HasArray
  /\ ctx = NoContext => heap = {} /\ buffers = {}

(* The fields of a context. *)
LEMMA ContextFields ==
  ASSUME NEW c \in Contexts
  PROVE  /\ c.total_allocated \in Int /\ c.host_allocated \in Int /\ c.peak_allocated \in Int
         /\ c.free_count \in Nat /\ c.alloc_count \in Nat /\ c.capacity \in Nat
  BY DEF Contexts

(* The descriptors s own the blocks and the buffers, each its own. *)
Owned(s) ==
  /\ heap = {s[i].host_ptr : i \in 1 .. Len(s)}
  /\ buffers = {s[i].device_mem : i \in 1 .. Len(s)}
  /\ Cardinality(heap) = Len(s)
  /\ Cardinality(buffers) = Len(s)
  /\ \A i, j \in 1 .. Len(s) :
       i # j => s[i].host_ptr # s[j].host_ptr /\ s[i].device_mem # s[j].device_mem

(* A descriptor is large enough and knows whether it is mapped. *)
Sound(d) ==
  /\ d.size > 0
  /\ d.size >= d.asked
  /\ mappings[d.device_mem] = IF d.is_mapped THEN 1 ELSE 0

AllSound(s) == \A i \in 1 .. Len(s) : Sound(s[i])

IInv == Types /\ (HasArray => Owned(ctx.descriptors) /\ AllSound(ctx.descriptors))
-----------------------------------------------------------------------------
(***************************************************************************)
(* What rounding up grants, if it grants anything, is what was asked for   *)
(* or more: a sum that wraps is below the alignment and rounds to 0.       *)
(***************************************************************************)
LEMMA GrantsEnough ==
  ASSUME NEW size \in Sizes, NEW zero_copy \in BOOLEAN
  PROVE  /\ aligned_size(size, zero_copy) \in Nat
         /\ aligned_size(size, zero_copy) # 0 => aligned_size(size, zero_copy) >= size
<1> DEFINE a == IF zero_copy THEN PREFERRED_ALIGNMENT ELSE BASE_ALIGNMENT
           s == size + a - 1
           w == s % SIZE_WIDTH
<1>1. /\ SIZE_WIDTH \in Nat \ {0} /\ size \in Nat /\ size < SIZE_WIDTH
      /\ a \in Nat \ {0} /\ SIZE_WIDTH % a = 0
  BY SizeAssumption
<1>2. aligned_size(size, zero_copy) = w - (w % a)
  BY DEF aligned_size
<1> HIDE DEF a
<1>3. a <= SIZE_WIDTH
  <2> SUFFICES ASSUME SIZE_WIDTH < a PROVE FALSE
    BY <1>1
  <2>1. SIZE_WIDTH % a = SIZE_WIDTH
    BY <1>1, SmallRest
  <2> QED
    BY <1>1, <2>1
<1>4. s \in Nat
  BY <1>1
<1>5. w \in 0 .. SIZE_WIDTH - 1
  BY <1>1, <1>4, DivisionWithRest
<1>6. w % a \in 0 .. a - 1
  BY <1>1, <1>5, DivisionWithRest
<1>7. w % a <= w
  <2>1. CASE w < a
    BY <1>1, <1>5, <2>1, SmallRest
  <2>2. CASE w >= a
    BY <1>1, <1>5, <1>6, <2>2
  <2> QED
    BY <1>1, <1>5, <2>1, <2>2
<1>8. CASE s < SIZE_WIDTH
  <2>1. w = s
    BY <1>1, <1>4, <1>8, SmallRest
  <2> HIDE DEF w
  <2> QED
    BY <1>1, <1>2, <1>6, <1>7, <2>1
<1>9. CASE s >= SIZE_WIDTH
  <2>1. w = s - SIZE_WIDTH
    <3> DEFINE q == s \div SIZE_WIDTH
    <3>1. s = SIZE_WIDTH * q + w /\ q \in Int
      BY <1>1, <1>4, DivisionWithRest
    <3> HIDE DEF w, q
    <3>2. s < SIZE_WIDTH + SIZE_WIDTH
      BY <1>1, <1>3
    <3> HIDE DEF s
    <3>3. q <= 0 => SIZE_WIDTH * q <= 0
      BY <1>1, <3>1
    <3>4. q >= 2 => SIZE_WIDTH * q >= SIZE_WIDTH + SIZE_WIDTH
      BY <1>1, <3>1
    <3>5. q = 1
      BY <1>1, <1>4, <1>5, <1>9, <3>1, <3>2, <3>3, <3>4
    <3>6. SIZE_WIDTH * 1 = SIZE_WIDTH
      BY <1>1
    <3> QED
      BY <1>1, <1>4, <1>5, <3>1, <3>5, <3>6 DEF s, w
  <2>2. w < a
    BY <1>1, <2>1
  <2> HIDE DEF w
  <2>3. w % a = w
    BY <1>1, <1>5, <2>2, SmallRest
  <2> QED
    BY <1>1, <1>2, <1>5, <2>3
<1> QED
  BY <1>1, <1>4, <1>8, <1>9
-----------------------------------------------------------------------------
(* The entry that leaves, and where the last one goes. *)
LEMMA RemovedEntry ==
  ASSUME ctx.descriptors \in Seq(Descriptors), NEW i \in Indices
  PROVE  \E s, r \in Seq(Descriptors), n \in Nat :
           /\ s = ctx.descriptors /\ n = Len(s) /\ i \in 1 .. n
           /\ r = Removed(i) /\ Len(r) = n - 1
           /\ \A j \in 1 .. n - 1 : r[j] = IF j = i THEN s[n] ELSE s[j]
<1> PICK s \in Seq(Descriptors) : s = ctx.descriptors
  OBVIOUS
<1> PICK n \in Nat : n = Len(s) /\ i \in 1 .. n
  BY LenProperties DEF Indices
<1> DEFINE e == [s EXCEPT ![i] = s[n]]
<1>1. n \in Nat
  OBVIOUS
<1>2. n \in 1 .. n /\ s[n] \in Descriptors /\ i \in 1 .. Len(s)
  BY ElementOfSeq
<1>3. /\ e \in Seq(Descriptors)
      /\ Len(e) = n
      /\ \A j \in 1 .. n : e[j] = IF j = i THEN s[n] ELSE s[j]
  BY <1>1, <1>2, ExceptSeq
<1> HIDE DEF e
<1>4. \A j \in 1 .. n - 1 : e[j] \in Descriptors
  BY <1>1, <1>3, ElementOfSeq
<1>5. /\ SubSeq(e, 1, n - 1) \in Seq(Descriptors)
      /\ Len(SubSeq(e, 1, n - 1)) = IF 1 <= n - 1 THEN (n - 1) - 1 + 1 ELSE 0
      /\ \A j \in 1 .. (n - 1) - 1 + 1 : SubSeq(e, 1, n - 1)[j] = e[1 + j - 1]
  BY <1>1, <1>4, SubSeqProperties
<1>6. Removed(i) = SubSeq(e, 1, n - 1)
  BY DEF Removed, e
<1>7. Len(Removed(i)) = n - 1
  BY <1>1, <1>2, <1>5, <1>6
<1>8. ASSUME NEW j \in 1 .. n - 1
      PROVE  Removed(i)[j] = IF j = i THEN s[n] ELSE s[j]
  <2>1. j \in 1 .. (n - 1) - 1 + 1 /\ 1 + j - 1 = j /\ j \in 1 .. n
    BY <1>1
  <2> QED
    BY <1>3, <1>5, <1>6, <2>1
<1>9. Removed(i) \in Seq(Descriptors)
  BY <1>5, <1>6
<1> QED
  BY <1>7, <1>8, <1>9

(***************************************************************************)
(* Releasing a descriptor takes away its block, its buffer and its entry,  *)
(* and leaves the other descriptors with theirs.                           *)
(***************************************************************************)
LEMMA ReleaseKeeps ==
  ASSUME IInv, HasArray, NEW i \in Indices, Release(i),
         UNCHANGED <<mappings, cleaning>>
  PROVE  IInv' /\ HasArray'
<1>1. ctx \in Contexts /\ ctx.descriptors \in Seq(Descriptors)
  BY DEF IInv, Types, HasArray, Contexts
<1>2. PICK s, r \in Seq(Descriptors), n \in Nat :
        /\ s = ctx.descriptors /\ n = Len(s) /\ i \in 1 .. n
        /\ r = Removed(i) /\ Len(r) = n - 1
        /\ \A j \in 1 .. n - 1 : r[j] = IF j = i THEN s[n] ELSE s[j]
  BY <1>1, RemovedEntry
<1>3. n = Len(s) /\ Len(r) = n - 1 /\ i \in 1 .. n /\ s = ctx.descriptors
      /\ \A j \in 1 .. n - 1 : r[j] = IF j = i THEN s[n] ELSE s[j]
  BY <1>2
<1>4. /\ ctx' \in Contexts /\ ctx'.descriptors = r
      /\ heap' = heap \ {s[i].host_ptr} /\ buffers' = buffers \ {s[i].device_mem}
  <2>1. s[i] \in Descriptors
    BY <1>1, <1>2, ElementOfSeq
  <2>2. s[i].size \in Nat
    BY <2>1 DEF Descriptors
  <2>3. g_memory_context' =
          [ctx EXCEPT !.total_allocated = ctx.total_allocated - s[i].size,
                      !.host_allocated = ctx.host_allocated - s[i].size,
                      !.free_count = ctx.free_count + 1,
                      !.descriptors = r]
    BY <1>2 DEF Release
  <2>4. ctx' \in Contexts /\ ctx'.descriptors = r
    <3> DEFINE c == g_memory_context
               size == s[i].size
    <3>1. /\ c \in Contexts /\ size \in Nat
          /\ c.total_allocated - size \in Int /\ c.host_allocated - size \in Int
          /\ c.free_count + 1 \in Nat
      <4>1. c \in Contexts
        BY <1>1 DEF ctx
      <4>2. size \in Nat
        BY <2>2
      <4> HIDE DEF c, size
      <4>3. c.total_allocated \in Int /\ c.host_allocated \in Int /\ c.free_count \in Nat
        BY <4>1, ContextFields
      <4> QED
        BY <4>1, <4>2, <4>3
    <3> HIDE DEF size
    <3> DEFINE c1 == [c EXCEPT !.total_allocated = c.total_allocated - size]
               c2 == [c1 EXCEPT !.host_allocated = c.host_allocated - size]
               c3 == [c2 EXCEPT !.free_count = c.free_count + 1]
               c4 == [c3 EXCEPT !.descriptors = r]
    <3>2. c1 \in Contexts
      BY <3>1 DEF Contexts
    <3> HIDE DEF c1
    <3>3. c2 \in Contexts
      BY <3>1, <3>2 DEF Contexts
    <3> HIDE DEF c2
    <3>4. c3 \in Contexts
      BY <3>1, <3>3 DEF Contexts
    <3> HIDE DEF c3
    <3>5. c4 \in Contexts /\ c4.descriptors = r
      BY <3>4 DEF Contexts
    <3>6. g_memory_context' = c4
      BY <2>3 DEF ctx, c1, c2, c3, c4, size
    <3> QED
      BY <3>5, <3>6 DEF ctx
  <2> QED
    BY <1>2, <2>4 DEF Release
<1>5. Owned(s) /\ AllSound(s)
  BY <1>3 DEF IInv
<1>6. s[i].host_ptr \in heap /\ s[i].device_mem \in buffers
  BY <1>2, <1>5 DEF Owned
<1>7. /\ IsFiniteSet(heap') /\ IsFiniteSet(buffers')
      /\ Cardinality(heap') = n - 1 /\ Cardinality(buffers') = n - 1
  <2>1. /\ IsFiniteSet(heap) /\ IsFiniteSet(buffers)
        /\ Cardinality(heap) = n /\ Cardinality(buffers) = n
    BY <1>2, <1>5 DEF IInv, Types, Owned
  <2>2. /\ IsFiniteSet(heap \ {s[i].host_ptr})
        /\ Cardinality(heap \ {s[i].host_ptr}) = n - 1
    <3> DEFINE x == s[i].host_ptr
    <3>1. x \in heap
      BY <1>6
    <3> HIDE DEF x
    <3>2. IsFiniteSet(heap \ {x}) /\ Cardinality(heap \ {x}) = n - 1
      BY <3>1, <2>1, FS_RemoveElement
    <3> QED
      BY <3>2 DEF x
  <2>3. /\ IsFiniteSet(buffers \ {s[i].device_mem})
        /\ Cardinality(buffers \ {s[i].device_mem}) = n - 1
    <3> DEFINE x == s[i].device_mem
    <3>1. x \in buffers
      BY <1>6
    <3> HIDE DEF x
    <3>2. IsFiniteSet(buffers \ {x}) /\ Cardinality(buffers \ {x}) = n - 1
      BY <3>1, <2>1, FS_RemoveElement
    <3> QED
      BY <3>2 DEF x
  <2> QED
    BY <1>4, <2>2, <2>3
<1>8. HasArray' /\ ctx' # NoContext
  BY <1>4, NullAssumption DEF HasArray
<1>9. Types'
  BY <1>4, <1>7, <1>8 DEF IInv, Types
<1>10. ASSUME NEW k \in 1 .. n, k # i
       PROVE  \E j \in 1 .. n - 1 : r[j] = s[k]
  <2>1. CASE k = n
    <3>1. i \in 1 .. n - 1
      BY <1>2, <1>10, <2>1
    <3> QED
      BY <1>3, <2>1, <3>1
  <2>2. CASE k # n
    <3>1. k \in 1 .. n - 1
      BY <1>2, <2>2
    <3> QED
      BY <1>3, <1>10, <3>1
  <2> QED
    BY <2>1, <2>2
<1>11. ASSUME NEW j \in 1 .. n - 1
       PROVE  \E k \in 1 .. n : k # i /\ r[j] = s[k] /\ k = IF j = i THEN n ELSE j
  <2>1. CASE j = i
    <3>1. n \in 1 .. n /\ n # i
      BY <1>2, <2>1
    <3> QED
      BY <1>3, <2>1, <3>1
  <2>2. CASE j # i
    <3>1. j \in 1 .. n
      BY <1>2
    <3> QED
      BY <1>3, <2>2, <3>1
  <2> QED
    BY <2>1, <2>2
<1>12. Owned(r)'
  <2>1. /\ heap = {s[k].host_ptr : k \in 1 .. n}
        /\ buffers = {s[k].device_mem : k \in 1 .. n}
        /\ \A k, m \in 1 .. n :
             k # m => s[k].host_ptr # s[m].host_ptr /\ s[k].device_mem # s[m].device_mem
    BY <1>2, <1>5 DEF Owned
  <2>2. heap' = {r[j].host_ptr : j \in 1 .. n - 1}
    <3>1. ASSUME NEW x \in heap' PROVE x \in {r[j].host_ptr : j \in 1 .. n - 1}
      <4>1. PICK k \in 1 .. n : x = s[k].host_ptr
        BY <1>4, <2>1, <3>1
      <4>2. k # i
        BY <1>4, <3>1, <4>1
      <4> QED
        BY <1>10, <4>1, <4>2
    <3>2. ASSUME NEW j \in 1 .. n - 1 PROVE r[j].host_ptr \in heap'
      <4>1. PICK k \in 1 .. n : k # i /\ r[j] = s[k]
        BY <1>11
      <4>2. s[k].host_ptr \in heap /\ s[k].host_ptr # s[i].host_ptr
        BY <1>2, <2>1, <4>1
      <4> QED
        BY <1>4, <4>1, <4>2
    <3> QED
      BY <3>1, <3>2
  <2>3. buffers' = {r[j].device_mem : j \in 1 .. n - 1}
    <3>1. ASSUME NEW x \in buffers' PROVE x \in {r[j].device_mem : j \in 1 .. n - 1}
      <4>1. PICK k \in 1 .. n : x = s[k].device_mem
        BY <1>4, <2>1, <3>1
      <4>2. k # i
        BY <1>4, <3>1, <4>1
      <4> QED
        BY <1>10, <4>1, <4>2
    <3>2. ASSUME NEW j \in 1 .. n - 1 PROVE r[j].device_mem \in buffers'
      <4>1. PICK k \in 1 .. n : k # i /\ r[j] = s[k]
        BY <1>11
      <4>2. s[k].device_mem \in buffers /\ s[k].device_mem # s[i].device_mem
        BY <1>2, <2>1, <4>1
      <4> QED
        BY <1>4, <4>1, <4>2
    <3> QED
      BY <3>1, <3>2
  <2>4. ASSUME NEW j \in 1 .. n - 1, NEW l \in 1 .. n - 1, j # l
        PROVE  r[j].host_ptr # r[l].host_ptr /\ r[j].device_mem # r[l].device_mem
    <3>1. PICK k \in 1 .. n : r[j] = s[k] /\ k = IF j = i THEN n ELSE j
      BY <1>11
    <3>2. PICK m \in 1 .. n : r[l] = s[m] /\ m = IF l = i THEN n ELSE l
      BY <1>11
    <3>3. k # m
      BY <1>2, <2>4, <3>1, <3>2
    <3> QED
      BY <2>1, <3>1, <3>2, <3>3
  <2> QED
    BY <1>3, <1>7, <2>2, <2>3, <2>4 DEF Owned
<1>13. AllSound(r)'
  <2> SUFFICES ASSUME NEW j \in 1 .. n - 1 PROVE Sound(r[j])'
    BY <1>3 DEF AllSound
  <2>1. PICK k \in 1 .. n : r[j] = s[k]
    BY <1>11
  <2>2. Sound(s[k])
    BY <1>2, <1>5 DEF AllSound
  <2> QED
    BY <2>1, <2>2 DEF Sound
<1> QED
  BY <1>4, <1>8, <1>9, <1>12, <1>13 DEF IInv

(***************************************************************************)
(* A new descriptor brings a block and a buffer that nobody had.           *)
(***************************************************************************)
LEMMA AllocKeeps ==
  ASSUME IInv, NEW size \in Sizes, NEW zero_copy \in BOOLEAN,
         memory_alloc(size, zero_copy)
  PROVE  IInv' /\ HasArray'
<1>1. /\ HasArray /\ ctx \in Contexts /\ ctx.descriptors \in Seq(Descriptors)
      /\ UNCHANGED <<mappings, cleaning>>
  BY DEF memory_alloc, Usable, IInv, Types, HasArray, Contexts
<1>2. PICK s \in Seq(Descriptors), n \in Nat : s = ctx.descriptors /\ n = Len(s)
  BY <1>1, LenProperties
<1> DEFINE granted == aligned_size(size, zero_copy)
<1>3. granted \in Nat /\ granted > 0 /\ granted >= size /\ size \in Nat
  BY GrantsEnough, SizeAssumption DEF memory_alloc
<1> HIDE DEF granted
<1>4. PICK p \in Addrs \ heap, b \in Buffers \ buffers, total \in Int :
        /\ mappings[b] = 0
        /\ heap' = heap \cup {p} /\ buffers' = buffers \cup {b}
        /\ total = ctx.total_allocated + granted
        /\ g_memory_context' =
             [ctx EXCEPT
                !.descriptors =
                   Append(ctx.descriptors, Descriptor(p, b, granted, size, zero_copy)),
                !.capacity = IF Full THEN 2 * ctx.capacity ELSE ctx.capacity,
                !.total_allocated = total,
                !.host_allocated = ctx.host_allocated + granted,
                !.peak_allocated = IF total > ctx.peak_allocated THEN total
                                   ELSE ctx.peak_allocated,
                !.alloc_count = ctx.alloc_count + 1]
  <2>1. ctx.total_allocated + granted \in Int
    BY <1>1, <1>3 DEF Contexts
  <2> QED
    BY <2>1 DEF memory_alloc, granted
<1> DEFINE d == Descriptor(p, b, granted, size, zero_copy)
<1>5. /\ d \in Descriptors
      /\ d.host_ptr = p /\ d.device_mem = b /\ d.size = granted /\ d.asked = size
      /\ d.is_mapped = FALSE
  BY <1>3, <1>4 DEF Descriptor, Descriptors
<1> HIDE DEF d
<1>6. PICK r \in Seq(Descriptors) :
        /\ r = Append(s, d) /\ Len(r) = n + 1 /\ r[n + 1] = d
        /\ \A j \in 1 .. n : r[j] = s[j]
  <2>1. Append(s, d) \in Seq(Descriptors) /\ Len(Append(s, d)) = n + 1
    BY <1>2, <1>5, AppendProperties
  <2>2. Append(s, d)[n + 1] = d /\ \A j \in 1 .. n : Append(s, d)[j] = s[j]
    BY <1>2, <1>5, AppendProperties
  <2> QED
    BY <2>1, <2>2
<1>7. ctx' \in Contexts /\ ctx'.descriptors = r
  <2> DEFINE c == g_memory_context
             capacity == IF Full THEN 2 * c.capacity ELSE c.capacity
             peak == IF total > c.peak_allocated THEN total ELSE c.peak_allocated
             c1 == [c EXCEPT !.descriptors = r]
             c2 == [c1 EXCEPT !.capacity = capacity]
             c3 == [c2 EXCEPT !.total_allocated = total]
             c4 == [c3 EXCEPT !.host_allocated = c.host_allocated + granted]
             c5 == [c4 EXCEPT !.peak_allocated = peak]
             c6 == [c5 EXCEPT !.alloc_count = c.alloc_count + 1]
  <2>1. /\ c \in Contexts /\ capacity \in Nat /\ peak \in Int
        /\ c.host_allocated + granted \in Int /\ c.alloc_count + 1 \in Nat
    <3>1. /\ c \in Contexts /\ c.capacity \in Nat /\ c.peak_allocated \in Int
          /\ c.host_allocated \in Int /\ c.alloc_count \in Nat
      <4>1. c \in Contexts
        BY <1>1 DEF ctx
      <4> QED
        BY <4>1, ContextFields
    <3>2. 2 * c.capacity \in Nat /\ c.host_allocated + granted \in Int
          /\ c.alloc_count + 1 \in Nat
      <4>1. \A k \in Nat : 2 * k \in Nat /\ k + 1 \in Nat /\ \A a \in Int : a + k \in Int
        OBVIOUS
      <4> QED
        BY <1>3, <3>1, <4>1
    <3> QED
      BY <1>4, <3>1, <3>2
  <2> HIDE DEF capacity, peak
  <2>2. c1 \in Contexts /\ c1.descriptors = r
    BY <1>6, <2>1 DEF Contexts
  <2> HIDE DEF c1
  <2>3. c2 \in Contexts /\ c2.descriptors = r
    BY <2>1, <2>2 DEF Contexts
  <2> HIDE DEF c2
  <2>4. c3 \in Contexts /\ c3.descriptors = r
    BY <2>1, <2>3 DEF Contexts
  <2> HIDE DEF c3
  <2>5. c4 \in Contexts /\ c4.descriptors = r
    BY <2>1, <2>4 DEF Contexts
  <2> HIDE DEF c4
  <2>6. c5 \in Contexts /\ c5.descriptors = r
    BY <2>1, <2>5 DEF Contexts
  <2> HIDE DEF c5
  <2>7. c6 \in Contexts /\ c6.descriptors = r
    BY <2>1, <2>6 DEF Contexts
  <2>8. g_memory_context' = c6
    BY <1>2, <1>4, <1>6 DEF ctx, c1, c2, c3, c4, c5, c6, capacity, peak, d
  <2> QED
    BY <2>7, <2>8 DEF ctx
<1>8. Owned(s) /\ AllSound(s)
  BY <1>1, <1>2 DEF IInv
<1>9. /\ IsFiniteSet(heap') /\ IsFiniteSet(buffers')
      /\ Cardinality(heap') = n + 1 /\ Cardinality(buffers') = n + 1
  <2>1. /\ IsFiniteSet(heap) /\ IsFiniteSet(buffers)
        /\ Cardinality(heap) = n /\ Cardinality(buffers) = n
    BY <1>2, <1>8 DEF IInv, Types, Owned
  <2> QED
    BY <1>4, <2>1, FS_AddElement
<1>10. HasArray' /\ ctx' # NoContext
  BY <1>7, NullAssumption DEF HasArray
<1>11. Types'
  <2>1. heap' \subseteq Addrs /\ buffers' \subseteq Buffers
    BY <1>4 DEF IInv, Types
  <2> QED
    BY <1>1, <1>7, <1>9, <1>10, <2>1 DEF IInv, Types
<1>12. Owned(r)'
  <2>1. /\ heap = {s[k].host_ptr : k \in 1 .. n}
        /\ buffers = {s[k].device_mem : k \in 1 .. n}
        /\ \A k, m \in 1 .. n :
             k # m => s[k].host_ptr # s[m].host_ptr /\ s[k].device_mem # s[m].device_mem
    BY <1>2, <1>8 DEF Owned
  <2>2. \A j \in 1 .. n + 1 : j \in 1 .. n \/ j = n + 1
    OBVIOUS
  <2>3. heap' = {r[j].host_ptr : j \in 1 .. n + 1}
    <3>1. ASSUME NEW x \in heap' PROVE x \in {r[j].host_ptr : j \in 1 .. n + 1}
      <4>1. CASE x = p
        BY <1>5, <1>6, <4>1
      <4>2. CASE x \in heap
        <5>1. PICK k \in 1 .. n : x = s[k].host_ptr
          BY <2>1, <4>2
        <5>2. k \in 1 .. n + 1 /\ r[k] = s[k]
          BY <1>6
        <5> QED
          BY <5>1, <5>2
      <4> QED
        BY <1>4, <3>1, <4>1, <4>2
    <3>2. ASSUME NEW j \in 1 .. n + 1 PROVE r[j].host_ptr \in heap'
      BY <1>4, <1>5, <1>6, <2>1, <2>2
    <3> QED
      BY <3>1, <3>2
  <2>4. buffers' = {r[j].device_mem : j \in 1 .. n + 1}
    <3>1. ASSUME NEW x \in buffers' PROVE x \in {r[j].device_mem : j \in 1 .. n + 1}
      <4>1. CASE x = b
        BY <1>5, <1>6, <4>1
      <4>2. CASE x \in buffers
        <5>1. PICK k \in 1 .. n : x = s[k].device_mem
          BY <2>1, <4>2
        <5>2. k \in 1 .. n + 1 /\ r[k] = s[k]
          BY <1>6
        <5> QED
          BY <5>1, <5>2
      <4> QED
        BY <1>4, <3>1, <4>1, <4>2
    <3>2. ASSUME NEW j \in 1 .. n + 1 PROVE r[j].device_mem \in buffers'
      BY <1>4, <1>5, <1>6, <2>1, <2>2
    <3> QED
      BY <3>1, <3>2
  <2>5. \A k \in 1 .. n : s[k].host_ptr # p /\ s[k].device_mem # b
    BY <1>4, <2>1
  <2>6. ASSUME NEW j \in 1 .. n + 1, NEW l \in 1 .. n + 1, j # l
        PROVE  r[j].host_ptr # r[l].host_ptr /\ r[j].device_mem # r[l].device_mem
    <3>1. CASE j \in 1 .. n /\ l \in 1 .. n
      BY <1>6, <2>1, <2>6, <3>1
    <3>2. CASE j \in 1 .. n /\ l = n + 1
      BY <1>5, <1>6, <2>5, <3>2
    <3>3. CASE j = n + 1 /\ l \in 1 .. n
      BY <1>5, <1>6, <2>5, <3>3
    <3> QED
      BY <2>2, <2>6, <3>1, <3>2, <3>3
  <2> QED
    BY <1>6, <1>9, <2>3, <2>4, <2>6 DEF Owned
<1>13. AllSound(r)'
  <2> SUFFICES ASSUME NEW j \in 1 .. n + 1 PROVE Sound(r[j])'
    BY <1>6 DEF AllSound
  <2>1. CASE j = n + 1
    BY <1>1, <1>3, <1>4, <1>5, <1>6, <2>1 DEF Sound
  <2>2. CASE j \in 1 .. n
    <3>1. Sound(s[j]) /\ r[j] = s[j]
      BY <1>2, <1>6, <1>8, <2>2 DEF AllSound
    <3> QED
      BY <1>1, <3>1 DEF Sound
  <2> QED
    BY <2>1, <2>2
<1> QED
  BY <1>7, <1>10, <1>11, <1>12, <1>13 DEF IInv

(***************************************************************************)
(* Marking a descriptor as mapped or not, together with the runtime.       *)
(***************************************************************************)
LEMMA MarkKeeps ==
  ASSUME IInv, HasArray, NEW i \in Indices, NEW m \in BOOLEAN,
         mappings' =
           [mappings EXCEPT ![ctx.descriptors[i].device_mem] = IF m THEN 1 ELSE 0],
         g_memory_context' = [ctx EXCEPT !.descriptors[i].is_mapped = m],
         UNCHANGED <<heap, buffers, cleaning>>
  PROVE  IInv'
<1>1. ctx \in Contexts /\ ctx.descriptors \in Seq(Descriptors)
  BY DEF IInv, Types, HasArray, Contexts
<1>2. PICK s \in Seq(Descriptors), n \in Nat :
        s = ctx.descriptors /\ n = Len(s) /\ i \in 1 .. n
  BY <1>1, LenProperties DEF Indices
<1>3. s[i] \in Descriptors
  BY <1>2, ElementOfSeq
<1> DEFINE d == [s[i] EXCEPT !.is_mapped = m]
<1>4. /\ d \in Descriptors
      /\ d.host_ptr = s[i].host_ptr /\ d.device_mem = s[i].device_mem
      /\ d.size = s[i].size /\ d.asked = s[i].asked /\ d.is_mapped = m
  BY <1>3 DEF Descriptors
<1> HIDE DEF d
<1>5. PICK r \in Seq(Descriptors) :
        /\ r = [s EXCEPT ![i] = d] /\ Len(r) = n
        /\ \A j \in 1 .. n : r[j] = IF j = i THEN d ELSE s[j]
  <2> DEFINE e == [s EXCEPT ![i] = d]
  <2>1. /\ e \in Seq(Descriptors) /\ Len(e) = n
        /\ \A j \in 1 .. n : e[j] = IF j = i THEN d ELSE s[j]
    BY <1>2, <1>4, ExceptSeq
  <2> QED
    BY <2>1
<1>6. ctx' \in Contexts /\ ctx'.descriptors = r
  <2>1. g_memory_context' = [ctx EXCEPT !.descriptors = r]
    BY <1>2, <1>5 DEF d
  <2> QED
    BY <1>1, <2>1 DEF ctx, Contexts
<1>7. Owned(s) /\ AllSound(s)
  BY <1>2 DEF IInv
<1>8. \A j \in 1 .. n :
        /\ r[j].host_ptr = s[j].host_ptr /\ r[j].device_mem = s[j].device_mem
        /\ r[j].size = s[j].size /\ r[j].asked = s[j].asked
  BY <1>4, <1>5
<1>9. Owned(r)'
  <2>1. /\ heap = {s[j].host_ptr : j \in 1 .. n}
        /\ buffers = {s[j].device_mem : j \in 1 .. n}
        /\ Cardinality(heap) = n /\ Cardinality(buffers) = n
        /\ \A j, l \in 1 .. n :
             j # l => s[j].host_ptr # s[l].host_ptr /\ s[j].device_mem # s[l].device_mem
    BY <1>2, <1>7 DEF Owned
  <2>2. /\ heap = {r[j].host_ptr : j \in 1 .. n}
        /\ buffers = {r[j].device_mem : j \in 1 .. n}
    <3>1. {r[j].host_ptr : j \in 1 .. n} = {s[j].host_ptr : j \in 1 .. n}
      BY <1>8
    <3>2. {r[j].device_mem : j \in 1 .. n} = {s[j].device_mem : j \in 1 .. n}
      BY <1>8
    <3> QED
      BY <2>1, <3>1, <3>2
  <2> QED
    BY <1>5, <1>8, <2>1, <2>2 DEF Owned
<1>10. s[i].device_mem \in Buffers /\ mappings \in [Buffers -> Nat]
  BY <1>3 DEF Descriptors, IInv, Types
<1>11. AllSound(r)'
  <2> SUFFICES ASSUME NEW j \in 1 .. n PROVE Sound(r[j])'
    BY <1>5 DEF AllSound
  <2>1. Sound(s[j]) /\ s[j].device_mem \in Buffers
    <3>1. s[j] \in Descriptors
      BY <1>2, ElementOfSeq
    <3> QED
      BY <1>2, <1>7, <3>1 DEF AllSound, Descriptors
  <2>2. CASE j = i
    <3>1. r[i] = d /\ mappings'[s[i].device_mem] = IF m THEN 1 ELSE 0
      BY <1>2, <1>5, <1>10
    <3> QED
      BY <1>4, <2>1, <2>2, <3>1 DEF Sound
  <2>3. CASE j # i
    <3>1. s[j].device_mem # s[i].device_mem
      BY <1>2, <1>7, <2>3 DEF Owned
    <3>2. r[j] = s[j] /\ mappings'[s[j].device_mem] = mappings[s[j].device_mem]
      BY <1>2, <1>5, <1>10, <2>1, <2>3, <3>1
    <3> QED
      BY <2>1, <3>2 DEF Sound
  <2> QED
    BY <2>2, <2>3
<1>12. Types'
  <2>1. HasArray' /\ ctx' # NoContext
    BY <1>6, NullAssumption DEF HasArray
  <2>2. mappings' \in [Buffers -> Nat]
    BY <1>10
  <2> QED
    BY <1>6, <2>1, <2>2 DEF IInv, Types
<1> QED
  BY <1>6, <1>9, <1>11, <1>12 DEF IInv
-----------------------------------------------------------------------------
(* What the runtime has mapped of a descriptor's buffer. *)
LEMMA Marks ==
  ASSUME IInv, HasArray, NEW i \in Indices
  PROVE  /\ mappings[ctx.descriptors[i].device_mem]
              = IF ctx.descriptors[i].is_mapped THEN 1 ELSE 0
         /\ ctx.descriptors[i].is_mapped \in BOOLEAN
<1>1. ctx.descriptors \in Seq(Descriptors)
  BY DEF IInv, Types, HasArray, Contexts
<1>2. i \in 1 .. Len(ctx.descriptors)
  BY <1>1, LenProperties DEF Indices
<1>3. ctx.descriptors[i] \in Descriptors
  BY <1>1, <1>2, ElementOfSeq
<1> QED
  BY <1>2, <1>3 DEF IInv, AllSound, Sound, Descriptors

(* Every step keeps the invariant. *)
LEMMA NextKeeps ==
  ASSUME IInv, [Next]_vars
  PROVE  IInv'
<1>1. CASE UNCHANGED vars
  BY <1>1 DEF IInv, Types, HasArray, Owned, AllSound, Sound, ctx, vars
<1>2. CASE memory_init
  <2>1. /\ ctx' = EmptyContext /\ heap' = {} /\ buffers' = {} /\ IsFiniteSet(heap)
        /\ IsFiniteSet(buffers) /\ mappings' = mappings /\ cleaning' = cleaning
        /\ cleaning = FALSE
    BY <1>2 DEF memory_init, IInv, Types, HasArray, ctx
  <2>2. EmptyContext \in Contexts /\ EmptyContext.descriptors = <<>>
    <3>1. <<>> \in Seq(Descriptors) /\ INITIAL_CAPACITY \in Nat
      BY SizeAssumption, EmptySeq
    <3> QED
      BY <3>1 DEF EmptyContext, Contexts
  <2>3. Types'
    BY <2>1, <2>2, NullAssumption, FS_EmptySet DEF IInv, Types
  <2>4. Owned(<<>>)' /\ AllSound(<<>>)'
    BY <2>1, FS_EmptySet DEF Owned, AllSound
  <2> QED
    BY <2>1, <2>2, <2>3, <2>4 DEF IInv
<1>3. CASE \E size \in Sizes, zero_copy \in BOOLEAN : memory_alloc(size, zero_copy)
  BY <1>3, AllocKeeps
<1>4. CASE memory_alloc_realloc_fails
  <2> DEFINE c1 == [ctx EXCEPT !.descriptors = Lost]
             c2 == [c1 EXCEPT !.capacity = 2 * ctx.capacity]
  <2>1. /\ ctx \in Contexts /\ cleaning = FALSE
        /\ UNCHANGED <<heap, buffers, mappings, cleaning>>
    BY <1>4 DEF memory_alloc_realloc_fails, Usable, IInv, Types
  <2>2. c1 \in Contexts /\ c1.descriptors = Lost /\ 2 * ctx.capacity \in Nat
    BY <2>1 DEF Contexts
  <2> HIDE DEF c1
  <2>3. c2 \in Contexts /\ c2.descriptors = Lost
    BY <2>2 DEF Contexts
  <2>4. g_memory_context' = c2
    BY <1>4 DEF memory_alloc_realloc_fails, c1, c2
  <2>5. ctx' \in Contexts /\ ctx'.descriptors = Lost
    BY <2>3, <2>4 DEF ctx
  <2> QED
    BY <2>1, <2>5, NullAssumption DEF IInv, Types, HasArray
<1>5. CASE UseLostArray
  BY <1>5 DEF UseLostArray, IInv, Types, HasArray, Owned, AllSound, Sound, ctx
<1>6. ASSUME NEW p \in Addrs, memory_free(p) PROVE IInv'
  <2>1. HasArray /\ UNCHANGED <<mappings, cleaning>>
    BY <1>6 DEF memory_free, Usable, HasArray
  <2>2. PICK i \in Indices : Release(i)
    BY <1>6 DEF memory_free
  <2> QED
    BY <2>1, <2>2, ReleaseKeeps
<1>7. ASSUME NEW p \in Addrs, memory_map(p) PROVE IInv'
  <2>1. HasArray /\ UNCHANGED <<heap, buffers, cleaning>>
    BY <1>7 DEF memory_map, Usable, HasArray
  <2>2. PICK i \in Indices :
          /\ ctx.descriptors[i].is_mapped = FALSE
          /\ mappings' = [mappings EXCEPT ![ctx.descriptors[i].device_mem] =
                                             mappings[ctx.descriptors[i].device_mem] + 1]
          /\ g_memory_context' = [ctx EXCEPT !.descriptors[i].is_mapped = TRUE]
    BY <1>7, <2>1, Marks DEF memory_map
  <2>3. mappings[ctx.descriptors[i].device_mem] = 0
    BY <2>1, <2>2, Marks
  <2>4. mappings' = [mappings EXCEPT ![ctx.descriptors[i].device_mem] =
                                     IF TRUE THEN 1 ELSE 0]
    BY <2>2, <2>3
  <2> QED
    BY <2>1, <2>2, <2>4, MarkKeeps
<1>8. ASSUME NEW p \in Addrs, memory_unmap(p) PROVE IInv'
  <2>1. HasArray /\ UNCHANGED <<heap, buffers, cleaning>>
    BY <1>8 DEF memory_unmap, Usable, HasArray
  <2>2. PICK i \in Indices :
          /\ ctx.descriptors[i].is_mapped
          /\ mappings' = [mappings EXCEPT ![ctx.descriptors[i].device_mem] =
                                             mappings[ctx.descriptors[i].device_mem] - 1]
          /\ g_memory_context' = [ctx EXCEPT !.descriptors[i].is_mapped = FALSE]
    BY <1>8 DEF memory_unmap
  <2>3. mappings[ctx.descriptors[i].device_mem] = 1
    BY <2>1, <2>2, Marks
  <2>4. mappings' = [mappings EXCEPT ![ctx.descriptors[i].device_mem] =
                                     IF FALSE THEN 1 ELSE 0]
    BY <2>2, <2>3
  <2> QED
    BY <2>1, <2>2, <2>4, MarkKeeps
<1>9. ASSUME NEW p \in Addrs, memory_copy(p) PROVE IInv'
  <2>1. HasArray /\ ctx \in Contexts /\ UNCHANGED <<heap, buffers, mappings, cleaning>>
    BY <1>9 DEF memory_copy, Usable, HasArray, IInv, Types
  <2>2. ctx' \in Contexts /\ ctx'.descriptors = ctx.descriptors
    <3>1. ctx.transfer_count + 1 \in Nat
      BY <2>1 DEF Contexts
    <3>2. g_memory_context' = [ctx EXCEPT !.transfer_count = ctx.transfer_count + 1]
      BY <1>9 DEF memory_copy
    <3> QED
      BY <2>1, <3>1, <3>2 DEF ctx, Contexts
  <2> QED
    BY <2>1, <2>2, NullAssumption DEF IInv, Types, HasArray, Owned, AllSound, Sound
<1>10. CASE memory_cleanup
  BY <1>10 DEF memory_cleanup, Usable, IInv, Types, HasArray, Owned, AllSound, Sound, ctx
<1>11. CASE CleanupFree
  <2>1. HasArray /\ UNCHANGED <<mappings, cleaning>>
    BY <1>11 DEF CleanupFree, IInv, Types
  <2>2. PICK i \in Indices : Release(i)
    BY <1>11 DEF CleanupFree
  <2> QED
    BY <2>1, <2>2, ReleaseKeeps
<1>12. CASE CleanupDone
  <2>1. HasArray /\ ctx.descriptors = <<>> /\ UNCHANGED <<heap, buffers, mappings>>
        /\ ctx' = NoContext /\ cleaning' = FALSE
    BY <1>12 DEF CleanupDone, IInv, Types, ctx
  <2>2. heap = {} /\ buffers = {}
    BY <2>1, EmptySeq DEF IInv, Owned
  <2> QED
    BY <2>1, <2>2 DEF IInv, Types, HasArray
<1> QED
  BY <1>1, <1>2, <1>3, <1>4, <1>5, <1>6, <1>7, <1>8, <1>9, <1>10, <1>11, <1>12
     DEF Next, CleanupStep

(***************************************************************************)
(* The inductive invariant holds in every reachable state: each block and  *)
(* each buffer has one descriptor, which is large enough and knows whether *)
(* it is mapped.                                                           *)
(***************************************************************************)
THEOREM Inductive == Spec => []IInv
<1>1. Init => IInv
  <2> SUFFICES ASSUME Init PROVE IInv
    OBVIOUS
  <2>1. ctx = NoContext /\ ~HasArray
    BY DEF Init, HasArray, ctx
  <2>2. /\ heap = {} /\ buffers = {} /\ mappings \in [Buffers -> Nat]
        /\ cleaning = FALSE
    BY DEF Init
  <2> QED
    BY <2>1, <2>2, FS_EmptySet DEF IInv, Types
<1>2. IInv /\ [Next]_vars => IInv'
  BY NextKeeps
<1> QED
  BY <1>1, <1>2, PTL DEF Spec

(***************************************************************************)
(* However blocks are allocated, mapped, freed and cleaned up, live blocks *)
(* and buffers are those of the descriptors, one each, and none is left    *)
(* without a manager.                                                      *)
(***************************************************************************)
THEOREM OneOwnerEach == Spec => []Ownership
<1>1. IInv => Ownership
  <2> SUFFICES ASSUME IInv PROVE Ownership
    OBVIOUS
  <2>1. HasArray => /\ ctx.descriptors \in Seq(Descriptors)
                    /\ Indices = 1 .. Len(ctx.descriptors)
    BY LenProperties DEF IInv, Types, HasArray, Contexts, Indices
  <2> QED
    BY <2>1 DEF IInv, Types, Owned, Ownership
<1> QED
  BY <1>1, Inductive, PTL

(***************************************************************************)
(* No block is empty or smaller than its caller asked for, for any size,   *)
(* any alignment that divides the range of size_t, and also where rounding *)
(* up wraps.                                                               *)
(***************************************************************************)
THEOREM GrantsAreEnough == Spec => []BlocksLargeEnough
<1>1. IInv => BlocksLargeEnough
  <2> SUFFICES ASSUME IInv, HasArray, NEW i \in Indices
               PROVE  ctx.descriptors[i].size > 0
                      /\ ctx.descriptors[i].size >= ctx.descriptors[i].asked
    BY DEF BlocksLargeEnough
  <2>1. i \in 1 .. Len(ctx.descriptors)
    BY LenProperties DEF IInv, Types, HasArray, Contexts, Indices
  <2> QED
    BY <2>1 DEF IInv, AllSound, Sound
<1> QED
  BY <1>1, Inductive, PTL

(***************************************************************************)
(* is_mapped of every descriptor is what the runtime has, over any         *)
(* sequence of map, unmap, free and cleanup.                               *)
(***************************************************************************)
THEOREM MappingIsTracked == Spec => []MappingTracked
<1>1. IInv => MappingTracked
  <2> SUFFICES ASSUME IInv, HasArray, NEW i \in Indices
               PROVE  mappings[ctx.descriptors[i].device_mem]
                        = IF ctx.descriptors[i].is_mapped THEN 1 ELSE 0
    BY DEF MappingTracked
  <2> QED
    BY Marks
<1> QED
  BY <1>1, Inductive, PTL
-----------------------------------------------------------------------------
(***************************************************************************)
(* The counters.  They describe the descriptors as long as the array is    *)
(* there, and stay numbers when it is lost.                                *)
(***************************************************************************)
Counted(c, s) ==
  /\ c.total_allocated = SumOfSizes(s)
  /\ c.host_allocated = c.total_allocated
  /\ c.alloc_count - c.free_count = Len(s)
  /\ c.peak_allocated >= c.total_allocated
  /\ Len(s) <= c.capacity
  /\ c.capacity # 0

CountInv ==
  /\ ctx # NoContext => /\ ctx.total_allocated \in Nat
                        /\ ctx.host_allocated \in Nat
                        /\ ctx.peak_allocated \in Nat
  /\ HasArray => Counted(ctx, ctx.descriptors)

LEMMA SizesAre ==
  ASSUME NEW s \in Seq(Descriptors)
  PROVE  /\ SizesOf(s) \in Seq(Nat) /\ SizesOf(s) \in Seq(Int) /\ Len(SizesOf(s)) = Len(s)
         /\ \A i \in 1 .. Len(s) : SizesOf(s)[i] = s[i].size /\ s[i].size \in Nat
<1>1. Len(s) \in Nat /\ \A i \in 1 .. Len(s) : s[i] \in Descriptors
  BY ElementOfSeq, LenProperties
<1>2. \A i \in 1 .. Len(s) : s[i].size \in Nat
  BY <1>1 DEF Descriptors
<1> DEFINE t == SizesOf(s)
<1>3. t = [i \in 1 .. Len(s) |-> s[i].size]
  BY DEF SizesOf
<1>4. \A i \in 1 .. Len(s) : t[i] = s[i].size
  BY <1>3
<1>5. t \in [1 .. Len(s) -> Nat]
  BY <1>2, <1>3
<1> HIDE DEF t
<1>6. t \in Seq(Nat) /\ t \in Seq(Int) /\ Len(t) = Len(s)
  <2>1. PICK n \in Nat : n = Len(s)
    BY <1>1
  <2> QED
    BY <1>5, <2>1
<1> QED
  BY <1>2, <1>4, <1>6 DEF t

(* The bytes of live descriptors are a natural number. *)
LEMMA BytesAre ==
  ASSUME NEW s \in Seq(Descriptors), \A i \in 1 .. Len(s) : s[i].size > 0
  PROVE  SumOfSizes(s) \in Nat
<1>1. SizesOf(s) \in Seq(Nat \ {0})
  <2>1. \A i \in 1 .. Len(s) : SizesOf(s)[i] \in Nat \ {0}
    BY SizesAre
  <2>2. PICK n \in Nat, t \in Seq(Nat) : n = Len(s) /\ t = SizesOf(s) /\ Len(t) = n
    BY SizesAre, LenProperties
  <2>3. \A i \in 1 .. n : t[i] \in Nat \ {0}
    BY <2>1, <2>2
  <2>4. t \in Seq(Nat \ {0})
    BY <2>2, <2>3
  <2> QED
    BY <2>2, <2>4
<1> QED
  BY <1>1, SumAtLeastLength DEF SumOfSizes

LEMMA BytesAppended ==
  ASSUME NEW s \in Seq(Descriptors), NEW d \in Descriptors
  PROVE  SumOfSizes(Append(s, d)) = SumOfSizes(s) + d.size
<1> DEFINE r == Append(s, d)
           x == d.size
<1>1. /\ r \in Seq(Descriptors) /\ Len(r) = Len(s) + 1 /\ r[Len(s) + 1] = d
      /\ \A k \in 1 .. Len(s) : r[k] = s[k]
      /\ Len(s) \in Nat
  BY AppendProperties, LenProperties
<1>2. x \in Nat
  BY DEF Descriptors
<1>5. r[Len(s) + 1].size = x
  BY <1>1
<1> HIDE DEF r, x
<1>3. SizesOf(r) = Append(SizesOf(s), x)
  <2> DEFINE t == SizesOf(s)
             u == SizesOf(r)
             n == Len(s)
  <2>1. /\ t \in Seq(Nat) /\ Len(t) = n /\ u \in Seq(Nat) /\ Len(u) = n + 1 /\ n \in Nat
        /\ \A k \in 1 .. n : t[k] = s[k].size
        /\ \A k \in 1 .. n + 1 : u[k] = r[k].size
    BY <1>1, SizesAre
  <2>2. u[n + 1] = x
    BY <1>5, <2>1
  <2>5. \A k \in 1 .. n : r[k] = s[k]
    BY <1>1
  <2> HIDE DEF t, u, n
  <2>3. \A k \in 1 .. n : u[k] = t[k]
    <3> TAKE k \in 1 .. n
    <3>1. k \in 1 .. n + 1
      BY <2>1
    <3> QED
      BY <2>1, <2>5, <3>1
  <2>4. u = Append(t, x)
    <3>1. Append(t, x) \in Seq(Nat) /\ Len(Append(t, x)) = n + 1
          /\ \A k \in 1 .. n + 1 : Append(t, x)[k] = IF k = n + 1 THEN x ELSE t[k]
      BY <1>2, <2>1
    <3>2. \A k \in 1 .. n + 1 : u[k] = Append(t, x)[k]
      BY <2>1, <2>2, <2>3, <3>1
    <3> QED
      BY <2>1, <3>1, <3>2, SeqEqual
  <2> QED
    BY <2>4 DEF t, u
<1>4. SizesOf(s) \in Seq(Int) /\ x \in Int
  BY <1>2, SizesAre
<1> QED
  BY <1>3, <1>4, SumOfAppend DEF SumOfSizes, r, x

(* Only the sizes count. *)
LEMMA BytesSame ==
  ASSUME NEW s \in Seq(Descriptors), NEW r \in Seq(Descriptors), Len(r) = Len(s),
         \A k \in 1 .. Len(s) : r[k].size = s[k].size
  PROVE  SumOfSizes(r) = SumOfSizes(s)
<1>1. SizesOf(r) = SizesOf(s)
  BY DEF SizesOf
<1> QED
  BY <1>1 DEF SumOfSizes

(* The last entry is moved into the gap: the sum loses the gap's size. *)
LEMMA BytesRemoved ==
  ASSUME NEW s \in Seq(Descriptors), NEW r \in Seq(Descriptors), NEW i \in 1 .. Len(s),
         Len(r) = Len(s) - 1,
         \A j \in 1 .. Len(s) - 1 : r[j] = IF j = i THEN s[Len(s)] ELSE s[j]
  PROVE  SumOfSizes(r) = SumOfSizes(s) - s[i].size
<1>1. PICK n \in Nat, t \in Seq(Int), u \in Seq(Int) :
        /\ n = Len(s) /\ t = SizesOf(s) /\ u = SizesOf(r)
        /\ Len(t) = n /\ Len(u) = n - 1
        /\ \A k \in 1 .. n : t[k] = s[k].size
        /\ \A k \in 1 .. n - 1 : u[k] = r[k].size
  <2> DEFINE t == SizesOf(s)
             u == SizesOf(r)
  <2>1. Len(s) \in Nat
    BY LenProperties
  <2>2. /\ t \in Seq(Int) /\ Len(t) = Len(s)
        /\ \A k \in 1 .. Len(s) : t[k] = s[k].size
    BY SizesAre
  <2>3. /\ u \in Seq(Int) /\ Len(u) = Len(s) - 1
        /\ \A k \in 1 .. Len(s) - 1 : u[k] = r[k].size
    BY SizesAre
  <2> HIDE DEF t, u
  <2> QED
    BY <2>1, <2>2, <2>3 DEF t, u
<1>2. i \in 1 .. n /\ n \in 1 .. n /\ t[n] \in Int /\ t[i] \in Int /\ t[i] = s[i].size
  BY <1>1
<1>3. \A k \in 1 .. n - 1 : u[k] = IF k = i THEN t[n] ELSE t[k]
  <2> SUFFICES ASSUME NEW k \in 1 .. n - 1 PROVE u[k] = IF k = i THEN t[n] ELSE t[k]
    OBVIOUS
  <2>1. u[k] = r[k].size /\ r[k] = (IF k = i THEN s[n] ELSE s[k]) /\ k \in 1 .. n
    BY <1>1
  <2>2. t[k] = s[k].size /\ t[n] = s[n].size
    BY <1>1, <1>2, <2>1
  <2> QED
    BY <2>1, <2>2
<1>4. PICK m \in Seq(Int) :
        /\ Len(m) = n
        /\ \A k \in 1 .. n : m[k] = IF k = i THEN t[n] ELSE t[k]
  <2> DEFINE e == [t EXCEPT ![i] = t[n]]
  <2>0. t \in [1 .. n -> Int]
    BY <1>1
  <2>1. e \in Seq(Int) /\ Len(e) = n /\ \A k \in 1 .. n : e[k] = IF k = i THEN t[n] ELSE t[k]
    BY <1>2, <2>0
  <2> QED
    BY <2>1
<1>5. SeqSum(m) = SeqSum(t) - t[i] + m[i]
  <2>1. Len(t) = Len(m) /\ i \in 1 .. Len(t) /\ \A k \in 1 .. Len(t) : k # i => t[k] = m[k]
    BY <1>1, <1>2, <1>4
  <2> QED
    BY <2>1, SumsChanged
<1>6. SeqSum(u) = SeqSum(m) - m[Len(m)]
  <2>1. Len(m) = n /\ Len(u) = n - 1 /\ n > 0
    BY <1>1, <1>2, <1>4
  <2>2. \A k \in 1 .. n - 1 : m[k] = u[k]
    <3>1. \A k \in 1 .. n - 1 : k \in 1 .. n
      OBVIOUS
    <3>2. \A k \in 1 .. n : m[k] = IF k = i THEN t[n] ELSE t[k]
      BY <1>4
    <3> QED
      BY <1>3, <3>1, <3>2
  <2> QED
    BY <2>1, <2>2, SumWithoutLast
<1>7. m[i] = t[n] /\ m[Len(m)] = t[n]
  BY <1>2, <1>4
<1>8. SeqSum(t) \in Int
  BY SeqSumType
<1>9. SumOfSizes(s) = SeqSum(t) /\ SumOfSizes(r) = SeqSum(u)
  BY <1>1 DEF SumOfSizes
<1>10. SeqSum(u) = SeqSum(t) - t[i]
  <2>1. SeqSum(m) = SeqSum(t) - t[i] + t[n] /\ SeqSum(u) = SeqSum(m) - t[n]
    BY <1>5, <1>6, <1>7
  <2>2. \A a, b, d \in Int : (a - b + d) - d = a - b
    OBVIOUS
  <2> QED
    BY <1>2, <1>8, <2>1, <2>2
<1> QED
  BY <1>2, <1>9, <1>10
-----------------------------------------------------------------------------
(* What the counters of one context are, for a next context with these. *)
LEMMA CountedTyped ==
  ASSUME IInv', HasArray', ctx'.total_allocated = SumOfSizes(ctx'.descriptors),
         Counted(ctx, ctx.descriptors)'
  PROVE  CountInv'
<1>1. PICK c \in Contexts, s \in Seq(Descriptors) : c = ctx' /\ s = ctx'.descriptors
  BY NullAssumption DEF IInv, Types, HasArray, Contexts
<1>2. \A i \in 1 .. Len(s) : s[i].size > 0
  BY <1>1 DEF IInv, AllSound, Sound
<1>3. SumOfSizes(s) \in Nat
  BY <1>2, BytesAre
<1>4. /\ c.total_allocated \in Nat /\ c.host_allocated = c.total_allocated
      /\ c.peak_allocated >= c.total_allocated /\ c.peak_allocated \in Int
  BY <1>1, <1>3 DEF Counted, Contexts
<1>5. c.total_allocated \in Nat /\ c.host_allocated \in Nat /\ c.peak_allocated \in Nat
  BY <1>4
<1> QED
  BY <1>1, <1>5 DEF CountInv

LEMMA ReleaseCounts ==
  ASSUME IInv, IInv', CountInv, HasArray, HasArray', NEW i \in Indices, Release(i)
  PROVE  CountInv'
<1>1. PICK c \in Contexts, s \in Seq(Descriptors), r \in Seq(Descriptors), n \in Nat :
        /\ c = ctx /\ s = c.descriptors /\ n = Len(s) /\ i \in 1 .. n
        /\ r = Removed(i) /\ Len(r) = n - 1
        /\ \A j \in 1 .. n - 1 : r[j] = IF j = i THEN s[n] ELSE s[j]
  <2>1. ctx \in Contexts /\ ctx.descriptors \in Seq(Descriptors)
    BY DEF IInv, Types, HasArray, Contexts
  <2> QED
    BY <2>1, RemovedEntry
<1>2. SumOfSizes(r) = SumOfSizes(s) - s[i].size
  BY <1>1, BytesRemoved
<1>3. PICK x \in Nat : x = s[i].size
  BY <1>1, SizesAre
<1>4. PICK e : e = [c EXCEPT !.total_allocated = c.total_allocated - x,
                             !.host_allocated = c.host_allocated - x,
                             !.free_count = c.free_count + 1,
                             !.descriptors = r]
  OBVIOUS
<1>5. ctx' = e
  BY <1>1, <1>3, <1>4 DEF Release, ctx
<1>6. /\ e.total_allocated = c.total_allocated - x /\ e.host_allocated = c.host_allocated - x
      /\ e.free_count = c.free_count + 1 /\ e.descriptors = r
      /\ e.peak_allocated = c.peak_allocated /\ e.alloc_count = c.alloc_count
      /\ e.capacity = c.capacity
  BY <1>4 DEF Contexts
<1>7. /\ c.total_allocated \in Int /\ c.host_allocated \in Int /\ c.peak_allocated \in Int
      /\ c.free_count \in Nat /\ c.alloc_count \in Nat /\ c.capacity \in Nat
  BY ContextFields
<1>8. Counted(c, s)
  BY <1>1 DEF CountInv, HasArray
<1>9. Counted(e, r)
  <2>1. /\ c.total_allocated = SumOfSizes(s) /\ c.host_allocated = c.total_allocated
        /\ c.alloc_count - c.free_count = n /\ c.peak_allocated >= c.total_allocated
        /\ n <= c.capacity /\ c.capacity # 0
    BY <1>1, <1>8 DEF Counted
  <2>2. SumOfSizes(r) = SumOfSizes(s) - x /\ Len(r) = n - 1
    BY <1>1, <1>2, <1>3
  <2>3. e.total_allocated = SumOfSizes(r) /\ e.host_allocated = e.total_allocated
    BY <1>6, <2>1, <2>2
  <2>4. e.alloc_count - e.free_count = n - 1
    <3>1. \A a, f, k \in Int : a - f = k => a - (f + 1) = k - 1
      OBVIOUS
    <3>2. c.alloc_count \in Int /\ c.free_count \in Int /\ n \in Int
      BY <1>7
    <3>3. c.alloc_count - (c.free_count + 1) = n - 1
      BY <2>1, <3>1, <3>2
    <3> QED
      BY <1>6, <3>3
  <2>5. e.peak_allocated >= e.total_allocated
    <3>1. \A a, p \in Int : p >= a => p >= a - x
      OBVIOUS
    <3>2. c.peak_allocated >= c.total_allocated - x
      BY <1>7, <2>1, <3>1
    <3> QED
      BY <1>6, <3>2
  <2>6. n - 1 <= e.capacity /\ e.capacity # 0
    BY <1>6, <1>7, <2>1
  <2> QED
    BY <2>2, <2>3, <2>4, <2>5, <2>6 DEF Counted
<1>10. HasArray' /\ ctx'.descriptors = r
  BY <1>5, <1>6
<1> QED
  BY <1>5, <1>9, <1>10, CountedTyped DEF Counted

LEMMA AllocCounts ==
  ASSUME IInv, IInv', CountInv, HasArray', NEW size \in Sizes, NEW zero_copy \in BOOLEAN,
         memory_alloc(size, zero_copy)
  PROVE  CountInv'
<1>1. /\ HasArray /\ ctx \in Contexts /\ ctx.descriptors \in Seq(Descriptors)
  BY DEF memory_alloc, Usable, IInv, Types, HasArray, Contexts
<1>2. PICK c \in Contexts, s \in Seq(Descriptors), n \in Nat :
        c = ctx /\ s = c.descriptors /\ n = Len(s)
  BY <1>1, LenProperties
<1>3. PICK granted \in Nat : granted = aligned_size(size, zero_copy)
  BY GrantsEnough
<1>4. PICK p \in Addrs, b \in Buffers :
        g_memory_context' =
             [c EXCEPT
                !.descriptors = Append(s, Descriptor(p, b, granted, size, zero_copy)),
                !.capacity = IF Full THEN 2 * c.capacity ELSE c.capacity,
                !.total_allocated = c.total_allocated + granted,
                !.host_allocated = c.host_allocated + granted,
                !.peak_allocated = IF c.total_allocated + granted > c.peak_allocated
                                   THEN c.total_allocated + granted
                                   ELSE c.peak_allocated,
                !.alloc_count = c.alloc_count + 1]
  BY <1>2, <1>3, ZenonT(20) DEF memory_alloc
<1>5. PICK d \in Descriptors : d = Descriptor(p, b, granted, size, zero_copy)
                               /\ d.size = granted
  <2> DEFINE new == Descriptor(p, b, granted, size, zero_copy)
  <2>1. size \in Nat
    BY SizeAssumption
  <2>2. new \in Descriptors /\ new.size = granted
    BY <2>1 DEF Descriptor, Descriptors
  <2> QED
    BY <2>2
<1>6. PICK r \in Seq(Descriptors) : r = Append(s, d) /\ Len(r) = n + 1
  <2>1. Append(s, d) \in Seq(Descriptors) /\ Len(Append(s, d)) = n + 1
    BY <1>2, AppendProperties
  <2> QED
    BY <2>1
<1>7. PICK capacity : capacity = IF Full THEN 2 * c.capacity ELSE c.capacity
  OBVIOUS
<1>8. PICK total, peak :
        /\ total = c.total_allocated + granted
        /\ peak = IF total > c.peak_allocated THEN total ELSE c.peak_allocated
  OBVIOUS
<1>9. PICK e : e = [c EXCEPT !.descriptors = r, !.capacity = capacity,
                             !.total_allocated = total,
                             !.host_allocated = c.host_allocated + granted,
                             !.peak_allocated = peak,
                             !.alloc_count = c.alloc_count + 1]
  OBVIOUS
<1>10. ctx' = e
  BY <1>4, <1>5, <1>6, <1>7, <1>8, <1>9 DEF ctx
<1>11. /\ e.total_allocated = total /\ e.host_allocated = c.host_allocated + granted
       /\ e.free_count = c.free_count /\ e.descriptors = r
       /\ e.peak_allocated = peak /\ e.alloc_count = c.alloc_count + 1
       /\ e.capacity = capacity
  BY <1>9 DEF Contexts
<1>12. /\ c.total_allocated \in Int /\ c.host_allocated \in Int /\ c.peak_allocated \in Int
       /\ c.free_count \in Nat /\ c.alloc_count \in Nat /\ c.capacity \in Nat
  BY ContextFields
<1>13. Counted(c, s)
  BY <1>1, <1>2 DEF CountInv
<1>14. n + 1 <= capacity /\ capacity # 0
  <2>1. Full <=> n >= c.capacity
    BY <1>2 DEF Full
  <2>2. n <= c.capacity /\ c.capacity # 0
    BY <1>2, <1>13 DEF Counted
  <2> QED
    BY <1>7, <1>12, <2>1, <2>2
<1>15. SumOfSizes(r) = SumOfSizes(s) + granted
  BY <1>5, <1>6, BytesAppended
<1>16. peak >= total
  BY <1>8, <1>12
<1>17. Counted(e, r)
  <2>1. /\ c.total_allocated = SumOfSizes(s) /\ c.host_allocated = c.total_allocated
        /\ c.alloc_count - c.free_count = n
    BY <1>2, <1>13 DEF Counted
  <2>2. e.total_allocated = SumOfSizes(r) /\ e.host_allocated = e.total_allocated
    BY <1>8, <1>11, <1>15, <2>1
  <2>3. e.alloc_count - e.free_count = n + 1
    <3>1. \A a, f, k \in Int : a - f = k => (a + 1) - f = k + 1
      OBVIOUS
    <3>2. c.alloc_count \in Int /\ c.free_count \in Int /\ n \in Int
      BY <1>12
    <3> QED
      BY <1>11, <2>1, <3>1, <3>2
  <2> QED
    BY <1>6, <1>11, <1>14, <1>16, <2>2, <2>3 DEF Counted
<1>18. HasArray' /\ ctx'.descriptors = r
  BY <1>10, <1>11
<1> QED
  BY <1>10, <1>17, <1>18, CountedTyped DEF Counted

LEMMA MarkCounts ==
  ASSUME IInv, IInv', CountInv, HasArray, NEW i \in Indices, NEW m \in BOOLEAN,
         g_memory_context' = [ctx EXCEPT !.descriptors[i].is_mapped = m]
  PROVE  CountInv'
<1>1. ctx \in Contexts /\ ctx.descriptors \in Seq(Descriptors)
  BY DEF IInv, Types, HasArray, Contexts
<1>2. PICK c \in Contexts, s \in Seq(Descriptors), n \in Nat :
        c = ctx /\ s = c.descriptors /\ n = Len(s) /\ i \in 1 .. n
  BY <1>1, LenProperties DEF Indices
<1>3. PICK d \in Descriptors : d = [s[i] EXCEPT !.is_mapped = m] /\ d.size = s[i].size
  <2> DEFINE new == [s[i] EXCEPT !.is_mapped = m]
  <2>1. s[i] \in Descriptors
    BY <1>2, ElementOfSeq
  <2>2. new \in Descriptors /\ new.size = s[i].size
    BY <2>1 DEF Descriptors
  <2> QED
    BY <2>2
<1>4. PICK r \in Seq(Descriptors) :
        /\ r = [s EXCEPT ![i] = d] /\ Len(r) = n
        /\ \A j \in 1 .. n : r[j] = IF j = i THEN d ELSE s[j]
  <2> DEFINE e == [s EXCEPT ![i] = d]
  <2>1. /\ e \in Seq(Descriptors) /\ Len(e) = n
        /\ \A j \in 1 .. n : e[j] = IF j = i THEN d ELSE s[j]
    BY <1>2, ExceptSeq
  <2> QED
    BY <2>1
<1>5. PICK e : e = [c EXCEPT !.descriptors = r]
  OBVIOUS
<1>6. ctx' = e
  BY <1>2, <1>3, <1>4, <1>5 DEF ctx
<1>7. /\ e.total_allocated = c.total_allocated /\ e.host_allocated = c.host_allocated
      /\ e.free_count = c.free_count /\ e.descriptors = r
      /\ e.peak_allocated = c.peak_allocated /\ e.alloc_count = c.alloc_count
      /\ e.capacity = c.capacity
  BY <1>5 DEF Contexts
<1>8. SumOfSizes(r) = SumOfSizes(s)
  <2>1. Len(r) = Len(s) /\ \A j \in 1 .. Len(s) : r[j].size = s[j].size
    BY <1>2, <1>3, <1>4
  <2> QED
    BY <2>1, BytesSame
<1>9. Counted(e, r)
  <2>1. Counted(c, s)
    BY <1>2 DEF CountInv
  <2> QED
    BY <1>2, <1>4, <1>7, <1>8, <2>1 DEF Counted
<1>10. HasArray' /\ ctx'.descriptors = r
  <2>1. e \in Contexts
    BY <1>5 DEF Contexts
  <2> QED
    BY <1>6, <1>7, <2>1, NullAssumption DEF HasArray
<1> QED
  BY <1>6, <1>9, <1>10, CountedTyped DEF Counted

(* Every step keeps the counters right. *)
LEMMA CountKeeps ==
  ASSUME IInv, IInv', CountInv, [Next]_vars
  PROVE  CountInv'
<1>1. CASE UNCHANGED g_memory_context
  BY <1>1 DEF CountInv, HasArray, Counted, ctx
<1>2. CASE memory_init
  <2>1. ctx' = EmptyContext
    BY <1>2 DEF memory_init, ctx
  <2>2. SumOfSizes(<<>>) = 0 /\ Len(<<>>) = 0
    <3>1. PICK s \in Seq(Descriptors) : s = <<>> /\ Len(s) = 0
      BY EmptySeq
    <3>2. SizesOf(s) \in Seq(Int) /\ Len(SizesOf(s)) = 0
      BY <3>1, SizesAre
    <3>3. SumOfSizes(s) = 0
      BY <3>2, SumOfNone DEF SumOfSizes
    <3> QED
      BY <3>1, <3>3
  <2>3. Counted(EmptyContext, <<>>)
    BY <2>2, SizeAssumption DEF Counted, EmptyContext
  <2>4. /\ EmptyContext.descriptors = <<>> /\ EmptyContext.total_allocated = 0
        /\ EmptyContext.host_allocated = 0 /\ EmptyContext.peak_allocated = 0
    BY DEF EmptyContext
  <2> QED
    BY <2>1, <2>3, <2>4 DEF CountInv, HasArray, Counted
<1>3. ASSUME NEW size \in Sizes, NEW zero_copy \in BOOLEAN, memory_alloc(size, zero_copy)
      PROVE  CountInv'
  BY <1>3, AllocKeeps, AllocCounts
<1>4. CASE memory_alloc_realloc_fails
  <2>1. PICK c \in Contexts : c = ctx /\ ctx # NoContext
    BY <1>4 DEF memory_alloc_realloc_fails, Usable, IInv, Types
  <2>2. PICK e : e = [c EXCEPT !.descriptors = Lost, !.capacity = 2 * c.capacity]
    OBVIOUS
  <2>3. ctx' = e
    BY <1>4, <2>1, <2>2 DEF memory_alloc_realloc_fails, ctx
  <2>4. /\ e.total_allocated = c.total_allocated /\ e.host_allocated = c.host_allocated
        /\ e.peak_allocated = c.peak_allocated /\ e.descriptors = Lost
    BY <2>2 DEF Contexts
  <2> QED
    BY <2>1, <2>3, <2>4 DEF CountInv, HasArray
<1>5. ASSUME HasArray, NEW i \in Indices, Release(i), UNCHANGED <<mappings, cleaning>>
      PROVE  CountInv'
  BY <1>5, ReleaseKeeps, ReleaseCounts
<1>6. ASSUME NEW p \in Addrs, memory_map(p) \/ memory_unmap(p) PROVE CountInv'
  <2>1. HasArray
    BY <1>6 DEF memory_map, memory_unmap, Usable, HasArray
  <2>2. PICK i \in Indices, m \in BOOLEAN :
          g_memory_context' = [ctx EXCEPT !.descriptors[i].is_mapped = m]
    BY <1>6 DEF memory_map, memory_unmap
  <2> QED
    BY <2>1, <2>2, MarkCounts
<1>7. ASSUME NEW p \in Addrs, memory_copy(p) PROVE CountInv'
  <2>1. PICK c \in Contexts : c = ctx /\ HasArray
    BY <1>7 DEF memory_copy, Usable, HasArray, IInv, Types
  <2>2. PICK e : e = [c EXCEPT !.transfer_count = c.transfer_count + 1]
    OBVIOUS
  <2>3. ctx' = e
    BY <1>7, <2>1, <2>2 DEF memory_copy, ctx
  <2>4. /\ e.total_allocated = c.total_allocated /\ e.host_allocated = c.host_allocated
        /\ e.free_count = c.free_count /\ e.descriptors = c.descriptors
        /\ e.peak_allocated = c.peak_allocated /\ e.alloc_count = c.alloc_count
        /\ e.capacity = c.capacity
    BY <2>2 DEF Contexts
  <2> QED
    BY <2>1, <2>3, <2>4 DEF CountInv, HasArray, Counted
<1>8. CASE CleanupDone
  BY <1>8 DEF CleanupDone, CountInv, HasArray, ctx
<1>9. ASSUME NEW p \in Addrs, memory_free(p) PROVE CountInv'
  <2>1. HasArray
    BY <1>9 DEF memory_free, Usable, HasArray
  <2> QED
    BY <1>5, <1>9, <2>1 DEF memory_free
<1>10. CASE CleanupFree
  <2>1. HasArray
    BY <1>10 DEF CleanupFree, IInv, Types
  <2> QED
    BY <1>5, <1>10, <2>1 DEF CleanupFree
<1>11. UNCHANGED vars \/ UseLostArray \/ memory_cleanup => UNCHANGED g_memory_context
  BY DEF vars, UseLostArray, memory_cleanup
<1> QED
  BY <1>1, <1>2, <1>3, <1>4, <1>6, <1>7, <1>8, <1>9, <1>10, <1>11 DEF Next, CleanupStep

LEMMA CountHolds == Spec => []CountInv
<1>1. Init => CountInv
  BY DEF Init, CountInv, HasArray, ctx
<1>2. IInv /\ IInv' /\ CountInv /\ [Next]_vars => CountInv'
  BY CountKeeps
<1> QED
  BY <1>1, <1>2, Inductive, PTL DEF Spec

(***************************************************************************)
(* The heap, the runtime and the context keep their types: no byte count   *)
(* ever goes below zero, also not after the array is lost.                 *)
(***************************************************************************)
THEOREM MemoryTypes == Spec => []TypeOK
<1>1. IInv /\ CountInv /\ crashed \in BOOLEAN => TypeOK
  <2> SUFFICES ASSUME IInv, CountInv, crashed \in BOOLEAN PROVE TypeOK
    OBVIOUS
  <2>1. ctx # NoContext =>
          /\ ctx.descriptors = Lost \/ ctx.descriptors \in Seq(Descriptors)
          /\ ctx.capacity \in Nat /\ ctx.alloc_count \in Nat /\ ctx.free_count \in Nat
          /\ ctx.transfer_count \in Nat
    BY DEF IInv, Types, Contexts
  <2>2. ctx # NoContext => /\ ctx.total_allocated \in Nat /\ ctx.host_allocated \in Nat
                           /\ ctx.peak_allocated \in Nat
    BY DEF CountInv
  <2>3. /\ heap \subseteq Addrs /\ buffers \subseteq Buffers
        /\ mappings \in [Buffers -> Nat] /\ cleaning \in BOOLEAN
    BY DEF IInv, Types
  <2> QED
    BY <2>1, <2>2, <2>3 DEF TypeOK
<1>2. Init => crashed \in BOOLEAN
  BY DEF Init
<1>3. crashed \in BOOLEAN /\ [Next]_vars => (crashed \in BOOLEAN)'
  BY DEF Next, CleanupStep, vars, memory_init, memory_alloc, memory_alloc_realloc_fails,
         UseLostArray, memory_free, memory_map, memory_unmap, memory_copy, memory_cleanup,
         CleanupFree, CleanupDone
<1> QED
  BY <1>1, <1>2, <1>3, Inductive, CountHolds, PTL DEF Spec

(***************************************************************************)
(* The byte counts are the sum of the sizes of the live descriptors,       *)
(* allocations minus frees is their number, the peak is at least the       *)
(* total, and the array has room for them, after any sequence of calls.    *)
(***************************************************************************)
THEOREM CountersAreExact == Spec => []Accounting
<1>1. CountInv => Accounting
  BY DEF CountInv, Counted, Accounting
<1> QED
  BY <1>1, CountHolds, PTL
=============================================================================
