------------------------ MODULE CoreLifecycle_proofs ------------------------
(***************************************************************************)
(* Proofs about CoreLifecycle for programs that keep to the rules, with    *)
(* any set of threads and any set of blocks.                               *)
(***************************************************************************)
EXTENDS CoreLifecycle, FiniteSetTheorems, TLAPS

(* Where a thread stands in an allocation, a free, or at the end of a call. *)
ClientCall == {"alloc_lock", "alloc", "free_lock", "free", "unlock"}

(* Where only the main thread stands, and where it has the library alone. *)
Exclusive == {"create", "created", "finalize_lock", "finalize",
              "finalize_unlock", "destroy", "destroyed"}

MainCall == Exclusive \cup {"initialize_lock", "initialize"}

(* Where a thread holds the mutex. *)
Holding == {"initialize", "finalize", "alloc", "free", "unlock", "finalize_unlock"}

(* Where a thread has a block to free. *)
Freeing == {"free_lock", "free"}

Places ==
  /\ pc \in [Threads -> {"idle"} \cup ClientCall \cup MainCall]
  /\ \A t \in Threads \ {Main} : pc[t] \in {"idle"} \cup ClientCall

(* Nobody else is in a call while the library is created or destroyed. *)
MainAlone == pc[Main] \in Exclusive => Idle(Threads \ {Main})

(* How far the mutex and its flag may differ, and what the flags promise. *)
Life ==
  /\ undefined = FALSE
  /\ g_mutex \in [live : BOOLEAN, owner : Threads \cup {Nobody}]
  /\ g_mutex_initialized \in BOOLEAN
  /\ g_initialized \in BOOLEAN
  /\ g_mutex.live <=> \/ (g_mutex_initialized /\ pc[Main] # "destroyed")
                      \/ pc[Main] = "created"
  /\ pc[Main] \in {"create", "created"} => ~g_mutex_initialized
  /\ pc[Main] \in MainCall \ {"create", "created"} => g_mutex_initialized
  /\ pc[Main] \in {"finalize_unlock", "destroy", "destroyed"} => ~g_initialized
  /\ g_initialized => g_mutex_initialized
  /\ \A t \in Threads : pc[t] \in ClientCall => g_initialized

Ownership == \A t \in Threads : g_mutex.owner = t <=> pc[t] \in Holding

(* A block is freed by one thread, and is there until then. *)
Freed ==
  /\ arg \in [Threads -> Blocks \cup {Nobody}]
  /\ \A t \in Threads : IF pc[t] \in Freeing THEN arg[t] \in blocks ELSE arg[t] = Nobody
  /\ \A t, u \in Threads : t # u /\ arg[t] = arg[u] => arg[t] = Nobody

Counted ==
  /\ blocks \subseteq Blocks
  /\ IsFiniteSet(blocks)
  /\ outlived \in BOOLEAN
  /\ g_allocation_count \in Nat
  /\ CountIsExact
  /\ ~g_initialized /\ ~outlived => blocks = {}

IInv == Places /\ MainAlone /\ Life /\ Ownership /\ Freed /\ Counted
-----------------------------------------------------------------------------
(* The places of the threads, the mutex and the flags: the part of the
   invariant that does not look at blocks. *)
Control == Places /\ MainAlone /\ Life /\ Ownership

LEMMA InitKeeps == Init => IInv
<1> SUFFICES ASSUME Init PROVE IInv
  OBVIOUS
<1>1. Control
  BY ThreadAssumption DEF Init, Control, Places, MainAlone, Idle, Life, Ownership,
     ClientCall, Exclusive, MainCall, Holding
<1>2. Freed
  BY DEF Init, Freed, Freeing
<1>3. Counted
  <2>1. IsFiniteSet(blocks) /\ Cardinality(blocks) = 0
    BY FS_EmptySet DEF Init
  <2>2. CountIsExact
    BY <2>1 DEF Init, CountIsExact
  <2> QED
    BY <2>1, <2>2 DEF Init, Counted
<1> QED
  BY <1>1, <1>2, <1>3 DEF IInv, Control

(***************************************************************************)
(* Each step keeps the control part.  What the main thread does alone is   *)
(* safe because the others are idle; what the others do is safe because    *)
(* the flag they read before their call cannot fall while they are in it.  *)
(***************************************************************************)
LEMMA ControlKept ==
  ASSUME Managed, Control, NEW t \in Threads,
         retryix_initialize(t) \/ retryix_finalize(t)
           \/ retryix_quick_svm_alloc(t) \/ retryix_quick_svm_free(t) \/ Step(t)
  PROVE Control'
<1> USE ThreadAssumption
    DEF Control, Places, MainAlone, Idle, Life, Ownership, Goto, flags, counts,
        ClientCall, Exclusive, MainCall, Holding
<1>1. CASE retryix_initialize(t)
  BY <1>1 DEF retryix_initialize, MayInitialize
<1>2. CASE CreateMutex(t)
  BY <1>2 DEF CreateMutex
<1>3. CASE MutexCreated(t)
  BY <1>3 DEF MutexCreated
<1>4. CASE InitializeBody(t)
  BY <1>4 DEF InitializeBody
<1>5. CASE retryix_finalize(t)
  BY <1>5 DEF retryix_finalize, MayFinalize
<1>6. CASE FinalizeBody(t)
  <2>1. Places'
    BY <1>6 DEF FinalizeBody
  <2>2. MainAlone'
    BY <1>6 DEF FinalizeBody
  <2>3. Life'
    BY <1>6 DEF FinalizeBody
  <2>4. Ownership'
    BY <1>6 DEF FinalizeBody
  <2> QED
    BY <2>1, <2>2, <2>3, <2>4
<1>7. CASE DestroyMutex(t)
  <2>1. Places'
    BY <1>7 DEF DestroyMutex
  <2>2. MainAlone'
    BY <1>7 DEF DestroyMutex
  <2>3. Life'
    BY <1>7 DEF DestroyMutex
  <2>4. Ownership'
    BY <1>7 DEF DestroyMutex
  <2> QED
    BY <2>1, <2>2, <2>3, <2>4
<1>8. CASE MutexDestroyed(t)
  BY <1>8 DEF MutexDestroyed
<1>9. CASE retryix_quick_svm_alloc(t)
  BY <1>9 DEF retryix_quick_svm_alloc, MayAlloc
<1>10. CASE retryix_quick_svm_free(t)
  BY <1>10 DEF retryix_quick_svm_free, MayFree, MayAlloc
<1>11. CASE Unlock(t)
  BY <1>11 DEF Unlock
<1>12. CASE Lock(t, "initialize_lock", "initialize")
  BY <1>12 DEF Lock
<1>13. CASE Lock(t, "finalize_lock", "finalize")
  BY <1>13 DEF Lock
<1>14. CASE Lock(t, "alloc_lock", "alloc")
  BY <1>14 DEF Lock
<1>15. CASE Lock(t, "free_lock", "free")
  BY <1>15 DEF Lock
<1>16. CASE AllocBody(t)
  BY <1>16 DEF AllocBody
<1>17. CASE FreeBody(t)
  BY <1>17 DEF FreeBody
<1> QED
  BY <1>1, <1>2, <1>3, <1>4, <1>5, <1>6, <1>7, <1>8, <1>9,
     <1>10, <1>11, <1>12, <1>13, <1>14, <1>15, <1>16, <1>17 DEF Step

(* A free takes a block that no other call frees, and no step takes it away. *)
LEMMA FreedKept ==
  ASSUME Managed, Control, Freed, NEW t \in Threads,
         retryix_initialize(t) \/ retryix_finalize(t)
           \/ retryix_quick_svm_alloc(t) \/ retryix_quick_svm_free(t) \/ Step(t),
         blocks \subseteq Blocks
  PROVE Freed'
<1> USE ThreadAssumption DEF Freed, Freeing, Control, Places, Goto, counts
<1>1. CASE retryix_initialize(t)
  BY <1>1 DEF retryix_initialize
<1>2. CASE CreateMutex(t)
  BY <1>2 DEF CreateMutex
<1>3. CASE MutexCreated(t)
  BY <1>3 DEF MutexCreated
<1>4. CASE InitializeBody(t)
  BY <1>4 DEF InitializeBody
<1>5. CASE retryix_finalize(t)
  BY <1>5 DEF retryix_finalize
<1>6. CASE FinalizeBody(t)
  BY <1>6 DEF FinalizeBody
<1>7. CASE DestroyMutex(t)
  BY <1>7 DEF DestroyMutex
<1>8. CASE MutexDestroyed(t)
  BY <1>8 DEF MutexDestroyed
<1>9. CASE retryix_quick_svm_alloc(t)
  BY <1>9 DEF retryix_quick_svm_alloc
<1>10. CASE retryix_quick_svm_free(t)
  BY <1>10 DEF retryix_quick_svm_free
<1>11. CASE Unlock(t)
  BY <1>11 DEF Unlock
<1>12. CASE Lock(t, "initialize_lock", "initialize")
  BY <1>12 DEF Lock
<1>13. CASE Lock(t, "finalize_lock", "finalize")
  BY <1>13 DEF Lock
<1>14. CASE Lock(t, "alloc_lock", "alloc")
  BY <1>14 DEF Lock
<1>15. CASE Lock(t, "free_lock", "free")
  BY <1>15 DEF Lock
<1>16. CASE AllocBody(t)
  BY <1>16 DEF AllocBody
<1>17. CASE FreeBody(t)
  BY <1>17 DEF FreeBody
<1> QED
  BY <1>1, <1>2, <1>3, <1>4, <1>5, <1>6, <1>7, <1>8, <1>9,
     <1>10, <1>11, <1>12, <1>13, <1>14, <1>15, <1>16, <1>17 DEF Step

(***************************************************************************)
(* The count follows the blocks: an allocation adds one of each, a free    *)
(* takes one of each unless the count is already 0, and the count starts   *)
(* again only where no block is left or from then on one has outlived it.  *)
(***************************************************************************)
LEMMA CountedKept ==
  ASSUME Control, Freed, Counted, NEW t \in Threads,
         retryix_initialize(t) \/ retryix_finalize(t)
           \/ retryix_quick_svm_alloc(t) \/ retryix_quick_svm_free(t) \/ Step(t)
  PROVE Counted'
<1>1. Cardinality(blocks) \in Nat
  BY FS_CardinalityType DEF Counted
<1>2. CASE UNCHANGED <<counts, g_initialized>>
  BY <1>2 DEF counts, Counted, CountIsExact
<1>3. CASE InitializeBody(t)
  <2>1. ~g_initialized /\ ~outlived => Cardinality(blocks) = 0
    BY FS_EmptySet DEF Counted
  <2> QED
    BY <1>1, <1>3, <2>1 DEF InitializeBody, Counted, CountIsExact
<1>4. CASE FinalizeBody(t)
  <2>1. blocks = {} => Cardinality(blocks) = 0
    BY FS_EmptySet
  <2> QED
    <3>1. /\ blocks' = blocks
          /\ g_allocation_count' = 0
          /\ outlived' \in BOOLEAN
          /\ ~outlived' => blocks = {}
      BY <1>4 DEF FinalizeBody, Counted
    <3> QED
      BY <1>1, <2>1, <3>1 DEF Counted, CountIsExact
<1>5. CASE AllocBody(t)
  <2>1. g_initialized
    BY <1>5 DEF AllocBody, Goto, Control, Life, ClientCall
  <2>2. ASSUME NEW b \in Blocks \ blocks
        PROVE  /\ IsFiniteSet(blocks \cup {b})
               /\ Cardinality(blocks \cup {b}) = Cardinality(blocks) + 1
    BY FS_AddElement DEF Counted
  <2>3. CASE UNCHANGED <<blocks, g_allocation_count>>
    BY <1>5, <2>3 DEF AllocBody, flags, Counted, CountIsExact
  <2>4. ASSUME NEW b \in Blocks \ blocks,
               blocks' = blocks \cup {b},
               g_allocation_count' = g_allocation_count + 1
        PROVE  Counted'
    BY <1>1, <1>5, <2>1, <2>2, <2>4 DEF AllocBody, flags, Counted, CountIsExact
  <2> QED
    BY <1>5, <2>3, <2>4 DEF AllocBody
<1>6. CASE FreeBody(t)
  <2>1. arg[t] \in blocks
    BY <1>6 DEF FreeBody, Goto, Freed, Freeing
  <2>2. /\ IsFiniteSet(blocks \ {arg[t]})
        /\ Cardinality(blocks \ {arg[t]}) = Cardinality(blocks) - 1
    BY <2>1, FS_RemoveElement DEF Counted
  <2>3. Cardinality(blocks) # 0
    BY <2>1, FS_EmptySet DEF Counted
  <2> QED
    BY <1>1, <1>6, <2>2, <2>3 DEF FreeBody, flags, Counted, CountIsExact
<1> QED
  BY <1>2, <1>3, <1>4, <1>5, <1>6
  DEF Step, Lock, retryix_initialize, retryix_finalize, retryix_quick_svm_alloc,
      retryix_quick_svm_free, CreateMutex, MutexCreated, DestroyMutex, MutexDestroyed,
      Unlock, flags

LEMMA NextKeeps == Managed /\ IInv /\ [Next]_vars => IInv'
<1> SUFFICES ASSUME Managed, IInv, [Next]_vars PROVE IInv'
  OBVIOUS
<1>1. CASE UNCHANGED vars
  BY <1>1
  DEF vars, IInv, Places, MainAlone, Idle, Life, Ownership, Freed, Counted, CountIsExact
<1>2. CASE Next
  <2>1. PICK t \in Threads :
          retryix_initialize(t) \/ retryix_finalize(t)
            \/ retryix_quick_svm_alloc(t) \/ retryix_quick_svm_free(t) \/ Step(t)
    BY <1>2 DEF Next
  <2>2. Control'
    BY <2>1, ControlKept DEF IInv, Control
  <2>3. Freed'
    BY <2>1, FreedKept DEF IInv, Control, Counted
  <2>4. Counted'
    BY <2>1, CountedKept DEF IInv, Control
  <2> QED
    BY <2>2, <2>3, <2>4 DEF IInv, Control
<1> QED
  BY <1>1, <1>2

(***************************************************************************)
(* The inductive invariant holds in every reachable state of a managed     *)
(* program: the main thread is alone while the critical section is made or *)
(* destroyed, and the other threads are counted in and out of it.          *)
(***************************************************************************)
THEOREM Inductive == Managed /\ Spec => []IInv
<1> SUFFICES ASSUME Managed PROVE Spec => []IInv
  OBVIOUS
<1>1. IInv /\ [Next]_vars => IInv'
  BY NextKeeps
<1> QED
  BY <1>1, InitKeeps, PTL DEF Spec
-----------------------------------------------------------------------------
(***************************************************************************)
(* The state of the library keeps its types, whatever the number of        *)
(* threads: in particular the count of allocations never falls below zero. *)
(***************************************************************************)
THEOREM ManagedTypeOK == Managed /\ Spec => []TypeOK
<1>1. IInv => TypeOK
  BY DEF IInv, Places, Life, Freed, Counted, TypeOK
<1> QED
  BY <1>1, Inductive, PTL

(***************************************************************************)
(* In every managed program the critical section exists whenever some      *)
(* thread enters, leaves or deletes it, is never created twice, and the    *)
(* flag that is read without it tells the truth about it.                  *)
(***************************************************************************)
THEOREM ManagedMutex == Managed /\ Spec => []MutexCanBeTrusted
<1>1. IInv => MutexCanBeTrusted
  BY DEF IInv, Life, MutexCanBeTrusted, MutexIsUsedWhileItLives, InitializedImpliesMutex
<1> QED
  BY <1>1, Inductive, PTL

(***************************************************************************)
(* The count that the report prints is right for any set of blocks, with   *)
(* any number of concurrent allocations and frees.                         *)
(***************************************************************************)
THEOREM ManagedCount == Managed /\ Spec => []CountIsExact
<1>1. IInv => CountIsExact
  BY DEF IInv, Counted
<1> QED
  BY <1>1, Inductive, PTL

(***************************************************************************)
(* Two threads are never between entering and leaving the critical section *)
(* at the same time.                                                       *)
(***************************************************************************)
MutualExclusion ==
  \A t, u \in Threads : pc[t] \in Holding /\ pc[u] \in Holding => t = u

(* The critical section of retryix_core_module.c excludes: no two threads are
   between entering and leaving it. *)
THEOREM ManagedExclusion == Managed /\ Spec => []MutualExclusion
<1>1. IInv => MutualExclusion
  BY DEF IInv, Ownership, MutualExclusion
<1> QED
  BY <1>1, Inductive, PTL
=============================================================================
