---------------------------- MODULE CoreLifecycle ----------------------------
(***************************************************************************)
(* Start, end and quick allocation of the library, as in                   *)
(* src/modules/retryix_core_module.c: one CRITICAL_SECTION that is created *)
(* by the first retryix_initialize and destroyed by retryix_finalize, and  *)
(* two flags that threads read without holding it.                         *)
(*                                                                         *)
(* g_svm_initialized is always written together with g_initialized and     *)
(* only read for the report, so it is left out.  Creating a critical       *)
(* section that exists, entering one that does not, and deleting one that  *)
(* is held are undefined on Windows: they set undefined, where the model   *)
(* stops.                                                                  *)
(***************************************************************************)
EXTENDS Integers, FiniteSets

CONSTANTS
  Threads,
  Main,          \* the thread that loads the library
  Nobody,        \* the owner of a free mutex, the block of an idle thread
  Blocks,        \* what malloc can return
  Managed        \* whether callers keep to the rules below

ASSUME ThreadAssumption == Main \in Threads /\ Nobody \notin Threads \cup Blocks

VARIABLES
  g_initialized,
  g_mutex_initialized,
  g_mutex,             \* [live, owner]
  g_allocation_count,
  blocks,              \* live blocks
  outlived,            \* a block was live when the library was finalized
  undefined,
  pc,                  \* what each thread does next
  arg                  \* the block that it frees

vars == <<g_initialized, g_mutex_initialized, g_mutex, g_allocation_count,
          blocks, outlived, undefined, pc, arg>>

flags == <<g_initialized, g_mutex_initialized>>
counts == <<g_allocation_count, blocks, outlived>>

Init ==
  /\ g_initialized = FALSE
  /\ g_mutex_initialized = FALSE
  /\ g_mutex = [live |-> FALSE, owner |-> Nobody]
  /\ g_allocation_count = 0
  /\ blocks = {}
  /\ outlived = FALSE
  /\ undefined = FALSE
  /\ pc = [t \in Threads |-> "idle"]
  /\ arg = [t \in Threads |-> Nobody]

(***************************************************************************)
(* The rules of a managed program: one thread starts and ends the library, *)
(* it ends it when no other call is running and lets none start before the *)
(* library says that it has stopped, and nothing is freed in between.      *)
(***************************************************************************)
Idle(T) == \A t \in T : pc[t] = "idle"

MayInitialize(t) == Managed => t = Main

MayFinalize(t) == Managed => t = Main /\ Idle(Threads \ {Main})

MayAlloc == Managed => pc[Main] \notin {"finalize_lock", "finalize"}

MayFree == Managed => g_initialized /\ MayAlloc

Goto(t, from, to) ==
  /\ ~undefined
  /\ pc[t] = from
  /\ pc' = [pc EXCEPT ![t] = to]

Lock(t, from, to) ==
  /\ Goto(t, from, to)
  /\ g_mutex.owner = Nobody
  /\ g_mutex' = [g_mutex EXCEPT !.owner = t]
  /\ undefined' = ~g_mutex.live
  /\ UNCHANGED <<flags, counts, arg>>
-----------------------------------------------------------------------------
(* retryix_initialize, and retryix_auto_initialize, which only adds output. *)
retryix_initialize(t) ==
  /\ MayInitialize(t)
  /\ Goto(t, "idle", IF g_mutex_initialized THEN "initialize_lock" ELSE "create")
  /\ UNCHANGED <<flags, g_mutex, counts, undefined, arg>>

CreateMutex(t) ==
  /\ Goto(t, "create", "created")
  /\ undefined' = g_mutex.live
  /\ g_mutex' = [live |-> TRUE, owner |-> Nobody]
  /\ UNCHANGED <<flags, counts, arg>>

MutexCreated(t) ==
  /\ Goto(t, "created", "initialize_lock")
  /\ g_mutex_initialized' = TRUE
  /\ UNCHANGED <<g_initialized, g_mutex, counts, undefined, arg>>

(* Fault: the call that finds the library initialised keeps the mutex. *)
InitializeBody_NoUnlock(t) ==
  /\ Goto(t, "initialize", IF g_initialized THEN "idle" ELSE "unlock")
  /\ g_initialized' = TRUE
  /\ g_allocation_count' = IF g_initialized THEN g_allocation_count ELSE 0
  /\ UNCHANGED <<g_mutex_initialized, g_mutex, blocks, outlived, undefined, arg>>

(* Fault: the count also starts again where the library is initialised. *)
InitializeBody_Reset(t) ==
  /\ Goto(t, "initialize", "unlock")
  /\ g_initialized' = TRUE
  /\ g_allocation_count' = 0
  /\ UNCHANGED <<g_mutex_initialized, g_mutex, blocks, outlived, undefined, arg>>

InitializeBody(t) ==
  /\ Goto(t, "initialize", "unlock")
  /\ g_initialized' = TRUE
  /\ g_allocation_count' = IF g_initialized THEN g_allocation_count ELSE 0
  /\ UNCHANGED <<g_mutex_initialized, g_mutex, blocks, outlived, undefined, arg>>
-----------------------------------------------------------------------------
(* retryix_finalize; DllMain calls it when the library is unloaded. *)
retryix_finalize(t) ==
  /\ MayFinalize(t)
  /\ g_mutex_initialized
  /\ Goto(t, "idle", "finalize_lock")
  /\ UNCHANGED <<flags, g_mutex, counts, undefined, arg>>

(* Fault: the library still says that it is initialised. *)
FinalizeBody_StillOn(t) ==
  /\ Goto(t, "finalize", "finalize_unlock")
  /\ g_allocation_count' = 0
  /\ outlived' = (outlived \/ blocks # {})
  /\ UNCHANGED <<flags, g_mutex, blocks, undefined, arg>>

FinalizeBody(t) ==
  /\ Goto(t, "finalize", "finalize_unlock")
  /\ g_initialized' = FALSE
  /\ g_allocation_count' = 0
  /\ outlived' = (outlived \/ blocks # {})
  /\ UNCHANGED <<g_mutex_initialized, g_mutex, blocks, undefined, arg>>

DestroyMutex(t) ==
  /\ Goto(t, "destroy", "destroyed")
  /\ undefined' = (g_mutex.owner # Nobody \/ ~g_mutex.live)
  /\ g_mutex' = [g_mutex EXCEPT !.live = FALSE]
  /\ UNCHANGED <<flags, counts, arg>>

MutexDestroyed(t) ==
  /\ Goto(t, "destroyed", "idle")
  /\ g_mutex_initialized' = FALSE
  /\ UNCHANGED <<g_initialized, g_mutex, counts, undefined, arg>>
-----------------------------------------------------------------------------
(* A call that finds the library not initialised returns NULL. *)
retryix_quick_svm_alloc(t) ==
  /\ MayAlloc
  /\ g_initialized
  /\ Goto(t, "idle", "alloc_lock")
  /\ UNCHANGED <<flags, g_mutex, counts, undefined, arg>>

(* malloc may fail, which changes nothing. *)
AllocBody(t) ==
  /\ Goto(t, "alloc", "unlock")
  /\ \/ \E b \in Blocks \ blocks :
          /\ blocks' = blocks \cup {b}
          /\ g_allocation_count' = g_allocation_count + 1
     \/ UNCHANGED <<blocks, g_allocation_count>>
  /\ UNCHANGED <<flags, g_mutex, outlived, undefined, arg>>

(* A block is freed by one thread. *)
retryix_quick_svm_free(t) ==
  /\ MayFree
  /\ Goto(t, "idle", "free_lock")
  /\ \E b \in blocks \ {arg[u] : u \in Threads} : arg' = [arg EXCEPT ![t] = b]
  /\ UNCHANGED <<flags, g_mutex, counts, undefined>>

(* Fault: a block from before the last finalize counts below zero. *)
FreeBody_Unchecked(t) ==
  /\ Goto(t, "free", "unlock")
  /\ blocks' = blocks \ {arg[t]}
  /\ g_allocation_count' = g_allocation_count - 1
  /\ arg' = [arg EXCEPT ![t] = Nobody]
  /\ UNCHANGED <<flags, g_mutex, outlived, undefined>>

FreeBody(t) ==
  /\ Goto(t, "free", "unlock")
  /\ blocks' = blocks \ {arg[t]}
  /\ g_allocation_count' = IF g_allocation_count > 0
                           THEN g_allocation_count - 1 ELSE g_allocation_count
  /\ arg' = [arg EXCEPT ![t] = Nobody]
  /\ UNCHANGED <<flags, g_mutex, outlived, undefined>>

Unlock(t) ==
  /\ \/ Goto(t, "unlock", "idle")
     \/ Goto(t, "finalize_unlock", "destroy")
  /\ g_mutex' = [g_mutex EXCEPT !.owner = Nobody]
  /\ UNCHANGED <<flags, counts, undefined, arg>>

Step(t) ==
  \/ CreateMutex(t) \/ MutexCreated(t) \/ InitializeBody(t)
  \/ FinalizeBody(t) \/ DestroyMutex(t) \/ MutexDestroyed(t)
  \/ AllocBody(t) \/ FreeBody(t) \/ Unlock(t)
  \/ Lock(t, "initialize_lock", "initialize")
  \/ Lock(t, "finalize_lock", "finalize")
  \/ Lock(t, "alloc_lock", "alloc")
  \/ Lock(t, "free_lock", "free")

Next ==
  \E t \in Threads :
    \/ retryix_initialize(t) \/ retryix_finalize(t)
    \/ retryix_quick_svm_alloc(t) \/ retryix_quick_svm_free(t)
    \/ Step(t)

Spec == Init /\ [][Next]_vars

(* Threads in a call keep running; callers need not make calls. *)
FairSpec == Spec /\ \A t \in Threads : WF_vars(Step(t))
-----------------------------------------------------------------------------
TypeOK ==
  /\ g_initialized \in BOOLEAN
  /\ g_mutex_initialized \in BOOLEAN
  /\ g_mutex \in [live : BOOLEAN, owner : Threads \cup {Nobody}]
  /\ g_allocation_count \in Nat
  /\ blocks \subseteq Blocks
  /\ outlived \in BOOLEAN
  /\ undefined \in BOOLEAN
  /\ DOMAIN pc = Threads
  /\ arg \in [Threads -> Blocks \cup {Nobody}]

(***************************************************************************)
(* The critical section is created once before it is used, is never        *)
(* entered before or after its life, and is not deleted while it is held.  *)
(***************************************************************************)
MutexIsUsedWhileItLives == ~undefined

(***************************************************************************)
(* What a thread may conclude from the flag it reads without the mutex: a  *)
(* library that says it is initialised has a mutex to enter, also while    *)
(* initialize and finalize are half way.                                   *)
(***************************************************************************)
InitializedImpliesMutex ==
  g_initialized => g_mutex.live /\ g_mutex_initialized

(***************************************************************************)
(* In a managed program the mutex can be trusted: it lives while it is     *)
(* used, and the flag read outside it never promises a mutex that is not   *)
(* there.                                                                  *)
(***************************************************************************)
MutexCanBeTrusted == MutexIsUsedWhileItLives /\ InitializedImpliesMutex

(***************************************************************************)
(* The report's number of active allocations: never more than there are,   *)
(* and exact for as long as no block has outlived the library.             *)
(***************************************************************************)
CountIsExact ==
  /\ g_allocation_count <= Cardinality(blocks)
  /\ ~outlived => g_allocation_count = Cardinality(blocks)

(* A call of finalize returns, and the library is then off. *)
FinalizeEnds ==
  pc[Main] = "finalize_lock" ~> pc[Main] = "idle" /\ ~g_mutex.live
=============================================================================
