----------------------------- MODULE SvmPair256 -----------------------------
(***************************************************************************)
(* retryix_svm_atomic_compare_exchange_pair_256, the 256-bit compare and   *)
(* exchange of src/svm/retryix_svm_atomic.c, executed by any number of     *)
(* threads.  Every lock operation and every access to one of the two       *)
(* 128-bit cells is a step of its own.                                     *)
(***************************************************************************)
EXTENDS Naturals

CONSTANTS
  Threads,
  Ptrs,                  \* addresses of the cells
  Values,                \* contents of a 128-bit cell
  Requests,              \* the argument records callers may pass
  NoCall,                \* the arguments of a thread that is not in a call
  SPINLOCK_TABLE_SIZE,
  CACHE_LINE             \* 2^6: get_lock_index drops the six low address bits

NULL == 0

Pair == [lo : Values, hi : Values]

ASSUME TableAssumption ==
  /\ SPINLOCK_TABLE_SIZE \in Nat \ {0}
  /\ CACHE_LINE \in Nat \ {0}
ASSUME PtrAssumption == Ptrs \subseteq Nat \ {NULL}
ASSUME RequestAssumption ==
  /\ Requests \subseteq [ptr_lo : Ptrs \cup {NULL}, ptr_hi : Ptrs \cup {NULL},
                         exp : Pair, des : Pair]
  /\ NoCall \notin Requests

VARIABLES
  mem,           \* contents of every cell
  g_spinlocks,   \* the spinlock table: 0 free, 1 taken
  pc,            \* where each thread is in the function
  call,          \* its by-value arguments
  expected,      \* its in/out argument
  success,       \* the local of that name
  ret            \* the return code of its last call

vars == <<mem, g_spinlocks, pc, call, expected, success, ret>>

Buckets == 0 .. SPINLOCK_TABLE_SIZE - 1

(* Fault: the shift is two bits too wide, so four lines share a lock. *)
get_lock_index_Wide(p) == (p \div (4 * CACHE_LINE)) % SPINLOCK_TABLE_SIZE

get_lock_index(p) == (p \div CACHE_LINE) % SPINLOCK_TABLE_SIZE

BucketLo(t) == get_lock_index(call[t].ptr_lo)
BucketHi(t) == get_lock_index(call[t].ptr_hi)

Goto(t, from, to) ==
  /\ pc[t] = from
  /\ pc' = [pc EXCEPT ![t] = to]
-----------------------------------------------------------------------------
(* Fault: the byte is incremented, and what it held is not looked at. *)
lock_addr_NoTest(p) ==
  g_spinlocks' = [g_spinlocks EXCEPT ![get_lock_index(p)] = @ + 1]

(***************************************************************************)
(* lock_addr spins on an atomic exchange.  The step is the exchange that   *)
(* finds the byte 0; the exchanges that find 1 change nothing.             *)
(***************************************************************************)
lock_addr(p) ==
  /\ g_spinlocks[get_lock_index(p)] = 0
  /\ g_spinlocks' = [g_spinlocks EXCEPT ![get_lock_index(p)] = 1]

unlock_addr(p) ==
  g_spinlocks' = [g_spinlocks EXCEPT ![get_lock_index(p)] = 0]
-----------------------------------------------------------------------------
Valid(r) == r.ptr_lo # NULL /\ r.ptr_hi # NULL

Init ==
  /\ mem \in [Ptrs -> Values]
  /\ g_spinlocks = [b \in Buckets |-> 0]
  /\ pc = [t \in Threads |-> "idle"]
  /\ call = [t \in Threads |-> NoCall]
  /\ expected = [t \in Threads |-> NoCall]
  /\ success = [t \in Threads |-> FALSE]
  /\ ret = [t \in Threads |-> "NONE"]

Reject(t) ==
  /\ pc[t] = "idle"
  /\ \E r \in Requests : ~Valid(r)
  /\ ret' = [ret EXCEPT ![t] = "INVALID_PARAM"]
  /\ UNCHANGED <<mem, g_spinlocks, pc, call, expected, success>>

Call(t) ==
  /\ Goto(t, "idle", "lock_lo")
  /\ \E r \in Requests :
       /\ Valid(r)
       /\ call' = [call EXCEPT ![t] = r]
       /\ expected' = [expected EXCEPT ![t] = r.exp]
  /\ ret' = [ret EXCEPT ![t] = "NONE"]
  /\ UNCHANGED <<mem, g_spinlocks, success>>

LockLo(t) ==
  /\ Goto(t, "lock_lo", "lock_hi")
  /\ lock_addr(call[t].ptr_lo)
  /\ UNCHANGED <<mem, call, expected, success, ret>>

(* Fault: the second lock is skipped. *)
LockHi_Skip(t) ==
  /\ Goto(t, "lock_hi", "cmp_lo")
  /\ success' = [success EXCEPT ![t] = FALSE]
  /\ UNCHANGED <<mem, g_spinlocks, call, expected, ret>>

LockHi(t) ==
  /\ Goto(t, "lock_hi", "cmp_lo")
  /\ lock_addr(call[t].ptr_hi)
  /\ success' = [success EXCEPT ![t] = FALSE]
  /\ UNCHANGED <<mem, call, expected, ret>>

CmpLo(t) ==
  /\ pc[t] = "cmp_lo"
  /\ \/ mem[call[t].ptr_lo] = expected[t].lo /\ Goto(t, "cmp_lo", "cmp_hi")
     \/ mem[call[t].ptr_lo] # expected[t].lo /\ Goto(t, "cmp_lo", "load_lo")
  /\ UNCHANGED <<mem, g_spinlocks, call, expected, success, ret>>

CmpHi(t) ==
  /\ pc[t] = "cmp_hi"
  /\ \/ mem[call[t].ptr_hi] = expected[t].hi /\ Goto(t, "cmp_hi", "store_lo")
     \/ mem[call[t].ptr_hi] # expected[t].hi /\ Goto(t, "cmp_hi", "load_lo")
  /\ UNCHANGED <<mem, g_spinlocks, call, expected, success, ret>>

StoreLo(t) ==
  /\ Goto(t, "store_lo", "store_hi")
  /\ mem' = [mem EXCEPT ![call[t].ptr_lo] = call[t].des.lo]
  /\ UNCHANGED <<g_spinlocks, call, expected, success, ret>>

StoreHi(t) ==
  /\ Goto(t, "store_hi", "unlock_hi")
  /\ mem' = [mem EXCEPT ![call[t].ptr_hi] = call[t].des.hi]
  /\ success' = [success EXCEPT ![t] = TRUE]
  /\ UNCHANGED <<g_spinlocks, call, expected, ret>>

LoadLo(t) ==
  /\ Goto(t, "load_lo", "load_hi")
  /\ expected' = [expected EXCEPT ![t].lo = mem[call[t].ptr_lo]]
  /\ UNCHANGED <<mem, g_spinlocks, call, success, ret>>

LoadHi(t) ==
  /\ Goto(t, "load_hi", "unlock_hi")
  /\ expected' = [expected EXCEPT ![t].hi = mem[call[t].ptr_hi]]
  /\ UNCHANGED <<mem, g_spinlocks, call, success, ret>>

(* Fault: the lock of the high cell is never given back. *)
UnlockHi_Leak(t) ==
  /\ Goto(t, "unlock_hi", "unlock_lo")
  /\ UNCHANGED <<mem, g_spinlocks, call, expected, success, ret>>

UnlockHi(t) ==
  /\ Goto(t, "unlock_hi", "unlock_lo")
  /\ unlock_addr(call[t].ptr_hi)
  /\ UNCHANGED <<mem, call, expected, success, ret>>

(* The last unlock and the return, which nothing shared separates.  What
   became of the locals and of the caller's pair is dropped with the call. *)
UnlockLo(t) ==
  /\ Goto(t, "unlock_lo", "idle")
  /\ unlock_addr(call[t].ptr_lo)
  /\ ret' = [ret EXCEPT ![t] = IF success[t] THEN "SUCCESS" ELSE "INTERNAL"]
  /\ call' = [call EXCEPT ![t] = NoCall]
  /\ expected' = [expected EXCEPT ![t] = NoCall]
  /\ success' = [success EXCEPT ![t] = FALSE]
  /\ UNCHANGED mem

Step(t) == \/ LockLo(t)  \/ LockHi(t)
           \/ CmpLo(t)   \/ CmpHi(t)
           \/ StoreLo(t) \/ StoreHi(t)
           \/ LoadLo(t)  \/ LoadHi(t)
           \/ UnlockHi(t) \/ UnlockLo(t)

Next == \E t \in Threads : Reject(t) \/ Call(t) \/ Step(t)

Spec == Init /\ [][Next]_vars

(***************************************************************************)
(* A thread inside the function keeps being scheduled.  Nothing makes a    *)
(* spinning thread win the exchange, so acquisition is only weakly fair.   *)
(***************************************************************************)
FairSpec == Spec /\ \A t \in Threads : WF_vars(Step(t))
-----------------------------------------------------------------------------
HoldsLoAt == {"lock_hi", "cmp_lo", "cmp_hi", "store_lo", "store_hi",
              "load_lo", "load_hi", "unlock_hi", "unlock_lo"}
HoldsHiAt == HoldsLoAt \ {"lock_hi", "unlock_lo"}

(* The buckets whose lock t has taken and not yet given back. *)
Holds(t) == {b \in Buckets : \/ pc[t] \in HoldsLoAt /\ b = BucketLo(t)
                             \/ pc[t] \in HoldsHiAt /\ b = BucketHi(t)}

(* The bucket t is spinning on, or would spin on if it were taken. *)
Wants(t) == {b \in Buckets : \/ pc[t] = "lock_lo" /\ b = BucketLo(t)
                             \/ pc[t] = "lock_hi" /\ b = BucketHi(t)}

TypeOK ==
  /\ mem \in [Ptrs -> Values]
  /\ g_spinlocks \in [Buckets -> {0, 1}]
  /\ pc \in [Threads -> {"idle", "lock_lo"} \cup HoldsLoAt]
  /\ call \in [Threads -> Requests \cup {NoCall}]
  /\ expected \in [Threads -> Pair \cup {NoCall}]
  /\ success \in [Threads -> BOOLEAN]
  /\ ret \in [Threads -> {"NONE", "INVALID_PARAM", "SUCCESS", "INTERNAL"}]

(***************************************************************************)
(* lock_addr and unlock_addr are a lock: a byte of the table is 1 exactly  *)
(* while one thread is between taking it and giving it back, and no two    *)
(* threads are.                                                            *)
(***************************************************************************)
LockOwnership ==
  /\ \A b \in Buckets :
       g_spinlocks[b] = 1 <=> \E t \in Threads : b \in Holds(t)
  /\ \A t, u \in Threads : t # u => Holds(t) \cap Holds(u) = {}

(***************************************************************************)
(* The header's promise that the pair of spinlocks cannot deadlock: no     *)
(* group of threads waits, each for a lock that one of them holds.         *)
(***************************************************************************)
NoCircularWait ==
  \A S \in (SUBSET Threads) \ {{}} :
    \E t \in S : \A u \in S : Wants(t) \cap Holds(u) = {}

(***************************************************************************)
(* What callers have to guarantee for that: the two pointers of every call *)
(* fall into different buckets, always in ascending order.                 *)
(***************************************************************************)
OrderedRequests ==
  \A r \in Requests :
    Valid(r) => get_lock_index(r.ptr_lo) < get_lock_index(r.ptr_hi)

(* The calls in progress never stop completing altogether. *)
Progress ==
  (\E t \in Threads : pc[t] # "idle") ~> (\E t \in Threads : pc[t] = "unlock_lo")
-----------------------------------------------------------------------------
(***************************************************************************)
(* Refinement.  An exchange takes effect with its first store: until the   *)
(* second store the high cell counts as already written.  A failed         *)
(* exchange takes effect with the comparison that fails: what the two      *)
(* loads will return is settled there.                                     *)
(***************************************************************************)
AbstractReg ==
  [p \in Ptrs |->
     IF \E t \in Threads : pc[t] = "store_hi" /\ call[t].ptr_hi = p
     THEN call[CHOOSE t \in Threads :
                 pc[t] = "store_hi" /\ call[t].ptr_hi = p].des.hi
     ELSE mem[p]]

AbstractPhase ==
  [t \in Threads |->
     CASE pc[t] = "idle" -> "idle"
       [] pc[t] \in {"lock_lo", "lock_hi", "cmp_lo", "cmp_hi", "store_lo"} -> "open"
       [] OTHER -> "closed"]

AbstractExpected ==
  [t \in Threads |->
     IF pc[t] \in {"load_lo", "load_hi"}
     THEN [lo |-> mem[call[t].ptr_lo], hi |-> mem[call[t].ptr_hi]]
     ELSE expected[t]]

Register == INSTANCE PairRegister
              WITH NullPtr <- NULL, reg <- AbstractReg, phase <- AbstractPhase,
                   expected <- AbstractExpected

(***************************************************************************)
(* Pair exchanges are atomic among themselves: whatever the interleaving,  *)
(* every call behaves as one indivisible compare and exchange of the two   *)
(* cells, and reports what it found.                                       *)
(***************************************************************************)
PairIsAtomic == Register!Spec
=============================================================================
