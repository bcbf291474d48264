-------------------------- MODULE SvmPair256_proofs --------------------------
(***************************************************************************)
(* Proofs about SvmPair256 for every set of threads, every set of cells    *)
(* and every size of the spinlock table.                                   *)
(***************************************************************************)
EXTENDS SvmPair256, FiniteSetTheorems, TLAPS

PCs == {"idle", "lock_lo"} \cup HoldsLoAt

(* A thread in the function works on the arguments of a call it accepted. *)
CallOK ==
  \A t \in Threads :
    pc[t] # "idle" =>
      /\ call[t] \in Requests
      /\ Valid(call[t])
      /\ expected[t] \in Pair

(* Whoever has both locks has two different ones. *)
TwoLocks ==
  \A t \in Threads : pc[t] \in HoldsHiAt => BucketLo(t) # BucketHi(t)

IInv == TypeOK /\ CallOK /\ LockOwnership /\ TwoLocks
-----------------------------------------------------------------------------
(* get_lock_index is total: it maps every address into the table. *)
LEMMA IndexInTable ==
  ASSUME NEW p \in Nat
  PROVE  get_lock_index(p) \in Buckets
<1>1. p \div CACHE_LINE \in Nat
  BY TableAssumption
<1>2. QED
  BY <1>1, TableAssumption DEF get_lock_index, Buckets

LEMMA RequestFields ==
  ASSUME NEW r \in Requests, Valid(r)
  PROVE  /\ r.ptr_lo \in Ptrs
         /\ r.ptr_hi \in Ptrs
         /\ r.exp \in Pair
         /\ r.des \in Pair
         /\ get_lock_index(r.ptr_lo) \in Buckets
         /\ get_lock_index(r.ptr_hi) \in Buckets
<1>1. r \in [ptr_lo : Ptrs \cup {NULL}, ptr_hi : Ptrs \cup {NULL},
             exp : Pair, des : Pair]
  BY RequestAssumption
<1>2. r.ptr_lo \in Ptrs /\ r.ptr_hi \in Ptrs
  BY <1>1 DEF Valid
<1>3. r.ptr_lo \in Nat /\ r.ptr_hi \in Nat
  BY <1>2, PtrAssumption
<1>4. QED
  BY <1>1, <1>2, <1>3, IndexInTable

(* The buckets of a call in progress lie in the table. *)
LEMMA BucketsOfCall ==
  ASSUME CallOK, NEW t \in Threads, pc[t] # "idle"
  PROVE  BucketLo(t) \in Buckets /\ BucketHi(t) \in Buckets
BY RequestFields DEF CallOK, BucketLo, BucketHi
-----------------------------------------------------------------------------
LEMMA InitType == Init => TypeOK /\ CallOK
<1>1. 0 \in {0, 1}
  OBVIOUS
<1>2. QED
  BY <1>1 DEF Init, TypeOK, CallOK

(* Calls are entered with valid arguments and keep them, and every variable
   stays in its range. *)
LEMMA NextType ==
  ASSUME TypeOK, CallOK, [Next]_vars
  PROVE  TypeOK' /\ CallOK'
<1> USE DEF TypeOK, CallOK, Goto, HoldsLoAt
<1>1. ASSUME NEW t \in Threads, Reject(t)
      PROVE  TypeOK' /\ CallOK'
  BY <1>1 DEF Reject
<1>2. ASSUME NEW t \in Threads, Call(t)
      PROVE  TypeOK' /\ CallOK'
  <2>1. PICK r \in Requests :
          /\ Valid(r)
          /\ call' = [call EXCEPT ![t] = r]
          /\ expected' = [expected EXCEPT ![t] = r.exp]
          /\ ret' = [ret EXCEPT ![t] = "NONE"]
          /\ UNCHANGED <<mem, g_spinlocks, success>>
    BY <1>2 DEF Call
  <2>2. r.exp \in Pair
    BY <2>1, RequestFields
  <2>3. pc' = [pc EXCEPT ![t] = "lock_lo"]
    BY <1>2 DEF Call
  <2>4. QED
    BY <2>1, <2>2, <2>3
<1>3. ASSUME NEW t \in Threads, LockLo(t)
      PROVE  TypeOK' /\ CallOK'
  BY <1>3 DEF LockLo, lock_addr
<1>4. ASSUME NEW t \in Threads, LockHi(t)
      PROVE  TypeOK' /\ CallOK'
  BY <1>4 DEF LockHi, lock_addr
<1>5. ASSUME NEW t \in Threads, CmpLo(t)
      PROVE  TypeOK' /\ CallOK'
  BY <1>5 DEF CmpLo
<1>6. ASSUME NEW t \in Threads, CmpHi(t)
      PROVE  TypeOK' /\ CallOK'
  BY <1>6 DEF CmpHi
<1>7. ASSUME NEW t \in Threads, StoreLo(t)
      PROVE  TypeOK' /\ CallOK'
  <2>1. call[t].des.lo \in Values
    BY <1>7, RequestFields DEF StoreLo, Pair
  <2>2. QED
    BY <1>7, <2>1 DEF StoreLo
<1>8. ASSUME NEW t \in Threads, StoreHi(t)
      PROVE  TypeOK' /\ CallOK'
  <2>1. call[t].des.hi \in Values
    BY <1>8, RequestFields DEF StoreHi, Pair
  <2>2. QED
    BY <1>8, <2>1 DEF StoreHi
<1>9. ASSUME NEW t \in Threads, LoadLo(t)
      PROVE  TypeOK' /\ CallOK'
  <2>1. mem[call[t].ptr_lo] \in Values
    BY <1>9, RequestFields DEF LoadLo
  <2>2. [expected[t] EXCEPT !.lo = mem[call[t].ptr_lo]] \in Pair
    BY <1>9, <2>1 DEF LoadLo, Pair
  <2>3. QED
    BY <1>9, <2>2 DEF LoadLo
<1>10. ASSUME NEW t \in Threads, LoadHi(t)
       PROVE  TypeOK' /\ CallOK'
  <2>1. mem[call[t].ptr_hi] \in Values
    BY <1>10, RequestFields DEF LoadHi
  <2>2. [expected[t] EXCEPT !.hi = mem[call[t].ptr_hi]] \in Pair
    BY <1>10, <2>1 DEF LoadHi, Pair
  <2>3. QED
    BY <1>10, <2>2 DEF LoadHi
<1>11. ASSUME NEW t \in Threads, UnlockHi(t)
       PROVE  TypeOK' /\ CallOK'
  BY <1>11 DEF UnlockHi, unlock_addr
<1>12. ASSUME NEW t \in Threads, UnlockLo(t)
       PROVE  TypeOK' /\ CallOK'
  BY <1>12 DEF UnlockLo, unlock_addr
<1>13. CASE UNCHANGED vars
  BY <1>13 DEF vars
<1>14. QED
  BY <1>1, <1>2, <1>3, <1>4, <1>5, <1>6, <1>7, <1>8, <1>9, <1>10, <1>11,
     <1>12, <1>13 DEF Next, Step

(***************************************************************************)
(* Type correctness of the 256-bit compare and exchange.                   *)
(***************************************************************************)
THEOREM TypeCorrect == Spec => []TypeOK
<1>1. Init => TypeOK /\ CallOK
  BY InitType
<1>2. TypeOK /\ CallOK /\ [Next]_vars => TypeOK' /\ CallOK'
  BY NextType
<1>3. QED
  BY <1>1, <1>2, PTL DEF Spec
-----------------------------------------------------------------------------
(* A thread that does not move keeps the locks it has. *)
LEMMA HoldsFrame ==
  ASSUME NEW t \in Threads, pc'[t] = pc[t], call'[t] = call[t]
  PROVE  Holds(t)' = Holds(t)
BY DEF Holds, BucketLo, BucketHi

(* The three ways a step can change the table and the set one thread holds. *)
LEMMA KeepLocks ==
  ASSUME LockOwnership, g_spinlocks' = g_spinlocks,
         \A t \in Threads : Holds(t)' = Holds(t)
  PROVE  LockOwnership'
BY DEF LockOwnership

LEMMA TakeLock ==
  ASSUME TypeOK, LockOwnership, NEW t \in Threads, NEW b \in Buckets,
         g_spinlocks[b] = 0,
         g_spinlocks' = [g_spinlocks EXCEPT ![b] = 1],
         Holds(t)' = Holds(t) \cup {b},
         \A u \in Threads \ {t} : Holds(u)' = Holds(u)
  PROVE  LockOwnership'
<1>1. \A u \in Threads : b \notin Holds(u)
  BY DEF LockOwnership
<1>2. \A c \in Buckets :
        g_spinlocks'[c] = 1 <=> \E u \in Threads : c \in Holds(u)'
  BY DEF TypeOK, LockOwnership
<1>3. \A u, v \in Threads : u # v => Holds(u)' \cap Holds(v)' = {}
  BY <1>1 DEF LockOwnership
<1>4. QED
  BY <1>2, <1>3 DEF LockOwnership

LEMMA GiveLock ==
  ASSUME TypeOK, LockOwnership, NEW t \in Threads, NEW b \in Holds(t),
         g_spinlocks' = [g_spinlocks EXCEPT ![b] = 0],
         Holds(t)' = Holds(t) \ {b},
         \A u \in Threads \ {t} : Holds(u)' = Holds(u)
  PROVE  LockOwnership'
<1>1. b \in Buckets
  BY DEF Holds
<1>2. \A u \in Threads \ {t} : b \notin Holds(u)
  BY DEF LockOwnership
<1>3. \A c \in Buckets :
        g_spinlocks'[c] = 1 <=> \E u \in Threads : c \in Holds(u)'
  BY <1>1, <1>2 DEF TypeOK, LockOwnership
<1>4. \A u, v \in Threads : u # v => Holds(u)' \cap Holds(v)' = {}
  BY DEF LockOwnership
<1>5. QED
  BY <1>3, <1>4 DEF LockOwnership
-----------------------------------------------------------------------------
LEMMA InitLocks == Init => LockOwnership /\ TwoLocks
<1> SUFFICES ASSUME Init PROVE LockOwnership /\ TwoLocks
  OBVIOUS
<1>1. \A t \in Threads : Holds(t) = {}
  BY DEF Init, Holds, HoldsLoAt, HoldsHiAt
<1>2. \A b \in Buckets : g_spinlocks[b] # 1
  BY DEF Init
<1>3. QED
  BY <1>1, <1>2 DEF Init, LockOwnership, TwoLocks, HoldsLoAt, HoldsHiAt

(* Every step keeps the table and the program counters in agreement. *)
LEMMA NextLocks ==
  ASSUME IInv, [Next]_vars
  PROVE  LockOwnership' /\ TwoLocks'
<1> USE DEF IInv, Goto
<1>0. TypeOK /\ CallOK /\ LockOwnership /\ TwoLocks
  OBVIOUS
<1>a. ASSUME NEW t \in Threads, call' = call,
             \E to : pc' = [pc EXCEPT ![t] = to]
      PROVE  \A u \in Threads \ {t} : Holds(u)' = Holds(u)
  BY <1>a, HoldsFrame DEF TypeOK
<1>b. ASSUME NEW t \in Threads, call' = call, g_spinlocks' = g_spinlocks,
             pc[t] \in HoldsHiAt, NEW to \in HoldsHiAt,
             pc' = [pc EXCEPT ![t] = to]
      PROVE  LockOwnership' /\ TwoLocks'
  <2>1. Holds(t)' = Holds(t)
    BY <1>b DEF Holds, BucketLo, BucketHi, TypeOK, HoldsLoAt, HoldsHiAt
  <2>2. LockOwnership'
    BY <1>a, <1>b, <2>1, KeepLocks
  <2>3. QED
    BY <1>b, <2>2 DEF TwoLocks, BucketLo, BucketHi, TypeOK
<1>1. ASSUME NEW t \in Threads, Reject(t)
      PROVE  LockOwnership' /\ TwoLocks'
  BY <1>1, HoldsFrame, KeepLocks DEF Reject, TwoLocks, BucketLo, BucketHi
<1>2. ASSUME NEW t \in Threads, Call(t)
      PROVE  LockOwnership' /\ TwoLocks'
  <2>1. PICK r \in Requests : call' = [call EXCEPT ![t] = r]
    BY <1>2 DEF Call
  <2>2. pc[t] = "idle" /\ pc' = [pc EXCEPT ![t] = "lock_lo"]
    BY <1>2 DEF Call
  <2>3. Holds(t) = {} /\ Holds(t)' = {}
    BY <2>1, <2>2 DEF Holds, TypeOK, HoldsLoAt, HoldsHiAt
  <2>4. \A u \in Threads \ {t} : Holds(u)' = Holds(u)
    BY <2>1, <2>2, HoldsFrame DEF TypeOK
  <2>5. g_spinlocks' = g_spinlocks
    BY <1>2 DEF Call
  <2>6. LockOwnership'
    BY <2>3, <2>4, <2>5, KeepLocks
  <2>7. TwoLocks'
    BY <2>1, <2>2 DEF TwoLocks, TypeOK, BucketLo, BucketHi, HoldsLoAt, HoldsHiAt
  <2>8. QED
    BY <2>6, <2>7
<1>3. ASSUME NEW t \in Threads, LockLo(t)
      PROVE  LockOwnership' /\ TwoLocks'
  <2> USE <1>3 DEF LockLo, lock_addr
  <2>1. BucketLo(t) \in Buckets
    BY BucketsOfCall
  <2>2. Holds(t)' = Holds(t) \cup {BucketLo(t)}
    BY <2>1 DEF Holds, BucketLo, TypeOK, HoldsLoAt, HoldsHiAt
  <2>3. LockOwnership'
    BY <1>a, <2>1, <2>2, TakeLock DEF BucketLo
  <2>4. TwoLocks'
    BY DEF TwoLocks, TypeOK, BucketLo, BucketHi, HoldsLoAt, HoldsHiAt
  <2>5. QED
    BY <2>3, <2>4
<1>4. ASSUME NEW t \in Threads, LockHi(t)
      PROVE  LockOwnership' /\ TwoLocks'
  <2> USE <1>4 DEF LockHi, lock_addr
  <2>1. BucketLo(t) \in Buckets /\ BucketHi(t) \in Buckets
    BY BucketsOfCall
  <2>2. Holds(t)' = Holds(t) \cup {BucketHi(t)}
    BY <2>1 DEF Holds, BucketLo, BucketHi, TypeOK, HoldsLoAt, HoldsHiAt
  <2>3. LockOwnership'
    BY <1>a, <2>1, <2>2, TakeLock DEF BucketHi
  <2>4. BucketLo(t) \in Holds(t)
    BY <2>1 DEF Holds, HoldsLoAt
  <2>5. BucketLo(t) # BucketHi(t)
    BY <2>1, <2>4 DEF LockOwnership, BucketHi
  <2>6. TwoLocks'
    BY <2>5 DEF TwoLocks, TypeOK, BucketLo, BucketHi
  <2>7. QED
    BY <2>3, <2>6
<1>5. ASSUME NEW t \in Threads,
             \/ CmpLo(t) \/ CmpHi(t) \/ StoreLo(t) \/ StoreHi(t)
             \/ LoadLo(t) \/ LoadHi(t)
      PROVE  LockOwnership' /\ TwoLocks'
  <2>1. /\ call' = call /\ g_spinlocks' = g_spinlocks
        /\ pc[t] \in HoldsHiAt
        /\ \E to \in HoldsHiAt : pc' = [pc EXCEPT ![t] = to]
    BY <1>5 DEF CmpLo, CmpHi, StoreLo, StoreHi, LoadLo, LoadHi,
                HoldsLoAt, HoldsHiAt
  <2>2. QED
    BY <1>b, <2>1
<1>6. ASSUME NEW t \in Threads, UnlockHi(t)
      PROVE  LockOwnership' /\ TwoLocks'
  <2> USE <1>6 DEF UnlockHi, unlock_addr
  <2>1. BucketLo(t) \in Buckets /\ BucketHi(t) \in Buckets
    BY BucketsOfCall
  <2>2. BucketLo(t) # BucketHi(t)
    BY DEF TwoLocks, HoldsLoAt, HoldsHiAt
  <2>3. BucketHi(t) \in Holds(t) /\ Holds(t)' = Holds(t) \ {BucketHi(t)}
    BY <2>1, <2>2 DEF Holds, BucketLo, BucketHi, TypeOK, HoldsLoAt, HoldsHiAt
  <2>4. LockOwnership'
    BY <1>a, <2>3, GiveLock DEF BucketHi
  <2>5. TwoLocks'
    BY DEF TwoLocks, TypeOK, BucketLo, BucketHi, HoldsLoAt, HoldsHiAt
  <2>6. QED
    BY <2>4, <2>5
<1>7. ASSUME NEW t \in Threads, UnlockLo(t)
      PROVE  LockOwnership' /\ TwoLocks'
  <2> USE <1>7 DEF UnlockLo, unlock_addr
  <2>1. BucketLo(t) \in Buckets
    BY BucketsOfCall
  <2>2. BucketLo(t) \in Holds(t) /\ Holds(t)' = Holds(t) \ {BucketLo(t)}
    BY <2>1 DEF Holds, BucketLo, TypeOK, HoldsLoAt, HoldsHiAt
  <2>3. \A u \in Threads \ {t} : Holds(u)' = Holds(u)
    BY HoldsFrame DEF TypeOK
  <2>4. LockOwnership'
    BY <2>2, <2>3, GiveLock DEF BucketLo
  <2>5. TwoLocks'
    BY DEF TwoLocks, TypeOK, BucketLo, BucketHi, HoldsLoAt, HoldsHiAt
  <2>6. QED
    BY <2>4, <2>5
<1>8. CASE UNCHANGED vars
  BY <1>8, HoldsFrame, KeepLocks DEF vars, TwoLocks, BucketLo, BucketHi
<1>9. QED
  BY <1>1, <1>2, <1>3, <1>4, <1>5, <1>6, <1>7, <1>8 DEF Next, Step

(* The inductive invariant, on which everything below rests. *)
LEMMA Inductive == Spec => []IInv
<1>1. Init => IInv
  BY InitType, InitLocks DEF IInv
<1>2. IInv /\ [Next]_vars => IInv'
  BY NextType, NextLocks DEF IInv
<1>3. QED
  BY <1>1, <1>2, PTL DEF Spec

(***************************************************************************)
(* The bytes of the table are locks: each is 1 exactly while one thread is *)
(* between lock_addr and unlock_addr, and it is never two.                 *)
(***************************************************************************)
THEOREM LocksAreExclusive == Spec => []LockOwnership
<1>1. IInv => LockOwnership
  BY DEF IInv
<1>2. QED
  BY <1>1, Inductive, PTL
-----------------------------------------------------------------------------
(* Waiting means having a lower lock than the one waited for. *)
LEMMA WaitsUpwards ==
  ASSUME OrderedRequests, IInv, NEW t \in Threads,
         NEW b \in Holds(t), NEW c \in Wants(t)
  PROVE  b < c
<1>1. pc[t] = "lock_hi" /\ b = BucketLo(t) /\ c = BucketHi(t)
  BY DEF Holds, Wants, HoldsLoAt, HoldsHiAt
<1>2. call[t] \in Requests /\ Valid(call[t])
  BY <1>1 DEF IInv, CallOK
<1>3. QED
  BY <1>1, <1>2 DEF OrderedRequests, BucketLo, BucketHi

(* A non-empty set of buckets has a largest member. *)
LEMMA LargestBucket ==
  ASSUME NEW W \in SUBSET Buckets, W # {}
  PROVE  \E b \in W : \A c \in W : c <= b
<1> DEFINE Above(b) == b .. SPINLOCK_TABLE_SIZE - 1
           T == {Above(b) : b \in W}
           R == StrictSubsetOrdering(Buckets)
<1>1. IsFiniteSet(Buckets)
  BY FS_Interval, TableAssumption DEF Buckets
<1>2. IsWellFoundedOn(R, SUBSET Buckets)
  BY <1>1, FS_StrictSubsetOrderingWellFounded, FS_FiniteSubsetsOfFinite
<1>3. T \subseteq SUBSET Buckets /\ T # {}
  <2>1. \A b \in W : Above(b) \subseteq Buckets
    BY TableAssumption DEF Buckets
  <2>2. \E b \in W : Above(b) \in T
    OBVIOUS
  <2> HIDE DEF Above
  <2>3. QED
    BY <2>1, <2>2
<1>4. PICK x \in T : \A y \in T : ~(<<y, x>> \in R)
  <2> HIDE DEF T, R
  <2> QED
    BY <1>2, <1>3, WFMin
<1>5. PICK b \in W : x = Above(b)
  OBVIOUS
<1>6. ASSUME NEW c \in W, c > b
      PROVE  FALSE
  <2>1. b \in Nat /\ c \in Nat /\ b < SPINLOCK_TABLE_SIZE
    BY TableAssumption DEF Buckets
  <2>2. Above(c) \subseteq Above(b) /\ b \in Above(b) /\ b \notin Above(c)
    BY <1>6, <2>1, TableAssumption
  <2>3. Above(c) \in SUBSET Buckets /\ Above(b) \in SUBSET Buckets
    BY <2>1, TableAssumption DEF Buckets
  <2>4. <<Above(c), Above(b)>> \in R
    BY <2>2, <2>3 DEF StrictSubsetOrdering
  <2>5. QED
    BY <1>4, <1>5, <2>4
<1>7. QED
  BY <1>6, TableAssumption DEF Buckets

(* Of the threads that wait for each other, the one that waits for the
   largest bucket waits for a thread that waits for a still larger one. *)
LEMMA NoCycle ==
  ASSUME OrderedRequests, IInv
  PROVE  NoCircularWait
<1> SUFFICES ASSUME NEW S \in (SUBSET Threads) \ {{}},
                    \A t \in S : \E u \in S : Wants(t) \cap Holds(u) # {}
             PROVE  FALSE
  BY DEF NoCircularWait
<1> DEFINE W == {b \in Buckets : \E t \in S : b \in Wants(t)}
<1>1. \A t \in S : \E b \in W : b \in Wants(t)
  BY DEF Wants
<1>2. W \in SUBSET Buckets /\ W # {}
  BY <1>1
<1>3. PICK b \in W : \A c \in W : c <= b
  <2> HIDE DEF W
  <2> QED
    BY <1>2, LargestBucket
<1>4. PICK t \in S : b \in Wants(t)
  OBVIOUS
<1>5. PICK u \in S : b \in Holds(u)
  <2>1. PICK u \in S : Wants(t) \cap Holds(u) # {}
    BY <1>4
  <2>2. Wants(t) = {b}
    BY <1>4 DEF Wants
  <2>3. QED
    BY <2>1, <2>2
<1>6. PICK c \in W : c \in Wants(u)
  BY <1>1
<1>7. b < c
  BY <1>5, <1>6, WaitsUpwards
<1>8. b \in Nat /\ c \in Nat
  BY TableAssumption DEF Buckets
<1>9. QED
  BY <1>3, <1>6, <1>7, <1>8

(***************************************************************************)
(* Callers that pass every pair of pointers in ascending bucket order, and *)
(* never two pointers of one bucket, cannot deadlock the function.  The    *)
(* header says the function orders the locks itself; it does not, so the   *)
(* order is the hypothesis.                                                *)
(***************************************************************************)
THEOREM OrderedCallsDoNotDeadlock ==
  ASSUME OrderedRequests
  PROVE  Spec => []NoCircularWait
<1>1. IInv => NoCircularWait
  BY NoCycle
<1>2. QED
  BY <1>1, Inductive, PTL
-----------------------------------------------------------------------------
(***************************************************************************)
(* The refinement: under any interleaving each call of the pair exchange   *)
(* acts as one step of PairRegister.                                       *)
(***************************************************************************)

Undecided == {"lock_lo", "lock_hi", "cmp_lo", "cmp_hi", "store_lo", "store_hi"}

MemPair(t) == [lo |-> mem[call[t].ptr_lo], hi |-> mem[call[t].ptr_hi]]

(***************************************************************************)
(* What a thread knows at each point of the function: what its comparisons *)
(* found still holds, because nobody else can write its two cells.         *)
(***************************************************************************)
Knows(t) ==
  /\ pc[t] \in Undecided => expected[t] = call[t].exp
  /\ pc[t] \in {"cmp_hi", "store_lo"} =>
       mem[call[t].ptr_lo] = expected[t].lo
  /\ pc[t] = "store_lo" => mem[call[t].ptr_hi] = expected[t].hi
  /\ pc[t] \in {"load_lo", "load_hi"} => MemPair(t) # call[t].exp
  /\ pc[t] = "load_hi" => expected[t].lo = mem[call[t].ptr_lo]
  /\ pc[t] \in HoldsHiAt \ {"unlock_hi"} => ~success[t]
  /\ pc[t] \in {"unlock_hi", "unlock_lo"} =>
       (success[t] <=> expected[t] = call[t].exp)

Knowledge == \A t \in Threads : Knows(t)

CellsOf(t) == {call[t].ptr_lo, call[t].ptr_hi}
-----------------------------------------------------------------------------
(* Two threads that have both their locks work on disjoint cells, and the
   two cells of one thread differ. *)
LEMMA DisjointCells ==
  ASSUME IInv, NEW t \in Threads, pc[t] \in HoldsHiAt
  PROVE  /\ call[t].ptr_lo # call[t].ptr_hi
         /\ \A u \in Threads \ {t} :
              pc[u] \in HoldsHiAt => CellsOf(t) \cap CellsOf(u) = {}
<1>1. BucketLo(t) # BucketHi(t)
  BY DEF IInv, TwoLocks
<1>2. ASSUME NEW u \in Threads, pc[u] \in HoldsHiAt
      PROVE  {BucketLo(u), BucketHi(u)} \subseteq Holds(u)
  BY <1>2, BucketsOfCall DEF IInv, Holds, HoldsLoAt, HoldsHiAt
<1>3. ASSUME NEW u \in Threads \ {t}, pc[u] \in HoldsHiAt
      PROVE  {BucketLo(t), BucketHi(t)} \cap {BucketLo(u), BucketHi(u)} = {}
  <2>1. Holds(t) \cap Holds(u) = {}
    BY DEF IInv, LockOwnership
  <2>2. QED
    BY <1>2, <1>3, <2>1
<1>4. QED
  BY <1>1, <1>3 DEF BucketLo, BucketHi, CellsOf

LEMMA FieldsOfCall ==
  ASSUME IInv, NEW t \in Threads, pc[t] # "idle"
  PROVE  /\ call[t].ptr_lo \in Ptrs
         /\ call[t].ptr_hi \in Ptrs
         /\ call[t].exp \in Pair
         /\ call[t].des \in Pair
         /\ expected[t] \in Pair
         /\ mem[call[t].ptr_lo] \in Values
         /\ mem[call[t].ptr_hi] \in Values
BY RequestFields DEF IInv, CallOK, TypeOK

LEMMA InitKnowledge == Init => Knowledge
BY DEF Init, Knowledge, Knows, Undecided, HoldsHiAt, HoldsLoAt

(* A thread keeps what it knows while the others move. *)
LEMMA KnowsFrame ==
  ASSUME NEW t \in Threads, Knows(t),
         pc'[t] = pc[t], call'[t] = call[t],
         expected'[t] = expected[t], success'[t] = success[t],
         pc[t] \in HoldsHiAt =>
           \A p \in CellsOf(t) : mem'[p] = mem[p]
  PROVE  Knows(t)'
<1>1. CASE pc[t] \in HoldsHiAt
  BY <1>1 DEF Knows, MemPair, CellsOf
<1>2. CASE pc[t] \notin HoldsHiAt
  BY <1>2 DEF Knows, HoldsHiAt, HoldsLoAt
<1>3. QED
  BY <1>1, <1>2

LEMMA NextKnowledge ==
  ASSUME IInv, Knowledge, [Next]_vars
  PROVE  Knowledge'
<1> USE DEF Goto
<1> TypeOK
  BY DEF IInv
<1> \A t \in Threads : Knows(t)
  BY DEF Knowledge
<1>a. ASSUME NEW t \in Threads, mem' = mem,
             \A u \in Threads \ {t} :
               /\ pc'[u] = pc[u] /\ call'[u] = call[u]
               /\ expected'[u] = expected[u] /\ success'[u] = success[u],
             Knows(t)'
      PROVE  Knowledge'
  BY <1>a, KnowsFrame DEF Knowledge
<1>b. ASSUME NEW t \in Threads, NEW p \in CellsOf(t), NEW v,
             pc[t] \in HoldsHiAt,
             mem' = [mem EXCEPT ![p] = v],
             \A u \in Threads \ {t} :
               /\ pc'[u] = pc[u] /\ call'[u] = call[u]
               /\ expected'[u] = expected[u] /\ success'[u] = success[u],
             Knows(t)'
      PROVE  Knowledge'
  <2>1. \A u \in Threads \ {t} : pc[u] \in HoldsHiAt => p \notin CellsOf(u)
    BY <1>b, DisjointCells
  <2>2. \A u \in Threads \ {t} :
          pc[u] \in HoldsHiAt => \A q \in CellsOf(u) : mem'[q] = mem[q]
    <3>1. \A u \in Threads \ {t} : pc[u] \in HoldsHiAt => CellsOf(u) \subseteq Ptrs
      BY FieldsOfCall DEF CellsOf, HoldsHiAt, HoldsLoAt
    <3>2. QED
      BY <1>b, <2>1, <3>1 DEF TypeOK
  <2>3. QED
    BY <1>b, <2>2, KnowsFrame DEF Knowledge
<1>1. ASSUME NEW t \in Threads, Reject(t)
      PROVE  Knowledge'
  BY <1>1, KnowsFrame DEF Reject, Knowledge
<1>2. ASSUME NEW t \in Threads, Call(t)
      PROVE  Knowledge'
  <2>1. PICK r \in Requests : /\ call' = [call EXCEPT ![t] = r]
                              /\ expected' = [expected EXCEPT ![t] = r.exp]
    BY <1>2 DEF Call
  <2>2. Knows(t)'
    BY <1>2, <2>1 DEF Call, TypeOK, Knows, Undecided, HoldsHiAt, HoldsLoAt
  <2>3. QED
    BY <1>a, <1>2, <2>1, <2>2 DEF Call, TypeOK
<1>3. ASSUME NEW t \in Threads, LockLo(t) \/ LockHi(t)
      PROVE  Knowledge'
  <2>1. Knows(t)'
    BY <1>3 DEF LockLo, LockHi, TypeOK, Knows, Undecided, HoldsHiAt, HoldsLoAt
  <2>2. QED
    BY <1>a, <1>3, <2>1 DEF LockLo, LockHi, TypeOK
<1>4. ASSUME NEW t \in Threads, CmpLo(t)
      PROVE  Knowledge'
  <2>1. Knows(t)'
    BY <1>4, FieldsOfCall
       DEF CmpLo, TypeOK, Knows, MemPair, Undecided, HoldsHiAt, HoldsLoAt
  <2>2. QED
    BY <1>a, <1>4, <2>1 DEF CmpLo, TypeOK
<1>5. ASSUME NEW t \in Threads, CmpHi(t)
      PROVE  Knowledge'
  <2>1. Knows(t)'
    BY <1>5, FieldsOfCall
       DEF CmpHi, TypeOK, Knows, MemPair, Undecided, HoldsHiAt, HoldsLoAt
  <2>2. QED
    BY <1>a, <1>5, <2>1 DEF CmpHi, TypeOK
<1>6. ASSUME NEW t \in Threads, StoreLo(t)
      PROVE  Knowledge'
  <2>1. Knows(t)'
    BY <1>6 DEF StoreLo, TypeOK, Knows, Undecided, HoldsHiAt, HoldsLoAt
  <2>2. pc[t] \in HoldsHiAt /\ call[t].ptr_lo \in CellsOf(t)
    BY <1>6 DEF StoreLo, HoldsHiAt, HoldsLoAt, CellsOf
  <2>3. QED
    BY <1>b, <1>6, <2>1, <2>2 DEF StoreLo, TypeOK
<1>7. ASSUME NEW t \in Threads, StoreHi(t)
      PROVE  Knowledge'
  <2>1. Knows(t)'
    BY <1>7 DEF StoreHi, TypeOK, Knows, Undecided, HoldsHiAt, HoldsLoAt
  <2>2. pc[t] \in HoldsHiAt /\ call[t].ptr_hi \in CellsOf(t)
    BY <1>7 DEF StoreHi, HoldsHiAt, HoldsLoAt, CellsOf
  <2>3. QED
    BY <1>b, <1>7, <2>1, <2>2 DEF StoreHi, TypeOK
<1>8. ASSUME NEW t \in Threads, LoadLo(t)
      PROVE  Knowledge'
  <2>1. expected'[t] = [expected[t] EXCEPT !.lo = mem[call[t].ptr_lo]]
    BY <1>8 DEF LoadLo, TypeOK
  <2>2. expected'[t].lo = mem[call[t].ptr_lo]
    BY <1>8, <2>1, FieldsOfCall DEF LoadLo, Pair
  <2>3. Knows(t)'
    BY <1>8, <2>2
       DEF LoadLo, TypeOK, Knows, MemPair, Undecided, HoldsHiAt, HoldsLoAt
  <2>4. QED
    BY <1>a, <1>8, <2>3 DEF LoadLo, TypeOK
<1>9. ASSUME NEW t \in Threads, LoadHi(t)
      PROVE  Knowledge'
  <2>1. expected'[t] = [expected[t] EXCEPT !.hi = mem[call[t].ptr_hi]]
    BY <1>9 DEF LoadHi, TypeOK
  <2>2. expected'[t] = MemPair(t)
    BY <1>9, <2>1, FieldsOfCall DEF LoadHi, Pair, Knows, MemPair
  <2>3. Knows(t)'
    BY <1>9, <2>2
       DEF LoadHi, TypeOK, Knows, Undecided, HoldsHiAt, HoldsLoAt
  <2>4. QED
    BY <1>a, <1>9, <2>3 DEF LoadHi, TypeOK
<1>10. ASSUME NEW t \in Threads, UnlockHi(t) \/ UnlockLo(t)
       PROVE  Knowledge'
  <2>1. Knows(t)'
    BY <1>10
       DEF UnlockHi, UnlockLo, TypeOK, Knows, Undecided, HoldsHiAt, HoldsLoAt
  <2>2. QED
    BY <1>a, <1>10, <2>1 DEF UnlockHi, UnlockLo, TypeOK
<1>11. CASE UNCHANGED vars
  BY <1>11, KnowsFrame DEF vars, Knowledge
<1>12. QED
  BY <1>1, <1>2, <1>3, <1>4, <1>5, <1>6, <1>7, <1>8, <1>9, <1>10, <1>11
     DEF Next, Step
-----------------------------------------------------------------------------
DInv == IInv /\ Knowledge

(* The abstract register shows the memory, except that the pair of a thread
   between its two stores already counts as written. *)
LEMMA RegOfWriter ==
  ASSUME IInv, NEW t \in Threads, pc[t] = "store_hi"
  PROVE  AbstractReg[call[t].ptr_hi] = call[t].des.hi
<1>1. call[t].ptr_hi \in Ptrs
  BY FieldsOfCall
<1>2. \A u \in Threads :
        pc[u] = "store_hi" /\ call[u].ptr_hi = call[t].ptr_hi => u = t
  BY DisjointCells DEF CellsOf, HoldsHiAt, HoldsLoAt
<1>3. (CHOOSE u \in Threads :
         pc[u] = "store_hi" /\ call[u].ptr_hi = call[t].ptr_hi) = t
  BY <1>2
<1>4. QED
  BY <1>1, <1>3 DEF AbstractReg

LEMMA RegOfCell ==
  ASSUME NEW p \in Ptrs,
         \A t \in Threads : ~(pc[t] = "store_hi" /\ call[t].ptr_hi = p)
  PROVE  AbstractReg[p] = mem[p]
BY DEF AbstractReg

(* A cell with the same writer, if any, and the same contents looks the same. *)
LEMMA RegOfUnchanged ==
  ASSUME NEW p \in Ptrs, mem'[p] = mem[p],
         \A t \in Threads :
           /\ (pc'[t] = "store_hi" /\ call'[t].ptr_hi = p)
                <=> (pc[t] = "store_hi" /\ call[t].ptr_hi = p)
           /\ pc[t] = "store_hi" => call'[t] = call[t]
  PROVE  AbstractReg'[p] = AbstractReg[p]
<1> DEFINE w  == CHOOSE t \in Threads :
                   pc[t] = "store_hi" /\ call[t].ptr_hi = p
           w1 == CHOOSE t \in Threads :
                   pc'[t] = "store_hi" /\ call'[t].ptr_hi = p
<1>1. CASE \E t \in Threads : pc[t] = "store_hi" /\ call[t].ptr_hi = p
  <2>1. w1 = w /\ w \in Threads /\ pc[w] = "store_hi"
    BY <1>1
  <2>2. AbstractReg[p] = call[w].des.hi /\ AbstractReg'[p] = call'[w1].des.hi
    BY <1>1 DEF AbstractReg
  <2>3. QED
    BY <2>1, <2>2
<1>2. CASE ~ \E t \in Threads : pc[t] = "store_hi" /\ call[t].ptr_hi = p
  BY <1>2 DEF AbstractReg
<1>3. QED
  BY <1>1, <1>2

LEMMA RegIsFunction ==
  AbstractReg = [p \in Ptrs |-> AbstractReg[p]]
BY DEF AbstractReg

LEMMA RegIsFunctionNext ==
  AbstractReg' = [p \in Ptrs |-> AbstractReg'[p]]
BY DEF AbstractReg

(* Steps that touch neither the memory nor a thread between its two stores
   leave the abstract register alone. *)
LEMMA RegFrame ==
  ASSUME mem' = mem,
         \A t \in Threads :
           /\ pc'[t] = "store_hi" <=> pc[t] = "store_hi"
           /\ pc[t] = "store_hi" => call'[t] = call[t]
  PROVE  AbstractReg' = AbstractReg
<1>1. \A p \in Ptrs : AbstractReg'[p] = AbstractReg[p]
  BY RegOfUnchanged
<1>2. QED
  BY <1>1, RegIsFunction, RegIsFunctionNext

(* While t has both locks, the register shows it its own two cells as they
   are in memory. *)
LEMMA CurrentIsMemory ==
  ASSUME IInv, NEW t \in Threads,
         pc[t] \in HoldsHiAt, pc[t] # "store_hi"
  PROVE  /\ AbstractReg[call[t].ptr_lo] = mem[call[t].ptr_lo]
         /\ AbstractReg[call[t].ptr_hi] = mem[call[t].ptr_hi]
         /\ Register!Current(t) = MemPair(t)
<1>1. call[t].ptr_lo \in Ptrs /\ call[t].ptr_hi \in Ptrs
  BY FieldsOfCall DEF HoldsHiAt, HoldsLoAt
<1>2. \A u \in Threads : pc[u] = "store_hi" => call[u].ptr_hi \notin CellsOf(t)
  BY DisjointCells DEF CellsOf, HoldsHiAt, HoldsLoAt
<1>3. /\ AbstractReg[call[t].ptr_lo] = mem[call[t].ptr_lo]
      /\ AbstractReg[call[t].ptr_hi] = mem[call[t].ptr_hi]
  BY <1>1, <1>2, RegOfCell DEF CellsOf
<1>4. QED
  BY <1>3 DEF Register!Current, MemPair
-----------------------------------------------------------------------------
LEMMA InitRefines == Init => Register!Init
<1> SUFFICES ASSUME Init PROVE Register!Init
  OBVIOUS
<1>1. AbstractReg = mem
  BY DEF Init, AbstractReg
<1>2. AbstractPhase = [t \in Threads |-> "idle"]
  BY DEF Init, AbstractPhase
<1>3. AbstractExpected = [t \in Threads |-> NoCall]
  BY DEF Init, AbstractExpected
<1>4. QED
  BY <1>1, <1>2, <1>3 DEF Init, Register!Init

(* The phases and expected pairs that are not t's do not change with t's
   steps: t writes no cell of another thread that has both locks. *)
LEMMA OthersFrame ==
  ASSUME NEW t \in Threads,
         \A u \in Threads \ {t} :
           /\ pc'[u] = pc[u] /\ call'[u] = call[u] /\ expected'[u] = expected[u]
           /\ pc[u] \in HoldsHiAt => \A p \in CellsOf(u) : mem'[p] = mem[p]
  PROVE  \A u \in Threads \ {t} :
           /\ AbstractPhase'[u] = AbstractPhase[u]
           /\ AbstractExpected'[u] = AbstractExpected[u]
<1> SUFFICES ASSUME NEW u \in Threads \ {t}
             PROVE  /\ AbstractPhase'[u] = AbstractPhase[u]
                    /\ AbstractExpected'[u] = AbstractExpected[u]
  OBVIOUS
<1>1. AbstractPhase'[u] = AbstractPhase[u]
  BY DEF AbstractPhase
<1>2. CASE pc[u] \in {"load_lo", "load_hi"}
  BY <1>1, <1>2 DEF AbstractExpected, CellsOf, HoldsHiAt, HoldsLoAt
<1>3. CASE pc[u] \notin {"load_lo", "load_hi"}
  BY <1>1, <1>3 DEF AbstractExpected
<1>4. QED
  BY <1>2, <1>3

LEMMA MappedFunctions ==
  /\ DOMAIN AbstractPhase = Threads /\ DOMAIN AbstractExpected = Threads
  /\ AbstractPhase = [u \in Threads |-> AbstractPhase[u]]
  /\ AbstractExpected = [u \in Threads |-> AbstractExpected[u]]
BY DEF AbstractPhase, AbstractExpected

(* A step of t changes at most t's entries of the mapped functions. *)
LEMMA OneEntry ==
  ASSUME NEW t \in Threads,
         \A u \in Threads \ {t} :
           /\ AbstractPhase'[u] = AbstractPhase[u]
           /\ AbstractExpected'[u] = AbstractExpected[u]
  PROVE  /\ AbstractPhase' = [AbstractPhase EXCEPT ![t] = AbstractPhase'[t]]
         /\ AbstractExpected' =
              [AbstractExpected EXCEPT ![t] = AbstractExpected'[t]]
<1>1. /\ AbstractPhase' = [u \in Threads |-> AbstractPhase'[u]]
      /\ AbstractExpected' = [u \in Threads |-> AbstractExpected'[u]]
  BY DEF AbstractPhase, AbstractExpected
<1>2. QED
  BY <1>1, MappedFunctions

(***************************************************************************)
(* Step simulation.  Call opens, the first store succeeds, a failing       *)
(* comparison fails, the last unlock returns; all other steps stutter.     *)
(***************************************************************************)
LEMMA NextRefines ==
  ASSUME DInv, [Next]_vars
  PROVE  [Register!Next]_(Register!vars)
<1> USE DEF Goto
<1> IInv /\ TypeOK /\ \A t \in Threads : Knows(t)
  BY DEF DInv, IInv, Knowledge
<1>a. ASSUME NEW t \in Threads, mem' = mem,
             \A u \in Threads \ {t} :
               pc'[u] = pc[u] /\ call'[u] = call[u] /\ expected'[u] = expected[u]
      PROVE  /\ AbstractPhase' = [AbstractPhase EXCEPT ![t] = AbstractPhase'[t]]
             /\ AbstractExpected' =
                  [AbstractExpected EXCEPT ![t] = AbstractExpected'[t]]
             /\ (pc[t] # "store_hi" /\ pc'[t] # "store_hi") =>
                  AbstractReg' = AbstractReg
  <2>1. \A u \in Threads \ {t} :
          /\ AbstractPhase'[u] = AbstractPhase[u]
          /\ AbstractExpected'[u] = AbstractExpected[u]
    BY <1>a, OthersFrame
  <2>2. (pc[t] # "store_hi" /\ pc'[t] # "store_hi") => AbstractReg' = AbstractReg
    BY <1>a, RegFrame
  <2>3. QED
    BY <2>1, <2>2, OneEntry
<1>b. ASSUME NEW t \in Threads, mem' = mem, call' = call, ret' = ret,
             \A u \in Threads \ {t} :
               pc'[u] = pc[u] /\ expected'[u] = expected[u],
             pc[t] # "store_hi", pc'[t] # "store_hi",
             AbstractPhase'[t] = AbstractPhase[t],
             AbstractExpected'[t] = AbstractExpected[t]
      PROVE  UNCHANGED Register!vars
  <2>1. AbstractPhase' = AbstractPhase /\ AbstractExpected' = AbstractExpected
    BY <1>a, <1>b, MappedFunctions
  <2>2. QED
    BY <1>a, <1>b, <2>1 DEF Register!vars
<1>1. ASSUME NEW t \in Threads, Reject(t)
      PROVE  Register!Next
  <2>1. AbstractReg' = AbstractReg
    BY <1>1 DEF Reject, AbstractReg
  <2>2. AbstractPhase' = AbstractPhase /\ AbstractExpected' = AbstractExpected
    BY <1>1 DEF Reject, AbstractPhase, AbstractExpected
  <2>3. AbstractPhase[t] = "idle"
    BY <1>1 DEF Reject, AbstractPhase
  <2>4. Register!Reject(t)
    BY <1>1, <2>1, <2>2, <2>3 DEF Reject, Valid, Register!Reject, Register!Valid
  <2>5. QED
    BY <2>4 DEF Register!Next
<1>2. ASSUME NEW t \in Threads, Call(t)
      PROVE  Register!Next
  <2>1. PICK r \in Requests :
          /\ Valid(r)
          /\ call' = [call EXCEPT ![t] = r]
          /\ expected' = [expected EXCEPT ![t] = r.exp]
          /\ ret' = [ret EXCEPT ![t] = "NONE"]
    BY <1>2 DEF Call
  <2>2. /\ pc[t] = "idle" /\ pc'[t] = "lock_lo" /\ mem' = mem
        /\ \A u \in Threads \ {t} :
             pc'[u] = pc[u] /\ call'[u] = call[u] /\ expected'[u] = expected[u]
    BY <1>2, <2>1 DEF Call, TypeOK
  <2>3. AbstractPhase[t] = "idle" /\ AbstractPhase'[t] = "open"
    BY <2>2 DEF AbstractPhase
  <2>4. AbstractExpected[t] = expected[t] /\ AbstractExpected'[t] = r.exp
    BY <2>1, <2>2 DEF AbstractExpected, TypeOK
  <2>5. AbstractExpected' = [AbstractExpected EXCEPT ![t] = r.exp]
    BY <1>a, <2>2, <2>4
  <2>6. AbstractPhase' = [AbstractPhase EXCEPT ![t] = "open"]
    BY <1>a, <2>2, <2>3
  <2>7. AbstractReg' = AbstractReg
    BY <1>a, <2>2
  <2>8. Register!Open(t)
    BY <2>1, <2>3, <2>5, <2>6, <2>7 DEF Valid, Register!Open, Register!Valid
  <2>9. QED
    BY <2>8 DEF Register!Next
<1>3. ASSUME NEW t \in Threads, LockLo(t) \/ LockHi(t)
      PROVE  UNCHANGED Register!vars
  <2>1. /\ mem' = mem /\ call' = call /\ ret' = ret /\ expected' = expected
        /\ pc[t] \in {"lock_lo", "lock_hi"} /\ pc'[t] \in {"lock_hi", "cmp_lo"}
        /\ \A u \in Threads \ {t} : pc'[u] = pc[u]
    BY <1>3 DEF LockLo, LockHi, TypeOK
  <2>2. AbstractPhase'[t] = AbstractPhase[t]
    BY <2>1 DEF AbstractPhase
  <2>3. AbstractExpected'[t] = AbstractExpected[t]
    BY <2>1 DEF AbstractExpected
  <2>4. QED
    BY <1>b, <2>1, <2>2, <2>3
<1>4. ASSUME NEW t \in Threads, CmpLo(t) \/ CmpHi(t)
      PROVE  [Register!Next]_(Register!vars)
  <2>1. /\ mem' = mem /\ call' = call /\ ret' = ret /\ expected' = expected
        /\ pc[t] \in {"cmp_lo", "cmp_hi"}
        /\ \A u \in Threads \ {t} : pc'[u] = pc[u]
    BY <1>4 DEF CmpLo, CmpHi, TypeOK
  <2>2. CASE pc'[t] \in {"cmp_hi", "store_lo"}
    <3>1. AbstractPhase'[t] = AbstractPhase[t]
      BY <2>1, <2>2 DEF AbstractPhase
    <3>2. AbstractExpected'[t] = AbstractExpected[t]
      BY <2>1, <2>2 DEF AbstractExpected
    <3>3. QED
      BY <1>b, <2>1, <2>2, <3>1, <3>2
  <2>3. CASE pc'[t] = "load_lo"
    <3>1. MemPair(t) # expected[t]
      BY <1>4, <2>3 DEF CmpLo, CmpHi, TypeOK, MemPair
    <3>2. AbstractPhase[t] = "open" /\ AbstractPhase'[t] = "closed"
      BY <2>1, <2>3 DEF AbstractPhase
    <3>3. AbstractExpected[t] = expected[t] /\ AbstractExpected'[t] = MemPair(t)
      BY <2>1, <2>3 DEF AbstractExpected, MemPair
    <3>4. Register!Current(t) = MemPair(t)
      BY <2>1, CurrentIsMemory DEF HoldsHiAt, HoldsLoAt
    <3>5. AbstractReg' = AbstractReg
      BY <1>a, <2>1, <2>3
    <3>6. /\ AbstractPhase' = [AbstractPhase EXCEPT ![t] = "closed"]
          /\ AbstractExpected' =
               [AbstractExpected EXCEPT ![t] = Register!Current(t)]
      BY <1>a, <2>1, <3>2, <3>3, <3>4
    <3>7. Register!Fail(t)
      BY <2>1, <3>1, <3>2, <3>3, <3>4, <3>5, <3>6 DEF Register!Fail
    <3>8. QED
      BY <3>7 DEF Register!Next
  <2>4. pc'[t] \in {"cmp_hi", "store_lo", "load_lo"}
    BY <1>4 DEF CmpLo, CmpHi, TypeOK
  <2>5. QED
    BY <2>2, <2>3, <2>4
<1>5. ASSUME NEW t \in Threads, StoreLo(t)
      PROVE  Register!Next
  <2> DEFINE lo == call[t].ptr_lo
             hi == call[t].ptr_hi
  <2>1. /\ pc[t] = "store_lo" /\ pc' = [pc EXCEPT ![t] = "store_hi"]
        /\ mem' = [mem EXCEPT ![lo] = call[t].des.lo]
        /\ call' = call /\ ret' = ret /\ expected' = expected
    BY <1>5 DEF StoreLo
  <2>2. lo \in Ptrs /\ hi \in Ptrs /\ lo # hi
    BY <2>1, FieldsOfCall, DisjointCells DEF HoldsHiAt, HoldsLoAt
  <2>3. \A u \in Threads \ {t} :
          pc[u] \in HoldsHiAt => lo \notin CellsOf(u) /\ hi \notin CellsOf(u)
    BY <2>1, DisjointCells DEF CellsOf, HoldsHiAt, HoldsLoAt
  <2>4. AbstractReg'[hi] = call[t].des.hi
    <3>1. \A u \in Threads :
            pc'[u] = "store_hi" /\ call'[u].ptr_hi = hi <=> u = t
      BY <2>1, <2>3 DEF TypeOK, CellsOf, HoldsHiAt, HoldsLoAt
    <3>2. (CHOOSE u \in Threads : pc'[u] = "store_hi" /\ call'[u].ptr_hi = hi) = t
      BY <3>1
    <3>3. QED
      BY <2>1, <2>2, <3>1, <3>2 DEF AbstractReg
  <2>5. AbstractReg'[lo] = call[t].des.lo
    <3>1. \A u \in Threads : ~(pc'[u] = "store_hi" /\ call'[u].ptr_hi = lo)
      BY <2>1, <2>2, <2>3 DEF TypeOK, CellsOf, HoldsHiAt, HoldsLoAt
    <3>2. AbstractReg'[lo] = mem'[lo]
      BY <2>2, <3>1 DEF AbstractReg
    <3>3. QED
      BY <2>1, <2>2, <3>2 DEF TypeOK
  <2>6. \A p \in Ptrs \ {lo, hi} : AbstractReg'[p] = AbstractReg[p]
    BY <2>1, RegOfUnchanged DEF TypeOK
  <2>7. AbstractReg' = [AbstractReg EXCEPT ![lo] = call[t].des.lo,
                                           ![hi] = call[t].des.hi]
    BY <2>2, <2>4, <2>5, <2>6, RegIsFunction, RegIsFunctionNext
  <2>8. AbstractPhase[t] = "open" /\ AbstractPhase'[t] = "closed"
    BY <2>1 DEF AbstractPhase, TypeOK
  <2>9. AbstractExpected[t] = expected[t] /\ AbstractExpected'[t] = expected[t]
    BY <2>1 DEF AbstractExpected, TypeOK
  <2>10. \A u \in Threads \ {t} :
           pc[u] \in HoldsHiAt => \A p \in CellsOf(u) : mem'[p] = mem[p]
    BY <2>1, <2>3, FieldsOfCall DEF CellsOf, TypeOK, HoldsHiAt, HoldsLoAt
  <2>11. \A u \in Threads \ {t} :
           /\ AbstractPhase'[u] = AbstractPhase[u]
           /\ AbstractExpected'[u] = AbstractExpected[u]
    BY <2>1, <2>10, OthersFrame DEF TypeOK
  <2>12. /\ AbstractPhase' = [AbstractPhase EXCEPT ![t] = "closed"]
         /\ AbstractExpected' = AbstractExpected
    BY <2>8, <2>9, <2>11, OneEntry, MappedFunctions
  <2>13. Register!Current(t) = expected[t]
    <3>1. Register!Current(t) = MemPair(t)
      BY <2>1, CurrentIsMemory DEF HoldsHiAt, HoldsLoAt
    <3>2. expected[t] \in Pair
      BY <2>1, FieldsOfCall
    <3>3. QED
      BY <2>1, <3>1, <3>2 DEF Knows, MemPair, Pair
  <2>14. Register!Succeed(t)
    BY <2>1, <2>7, <2>8, <2>9, <2>12, <2>13 DEF Register!Succeed
  <2>15. QED
    BY <2>14 DEF Register!Next
<1>6. ASSUME NEW t \in Threads, StoreHi(t)
      PROVE  UNCHANGED Register!vars
  <2> DEFINE hi == call[t].ptr_hi
  <2>1. /\ pc[t] = "store_hi" /\ pc' = [pc EXCEPT ![t] = "unlock_hi"]
        /\ mem' = [mem EXCEPT ![hi] = call[t].des.hi]
        /\ call' = call /\ ret' = ret /\ expected' = expected
    BY <1>6 DEF StoreHi
  <2>2. hi \in Ptrs
    BY <2>1, FieldsOfCall
  <2>3. \A u \in Threads \ {t} : pc[u] \in HoldsHiAt => hi \notin CellsOf(u)
    BY <2>1, DisjointCells DEF CellsOf, HoldsHiAt, HoldsLoAt
  <2>4. AbstractReg'[hi] = AbstractReg[hi]
    <3>1. \A u \in Threads : ~(pc'[u] = "store_hi" /\ call'[u].ptr_hi = hi)
      BY <2>1, <2>3 DEF TypeOK, CellsOf, HoldsHiAt, HoldsLoAt
    <3>2. AbstractReg'[hi] = mem'[hi]
      BY <2>2, <3>1 DEF AbstractReg
    <3>3. mem'[hi] = call[t].des.hi
      BY <2>1, <2>2 DEF TypeOK
    <3>4. QED
      BY <2>1, <3>2, <3>3, RegOfWriter
  <2>5. \A p \in Ptrs \ {hi} : AbstractReg'[p] = AbstractReg[p]
    BY <2>1, RegOfUnchanged DEF TypeOK
  <2>6. AbstractReg' = AbstractReg
    BY <2>4, <2>5, RegIsFunction, RegIsFunctionNext
  <2>7. AbstractPhase'[t] = AbstractPhase[t]
    BY <2>1 DEF AbstractPhase, TypeOK
  <2>8. AbstractExpected'[t] = AbstractExpected[t]
    BY <2>1 DEF AbstractExpected, TypeOK
  <2>9. \A u \in Threads \ {t} :
          pc[u] \in HoldsHiAt => \A p \in CellsOf(u) : mem'[p] = mem[p]
    BY <2>1, <2>3, FieldsOfCall DEF CellsOf, TypeOK, HoldsHiAt, HoldsLoAt
  <2>10. \A u \in Threads \ {t} :
           /\ AbstractPhase'[u] = AbstractPhase[u]
           /\ AbstractExpected'[u] = AbstractExpected[u]
    BY <2>1, <2>9, OthersFrame DEF TypeOK
  <2>11. AbstractPhase' = AbstractPhase /\ AbstractExpected' = AbstractExpected
    BY <2>7, <2>8, <2>10, OneEntry, MappedFunctions
  <2>12. QED
    BY <2>1, <2>6, <2>11 DEF Register!vars
<1>7. ASSUME NEW t \in Threads, LoadLo(t) \/ LoadHi(t) \/ UnlockHi(t)
      PROVE  UNCHANGED Register!vars
  <2>1. /\ mem' = mem /\ call' = call /\ ret' = ret
        /\ pc[t] \in {"load_lo", "load_hi", "unlock_hi"}
        /\ pc'[t] \in {"load_hi", "unlock_hi", "unlock_lo"}
        /\ \A u \in Threads \ {t} : pc'[u] = pc[u] /\ expected'[u] = expected[u]
    BY <1>7 DEF LoadLo, LoadHi, UnlockHi, TypeOK
  <2>2. AbstractPhase'[t] = AbstractPhase[t]
    BY <2>1 DEF AbstractPhase
  <2>3. CASE LoadLo(t)
    <3>1. AbstractExpected'[t] = AbstractExpected[t]
      BY <2>1, <2>3 DEF LoadLo, AbstractExpected, TypeOK
    <3>2. QED
      BY <1>b, <2>1, <2>2, <3>1
  <2>4. CASE LoadHi(t)
    <3>1. expected'[t] = [expected[t] EXCEPT !.hi = mem[call[t].ptr_hi]]
      BY <2>4 DEF LoadHi, TypeOK
    <3>2. expected[t] \in Pair /\ expected[t].lo = mem[call[t].ptr_lo]
      BY <2>4, FieldsOfCall DEF LoadHi, Knows
    <3>3. expected'[t] = MemPair(t)
      BY <3>1, <3>2 DEF Pair, MemPair
    <3>4. AbstractExpected'[t] = AbstractExpected[t]
      BY <2>4, <3>3 DEF LoadHi, AbstractExpected, MemPair, TypeOK
    <3>5. QED
      BY <1>b, <2>1, <2>2, <3>4
  <2>5. CASE UnlockHi(t)
    <3>1. AbstractExpected'[t] = AbstractExpected[t]
      BY <2>5 DEF UnlockHi, AbstractExpected, TypeOK
    <3>2. QED
      BY <1>b, <2>1, <2>2, <3>1
  <2>6. QED
    BY <1>7, <2>3, <2>4, <2>5
<1>8. ASSUME NEW t \in Threads, UnlockLo(t)
      PROVE  Register!Next
  <2>1. /\ mem' = mem /\ pc[t] = "unlock_lo" /\ pc'[t] = "idle"
        /\ \A u \in Threads \ {t} :
             pc'[u] = pc[u] /\ call'[u] = call[u] /\ expected'[u] = expected[u]
        /\ call' = [call EXCEPT ![t] = NoCall]
        /\ expected'[t] = NoCall
    BY <1>8 DEF UnlockLo, TypeOK
  <2>2. AbstractPhase[t] = "closed" /\ AbstractPhase'[t] = "idle"
    BY <2>1 DEF AbstractPhase
  <2>3. AbstractExpected[t] = expected[t] /\ AbstractExpected'[t] = NoCall
    BY <2>1 DEF AbstractExpected
  <2>4. /\ AbstractReg' = AbstractReg
        /\ AbstractPhase' = [AbstractPhase EXCEPT ![t] = "idle"]
        /\ AbstractExpected' = [AbstractExpected EXCEPT ![t] = NoCall]
    BY <1>a, <2>1, <2>2, <2>3
  <2>5. success[t] <=> expected[t] = call[t].exp
    BY <2>1 DEF Knows
  <2>6. ret' = [ret EXCEPT ![t] = IF AbstractExpected[t] = call[t].exp
                                  THEN "SUCCESS" ELSE "INTERNAL"]
    BY <1>8, <2>3, <2>5 DEF UnlockLo
  <2>7. Register!Return(t)
    BY <2>1, <2>2, <2>4, <2>6 DEF Register!Return
  <2>8. QED
    BY <2>7 DEF Register!Next
<1>9. CASE UNCHANGED vars
  BY <1>9 DEF vars, Register!vars, AbstractReg, AbstractPhase, AbstractExpected
<1>10. QED
  BY <1>1, <1>2, <1>3, <1>4, <1>5, <1>6, <1>7, <1>8, <1>9 DEF Next, Step

(***************************************************************************)
(* retryix_svm_atomic_compare_exchange_pair_256 implements the indivisible *)
(* compare and exchange the header promises, for any number of threads,    *)
(* any cells and any table, as long as only pair exchanges touch the       *)
(* cells.  It needs no assumption on the order of the pointers: calls that *)
(* deadlock never take effect.                                             *)
(***************************************************************************)
THEOREM PairExchangeIsAtomic == Spec => PairIsAtomic
<1>1. Init => DInv
  BY InitType, InitLocks, InitKnowledge DEF DInv, IInv
<1>2. DInv /\ [Next]_vars => DInv'
  BY NextType, NextLocks, NextKnowledge DEF DInv, IInv
<1>3. Init => Register!Init
  BY InitRefines
<1>4. DInv /\ [Next]_vars => [Register!Next]_(Register!vars)
  BY NextRefines
<1>5. QED
  BY <1>1, <1>2, <1>3, <1>4, PTL DEF Spec, PairIsAtomic, Register!Spec
=============================================================================
