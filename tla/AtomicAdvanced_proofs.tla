------------------------ MODULE AtomicAdvanced_proofs ------------------------
(***************************************************************************)
(* Proofs about the 128-bit operations, for any number of threads and      *)
(* cells and words of any size: the types hold in every program, and in    *)
(* the sound ones every call is atomic.                                    *)
(***************************************************************************)
EXTENDS AtomicAdvanced, NumberLaws

Critical == {"read", "write", "write_next", "unlock"}

Unlocked == {"read_lo", "read_hi", "cas", "reread", "return"}

PCs == {"idle", "lock"} \cup Critical \cup Unlocked

(* What is known of a thread: its call passed the checks, it is where its
   call takes it, and an exchange that is about to write has seen what it
   was to compare with. *)
Good(t) ==
  /\ pc[t] \in PCs
  /\ spare[t] \in Half
  /\ op[t] \in program.requests \cup {NoOp}
  /\ pc[t] = "idle" <=> op[t] = NoOp
  /\ op[t] # NoOp => Accepted(op[t]) /\ seen[t] \in [CellsOf(op[t]) -> Word]
  /\ pc[t] \in {"lock"} \cup Critical => Locks(op[t])
  /\ pc[t] \in Unlocked => ~Locks(op[t])
  /\ pc[t] \in {"read_lo", "read_hi"} => Reads(op[t])
  /\ pc[t] = "reread" => op[t].kind = "fetch_add"
  /\ pc[t] = "write" => op[t].kind # "load"
  /\ pc[t] = "write_next" => op[t].kind = "pair"
  /\ pc[t] = "cas" /\ op[t].kind = "cas" => seen[t] = op[t].exp
  /\ pc[t] = "write" /\ op[t].kind \in {"cas", "pair"} => seen[t] = op[t].exp

Functions ==
  /\ pc = [t \in Threads |-> pc[t]] /\ op = [t \in Threads |-> op[t]]
  /\ seen = [t \in Threads |-> seen[t]] /\ spare = [t \in Threads |-> spare[t]]

Buckets == 0 .. SPINLOCK_TABLE_SIZE - 1

Types ==
  /\ program \in Programs
  /\ mem \in [Cells -> Word]
  /\ g_spinlocks \in [Buckets -> {0, 1}]
  /\ Functions
  /\ \A t \in Threads : Good(t)
-----------------------------------------------------------------------------
LEMMA HalfIs == 0 \in Half /\ Half \subseteq Nat
  BY SizesAssumption DEF Half

LEMMA ZeroIs == Zero \in Word
  BY HalfIs DEF Zero, Word

LEMMA WordIs ==
  ASSUME NEW w \in Word
  PROVE  /\ w.lo \in Half /\ w.hi \in Half /\ w = [lo |-> w.lo, hi |-> w.hi]
         /\ \A x \in Half : /\ [w EXCEPT !.lo = x] \in Word
                            /\ [w EXCEPT !.hi = x] \in Word
                            /\ [w EXCEPT !.hi = x].lo = w.lo
  BY DEF Word

LEMMA CellsAre ==
  ASSUME NEW o
  PROVE  /\ o.at \in CellsOf(o)
         /\ o.kind # "pair" => CellsOf(o) = {o.at}
         /\ o.kind = "pair" => CellsOf(o) = {o.at, o.at + 16}
  BY DEF CellsOf

(* The call of a thread that is in one. *)
LEMMA CallIs ==
  ASSUME Types, NEW t \in Threads, pc[t] # "idle"
  PROVE  /\ op[t] # NoOp /\ op[t] \in program.requests
         /\ Accepted(op[t]) /\ IsCall(op[t])
         /\ op[t].at \in CellsOf(op[t]) /\ CellsOf(op[t]) \subseteq Cells
         /\ seen[t] \in [CellsOf(op[t]) -> Word]
         /\ mem[op[t].at] \in Word
<1>1. op[t] # NoOp /\ op[t] \in program.requests /\ program \in Programs
  BY DEF Types, Good
<1>2. Accepted(op[t]) /\ seen[t] \in [CellsOf(op[t]) -> Word]
  BY <1>1 DEF Types, Good
<1>3. IsCall(op[t])
  BY <1>1, <1>2, CallsAssumption
<1>4. CellsOf(op[t]) \subseteq Cells /\ op[t].at \in CellsOf(op[t])
  BY <1>3, CellsAre DEF IsCall
<1>5. mem[op[t].at] \in Word
  BY <1>4 DEF Types
<1> QED
  BY <1>1, <1>2, <1>3, <1>4, <1>5

(* A cell without its carry, or with it, is a cell. *)
LEMMA AddIsWord ==
  ASSUME NEW v \in Word, NEW w \in Word
  PROVE  AddU128(v, w) \in Word
<1>1. v.lo \in Nat /\ v.hi \in Nat /\ w.lo \in Nat /\ w.hi \in Nat
  BY WordIs, HalfIs
<1>2. \A a \in Int : a % W \in Half
  BY SizesAssumption, DivisionWithRest DEF Half
<1> DEFINE lo == (w.lo + v.lo) % W
           hi == IF lo < w.lo THEN w.hi + v.hi + 1 ELSE w.hi + v.hi
<1>3. hi \in Int /\ w.lo + v.lo \in Int
  BY <1>1
<1>4. lo \in Half
  BY <1>2, <1>3
<1> HIDE DEF hi, lo
<1>5. (hi % W) \in Half
  BY <1>2, <1>3
<1>6. AddU128(v, w) = [lo |-> lo, hi |-> hi % W]
  BY DEF AddU128, lo, hi
<1> QED
  BY <1>4, <1>5, <1>6 DEF Word

LEMMA DesiredIs ==
  ASSUME NEW o, IsCall(o), NEW old \in [CellsOf(o) -> Word]
  PROVE  Desired(o, old) \in [CellsOf(o) -> Word]
<1>1. CASE o.kind = "fetch_add"
  <2>1. Desired(o, old) = [c \in CellsOf(o) |-> AddU128(old[c], o.new[c])]
    BY <1>1 DEF Desired
  <2>2. \A c \in CellsOf(o) : old[c] \in Word /\ o.new[c] \in Word
    BY DEF IsCall
  <2> QED
    BY <2>1, <2>2, AddIsWord
<1>2. CASE o.kind = "load"
  BY <1>2 DEF Desired
<1>3. CASE o.kind \notin {"fetch_add", "load"}
  BY <1>3 DEF Desired, IsCall
<1> QED
  BY <1>1, <1>2, <1>3
-----------------------------------------------------------------------------
(* A step of thread t leaves the others alone. *)
Only(t) ==
  /\ UNCHANGED program /\ Functions'
  /\ \A u \in Threads \ {t} : /\ pc'[u] = pc[u] /\ op'[u] = op[u]
                              /\ seen'[u] = seen[u] /\ spare'[u] = spare[u]

LEMMA OnlyKeeps ==
  ASSUME Types, NEW t \in Threads, Only(t), Good(t)',
         mem' \in [Cells -> Word], g_spinlocks' \in [Buckets -> {0, 1}]
  PROVE  Types'
<1>1. ASSUME NEW u \in Threads \ {t} PROVE Good(u)'
  <2>1. Good(u)
    BY DEF Types
  <2>2. /\ pc'[u] = pc[u] /\ op'[u] = op[u] /\ seen'[u] = seen[u] /\ spare'[u] = spare[u]
        /\ program' = program
    BY DEF Only
  <2> QED
    BY <2>1, <2>2 DEF Good, Locks
<1> QED
  BY <1>1 DEF Types, Only

LEMMA GotoIs ==
  ASSUME Functions, NEW t \in Threads, NEW from, NEW to, Goto(t, from, to)
  PROVE  /\ pc[t] = from /\ pc'[t] = to /\ pc' = [u \in Threads |-> pc'[u]]
         /\ \A u \in Threads \ {t} : pc'[u] = pc[u]
  BY DEF Goto, Functions

(* [seen EXCEPT ![t] = x], and what follows of the others. *)
LEMMA OneIsSet ==
  ASSUME NEW f, f = [t \in Threads |-> f[t]], NEW t \in Threads, NEW x
  PROVE  LET g == [f EXCEPT ![t] = x]
         IN  /\ g[t] = x /\ g = [u \in Threads |-> g[u]]
             /\ \A u \in Threads \ {t} : g[u] = f[u]
  OBVIOUS

LEMMA ReadLoIs ==
  ASSUME Types, NEW t \in Threads, ReadLo(t)
  PROVE  /\ Only(t) /\ UNCHANGED <<mem, g_spinlocks>>
         /\ pc[t] = "read_lo" /\ pc'[t] = "read_hi" /\ op'[t] = op[t] /\ spare'[t] = spare[t]
         /\ seen'[t] = [seen[t] EXCEPT ![op[t].at].lo = mem[op[t].at].lo]
  BY GotoIs DEF ReadLo, Only, Types, Functions

LEMMA ReadHiIs ==
  ASSUME Types, NEW t \in Threads, ReadHi(t)
  PROVE  /\ Only(t) /\ UNCHANGED <<mem, g_spinlocks>>
         /\ pc[t] = "read_hi" /\ pc'[t] = "cas" /\ op'[t] = op[t] /\ spare'[t] = spare[t]
         /\ seen'[t] = [seen[t] EXCEPT ![op[t].at].hi = mem[op[t].at].hi]
  BY GotoIs DEF ReadHi, Only, Types, Functions

LEMMA CasSuccessIs ==
  ASSUME Types, NEW t \in Threads, CasSuccess(t)
  PROVE  /\ Only(t) /\ UNCHANGED <<g_spinlocks, op, seen, spare>>
         /\ pc[t] = "cas"
         /\ pc'[t] = IF op[t].kind = "fetch_add" THEN "reread" ELSE "return"
         /\ mem[op[t].at] = Comparand(t)
         /\ mem' = [mem EXCEPT ![op[t].at] = Desired(op[t], seen[t])[op[t].at]]
  BY DEF CasSuccess, Only, Types, Functions

LEMMA RereadIs ==
  ASSUME Types, NEW t \in Threads, ReadHiAgain(t)
  PROVE  /\ Only(t) /\ UNCHANGED <<mem, g_spinlocks>>
         /\ pc[t] = "reread" /\ pc'[t] = "return" /\ op'[t] = op[t] /\ spare'[t] = spare[t]
         /\ seen'[t] = [seen[t] EXCEPT ![op[t].at].hi = mem[op[t].at].hi]
  BY GotoIs DEF ReadHiAgain, Only, Types, Functions

LEMMA CasFailureIs ==
  ASSUME Types, NEW t \in Threads, CasFailure(t)
  PROVE  /\ Only(t) /\ UNCHANGED <<mem, g_spinlocks>>
         /\ pc[t] = "cas" /\ op'[t] = op[t]
         /\ pc'[t] = IF op[t].kind \in {"load", "cas"} THEN "return" ELSE "read_lo"
         /\ mem[op[t].at] # Comparand(t)
         /\ IF program.build = "separate" /\ Reads(op[t])
            THEN /\ seen'[t] = [seen[t] EXCEPT ![op[t].at].lo = mem[op[t].at].lo]
                 /\ spare'[t] = mem[op[t].at].hi
            ELSE /\ seen'[t] = [seen[t] EXCEPT ![op[t].at] = mem[op[t].at]]
                 /\ spare'[t] = spare[t]
  BY DEF CasFailure, Only, Types, Functions

LEMMA ReturnIs ==
  ASSUME Types, NEW t \in Threads, Return(t)
  PROVE  /\ Only(t) /\ UNCHANGED <<mem, g_spinlocks>>
         /\ pc[t] = "return" /\ pc'[t] = "idle" /\ op' = [op EXCEPT ![t] = NoOp]
         /\ op'[t] = NoOp /\ spare'[t] = 0
  BY GotoIs DEF Return, Only, Types, Functions

LEMMA LockIs ==
  ASSUME Types, NEW t \in Threads, LockAddr(t)
  PROVE  /\ Only(t) /\ UNCHANGED <<mem, op, seen, spare>>
         /\ pc[t] = "lock" /\ pc'[t] = "read"
         /\ g_spinlocks[get_lock_index(op[t].at)] = 0
         /\ g_spinlocks' = [g_spinlocks EXCEPT ![get_lock_index(op[t].at)] = 1]
  BY GotoIs DEF LockAddr, Only, Types, Functions

LEMMA LockedReadIs ==
  ASSUME Types, NEW t \in Threads, LockedRead(t)
  PROVE  /\ Only(t) /\ UNCHANGED <<mem, g_spinlocks, op, spare>>
         /\ pc[t] = "read"
         /\ seen'[t] = [c \in CellsOf(op[t]) |-> mem[c]]
         /\ \/ /\ pc'[t] = "unlock"
               /\ \/ op[t].kind = "load"
                  \/ op[t].kind \in {"cas", "pair"} /\ seen'[t] # op[t].exp
            \/ /\ pc'[t] = "write" /\ op[t].kind # "load"
               /\ op[t].kind \in {"cas", "pair"} => seen'[t] = op[t].exp
<1> DEFINE o == op[t]
           old == [c \in CellsOf(o) |-> mem[c]]
<1>1. /\ pc[t] = "read" /\ UNCHANGED <<program, mem, g_spinlocks, op, spare>>
      /\ seen' = [seen EXCEPT ![t] = old]
      /\ pc' = [pc EXCEPT ![t] =
                  IF o.kind = "load" \/ (o.kind \in {"cas", "pair"} /\ old # o.exp)
                  THEN "unlock" ELSE "write"]
  BY DEF LockedRead
<1> HIDE DEF old
<1>2. seen'[t] = old /\ Only(t)
  BY <1>1 DEF Only, Types, Functions
<1>3. pc'[t] = IF o.kind = "load" \/ (o.kind \in {"cas", "pair"} /\ old # o.exp)
               THEN "unlock" ELSE "write"
  BY <1>1 DEF Types, Functions
<1> QED
  BY <1>1, <1>2, <1>3 DEF old

LEMMA LockedWriteIs ==
  ASSUME Types, NEW t \in Threads, LockedWrite(t)
  PROVE  /\ Only(t) /\ UNCHANGED <<g_spinlocks, op, seen, spare>>
         /\ pc[t] = "write"
         /\ pc'[t] = IF op[t].kind = "pair" THEN "write_next" ELSE "unlock"
         /\ mem' = [mem EXCEPT ![op[t].at] = Desired(op[t], seen[t])[op[t].at]]
  BY GotoIs DEF LockedWrite, Only, Types, Functions

LEMMA LockedWriteNextIs ==
  ASSUME Types, NEW t \in Threads, LockedWriteNext(t)
  PROVE  /\ Only(t) /\ UNCHANGED <<g_spinlocks, op, seen, spare>>
         /\ pc[t] = "write_next" /\ pc'[t] = "unlock"
         /\ mem' = [mem EXCEPT ![op[t].at + 16] = op[t].new[op[t].at + 16]]
  BY GotoIs DEF LockedWriteNext, Only, Types, Functions

LEMMA UnlockIs ==
  ASSUME Types, NEW t \in Threads, UnlockAddr(t)
  PROVE  /\ Only(t) /\ UNCHANGED mem
         /\ pc[t] = "unlock" /\ pc'[t] = "idle" /\ op' = [op EXCEPT ![t] = NoOp]
         /\ op'[t] = NoOp /\ spare'[t] = 0
         /\ g_spinlocks' = [g_spinlocks EXCEPT ![get_lock_index(op[t].at)] = 0]
  BY GotoIs DEF UnlockAddr, Only, Types, Functions

LEMMA InvokeIs ==
  ASSUME Types, NEW t \in Threads, Invoke(t)
  PROVE  /\ Only(t) /\ UNCHANGED <<mem, g_spinlocks>> /\ pc[t] = "idle"
         /\ \E o \in program.requests :
              /\ Accepted(o) /\ op' = [op EXCEPT ![t] = o] /\ op'[t] = o
              /\ seen'[t] = IF Reads(o) \/ Locks(o) THEN [c \in CellsOf(o) |-> Zero] ELSE o.exp
              /\ pc'[t] = IF Locks(o) THEN "lock" ELSE IF Reads(o) THEN "read_lo" ELSE "cas"
         /\ spare'[t] \in Half
<1>1. PICK o \in program.requests :
        /\ Accepted(o)
        /\ op' = [op EXCEPT ![t] = o]
        /\ seen' = [seen EXCEPT ![t] =
                      IF Reads(o) \/ Locks(o) THEN [c \in CellsOf(o) |-> Zero] ELSE o.exp]
        /\ pc' = [pc EXCEPT ![t] = CASE Locks(o) -> "lock"
                                     [] ~Locks(o) /\ Reads(o) -> "read_lo"
                                     [] OTHER -> "cas"]
  BY DEF Invoke
<1>2. PICK junk \in Half : spare' = [spare EXCEPT ![t] = junk]
  BY HalfIs DEF Invoke
<1>3. pc[t] = "idle" /\ UNCHANGED <<program, mem, g_spinlocks>>
  BY DEF Invoke
<1>4. /\ op'[t] = o /\ op' = [u \in Threads |-> op'[u]]
      /\ \A u \in Threads \ {t} : op'[u] = op[u]
  BY <1>1, OneIsSet DEF Types, Functions
<1>5. /\ seen'[t] = IF Reads(o) \/ Locks(o) THEN [c \in CellsOf(o) |-> Zero] ELSE o.exp
      /\ seen' = [u \in Threads |-> seen'[u]]
      /\ \A u \in Threads \ {t} : seen'[u] = seen[u]
  BY <1>1, OneIsSet DEF Types, Functions
<1>6. /\ pc'[t] = IF Locks(o) THEN "lock" ELSE IF Reads(o) THEN "read_lo" ELSE "cas"
      /\ pc' = [u \in Threads |-> pc'[u]]
      /\ \A u \in Threads \ {t} : pc'[u] = pc[u]
  BY <1>1, OneIsSet DEF Types, Functions
<1>7. /\ spare'[t] = junk /\ spare' = [u \in Threads |-> spare'[u]]
      /\ \A u \in Threads \ {t} : spare'[u] = spare[u]
  BY <1>2, OneIsSet DEF Types, Functions
<1> QED
  BY <1>1, <1>2, <1>3, <1>4, <1>5, <1>6, <1>7 DEF Only, Functions
-----------------------------------------------------------------------------
LEMMA InitTypes == Init => Types
<1> SUFFICES ASSUME Init PROVE Types
  OBVIOUS
<1>1. mem \in [Cells -> Word] /\ g_spinlocks \in [Buckets -> {0, 1}]
  BY ZeroIs DEF Init, Buckets
<1>2. Functions
  BY DEF Init, Functions
<1>3. \A t \in Threads : Good(t)
  BY HalfIs DEF Init, Good, PCs, Critical, Unlocked
<1> QED
  BY <1>1, <1>2, <1>3 DEF Init, Types

(* Setting a word of what a call has seen, and setting a cell. *)
LEMMA WordIsSet ==
  ASSUME Types, NEW t \in Threads, pc[t] # "idle", NEW x \in Half, NEW s,
         \/ s = [seen[t] EXCEPT ![op[t].at].lo = x]
         \/ s = [seen[t] EXCEPT ![op[t].at].hi = x]
  PROVE  s \in [CellsOf(op[t]) -> Word]
<1>1. seen[t] \in [CellsOf(op[t]) -> Word] /\ op[t].at \in CellsOf(op[t])
  BY CallIs
<1>2. seen[t][op[t].at] \in Word
  BY <1>1
<1>3. PICK v : v = seen[t][op[t].at]
  OBVIOUS
<1>4. [v EXCEPT !.lo = x] \in Word /\ [v EXCEPT !.hi = x] \in Word
  BY <1>2, <1>3, WordIs
<1>5. \A y \in Word : [seen[t] EXCEPT ![op[t].at] = y] \in [CellsOf(op[t]) -> Word]
  BY <1>1
<1> QED
  BY <1>3, <1>4, <1>5

LEMMA CellIsSet ==
  ASSUME Types, NEW t \in Threads, pc[t] # "idle", NEW w \in Word, NEW s,
         s = [seen[t] EXCEPT ![op[t].at] = w]
  PROVE  s \in [CellsOf(op[t]) -> Word]
<1>1. seen[t] \in [CellsOf(op[t]) -> Word] /\ op[t].at \in CellsOf(op[t])
  BY CallIs
<1> QED
  BY <1>1

(* The exchange, under the lock or not, writes cells. *)
LEMMA WriteIs ==
  ASSUME Types, NEW t \in Threads, pc[t] # "idle"
  PROVE  /\ Desired(op[t], seen[t]) \in [CellsOf(op[t]) -> Word]
         /\ [mem EXCEPT ![op[t].at] = Desired(op[t], seen[t])[op[t].at]] \in [Cells -> Word]
<1>1. /\ IsCall(op[t]) /\ seen[t] \in [CellsOf(op[t]) -> Word]
      /\ op[t].at \in CellsOf(op[t])
  BY CallIs
<1>2. Desired(op[t], seen[t]) \in [CellsOf(op[t]) -> Word]
  BY <1>1, DesiredIs
<1>3. Desired(op[t], seen[t])[op[t].at] \in Word
  BY <1>1, <1>2
<1> QED
  BY <1>2, <1>3 DEF Types

LEMMA StepTypes ==
  ASSUME Types, NEW t \in Threads, Step(t)
  PROVE  Types'
<1>0. Good(t) /\ mem \in [Cells -> Word] /\ g_spinlocks \in [Buckets -> {0, 1}]
  BY DEF Types
<1>00. 0 \in Half
  BY HalfIs
<1>1. CASE ReadLo(t)
  <2>1. /\ Only(t) /\ UNCHANGED <<mem, g_spinlocks>>
        /\ pc[t] = "read_lo" /\ pc'[t] = "read_hi" /\ op'[t] = op[t] /\ spare'[t] = spare[t]
        /\ seen'[t] = [seen[t] EXCEPT ![op[t].at].lo = mem[op[t].at].lo]
    BY <1>1, ReadLoIs
  <2>2. mem[op[t].at].lo \in Half /\ mem[op[t].at] \in Word
    BY <2>1, CallIs, WordIs
  <2>3. seen'[t] \in [CellsOf(op[t]) -> Word]
    BY <2>1, <2>2, WordIsSet
  <2>4. Good(t)'
    BY <1>0, <2>1, <2>3 DEF Good, PCs, Critical, Unlocked, Only, Locks
  <2> QED
    BY <1>0, <2>1, <2>4, OnlyKeeps
<1>2. CASE ReadHi(t)
  <2>1. /\ Only(t) /\ UNCHANGED <<mem, g_spinlocks>>
        /\ pc[t] = "read_hi" /\ pc'[t] = "cas" /\ op'[t] = op[t] /\ spare'[t] = spare[t]
        /\ seen'[t] = [seen[t] EXCEPT ![op[t].at].hi = mem[op[t].at].hi]
    BY <1>2, ReadHiIs
  <2>2. mem[op[t].at].hi \in Half /\ mem[op[t].at] \in Word
    BY <2>1, CallIs, WordIs
  <2>3. seen'[t] \in [CellsOf(op[t]) -> Word]
    BY <2>1, <2>2, WordIsSet
  <2>4. Good(t)'
    BY <1>0, <2>1, <2>3 DEF Good, PCs, Critical, Unlocked, Only, Locks, Reads
  <2> QED
    BY <1>0, <2>1, <2>4, OnlyKeeps
<1>3. CASE CasSuccess(t)
  <2>1. /\ Only(t) /\ UNCHANGED <<g_spinlocks, op, seen, spare>>
        /\ pc[t] = "cas"
        /\ pc'[t] = IF op[t].kind = "fetch_add" THEN "reread" ELSE "return"
        /\ mem' = [mem EXCEPT ![op[t].at] = Desired(op[t], seen[t])[op[t].at]]
    BY <1>3, CasSuccessIs
  <2>2. mem' \in [Cells -> Word]
    BY <2>1, WriteIs
  <2>3. Good(t)'
    BY <1>0, <2>1 DEF Good, PCs, Critical, Unlocked, Only, Locks
  <2> QED
    BY <1>0, <2>1, <2>2, <2>3, OnlyKeeps
<1>4. CASE ReadHiAgain(t)
  <2>1. /\ Only(t) /\ UNCHANGED <<mem, g_spinlocks>>
        /\ pc[t] = "reread" /\ pc'[t] = "return" /\ op'[t] = op[t] /\ spare'[t] = spare[t]
        /\ seen'[t] = [seen[t] EXCEPT ![op[t].at].hi = mem[op[t].at].hi]
    BY <1>4, RereadIs
  <2>2. mem[op[t].at].hi \in Half /\ mem[op[t].at] \in Word
    BY <2>1, CallIs, WordIs
  <2>3. seen'[t] \in [CellsOf(op[t]) -> Word]
    BY <2>1, <2>2, WordIsSet
  <2>4. Good(t)'
    BY <1>0, <2>1, <2>3 DEF Good, PCs, Critical, Unlocked, Only, Locks
  <2> QED
    BY <1>0, <2>1, <2>4, OnlyKeeps
<1>5. CASE CasFailure(t)
  <2>1. /\ Only(t) /\ UNCHANGED <<mem, g_spinlocks>>
        /\ pc[t] = "cas" /\ op'[t] = op[t]
        /\ pc'[t] = IF op[t].kind \in {"load", "cas"} THEN "return" ELSE "read_lo"
        /\ IF program.build = "separate" /\ Reads(op[t])
           THEN /\ seen'[t] = [seen[t] EXCEPT ![op[t].at].lo = mem[op[t].at].lo]
                /\ spare'[t] = mem[op[t].at].hi
           ELSE /\ seen'[t] = [seen[t] EXCEPT ![op[t].at] = mem[op[t].at]]
                /\ spare'[t] = spare[t]
    BY <1>5, CasFailureIs
  <2>2. /\ mem[op[t].at] \in Word
        /\ mem[op[t].at].lo \in Half /\ mem[op[t].at].hi \in Half
    BY <2>1, CallIs, WordIs
  <2>3. seen'[t] \in [CellsOf(op[t]) -> Word] /\ spare'[t] \in Half
    <3>1. spare[t] \in Half
      BY <1>0 DEF Good
    <3>2. CASE program.build = "separate" /\ Reads(op[t])
      BY <2>1, <2>2, <3>2, WordIsSet
    <3>3. CASE ~(program.build = "separate" /\ Reads(op[t]))
      BY <2>1, <2>2, <3>1, <3>3, CellIsSet
    <3> QED
      BY <3>2, <3>3
  <2>4. pc'[t] = "return" \/ (pc'[t] = "read_lo" /\ Reads(op[t]))
    <3>1. CASE op[t].kind \in {"load", "cas"}
      BY <2>1, <3>1
    <3>2. CASE op[t].kind \notin {"load", "cas"}
      BY <2>1, <3>2 DEF Reads
    <3> QED
      BY <3>1, <3>2
  <2>5. Good(t)'
    BY <1>0, <2>1, <2>3, <2>4 DEF Good, PCs, Critical, Unlocked, Only, Locks, Reads
  <2> QED
    BY <1>0, <2>1, <2>5, OnlyKeeps
<1>6. CASE Return(t)
  <2>1. /\ Only(t) /\ UNCHANGED <<mem, g_spinlocks>>
        /\ pc'[t] = "idle" /\ op'[t] = NoOp /\ spare'[t] = 0
    BY <1>6, ReturnIs
  <2>2. Good(t)'
    BY <1>00, <2>1 DEF Good, PCs, Critical, Unlocked
  <2> QED
    BY <1>0, <2>1, <2>2, OnlyKeeps
<1>7. CASE LockAddr(t)
  <2>1. /\ Only(t) /\ UNCHANGED <<mem, op, seen, spare>>
        /\ pc[t] = "lock" /\ pc'[t] = "read"
        /\ g_spinlocks' = [g_spinlocks EXCEPT ![get_lock_index(op[t].at)] = 1]
    BY <1>7, LockIs
  <2>2. g_spinlocks' \in [Buckets -> {0, 1}]
    BY <1>0, <2>1
  <2>3. Good(t)'
    BY <1>0, <2>1 DEF Good, PCs, Critical, Unlocked, Only, Locks
  <2> QED
    BY <1>0, <2>1, <2>2, <2>3, OnlyKeeps
<1>8. CASE LockedRead(t)
  <2>1. /\ Only(t) /\ UNCHANGED <<mem, g_spinlocks, op, spare>>
        /\ pc[t] = "read"
        /\ seen'[t] = [c \in CellsOf(op[t]) |-> mem[c]]
        /\ \/ pc'[t] = "unlock"
           \/ /\ pc'[t] = "write" /\ op[t].kind # "load"
              /\ op[t].kind \in {"cas", "pair"} => seen'[t] = op[t].exp
    BY <1>8, LockedReadIs
  <2>2. seen'[t] \in [CellsOf(op[t]) -> Word]
    BY <1>0, <2>1, CallIs
  <2>3. Good(t)'
    BY <1>0, <2>1, <2>2 DEF Good, PCs, Critical, Unlocked, Only, Locks
  <2> QED
    BY <1>0, <2>1, <2>3, OnlyKeeps
<1>9. CASE LockedWrite(t)
  <2>1. /\ Only(t) /\ UNCHANGED <<g_spinlocks, op, seen, spare>>
        /\ pc[t] = "write"
        /\ pc'[t] = IF op[t].kind = "pair" THEN "write_next" ELSE "unlock"
        /\ mem' = [mem EXCEPT ![op[t].at] = Desired(op[t], seen[t])[op[t].at]]
    BY <1>9, LockedWriteIs
  <2>2. mem' \in [Cells -> Word]
    BY <2>1, WriteIs
  <2>3. Good(t)'
    BY <1>0, <2>1 DEF Good, PCs, Critical, Unlocked, Only, Locks
  <2> QED
    BY <1>0, <2>1, <2>2, <2>3, OnlyKeeps
<1>10. CASE LockedWriteNext(t)
  <2>1. /\ Only(t) /\ UNCHANGED <<g_spinlocks, op, seen, spare>>
        /\ pc[t] = "write_next" /\ pc'[t] = "unlock"
        /\ mem' = [mem EXCEPT ![op[t].at + 16] = op[t].new[op[t].at + 16]]
    BY <1>10, LockedWriteNextIs
  <2>2. mem' \in [Cells -> Word]
    <3>1. op[t].at + 16 \in CellsOf(op[t]) /\ IsCall(op[t])
      BY <1>0, <2>1, CallIs, CellsAre DEF Good
    <3>2. op[t].new[op[t].at + 16] \in Word
      BY <3>1 DEF IsCall
    <3> QED
      BY <1>0, <2>1, <3>2
  <2>3. Good(t)'
    BY <1>0, <2>1 DEF Good, PCs, Critical, Unlocked, Only, Locks
  <2> QED
    BY <1>0, <2>1, <2>2, <2>3, OnlyKeeps
<1>11. CASE UnlockAddr(t)
  <2>1. /\ Only(t) /\ UNCHANGED mem
        /\ pc'[t] = "idle" /\ op'[t] = NoOp /\ spare'[t] = 0
        /\ g_spinlocks' = [g_spinlocks EXCEPT ![get_lock_index(op[t].at)] = 0]
    BY <1>11, UnlockIs
  <2>2. Good(t)'
    BY <1>00, <2>1 DEF Good, PCs, Critical, Unlocked
  <2>3. g_spinlocks' \in [Buckets -> {0, 1}]
    BY <1>0, <2>1
  <2> QED
    BY <1>0, <2>1, <2>2, <2>3, OnlyKeeps
<1> QED
  BY <1>1, <1>2, <1>3, <1>4, <1>5, <1>6, <1>7, <1>8, <1>9, <1>10, <1>11 DEF Step

LEMMA NextTypes ==
  ASSUME Types, [Next]_vars
  PROVE  Types'
<1>1. ASSUME NEW t \in Threads, Invoke(t) PROVE Types'
  <2>1. /\ Only(t) /\ UNCHANGED <<mem, g_spinlocks>> /\ spare'[t] \in Half
    BY <1>1, InvokeIs
  <2>2. PICK o \in program.requests :
          /\ Accepted(o) /\ op'[t] = o
          /\ seen'[t] = IF Reads(o) \/ Locks(o) THEN [c \in CellsOf(o) |-> Zero] ELSE o.exp
          /\ pc'[t] = IF Locks(o) THEN "lock" ELSE IF Reads(o) THEN "read_lo" ELSE "cas"
    BY <1>1, InvokeIs
  <2>3. o # NoOp /\ IsCall(o)
    BY <2>2, CallsAssumption DEF Types
  <2>4. seen'[t] \in [CellsOf(o) -> Word]
    BY <2>2, <2>3, ZeroIs DEF IsCall
  <2>5. program' = program
    BY <2>1 DEF Only
  <2>6. Good(t)'
    <3>1. CASE Locks(o)
      BY <2>1, <2>2, <2>3, <2>4, <2>5, <3>1 DEF Good, PCs, Critical, Unlocked, Locks
    <3>2. CASE ~Locks(o) /\ Reads(o)
      BY <2>1, <2>2, <2>3, <2>4, <2>5, <3>2 DEF Good, PCs, Critical, Unlocked, Locks, Reads
    <3>3. CASE ~Locks(o) /\ ~Reads(o)
      BY <2>1, <2>2, <2>3, <2>4, <2>5, <3>3 DEF Good, PCs, Critical, Unlocked, Locks, Reads
    <3> QED
      BY <3>1, <3>2, <3>3
  <2>7. mem' \in [Cells -> Word] /\ g_spinlocks' \in [Buckets -> {0, 1}]
    BY <2>1 DEF Types
  <2> QED
    BY <2>1, <2>6, <2>7, OnlyKeeps
<1>2. CASE UNCHANGED vars
  BY <1>2 DEF vars, Types, Functions, Good, Locks
<1> QED
  BY <1>1, <1>2, StepTypes DEF Next

(* retryix_atomic_advanced_module.c: whatever build it is and whatever calls
   are mixed in it, cells hold two words, the bytes of the table are 0 or 1,
   and a thread in a call has seen as many cells as its call has. *)
THEOREM AtomicTypes == Spec => []TypeOK
<1>1. Types => TypeOK
  BY DEF Types, TypeOK, Good, Buckets
<1>2. Init => Types
  BY InitTypes
<1>3. Types /\ [Next]_vars => Types'
  BY NextTypes
<1> QED
  BY <1>1, <1>2, <1>3, PTL DEF Spec
-----------------------------------------------------------------------------
(***************************************************************************)
(* The spinlock table, and what it is good for.                            *)
(***************************************************************************)
Bucket(t) == get_lock_index(op[t].at)

LockInv ==
  /\ \A t \in Threads : pc[t] \in Critical => g_spinlocks[Bucket(t)] = 1
  /\ \A t, u \in Threads :
       t # u /\ pc[t] \in Critical /\ pc[u] \in Critical => Bucket(t) # Bucket(u)

(* The quotient is unique as well. *)
LEMMA OnlyQuotient ==
  ASSUME NEW m \in Nat \ {0}, NEW q \in Int, NEW r \in 0 .. m - 1
  PROVE  (m * q + r) \div m = q
<1> DEFINE a == m * q + r
           p == a \div m
<1>1. a \in Int
  OBVIOUS
<1>2. a = m * p + (a % m) /\ a % m \in 0 .. m - 1 /\ p \in Int
  BY <1>1, DivisionWithRest
<1>3. a % m = r
  BY RestOf
<1> HIDE DEF p
<1>4. m * (p - q) = 0
  BY <1>2, <1>3
<1>5. \A x \in Int : m * x = 0 => x = 0
  OBVIOUS
<1>6. p - q \in Int
  BY <1>2
<1>7. p - q = 0
  BY <1>4, <1>5, <1>6
<1> QED
  BY <1>2, <1>7 DEF p

(* Both cells of an aligned pair are in one line. *)
LEMMA PairsInLines ==
  ASSUME NEW a \in Nat, a % 32 = 0
  PROVE  (a + 16) \div CACHE_LINE = a \div CACHE_LINE
<1> DEFINE m == CACHE_LINE
           q == a \div m
           r == a % m
           k == m \div 32
           b == a \div 32
<1>1. m \in Nat \ {0} /\ m = 32 * k /\ k \in Int
  BY SizesAssumption, DivisionWithRest
<1>2. a = 32 * b /\ b \in Int
  BY DivisionWithRest
<1>3. a = m * q + r /\ r \in 0 .. m - 1 /\ q \in Int
  BY <1>1, DivisionWithRest
<1> HIDE DEF m, q, r, k, b
<1>4. r = 32 * (b - k * q)
  BY <1>1, <1>2, <1>3
<1>5. PICK s \in Int : s = b - k * q
  BY <1>1, <1>2, <1>3
<1>6. r + 16 \in 0 .. m - 1
  BY <1>1, <1>3, <1>4, <1>5
<1>7. (m * q + (r + 16)) \div m = q
  BY <1>1, <1>3, <1>6, OnlyQuotient
<1>8. a + 16 = m * q + (r + 16)
  BY <1>1, <1>3
<1> QED
  BY <1>7, <1>8 DEF m, q

(* Calls that have a cell in common have the lock in common. *)
LEMMA SameLock ==
  ASSUME NEW o, IsCall(o), Accepted(o), NEW r, IsCall(r), Accepted(r),
         NEW c, c \in CellsOf(o), c \in CellsOf(r)
  PROVE  get_lock_index(o.at) = get_lock_index(r.at)
<1>1. ASSUME NEW d, IsCall(d), Accepted(d), c \in CellsOf(d)
      PROVE  c \div CACHE_LINE = d.at \div CACHE_LINE
  <2>1. CASE c = d.at
    BY <2>1
  <2>2. CASE c # d.at
    <3>1. d.kind = "pair" /\ c = d.at + 16 /\ d.at \in Nat
      BY <1>1, <2>2, CellsAre DEF IsCall
    <3>2. d.at % 32 = 0
      BY <1>1, <3>1 DEF Accepted
    <3> QED
      BY <3>1, <3>2, PairsInLines
  <2> QED
    BY <2>1, <2>2
<1> QED
  BY <1>1 DEF get_lock_index

LEMMA BucketIs ==
  ASSUME Types, NEW t \in Threads, pc[t] # "idle"
  PROVE  Bucket(t) \in Buckets
<1> DEFINE q == op[t].at \div CACHE_LINE
<1>1. op[t].at \in Nat
  BY CallIs DEF IsCall
<1>2. q \in Int
  BY <1>1, SizesAssumption, DivisionWithRest
<1> HIDE DEF q
<1>3. (q % SPINLOCK_TABLE_SIZE) \in Buckets
  BY <1>2, SizesAssumption, DivisionWithRest DEF Buckets
<1> QED
  BY <1>3 DEF Bucket, get_lock_index, q

(* Steps that move no thread into or out of its critical section. *)
LEMMA LockKept ==
  ASSUME Types, LockInv, UNCHANGED g_spinlocks,
         \A u \in Threads : pc'[u] \in Critical => pc[u] \in Critical /\ op'[u] = op[u]
  PROVE  LockInv'
<1>1. \A u \in Threads : pc'[u] \in Critical => Bucket(u)' = Bucket(u)
  BY DEF Bucket
<1> QED
  BY <1>1 DEF LockInv

LEMMA NextLock ==
  ASSUME Types, LockInv, [Next]_vars
  PROVE  LockInv'
<1>1. ASSUME NEW t \in Threads, UNCHANGED g_spinlocks, Only(t),
             pc'[t] \in Critical => pc[t] \in Critical /\ op'[t] = op[t]
      PROVE  LockInv'
  BY <1>1, LockKept DEF Only
<1>2. ASSUME NEW t \in Threads, Invoke(t) PROVE LockInv'
  <2>1. pc'[t] \notin Critical /\ Only(t) /\ UNCHANGED g_spinlocks
    BY <1>2, InvokeIs DEF Critical
  <2> QED
    BY <1>1, <2>1
<1>3. ASSUME NEW t \in Threads, ReadLo(t) PROVE LockInv'
  BY <1>1, <1>3, ReadLoIs DEF Critical
<1>4. ASSUME NEW t \in Threads, ReadHi(t) PROVE LockInv'
  BY <1>1, <1>4, ReadHiIs DEF Critical
<1>5. ASSUME NEW t \in Threads, CasSuccess(t) PROVE LockInv'
  BY <1>1, <1>5, CasSuccessIs DEF Critical
<1>6. ASSUME NEW t \in Threads, CasFailure(t) PROVE LockInv'
  <2>1. pc'[t] \in {"return", "read_lo"} /\ Only(t) /\ UNCHANGED g_spinlocks
    BY <1>6, CasFailureIs
  <2> QED
    BY <1>1, <2>1 DEF Critical
<1>7. ASSUME NEW t \in Threads, ReadHiAgain(t) PROVE LockInv'
  BY <1>1, <1>7, RereadIs DEF Critical
<1>8. ASSUME NEW t \in Threads, Return(t) PROVE LockInv'
  BY <1>1, <1>8, ReturnIs DEF Critical
<1>9. ASSUME NEW t \in Threads, LockAddr(t) PROVE LockInv'
  <2>1. /\ Only(t) /\ UNCHANGED op /\ pc[t] = "lock" /\ pc'[t] = "read"
        /\ g_spinlocks[Bucket(t)] = 0
        /\ g_spinlocks' = [g_spinlocks EXCEPT ![Bucket(t)] = 1]
    BY <1>9, LockIs DEF Bucket
  <2>2. Bucket(t) \in Buckets
    BY <2>1, BucketIs
  <2>3. \A u \in Threads : Bucket(u)' = Bucket(u)
    BY <2>1 DEF Bucket
  <2>4. \A u \in Threads \ {t} : pc'[u] = pc[u]
    BY <2>1 DEF Only
  <2>5. \A u \in Threads \ {t} : pc[u] \in Critical => Bucket(u) # Bucket(t)
    BY <2>1 DEF LockInv
  <2>6. g_spinlocks \in [Buckets -> {0, 1}]
    BY DEF Types
  <2>7. g_spinlocks'[Bucket(t)] = 1
    BY <2>1, <2>2, <2>6
  <2>8. \A u \in Threads : pc[u] \in Critical => g_spinlocks'[Bucket(u)] = 1
    <3> SUFFICES ASSUME NEW u \in Threads, pc[u] \in Critical
                 PROVE  g_spinlocks'[Bucket(u)] = 1
      OBVIOUS
    <3>1. g_spinlocks[Bucket(u)] = 1 /\ Bucket(u) \in Buckets
      BY BucketIs DEF LockInv, Critical
    <3> QED
      BY <2>1, <2>2, <2>6, <3>1
  <2> QED
    BY <2>3, <2>4, <2>5, <2>7, <2>8 DEF LockInv
<1>10. ASSUME NEW t \in Threads, LockedRead(t) PROVE LockInv'
  <2>1. pc[t] = "read" /\ Only(t) /\ UNCHANGED <<g_spinlocks, op>>
    BY <1>10, LockedReadIs
  <2> QED
    BY <1>1, <2>1 DEF Critical
<1>11. ASSUME NEW t \in Threads, LockedWrite(t) PROVE LockInv'
  <2>1. pc[t] = "write" /\ Only(t) /\ UNCHANGED <<g_spinlocks, op>>
    BY <1>11, LockedWriteIs
  <2> QED
    BY <1>1, <2>1 DEF Critical
<1>12. ASSUME NEW t \in Threads, LockedWriteNext(t) PROVE LockInv'
  <2>1. pc[t] = "write_next" /\ Only(t) /\ UNCHANGED <<g_spinlocks, op>>
    BY <1>12, LockedWriteNextIs
  <2> QED
    BY <1>1, <2>1 DEF Critical
<1>13. ASSUME NEW t \in Threads, UnlockAddr(t) PROVE LockInv'
  <2>1. /\ Only(t) /\ pc[t] = "unlock" /\ pc'[t] = "idle"
        /\ g_spinlocks' = [g_spinlocks EXCEPT ![Bucket(t)] = 0]
    BY <1>13, UnlockIs DEF Bucket
  <2>2. \A u \in Threads \ {t} : pc'[u] = pc[u] /\ Bucket(u)' = Bucket(u)
    BY <2>1 DEF Only, Bucket
  <2>3. \A u \in Threads \ {t} : pc[u] \in Critical => Bucket(u) # Bucket(t)
    BY <2>1 DEF LockInv, Critical
  <2>4. \A u \in Threads \ {t} : pc[u] \in Critical => g_spinlocks'[Bucket(u)] = 1
    <3> SUFFICES ASSUME NEW u \in Threads \ {t}, pc[u] \in Critical
                 PROVE  g_spinlocks'[Bucket(u)] = 1
      OBVIOUS
    <3>1. g_spinlocks[Bucket(u)] = 1 /\ Bucket(u) \in Buckets
      BY BucketIs DEF LockInv, Critical
    <3> QED
      BY <2>1, <2>3, <3>1 DEF Types
  <2>5. pc'[t] \notin Critical
    BY <2>1 DEF Critical
  <2> QED
    BY <2>2, <2>4, <2>5 DEF LockInv
<1>14. CASE UNCHANGED vars
  BY <1>14, LockKept DEF vars
<1> QED
  BY <1>2, <1>3, <1>4, <1>5, <1>6, <1>7, <1>8, <1>9, <1>10, <1>11, <1>12, <1>13, <1>14
     DEF Next, Step

(* Of two threads with a cell in common, one is in its critical section. *)
LEMMA Alone ==
  ASSUME Types, LockInv, NEW t \in Threads, NEW u \in Threads, t # u,
         pc[t] \in Critical, pc[u] \in Critical,
         NEW c \in CellsOf(op[t])
  PROVE  c \notin CellsOf(op[u])
<1> SUFFICES ASSUME c \in CellsOf(op[u]) PROVE FALSE
  OBVIOUS
<1>1. /\ IsCall(op[t]) /\ Accepted(op[t])
      /\ IsCall(op[u]) /\ Accepted(op[u])
  BY CallIs DEF Critical
<1>2. Bucket(t) = Bucket(u)
  BY <1>1, SameLock DEF Bucket
<1> QED
  BY <1>2 DEF LockInv
-----------------------------------------------------------------------------
(* In a sound program what a thread has read under the lock stays so until
   it writes. *)
SeenInv ==
  \A t \in Threads : pc[t] = "write" => \A c \in CellsOf(op[t]) : seen[t][c] = mem[c]

(* All calls of a sound program that touch memory without the lock, or none. *)
LEMMA LockedOrNot ==
  ASSUME Types, Sound(program), NEW t \in Threads, NEW u \in Threads,
         pc[t] \in {"lock"} \cup Critical
  PROVE  pc[u] \notin Unlocked
<1> SUFFICES ASSUME pc[u] \in Unlocked PROVE FALSE
  OBVIOUS
<1>1. Locks(op[t]) /\ ~Locks(op[u])
  BY DEF Types, Good
<1>2. /\ op[t] \in program.requests /\ Accepted(op[t])
      /\ op[u] \in program.requests /\ Accepted(op[u])
  BY CallIs DEF Critical, Unlocked
<1> QED
  BY <1>1, <1>2 DEF Sound, Locks

LEMMA NextSeen ==
  ASSUME Types, LockInv, SeenInv, Sound(program), [Next]_vars
  PROVE  SeenInv'
<1>1. ASSUME NEW t \in Threads, Only(t), UNCHANGED mem, pc'[t] # "write"
      PROVE  SeenInv'
  BY <1>1 DEF SeenInv, Only
<1>2. ASSUME NEW t \in Threads, Invoke(t) PROVE SeenInv'
  <2>1. pc'[t] # "write" /\ Only(t) /\ UNCHANGED mem
    BY <1>2, InvokeIs
  <2> QED
    BY <1>1, <2>1
<1>3. ASSUME NEW t \in Threads,
             ReadLo(t) \/ ReadHi(t) \/ ReadHiAgain(t) \/ Return(t) \/ LockAddr(t)
               \/ UnlockAddr(t)
      PROVE  SeenInv'
  BY <1>1, <1>3, ReadLoIs, ReadHiIs, RereadIs, ReturnIs, LockIs, UnlockIs
<1>4. ASSUME NEW t \in Threads, CasFailure(t) PROVE SeenInv'
  <2>1. pc'[t] \in {"return", "read_lo"} /\ Only(t) /\ UNCHANGED mem
    BY <1>4, CasFailureIs
  <2> QED
    BY <1>1, <2>1
<1>5. ASSUME NEW t \in Threads, CasSuccess(t) PROVE SeenInv'
  <2>1. pc[t] = "cas" /\ Only(t) /\ pc'[t] \in {"reread", "return"}
    BY <1>5, CasSuccessIs
  <2>2. \A u \in Threads : pc[u] # "write"
    BY <2>1, LockedOrNot DEF Critical, Unlocked
  <2>3. \A u \in Threads : pc'[u] # "write"
    BY <2>1, <2>2 DEF Only
  <2> QED
    BY <2>3 DEF SeenInv
<1>6. ASSUME NEW t \in Threads, LockedRead(t) PROVE SeenInv'
  <2>1. /\ Only(t) /\ UNCHANGED <<mem, op>>
        /\ seen'[t] = [c \in CellsOf(op[t]) |-> mem[c]]
    BY <1>6, LockedReadIs
  <2>2. \A c \in CellsOf(op[t]) : seen'[t][c] = mem[c]
    BY <2>1
  <2> QED
    BY <2>1, <2>2 DEF SeenInv, Only
<1>7. ASSUME NEW t \in Threads, Only(t), UNCHANGED <<op, seen>>, NEW a \in CellsOf(op[t]),
             NEW w, mem' = [mem EXCEPT ![a] = w], pc[t] \in Critical, pc'[t] # "write"
      PROVE  SeenInv'
  <2> SUFFICES ASSUME NEW u \in Threads, pc'[u] = "write", NEW c \in CellsOf(op[u])
               PROVE  seen[u][c] = mem'[c]
    BY <1>7 DEF SeenInv
  <2>1. u # t /\ pc[u] = "write"
    BY <1>7 DEF Only
  <2>2. c # a
    BY <1>7, <2>1, Alone DEF Critical
  <2>3. c \in Cells
    BY <2>1, CallIs
  <2>4. mem'[c] = mem[c]
    BY <1>7, <2>2, <2>3 DEF Types
  <2> QED
    BY <2>1, <2>4 DEF SeenInv
<1>8. ASSUME NEW t \in Threads, LockedWrite(t) PROVE SeenInv'
  <2>1. /\ Only(t) /\ UNCHANGED <<op, seen>> /\ pc[t] = "write"
        /\ pc'[t] \in {"write_next", "unlock"}
        /\ mem' = [mem EXCEPT ![op[t].at] = Desired(op[t], seen[t])[op[t].at]]
    BY <1>8, LockedWriteIs
  <2>2. op[t].at \in CellsOf(op[t])
    BY CellsAre
  <2> QED
    BY <1>7, <2>1, <2>2 DEF Critical
<1>9. ASSUME NEW t \in Threads, LockedWriteNext(t) PROVE SeenInv'
  <2>1. /\ Only(t) /\ UNCHANGED <<op, seen>> /\ pc[t] = "write_next" /\ pc'[t] = "unlock"
        /\ mem' = [mem EXCEPT ![op[t].at + 16] = op[t].new[op[t].at + 16]]
    BY <1>9, LockedWriteNextIs
  <2>2. op[t].at + 16 \in CellsOf(op[t])
    BY <2>1, CellsAre DEF Types, Good
  <2> QED
    BY <1>7, <2>1, <2>2 DEF Critical
<1>10. CASE UNCHANGED vars
  BY <1>10 DEF vars, SeenInv
<1> QED
  BY <1>2, <1>3, <1>4, <1>5, <1>6, <1>8, <1>9, <1>10 DEF Next, Step
-----------------------------------------------------------------------------
(***************************************************************************)
(* AddU128, which detects the carry by the wrap of the low word, is the    *)
(* sum of two numbers of two words.                                        *)
(***************************************************************************)
LEMMA CarryIs ==
  ASSUME NEW a \in Half, NEW b \in Half
  PROVE  LET lo == (a + b) % W
         IN  /\ lo \in Half
             /\ a + b = (IF lo < a THEN W ELSE 0) + lo
<1>0. W \in Nat \ {0} /\ a \in 0 .. W - 1 /\ b \in 0 .. W - 1
  BY SizesAssumption DEF Half
<1>1. CASE a + b < W
  <2>1. a + b \in 0 .. W - 1
    BY <1>0, <1>1
  <2>2. (a + b) % W = a + b
    BY <1>0, <2>1, SmallRest
  <2> QED
    BY <1>0, <2>1, <2>2 DEF Half
<1>2. CASE a + b >= W
  <2>1. PICK c \in 0 .. W - 1 : c = a + b - W
    BY <1>0, <1>2
  <2>2. (W * 1 + c) % W = c
    BY <1>0, RestOf
  <2>3. W * 1 + c = a + b
    BY <1>0, <2>1
  <2>4. (a + b) % W = c
    BY <2>2, <2>3
  <2>5. c < a
    BY <1>0, <2>1
  <2> QED
    BY <1>0, <2>1, <2>4, <2>5 DEF Half
<1> QED
  BY <1>0, <1>1, <1>2

LEMMA NumbersOfWords ==
  ASSUME NEW a \in Half, NEW b \in Half
  PROVE  a * W + b \in 0 .. W * W - 1
<1>0. W \in Nat \ {0} /\ a \in 0 .. W - 1 /\ b \in 0 .. W - 1
  BY SizesAssumption DEF Half
<1>1. PICK d \in Nat : d = W - 1 - a
  BY <1>0
<1>2. W * W = a * W + W + d * W
  BY <1>0, <1>1
<1>3. d * W \in Nat /\ a * W \in Nat
  BY <1>0
<1> QED
  BY <1>0, <1>2, <1>3

LEMMA SumIs ==
  ASSUME NEW v \in Word, NEW w \in Word
  PROVE  AtomicObject!Sum(v, w) = AddU128(v, w)
<1> DEFINE lo == (w.lo + v.lo) % W
           hi == IF lo < w.lo THEN w.hi + v.hi + 1 ELSE w.hi + v.hi
           top == hi % W
           q == hi \div W
           n == (AtomicObject!Number(v) + AtomicObject!Number(w)) % (W * W)
           s == [lo |-> lo, hi |-> top]
<1>0. /\ W \in Nat \ {0} /\ v.lo \in Half /\ v.hi \in Half /\ w.lo \in Half /\ w.hi \in Half
      /\ Half = 0 .. W - 1
  BY SizesAssumption, WordIs DEF Half
<1>1. lo \in Half /\ w.lo + v.lo = (IF lo < w.lo THEN W ELSE 0) + lo
  BY <1>0, CarryIs
<1>2. AddU128(v, w) = s
  BY DEF AddU128
<1> HIDE DEF lo
<1>3. hi \in Int /\ hi = w.hi + v.hi + (IF lo < w.lo THEN 1 ELSE 0)
  BY <1>0
<1> HIDE DEF hi
<1>4. hi = W * q + top /\ top \in 0 .. W - 1 /\ q \in Int
  BY <1>0, <1>3, DivisionWithRest
<1>5. top \in Half
  BY <1>0, <1>4
<1> HIDE DEF q, top
<1>6. s \in Word /\ s.lo = lo /\ s.hi = top
  BY <1>1, <1>5 DEF Word
<1> DEFINE r == top * W + lo
<1>7. r \in 0 .. W * W - 1
  BY <1>1, <1>5, NumbersOfWords
<1>8. AtomicObject!Number(v) + AtomicObject!Number(w) = (W * W) * q + r
  <2>1. AtomicObject!Number(v) + AtomicObject!Number(w)
          = (v.hi * W + v.lo) + (w.hi * W + w.lo)
    BY DEF AtomicObject!Number
  <2>2. PICK a, b, c, d \in Int : a = v.hi /\ b = v.lo /\ c = w.hi /\ d = w.lo
    BY <1>0
  <2>3. PICK e \in Int : e = lo /\ e \in 0 .. W - 1
    BY <1>0, <1>1
  <2>9. \A i, j, k, l \in Int : (i * W + j) + (k * W + l) = (k + i) * W + (l + j)
    BY <1>0
  <2>10. (a * W + b) + (c * W + d) = (c + a) * W + (d + b)
    BY <2>9
  <2>11. \A i, j \in Int : i * W + (W + j) = (i + 1) * W + j
    BY <1>0
  <2>4. CASE lo < w.lo
    <3>1. d + b = W + e /\ hi = c + a + 1
      BY <1>1, <1>3, <2>2, <2>3, <2>4
    <3>2. (a * W + b) + (c * W + d) = (c + a + 1) * W + e
      <4>1. c + a \in Int
        OBVIOUS
      <4> QED
        BY <2>10, <2>11, <3>1, <4>1
    <3>3. (c + a + 1) * W = (W * q + top) * W
      BY <1>4, <3>1
    <3>4. (W * q + top) * W + e = (W * W) * q + (top * W + e)
      BY <1>0, <1>4, <2>3
    <3> QED
      BY <2>1, <2>2, <2>3, <3>2, <3>3, <3>4
  <2>5. CASE ~(lo < w.lo)
    <3>1. d + b = e /\ hi = c + a
      BY <1>1, <1>3, <2>2, <2>3, <2>5
    <3>2. (a * W + b) + (c * W + d) = (c + a) * W + e
      BY <2>10, <3>1
    <3>3. (c + a) * W = (W * q + top) * W
      BY <1>4, <3>1
    <3>4. (W * q + top) * W + e = (W * W) * q + (top * W + e)
      BY <1>0, <1>4, <2>3
    <3> QED
      BY <2>1, <2>2, <2>3, <3>2, <3>3, <3>4
  <2> QED
    BY <2>4, <2>5
<1>9. W * W \in Nat \ {0}
  BY <1>0
<1>10. n = r
  <2>1. ((W * W) * q + r) % (W * W) = r
    <3> DEFINE m == W * W
    <3>1. m \in Nat \ {0} /\ r \in 0 .. m - 1 /\ q \in Int
      BY <1>4, <1>7, <1>9
    <3> HIDE DEF m, r
    <3>2. (m * q + r) % m = r
      BY <3>1, RestOf
    <3> QED
      BY <3>2 DEF m
  <2> QED
    BY <1>8, <2>1
<1>11. AtomicObject!Number(s) = r
  BY <1>6 DEF AtomicObject!Number
<1>12. ASSUME NEW x \in Word, AtomicObject!Number(x) = r
       PROVE  x = s
  <2>1. x.lo \in 0 .. W - 1 /\ x.hi \in Int /\ x = [lo |-> x.lo, hi |-> x.hi]
    BY <1>0, <1>12, WordIs
  <2>2. x.hi * W + x.lo = top * W + lo
    BY <1>12 DEF AtomicObject!Number
  <2>3. PICK a, b \in Int : a = x.hi /\ b = x.lo /\ b \in 0 .. W - 1
    BY <2>1
  <2>4. PICK c, d \in Int : c = top /\ d = lo /\ d \in 0 .. W - 1
    BY <1>0, <1>1, <1>4
  <2>5. W * a + b = W * c + d
    BY <1>0, <2>2, <2>3, <2>4
  <2>6. b = d
    BY <1>0, <2>3, <2>4, <2>5, OnlyRest
  <2>7. W * (a - c) = 0
    BY <1>0, <2>5, <2>6
  <2>8. \A y \in Int : W * y = 0 => y = 0
    BY <1>0
  <2>9. a - c \in Int
    OBVIOUS
  <2>10. a - c = 0
    BY <2>7, <2>8, <2>9
  <2>11. a = c
    BY <2>10
  <2> QED
    BY <2>1, <2>3, <2>4, <2>6, <2>11
<1>13. AtomicObject!Sum(v, w) = CHOOSE x \in Word : AtomicObject!Number(x) = n
  BY DEF AtomicObject!Sum, AtomicObject!Word, Word, Half
<1> HIDE DEF n, r, s
<1> QED
  BY <1>2, <1>6, <1>10, <1>11, <1>12, <1>13
-----------------------------------------------------------------------------
(***************************************************************************)
(* The refinement.  First the abstract cells and answers, which are the    *)
(* memory and what a call has seen but for the threads between two writes. *)
(***************************************************************************)
Effect == {"reread", "return", "write_next", "unlock"}

Pending(t, c) == pc[t] = "write_next" /\ op[t].at + 16 = c

PendInv == \A c \in Cells : \A t, u \in Threads : Pending(t, c) /\ Pending(u, c) => t = u

LEMMA PendingCell ==
  ASSUME Types, NEW t \in Threads, NEW c, Pending(t, c)
  PROVE  c \in CellsOf(op[t]) /\ pc[t] \in Critical
  BY CellsAre DEF Types, Good, Pending, Critical

LEMMA PendingIs == Types /\ LockInv => PendInv
<1> SUFFICES ASSUME Types, LockInv, NEW c \in Cells, NEW t \in Threads, NEW u \in Threads,
                    Pending(t, c), Pending(u, c), t # u
             PROVE  FALSE
  BY DEF PendInv
<1> QED
  BY PendingCell, Alone

LEMMA PendingNext == (Types /\ LockInv)' => PendInv'
  BY PendingIs, PTL

LEMMA ChosenIs ==
  ASSUME NEW p, NEW o, NEW m, NEW c,
         \A t, u \in Threads :
           (p[t] = "write_next" /\ o[t].at + 16 = c) /\ (p[u] = "write_next" /\ o[u].at + 16 = c)
             => t = u
  PROVE  LET r == IF \E t \in Threads : p[t] = "write_next" /\ o[t].at + 16 = c
                  THEN LET t == CHOOSE t \in Threads : p[t] = "write_next" /\ o[t].at + 16 = c
                       IN  o[t].new[c]
                  ELSE m[c]
         IN  /\ (\A t \in Threads : ~(p[t] = "write_next" /\ o[t].at + 16 = c)) => r = m[c]
             /\ \A t \in Threads : p[t] = "write_next" /\ o[t].at + 16 = c => r = o[t].new[c]
  OBVIOUS

LEMMA RegIs ==
  ASSUME PendInv, NEW c \in Cells
  PROVE  /\ (\A t \in Threads : ~Pending(t, c)) => AbstractReg[c] = mem[c]
         /\ \A t \in Threads : Pending(t, c) => AbstractReg[c] = op[t].new[c]
<1>1. \A t, u \in Threads :
        (pc[t] = "write_next" /\ op[t].at + 16 = c) /\ (pc[u] = "write_next" /\ op[u].at + 16 = c)
          => t = u
  BY DEF PendInv, Pending
<1>2. AbstractReg[c] = IF \E t \in Threads : pc[t] = "write_next" /\ op[t].at + 16 = c
                       THEN LET t == CHOOSE t \in Threads :
                                       pc[t] = "write_next" /\ op[t].at + 16 = c
                            IN  op[t].new[c]
                       ELSE mem[c]
  BY DEF AbstractReg
<1> QED
  BY <1>1, <1>2, ChosenIs DEF Pending

LEMMA RegNext ==
  ASSUME PendInv', NEW c \in Cells
  PROVE  /\ (\A t \in Threads : ~Pending(t, c)') => AbstractReg'[c] = mem'[c]
         /\ \A t \in Threads : Pending(t, c)' => AbstractReg'[c] = op'[t].new[c]
<1>1. \A t, u \in Threads :
        (pc'[t] = "write_next" /\ op'[t].at + 16 = c)
          /\ (pc'[u] = "write_next" /\ op'[u].at + 16 = c)
          => t = u
  BY DEF PendInv, Pending
<1>2. AbstractReg'[c] = IF \E t \in Threads : pc'[t] = "write_next" /\ op'[t].at + 16 = c
                        THEN LET t == CHOOSE t \in Threads :
                                        pc'[t] = "write_next" /\ op'[t].at + 16 = c
                             IN  op'[t].new[c]
                        ELSE mem'[c]
  BY DEF AbstractReg
<1> QED
  BY <1>1, <1>2, ChosenIs DEF Pending

(* A step that neither writes nor moves a thread between its writes. *)
LEMMA RegSame ==
  ASSUME PendInv, PendInv', UNCHANGED mem,
         \A u \in Threads : \A c : Pending(u, c)' <=> Pending(u, c),
         \A u \in Threads : pc[u] = "write_next" => op'[u] = op[u]
  PROVE  UNCHANGED AbstractReg
<1>1. ASSUME NEW c \in Cells PROVE AbstractReg'[c] = AbstractReg[c]
  <2>1. CASE \A u \in Threads : ~Pending(u, c)
    BY <2>1, RegIs, RegNext
  <2>2. ASSUME NEW u \in Threads, Pending(u, c) PROVE AbstractReg'[c] = AbstractReg[c]
    BY <2>2, RegIs, RegNext DEF Pending
  <2> QED
    BY <2>1, <2>2
<1> QED
  BY <1>1 DEF AbstractReg

(* What a call o at p, past its effect, that has seen s will be told. *)
Telling(p, o, s) ==
  CASE o.kind = "store" -> "done"
    [] p = "reread" -> [c \in CellsOf(o) |-> [lo |-> s[c].lo]]
    [] OTHER -> s

LEMMA AnswerIs ==
  \A t \in Threads :
    AbstractAnswer[t] = IF pc[t] \in Effect THEN Telling(pc[t], op[t], seen[t])
                                            ELSE NoAnswer
  BY DEF AbstractAnswer, Telling, Effect

LEMMA AnswerNext ==
  \A t \in Threads :
    AbstractAnswer'[t] = IF pc'[t] \in Effect THEN Telling(pc'[t], op'[t], seen'[t])
                                              ELSE NoAnswer
  BY DEF AbstractAnswer, Telling, Effect

(* What a call writes, in the module and in its specification. *)
LEMMA WrittenIs ==
  ASSUME NEW o, IsCall(o), NEW old \in [CellsOf(o) -> Word],
         o.kind \in {"cas", "pair"} => old = o.exp
  PROVE  AtomicObject!Written(o, old) = Desired(o, old)
<1>1. CASE o.kind = "fetch_add"
  <2>1. \A c \in CellsOf(o) : AtomicObject!Sum(old[c], o.new[c]) = AddU128(old[c], o.new[c])
    BY SumIs DEF IsCall
  <2>2. AtomicObject!Written(o, old)
          = [c \in CellsOf(o) |-> AtomicObject!Sum(old[c], o.new[c])]
    BY <1>1 DEF AtomicObject!Written, AtomicObject!CellsOf, CellsOf
  <2>3. Desired(o, old) = [c \in CellsOf(o) |-> AddU128(old[c], o.new[c])]
    BY <1>1 DEF Desired
  <2> QED
    BY <2>1, <2>2, <2>3
<1>2. CASE o.kind = "load"
  BY <1>2 DEF AtomicObject!Written, Desired
<1>3. CASE o.kind \in {"store", "exchange"}
  BY <1>3 DEF AtomicObject!Written, Desired
<1>4. CASE o.kind \in {"cas", "pair"}
  BY <1>4 DEF AtomicObject!Written, Desired
<1> QED
  BY <1>1, <1>2, <1>3, <1>4 DEF IsCall
-----------------------------------------------------------------------------
(* The three kinds of steps a thread takes in the specification, and none. *)
LEMMA AnswersSet ==
  ASSUME NEW t \in Threads, NEW x, AbstractAnswer'[t] = x,
         \A u \in Threads \ {t} : AbstractAnswer'[u] = AbstractAnswer[u]
  PROVE  AbstractAnswer' = [AbstractAnswer EXCEPT ![t] = x]
<1>1. \A f, g : /\ f = [u \in Threads |-> f[u]] /\ g = [u \in Threads |-> g[u]] /\ g[t] = x
                /\ \A u \in Threads \ {t} : g[u] = f[u]
                => g = [f EXCEPT ![t] = x]
  OBVIOUS
<1>2. AbstractAnswer = [u \in Threads |-> AbstractAnswer[u]]
  BY DEF AbstractAnswer
<1>3. AbstractAnswer' = [u \in Threads |-> AbstractAnswer'[u]]
  BY DEF AbstractAnswer
<1> QED
  BY <1>1, <1>2, <1>3

LEMMA Stutters ==
  ASSUME Functions, NEW t \in Threads, Only(t), op'[t] = op[t], UNCHANGED AbstractReg,
         pc'[t] \in Effect <=> pc[t] \in Effect,
         pc[t] \in Effect =>
           Telling(pc'[t], op[t], seen'[t]) = Telling(pc[t], op[t], seen[t])
  PROVE  UNCHANGED AtomicObject!vars
<1>1. op' = op
  BY DEF Only, Functions
<1>2. \A u \in Threads : AbstractAnswer'[u] = AbstractAnswer[u]
  BY <1>1, AnswerIs, AnswerNext DEF Only
<1>3. AbstractAnswer' = AbstractAnswer
  BY <1>2 DEF AbstractAnswer
<1> QED
  BY <1>1, <1>3 DEF AtomicObject!vars, Only

LEMMA TakesEffect ==
  ASSUME Functions, NEW t \in Threads, Only(t), op'[t] = op[t], op[t] # NoOp,
         pc[t] \notin Effect, pc'[t] \in Effect,
         NEW old, old = [c \in CellsOf(op[t]) |-> AbstractReg[c]],
         Telling(pc'[t], op[t], seen'[t]) = AtomicObject!Told(op[t], old),
         \A c \in Cells : AbstractReg'[c] = IF c \in CellsOf(op[t])
                                            THEN AtomicObject!Written(op[t], old)[c]
                                            ELSE AbstractReg[c]
  PROVE  AtomicObject!Next
<1>1. op' = op
  BY DEF Only, Functions
<1>2. \A u \in Threads \ {t} : AbstractAnswer'[u] = AbstractAnswer[u]
  BY <1>1, AnswerIs, AnswerNext DEF Only
<1>3. AbstractAnswer[t] = NoAnswer /\ AbstractAnswer'[t] = AtomicObject!Told(op[t], old)
  BY <1>1, AnswerIs, AnswerNext
<1>4. AbstractAnswer' = [AbstractAnswer EXCEPT ![t] = AtomicObject!Told(op[t], old)]
  BY <1>2, <1>3, AnswersSet
<1>5. AtomicObject!CellsOf(op[t]) = CellsOf(op[t])
  BY DEF AtomicObject!CellsOf, CellsOf
<1>6. AbstractReg' = [c \in Cells |-> IF c \in CellsOf(op[t])
                                      THEN AtomicObject!Written(op[t], old)[c]
                                      ELSE AbstractReg[c]]
  BY DEF AbstractReg
<1>7. AtomicObject!TakeEffect(t)
  BY <1>1, <1>3, <1>4, <1>5, <1>6 DEF AtomicObject!TakeEffect, Only
<1> QED
  BY <1>7 DEF AtomicObject!Next

LEMMA Ends ==
  ASSUME Types, NEW t \in Threads, Only(t), pc[t] \in Effect \ {"reread"},
         pc'[t] \notin Effect, op' = [op EXCEPT ![t] = NoOp], UNCHANGED AbstractReg
  PROVE  AtomicObject!Next
<1>1. /\ op[t] \in program.requests /\ program \in Programs
      /\ seen[t] \in [CellsOf(op[t]) -> Word] /\ op[t].at \in CellsOf(op[t])
  BY CallIs DEF Types, Effect
<1>2. op[t].kind = "fetch_add" => ~(DOMAIN AbstractAnswer[t][op[t].at] = {"lo"})
  <2> SUFFICES ASSUME op[t].kind = "fetch_add"
               PROVE  DOMAIN AbstractAnswer[t][op[t].at] # {"lo"}
    OBVIOUS
  <2>1. AbstractAnswer[t] = seen[t]
    BY AnswerIs DEF Telling
  <2>2. seen[t][op[t].at] \in Word
    BY <1>1
  <2>3. DOMAIN seen[t][op[t].at] = {"lo", "hi"}
    BY <2>2 DEF Word
  <2> QED
    BY <2>1, <2>3
<1>3. Telling(pc[t], op[t], seen[t]) # NoAnswer
  BY <1>1, AnswerAssumption DEF Telling
<1>4. AbstractAnswer[t] # NoAnswer /\ AbstractAnswer'[t] = NoAnswer
  BY <1>3, AnswerIs, AnswerNext
<1>5. \A u \in Threads \ {t} : AbstractAnswer'[u] = AbstractAnswer[u]
  BY AnswerIs, AnswerNext DEF Only
<1>6. AbstractAnswer' = [AbstractAnswer EXCEPT ![t] = NoAnswer]
  BY <1>4, <1>5, AnswersSet
<1>7. AtomicObject!Return(t)
  BY <1>2, <1>4, <1>6 DEF AtomicObject!Return, AtomicObject!HalfTold, Only
<1> QED
  BY <1>7 DEF AtomicObject!Next
-----------------------------------------------------------------------------
(***************************************************************************)
(* Every step of the program is a step of the specification.               *)
(***************************************************************************)
ReachInv == Types /\ LockInv /\ SeenInv /\ Sound(program)

(* No thread is between two writes where another one is outside the locks. *)
LEMMA RegOutside ==
  ASSUME Types, Sound(program), PendInv, NEW t \in Threads, pc[t] \in Unlocked
  PROVE  /\ \A u \in Threads : pc[u] \notin {"lock"} \cup Critical
         /\ \A c \in Cells : AbstractReg[c] = mem[c]
<1>1. \A u \in Threads : pc[u] \notin {"lock"} \cup Critical
  BY LockedOrNot
<1>2. \A u \in Threads : \A c \in Cells : ~Pending(u, c)
  BY <1>1 DEF Pending, Critical
<1> QED
  BY <1>1, <1>2, RegIs

(* In its critical section, before its writes, a thread reads what is there. *)
LEMMA RegInside ==
  ASSUME Types, LockInv, PendInv, NEW t \in Threads, pc[t] \in {"read", "write"},
         NEW c \in CellsOf(op[t])
  PROVE  c \in Cells /\ AbstractReg[c] = mem[c]
<1>1. c \in Cells
  BY CallIs
<1>2. ASSUME NEW u \in Threads, Pending(u, c) PROVE FALSE
  <2>1. c \in CellsOf(op[u]) /\ pc[u] \in Critical /\ u # t
    BY <1>2, PendingCell DEF Pending
  <2> QED
    BY <2>1, Alone DEF Critical
<1> QED
  BY <1>1, <1>2, RegIs

(* The outcome of a call that leaves its cells as they are. *)
LEMMA SameIs ==
  ASSUME NEW o, NEW old,
         o.kind = "load" \/ (o.kind \in {"cas", "pair"} /\ old # o.exp)
  PROVE  AtomicObject!Written(o, old) = old
<1>1. CASE o.kind = "load"
  BY <1>1 DEF AtomicObject!Written
<1>2. CASE o.kind \in {"cas", "pair"} /\ old # o.exp
  BY <1>2 DEF AtomicObject!Written
<1> QED
  BY <1>1, <1>2

(* A call that finds its cells as they should not be, or only reads them. *)
LEMMA ReadsOnly ==
  ASSUME Types, PendInv, PendInv', NEW t \in Threads, Only(t), op' = op, UNCHANGED mem,
         pc[t] \notin Effect \cup {"idle"}, pc'[t] \in {"return", "unlock"},
         \A c \in CellsOf(op[t]) : AbstractReg[c] = mem[c],
         seen'[t] = [c \in CellsOf(op[t]) |-> mem[c]],
         op[t].kind = "load" \/ (op[t].kind \in {"cas", "pair"} /\ seen'[t] # op[t].exp)
  PROVE  AtomicObject!Next
<1> DEFINE old == [c \in CellsOf(op[t]) |-> AbstractReg[c]]
<1>1. old = seen'[t]
  OBVIOUS
<1>2. AtomicObject!Written(op[t], old) = old
  BY <1>1, SameIs
<1>3. UNCHANGED AbstractReg
  <2>1. \A u \in Threads : \A c : Pending(u, c)' <=> Pending(u, c)
    BY DEF Only, Pending, Effect
  <2> QED
    BY <2>1, RegSame
<1>4. op[t] # NoOp /\ Functions
  BY CallIs DEF Types
<1>5. \A c \in CellsOf(op[t]) : old[c] = AbstractReg[c]
  OBVIOUS
<1> HIDE DEF old
<1>6. \A c \in Cells : AbstractReg'[c] = IF c \in CellsOf(op[t])
                                         THEN AtomicObject!Written(op[t], old)[c]
                                         ELSE AbstractReg[c]
  BY <1>2, <1>3, <1>5
<1>7. pc[t] \notin Effect /\ pc'[t] \in Effect
  BY DEF Effect
<1>8. Telling(pc'[t], op[t], seen'[t]) = AtomicObject!Told(op[t], old)
  BY <1>1 DEF Telling, AtomicObject!Told
<1> QED
  BY <1>4, <1>6, <1>7, <1>8, TakesEffect DEF old

(* A step inside a call that the specification does not see. *)
LEMMA Unseen ==
  ASSUME Types, PendInv, PendInv', NEW t \in Threads, Only(t), op'[t] = op[t], UNCHANGED mem,
         pc[t] \notin Effect, pc'[t] \notin Effect
  PROVE  UNCHANGED AtomicObject!vars
<1>1. UNCHANGED AbstractReg
  <2>1. \A u \in Threads : \A c : Pending(u, c)' <=> Pending(u, c)
    BY DEF Only, Pending, Effect
  <2>2. \A u \in Threads : op'[u] = op[u]
    BY DEF Only
  <2> QED
    BY <2>1, <2>2, RegSame
<1> QED
  BY <1>1, Stutters DEF Types

LEMMA InvokeRefines ==
  ASSUME Types, PendInv, PendInv', NEW t \in Threads, Invoke(t)
  PROVE  AtomicObject!Next
<1>1. /\ Only(t) /\ UNCHANGED <<mem, g_spinlocks>> /\ pc[t] = "idle"
  BY InvokeIs
<1>2. PICK o \in program.requests :
        /\ Accepted(o) /\ op' = [op EXCEPT ![t] = o]
        /\ pc'[t] = IF Locks(o) THEN "lock" ELSE IF Reads(o) THEN "read_lo" ELSE "cas"
  BY InvokeIs
<1>3. pc'[t] \in {"lock", "read_lo", "cas"} /\ pc'[t] \notin Effect /\ pc[t] \notin Effect
  BY <1>1, <1>2 DEF Effect
<1>4. UNCHANGED AbstractReg
  <2>1. \A u \in Threads : \A c : Pending(u, c)' <=> Pending(u, c)
    BY <1>1, <1>3 DEF Only, Pending, Effect
  <2>2. \A u \in Threads : pc[u] = "write_next" => op'[u] = op[u]
    BY <1>1 DEF Only
  <2> QED
    BY <1>1, <2>1, <2>2, RegSame
<1>5. AbstractAnswer' = AbstractAnswer
  <2>1. \A u \in Threads : AbstractAnswer'[u] = AbstractAnswer[u]
    BY <1>1, <1>3, AnswerIs, AnswerNext DEF Only
  <2> QED
    BY <2>1 DEF AbstractAnswer
<1>6. op[t] = NoOp
  BY <1>1 DEF Types, Good
<1>7. o \in {r \in UNION {p.requests : p \in Programs} : Accepted(r)}
  BY <1>2 DEF Types
<1>8. AtomicObject!Invoke(t)
  BY <1>1, <1>2, <1>4, <1>5, <1>6, <1>7 DEF AtomicObject!Invoke, Only
<1> QED
  BY <1>8 DEF AtomicObject!Next

LEMMA CasSuccessRefines ==
  ASSUME ReachInv, PendInv, PendInv', NEW t \in Threads, CasSuccess(t)
  PROVE  AtomicObject!Next
<1> DEFINE o == op[t]
           old == [c \in CellsOf(o) |-> AbstractReg[c]]
<1>0. Types /\ Sound(program)
  BY DEF ReachInv
<1>1. /\ Only(t) /\ UNCHANGED <<g_spinlocks, op, seen, spare>>
      /\ pc[t] = "cas" /\ pc'[t] = IF o.kind = "fetch_add" THEN "reread" ELSE "return"
      /\ mem[o.at] = Comparand(t)
      /\ mem' = [mem EXCEPT ![o.at] = Desired(o, seen[t])[o.at]]
  BY <1>0, CasSuccessIs
<1>2. /\ o # NoOp /\ o \in program.requests /\ Accepted(o) /\ IsCall(o)
      /\ CellsOf(o) \subseteq Cells /\ seen[t] \in [CellsOf(o) -> Word]
  BY <1>0, <1>1, CallIs
<1>3. ~Locks(o) /\ (o.kind = "cas" => seen[t] = o.exp) /\ o.kind # "pair"
  <2>1. ~Locks(o) /\ (o.kind = "cas" => seen[t] = o.exp)
    BY <1>0, <1>1 DEF Types, Good, Unlocked
  <2> QED
    BY <2>1 DEF Locks, LocksIn
<1>4. program.build = "adjacent" \/ o.kind \in {"store", "cas"}
  BY <1>0, <1>2, <1>3 DEF Sound, Locks
<1>5. CellsOf(o) = {o.at} /\ o.at \in Cells
  BY <1>2, <1>3, CellsAre
<1>6. /\ \A c \in Cells : AbstractReg[c] = mem[c]
      /\ \A u \in Threads : pc[u] \notin {"lock"} \cup Critical
  BY <1>0, <1>1, RegOutside DEF Unlocked
<1>7. \A c \in Cells : AbstractReg'[c] = mem'[c]
  <2>1. \A u \in Threads : pc'[u] # "write_next"
    BY <1>1, <1>6 DEF Only, Critical
  <2> QED
    BY <2>1, RegNext DEF Pending
<1>8. old \in [CellsOf(o) -> Word]
  BY <1>0, <1>2, <1>6 DEF Types
<1>9. o.kind # "store" => old = seen[t]
  <2> SUFFICES ASSUME o.kind # "store" PROVE old = seen[t]
    OBVIOUS
  <2>1. seen[t][o.at] = mem[o.at]
    BY <1>1, <1>4 DEF Comparand, Reads
  <2> QED
    BY <1>2, <1>5, <1>6, <2>1
<1> HIDE DEF old
<1>10. Telling(pc'[t], o, seen'[t]) = AtomicObject!Told(o, old)
  <2>1. CASE o.kind = "store"
    BY <1>1, <2>1 DEF AtomicObject!Told, Telling
  <2>2. CASE o.kind = "fetch_add"
    <3>1. program.build # "lock" /\ pc'[t] = "reread" /\ seen'[t] = old
      BY <1>1, <1>3, <1>9, <2>2 DEF Locks, LocksIn
    <3> QED
      BY <2>2, <3>1 DEF AtomicObject!Told, AtomicObject!LowWords, Telling,
                        AtomicObject!CellsOf, CellsOf
  <2>3. CASE o.kind \notin {"store", "fetch_add"}
    BY <1>1, <1>9, <2>3 DEF AtomicObject!Told, Telling
  <2> QED
    BY <2>1, <2>2, <2>3
<1>11. AtomicObject!Written(o, old) = Desired(o, seen[t])
  <2>1. AtomicObject!Written(o, old) = Desired(o, old)
    BY <1>2, <1>3, <1>8, <1>9, WrittenIs
  <2>2. Desired(o, old) = Desired(o, seen[t])
    <3>1. CASE o.kind = "store"
      BY <3>1 DEF Desired
    <3>2. CASE o.kind # "store"
      BY <1>9, <3>2
    <3> QED
      BY <3>1, <3>2
  <2> QED
    BY <2>1, <2>2
<1>12. \A c \in Cells : AbstractReg'[c] = IF c \in CellsOf(o)
                                          THEN AtomicObject!Written(o, old)[c]
                                          ELSE AbstractReg[c]
  <2>1. mem \in [Cells -> Word]
    BY <1>0 DEF Types
  <2>2. mem'[o.at] = Desired(o, seen[t])[o.at]
    BY <1>1, <1>5, <2>1
  <2>3. \A c \in Cells \ {o.at} : mem'[c] = mem[c]
    BY <1>1, <2>1
  <2> QED
    BY <1>5, <1>6, <1>7, <1>11, <2>2, <2>3
<1>13. pc[t] \notin Effect /\ pc'[t] \in Effect
  BY <1>1 DEF Effect
<1> QED
  BY <1>0, <1>1, <1>2, <1>10, <1>12, <1>13, TakesEffect DEF old, Types

LEMMA CasFailureRefines ==
  ASSUME ReachInv, PendInv, PendInv', NEW t \in Threads, CasFailure(t)
  PROVE  [AtomicObject!Next]_(AtomicObject!vars)
<1> DEFINE o == op[t]
<1>0. Types /\ Sound(program)
  BY DEF ReachInv
<1>1. /\ Only(t) /\ UNCHANGED mem /\ pc[t] = "cas" /\ op'[t] = op[t] /\ op' = op
      /\ pc'[t] = IF o.kind \in {"load", "cas"} THEN "return" ELSE "read_lo"
      /\ mem[o.at] # Comparand(t)
      /\ ~(program.build = "separate" /\ Reads(o)) =>
           seen'[t] = [seen[t] EXCEPT ![o.at] = mem[o.at]]
  BY <1>0, CasFailureIs DEF CasFailure
<1>2. CASE o.kind \notin {"load", "cas"}
  <2>1. pc[t] \notin Effect /\ pc'[t] \notin Effect
    BY <1>1, <1>2 DEF Effect
  <2> QED
    BY <1>0, <1>1, <2>1, Unseen
<1>3. CASE o.kind \in {"load", "cas"}
  <2>1. /\ o.kind # "pair" /\ ~Locks(o) /\ (o.kind = "cas" => seen[t] = o.exp)
    BY <1>0, <1>1, <1>3 DEF Types, Good, Unlocked
  <2>2. /\ o \in program.requests /\ Accepted(o) /\ CellsOf(o) \subseteq Cells
        /\ seen[t] \in [CellsOf(o) -> Word]
    BY <1>0, <1>1, CallIs
  <2>3. program.build = "adjacent" \/ o.kind = "cas"
    BY <1>0, <1>3, <2>1, <2>2 DEF Sound, Locks
  <2>4. ~(program.build = "separate" /\ Reads(o))
    BY <2>3 DEF Reads
  <2>5. CellsOf(o) = {o.at}
    BY <2>1, CellsAre
  <2>6. seen'[t] = [c \in CellsOf(o) |-> mem[c]]
    BY <1>1, <2>2, <2>4, <2>5
  <2>7. o.kind = "cas" => seen'[t] # o.exp
    <3> SUFFICES ASSUME o.kind = "cas" PROVE seen'[t] # o.exp
      OBVIOUS
    <3>1. mem[o.at] # seen[t][o.at]
      BY <1>1, <2>4 DEF Comparand
    <3>2. seen'[t][o.at] = mem[o.at]
      BY <2>5, <2>6
    <3> QED
      BY <2>1, <3>1, <3>2
  <2>8. \A c \in CellsOf(o) : AbstractReg[c] = mem[c]
    BY <1>0, <1>1, <2>2, RegOutside DEF Unlocked
  <2>9. pc[t] \notin Effect \cup {"idle"} /\ pc'[t] \in {"return", "unlock"}
    BY <1>1, <1>3 DEF Effect
  <2>10. o.kind = "load" \/ (o.kind \in {"cas", "pair"} /\ seen'[t] # o.exp)
    BY <1>3, <2>7
  <2> QED
    BY <1>0, <1>1, <2>6, <2>8, <2>9, <2>10, ReadsOnly
<1> QED
  BY <1>2, <1>3

LEMMA LockedReadRefines ==
  ASSUME ReachInv, PendInv, PendInv', NEW t \in Threads, LockedRead(t)
  PROVE  [AtomicObject!Next]_(AtomicObject!vars)
<1>0. Types /\ LockInv
  BY DEF ReachInv
<1>1. /\ Only(t) /\ UNCHANGED <<mem, g_spinlocks, op, spare>>
      /\ pc[t] = "read"
      /\ seen'[t] = [c \in CellsOf(op[t]) |-> mem[c]]
      /\ \/ /\ pc'[t] = "unlock"
            /\ \/ op[t].kind = "load"
               \/ op[t].kind \in {"cas", "pair"} /\ seen'[t] # op[t].exp
         \/ pc'[t] = "write"
  BY <1>0, LockedReadIs
<1>2. CASE pc'[t] = "write"
  <2>1. pc[t] \notin Effect /\ pc'[t] \notin Effect
    BY <1>1, <1>2 DEF Effect
  <2> QED
    BY <1>0, <1>1, <2>1, Unseen
<1>3. CASE pc'[t] # "write"
  <2>1. \A c \in CellsOf(op[t]) : AbstractReg[c] = mem[c]
    BY <1>0, <1>1, RegInside
  <2>2. pc[t] \notin Effect \cup {"idle"} /\ pc'[t] \in {"return", "unlock"}
    BY <1>1, <1>3 DEF Effect
  <2> QED
    BY <1>0, <1>1, <1>3, <2>1, <2>2, ReadsOnly
<1> QED
  BY <1>2, <1>3

LEMMA LockedWriteRefines ==
  ASSUME ReachInv, PendInv, PendInv', NEW t \in Threads, LockedWrite(t)
  PROVE  AtomicObject!Next
<1> DEFINE o == op[t]
           old == [c \in CellsOf(o) |-> AbstractReg[c]]
<1>0. Types /\ LockInv /\ SeenInv
  BY DEF ReachInv
<1>1. /\ Only(t) /\ UNCHANGED <<g_spinlocks, op, seen, spare>>
      /\ pc[t] = "write"
      /\ pc'[t] = IF o.kind = "pair" THEN "write_next" ELSE "unlock"
      /\ mem' = [mem EXCEPT ![o.at] = Desired(o, seen[t])[o.at]]
  BY <1>0, LockedWriteIs
<1>2. /\ o # NoOp /\ IsCall(o) /\ o.at \in CellsOf(o) /\ o.at \in Nat
      /\ CellsOf(o) \subseteq Cells /\ seen[t] \in [CellsOf(o) -> Word]
  BY <1>0, <1>1, CallIs DEF IsCall
<1>3. \A c \in CellsOf(o) : AbstractReg[c] = mem[c]
  BY <1>0, <1>1, RegInside
<1>4. old = seen[t]
  <2>1. \A c \in CellsOf(o) : seen[t][c] = AbstractReg[c]
    BY <1>0, <1>1, <1>3 DEF SeenInv
  <2> QED
    BY <1>2, <2>1
<1> HIDE DEF old
<1>5. o.kind \in {"cas", "pair"} => seen[t] = o.exp
  BY <1>0, <1>1 DEF Types, Good
<1>6. AtomicObject!Written(o, old) = Desired(o, seen[t])
  BY <1>2, <1>4, <1>5, WrittenIs
<1>7. \A c \in Cells : AbstractReg'[c] = IF c \in CellsOf(o)
                                         THEN Desired(o, seen[t])[c]
                                         ELSE AbstractReg[c]
  <2> SUFFICES ASSUME NEW c \in Cells
               PROVE  AbstractReg'[c] = IF c \in CellsOf(o) THEN Desired(o, seen[t])[c]
                                                            ELSE AbstractReg[c]
    OBVIOUS
  <2>0. mem \in [Cells -> Word]
    BY <1>0 DEF Types
  <2>1. \A u \in Threads \ {t} : Pending(u, c)' <=> Pending(u, c)
    BY <1>1 DEF Only, Pending
  <2>2. ~Pending(t, c)
    BY <1>1 DEF Pending
  <2>3. ASSUME c \in CellsOf(o), NEW u \in Threads \ {t} PROVE ~Pending(u, c)
    <3> SUFFICES ASSUME Pending(u, c) PROVE FALSE
      OBVIOUS
    <3>1. c \in CellsOf(op[u]) /\ pc[u] \in Critical
      BY <1>0, PendingCell
    <3> QED
      BY <1>0, <1>1, <2>3, <3>1, Alone DEF Critical
  <2>4. CASE c = o.at
    <3>1. ~Pending(t, c)'
      <4>1. op'[t].at = o.at /\ o.at + 16 # o.at
        BY <1>1, <1>2
      <4> QED
        BY <2>4, <4>1 DEF Pending
    <3>2. \A u \in Threads : ~Pending(u, c)'
      BY <1>2, <2>1, <2>3, <2>4, <3>1
    <3>3. AbstractReg'[c] = mem'[c]
      BY <3>2, RegNext
    <3> QED
      BY <1>1, <1>2, <2>0, <2>4, <3>3
  <2>5. CASE c # o.at /\ c \in CellsOf(o)
    <3>1. o.kind = "pair" /\ c = o.at + 16
      BY <2>5, CellsAre
    <3>2. Pending(t, c)'
      BY <1>1, <3>1 DEF Pending
    <3>3. AbstractReg'[c] = o.new[c]
      BY <1>1, <3>2, RegNext
    <3>4. Desired(o, seen[t]) = o.new
      BY <3>1 DEF Desired
    <3> QED
      BY <2>5, <3>3, <3>4
  <2>6. CASE c \notin CellsOf(o)
    <3>0. mem'[c] = mem[c]
      BY <1>1, <1>2, <2>0, <2>6
    <3>1. ~Pending(t, c)'
      <4>1. pc'[t] = "write_next" => o.kind = "pair"
        BY <1>1
      <4>2. o.kind = "pair" => o.at + 16 \in CellsOf(o)
        BY CellsAre
      <4> QED
        BY <1>1, <2>6, <4>1, <4>2 DEF Pending
    <3>2. CASE \A u \in Threads : ~Pending(u, c)
      <4>1. \A u \in Threads : ~Pending(u, c)'
        BY <2>1, <3>1, <3>2
      <4>2. AbstractReg'[c] = mem'[c] /\ AbstractReg[c] = mem[c]
        BY <3>2, <4>1, RegIs, RegNext
      <4> QED
        BY <2>6, <3>0, <4>2
    <3>3. ASSUME NEW u \in Threads, Pending(u, c) PROVE AbstractReg'[c] = AbstractReg[c]
      <4>1. Pending(u, c)'
        BY <2>1, <2>2, <3>3
      <4> QED
        BY <1>1, <3>3, <4>1, RegIs, RegNext
    <3> QED
      BY <2>6, <3>2, <3>3
  <2> QED
    BY <2>4, <2>5, <2>6
<1>8. Telling(pc'[t], o, seen'[t]) = AtomicObject!Told(o, old)
  <2>1. o.kind = "fetch_add" => program.build = "lock"
    BY <1>0, <1>1 DEF Types, Good, Critical, Locks, LocksIn
  <2>2. pc'[t] # "reread" /\ seen'[t] = old
    BY <1>1, <1>4
  <2> QED
    BY <2>1, <2>2 DEF AtomicObject!Told, Telling
<1>9. pc[t] \notin Effect /\ pc'[t] \in Effect
  BY <1>1 DEF Effect
<1> QED
  BY <1>0, <1>1, <1>2, <1>6, <1>7, <1>8, <1>9, TakesEffect DEF old, Types

LEMMA LockedWriteNextRefines ==
  ASSUME ReachInv, PendInv, PendInv', NEW t \in Threads, LockedWriteNext(t)
  PROVE  UNCHANGED AtomicObject!vars
<1> DEFINE o == op[t]
<1>0. Types /\ LockInv
  BY DEF ReachInv
<1>1. /\ Only(t) /\ UNCHANGED <<g_spinlocks, op, seen, spare>>
      /\ pc[t] = "write_next" /\ pc'[t] = "unlock"
      /\ mem' = [mem EXCEPT ![o.at + 16] = o.new[o.at + 16]]
  BY <1>0, LockedWriteNextIs
<1>2. o.at + 16 \in CellsOf(o) /\ o.at + 16 \in Cells /\ mem \in [Cells -> Word]
  BY <1>0, <1>1, CallIs, CellsAre DEF Types, Good
<1>3. ASSUME NEW c \in Cells PROVE AbstractReg'[c] = AbstractReg[c]
  <2>1. \A u \in Threads \ {t} : Pending(u, c)' <=> Pending(u, c)
    BY <1>1 DEF Only, Pending
  <2>2. ~Pending(t, c)'
    BY <1>1 DEF Pending
  <2>3. CASE c = o.at + 16
    <3>1. Pending(t, c)
      BY <1>1, <2>3 DEF Pending
    <3>2. \A u \in Threads : ~Pending(u, c)'
      BY <2>1, <2>2, <3>1 DEF PendInv
    <3>3. AbstractReg[c] = o.new[c] /\ AbstractReg'[c] = mem'[c]
      BY <3>1, <3>2, RegIs, RegNext
    <3> QED
      BY <1>1, <1>2, <2>3, <3>3
  <2>4. CASE c # o.at + 16
    <3>1. mem'[c] = mem[c] /\ ~Pending(t, c)
      BY <1>1, <1>2, <2>4 DEF Pending
    <3>2. CASE \A u \in Threads : ~Pending(u, c)
      <4>1. \A u \in Threads : ~Pending(u, c)'
        BY <2>1, <2>2, <3>2
      <4> QED
        BY <3>1, <3>2, <4>1, RegIs, RegNext
    <3>3. ASSUME NEW u \in Threads, Pending(u, c) PROVE AbstractReg'[c] = AbstractReg[c]
      <4>1. Pending(u, c)'
        BY <2>1, <3>1, <3>3
      <4> QED
        BY <1>1, <3>3, <4>1, RegIs, RegNext
    <3> QED
      BY <3>2, <3>3
  <2> QED
    BY <2>3, <2>4
<1>4. UNCHANGED AbstractReg
  BY <1>3 DEF AbstractReg
<1>5. pc'[t] \in Effect /\ pc[t] \in Effect
  BY <1>1 DEF Effect
<1>6. op'[t] = op[t] /\ Telling(pc'[t], op[t], seen'[t]) = Telling(pc[t], op[t], seen[t])
  BY <1>1 DEF Telling
<1> QED
  BY <1>0, <1>1, <1>4, <1>5, <1>6, Stutters DEF Types

LEMMA EndsRefine ==
  ASSUME Types, PendInv, PendInv', NEW t \in Threads, Only(t), UNCHANGED mem,
         pc[t] \in {"return", "unlock"}, pc'[t] = "idle", op' = [op EXCEPT ![t] = NoOp]
  PROVE  AtomicObject!Next
<1>1. UNCHANGED AbstractReg
  <2>1. \A u \in Threads : \A c : Pending(u, c)' <=> Pending(u, c)
    BY DEF Only, Pending
  <2>2. \A u \in Threads : pc[u] = "write_next" => op'[u] = op[u]
    BY DEF Only
  <2> QED
    BY <2>1, <2>2, RegSame
<1>2. pc[t] \in Effect \ {"reread"} /\ pc'[t] \notin Effect
  BY DEF Effect
<1> QED
  BY <1>1, <1>2, Ends

LEMMA RereadRefines ==
  ASSUME ReachInv, PendInv, PendInv', NEW t \in Threads, ReadHiAgain(t)
  PROVE  AtomicObject!Next
<1> DEFINE o == op[t]
<1>0. Types /\ Sound(program)
  BY DEF ReachInv
<1>1. /\ Only(t) /\ UNCHANGED <<mem, g_spinlocks>>
      /\ pc[t] = "reread" /\ pc'[t] = "return" /\ op' = op
      /\ seen'[t] = [seen[t] EXCEPT ![o.at].hi = mem[o.at].hi]
  BY <1>0, RereadIs DEF ReadHiAgain
<1>2. o.kind = "fetch_add" /\ ~Locks(o) /\ program.build # "lock"
  BY <1>0, <1>1 DEF Types, Good, Unlocked, Locks, LocksIn
<1>3. /\ seen[t] \in [CellsOf(o) -> Word] /\ o.at \in Cells
      /\ CellsOf(o) = {o.at} /\ o # NoOp
      /\ o \in program.requests /\ program \in Programs
  BY <1>0, <1>1, <1>2, CallIs, CellsAre DEF Types
<1>4. UNCHANGED AbstractReg
  <2>1. \A u \in Threads : \A c : Pending(u, c)' <=> Pending(u, c)
    BY <1>1 DEF Only, Pending
  <2>2. \A u \in Threads : op'[u] = op[u]
    BY <1>1
  <2> QED
    BY <1>1, <2>1, <2>2, RegSame
<1>5. AbstractReg[o.at] = mem[o.at]
  BY <1>0, <1>1, <1>3, RegOutside DEF Unlocked
<1>6. AbstractAnswer[t] = [c \in {o.at} |-> [lo |-> seen[t][c].lo]]
  BY <1>1, <1>2, <1>3, AnswerIs DEF Telling, Effect
<1>7. AbstractAnswer'[t] = seen'[t]
  BY <1>1, <1>2, AnswerNext DEF Telling, Effect
<1>8. seen'[t] = [c \in {o.at} |-> [lo |-> seen[t][c].lo, hi |-> mem[c].hi]]
  <2>1. PICK v \in Word : v = seen[t][o.at]
    BY <1>3
  <2>2. [v EXCEPT !.hi = mem[o.at].hi] = [lo |-> v.lo, hi |-> mem[o.at].hi]
    BY DEF Word
  <2>3. seen'[t] = [c \in {o.at} |-> [v EXCEPT !.hi = mem[o.at].hi]]
    BY <1>1, <1>3, <2>1
  <2> QED
    BY <2>1, <2>2, <2>3
<1>9. AbstractAnswer' = [AbstractAnswer EXCEPT ![t] =
        [c \in {o.at} |-> [lo |-> AbstractAnswer[t][c].lo, hi |-> AbstractReg[c].hi]]]
  <2>1. \A u \in Threads \ {t} : AbstractAnswer'[u] = AbstractAnswer[u]
    BY <1>1, AnswerIs, AnswerNext DEF Only
  <2>2. AbstractAnswer'[t] =
          [c \in {o.at} |-> [lo |-> AbstractAnswer[t][c].lo, hi |-> AbstractReg[c].hi]]
    BY <1>5, <1>6, <1>7, <1>8
  <2> QED
    BY <2>1, <2>2, AnswersSet
<1>10. AbstractAnswer[t] # NoAnswer
  <2>1. AbstractAnswer[t] \in [CellsOf(o) -> [lo : Half]]
    BY <1>3, <1>6, WordIs
  <2> QED
    BY <1>3, <2>1, AnswerAssumption
<1>11. DOMAIN AbstractAnswer[t][o.at] = {"lo"}
  BY <1>6
<1>12. AtomicObject!CellsOf(o) = {o.at}
  BY <1>2 DEF AtomicObject!CellsOf
<1>13. AtomicObject!ReadHigh(t)
  BY <1>1, <1>2, <1>4, <1>9, <1>10, <1>11, <1>12
     DEF AtomicObject!ReadHigh, AtomicObject!HalfTold, Only
<1> QED
  BY <1>13 DEF AtomicObject!Next

LEMMA NextRefines ==
  ASSUME ReachInv, PendInv, PendInv', [Next]_vars
  PROVE  [AtomicObject!Next]_(AtomicObject!vars)
<1>0. Types
  BY DEF ReachInv
<1>1. ASSUME NEW t \in Threads, ReadLo(t) PROVE UNCHANGED AtomicObject!vars
  <2>1. pc[t] \notin Effect /\ pc'[t] \notin Effect /\ Only(t) /\ op'[t] = op[t] /\ UNCHANGED mem
    BY <1>0, <1>1, ReadLoIs DEF Effect
  <2> QED
    BY <1>0, <2>1, Unseen
<1>2. ASSUME NEW t \in Threads, ReadHi(t) PROVE UNCHANGED AtomicObject!vars
  <2>1. pc[t] \notin Effect /\ pc'[t] \notin Effect /\ Only(t) /\ op'[t] = op[t] /\ UNCHANGED mem
    BY <1>0, <1>2, ReadHiIs DEF Effect
  <2> QED
    BY <1>0, <2>1, Unseen
<1>3. ASSUME NEW t \in Threads, LockAddr(t) PROVE UNCHANGED AtomicObject!vars
  <2>1. pc[t] \notin Effect /\ pc'[t] \notin Effect /\ Only(t) /\ op'[t] = op[t] /\ UNCHANGED mem
    BY <1>0, <1>3, LockIs DEF Effect
  <2> QED
    BY <1>0, <2>1, Unseen
<1>4. ASSUME NEW t \in Threads, Return(t) \/ UnlockAddr(t) PROVE AtomicObject!Next
  <2>1. /\ Only(t) /\ UNCHANGED mem /\ pc[t] \in {"return", "unlock"} /\ pc'[t] = "idle"
        /\ op' = [op EXCEPT ![t] = NoOp]
    BY <1>0, <1>4, ReturnIs, UnlockIs
  <2> QED
    BY <1>0, <2>1, EndsRefine
<1>5. CASE UNCHANGED vars
  BY <1>5 DEF vars, AtomicObject!vars, AbstractReg, AbstractAnswer
<1> QED
  BY <1>0, <1>1, <1>2, <1>3, <1>4, <1>5, InvokeRefines, CasSuccessRefines, CasFailureRefines,
     LockedReadRefines, LockedWriteRefines, LockedWriteNextRefines, RereadRefines
     DEF Next, Step

LEMMA InitRefines == Init => AtomicObject!Init
<1> SUFFICES ASSUME Init PROVE AtomicObject!Init
  OBVIOUS
<1>1. \A t \in Threads : pc[t] = "idle"
  BY DEF Init
<1>2. AbstractReg = [c \in Cells |-> [lo |-> 0, hi |-> 0]]
  BY <1>1 DEF AbstractReg, Init, Zero
<1>3. AbstractAnswer = [t \in Threads |-> NoAnswer]
  BY <1>1 DEF AbstractAnswer
<1> QED
  BY <1>2, <1>3 DEF AtomicObject!Init, Init

(* retryix_atomic_advanced_module.c: in a program whose calls all take the lock,
   or none of whose calls do and that is laid out as the code needs, every call
   takes effect in one indivisible step between its invocation and its return,
   and tells what its cells held at that step; of a fetch_add that takes no lock
   this is so for the low word, and the high word is that of a later moment
   before it returns. *)
THEOREM SoundProgramsAreAtomic ==
  ASSUME \A p \in Programs : Sound(p)
  PROVE  Spec => CallsAreAtomic
<1>1. Init => ReachInv
  <2> SUFFICES ASSUME Init PROVE ReachInv
    OBVIOUS
  <2>1. Types /\ Sound(program)
    BY InitTypes DEF Init
  <2>2. \A t \in Threads : pc[t] = "idle"
    BY DEF Init
  <2> QED
    BY <2>1, <2>2 DEF ReachInv, LockInv, SeenInv, Critical
<1>2. ReachInv /\ [Next]_vars => ReachInv'
  <2> SUFFICES ASSUME ReachInv, [Next]_vars PROVE ReachInv'
    OBVIOUS
  <2>1. Types' /\ LockInv' /\ SeenInv'
    BY NextTypes, NextLock, NextSeen DEF ReachInv
  <2>2. Sound(program)'
    BY <2>1 DEF Types, Sound
  <2> QED
    BY <2>1, <2>2 DEF ReachInv
<1>3. ReachInv => PendInv
  BY PendingIs DEF ReachInv
<1>4. ReachInv /\ PendInv /\ PendInv' /\ [Next]_vars => [AtomicObject!Next]_(AtomicObject!vars)
  BY NextRefines
<1> QED
  BY <1>1, <1>2, <1>3, <1>4, InitRefines, PTL DEF Spec, CallsAreAtomic, AtomicObject!Spec
=============================================================================
