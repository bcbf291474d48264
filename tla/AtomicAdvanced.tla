--------------------------- MODULE AtomicAdvanced ---------------------------
(***************************************************************************)
(* The 128-bit operations and the pair exchange exported by                *)
(* src/modules/retryix_atomic_advanced_module.c, run by any number of      *)
(* threads.  Which of its two bodies a function has depends on the build:  *)
(*                                                                         *)
(*   "adjacent", "separate"   MSVC x64: loops around the intrinsic         *)
(*       _InterlockedCompareExchange128(p64, hi, lo, &exp_lo).  It takes   *)
(*       a comparand of two words, and the code passes the address of a    *)
(*       local of one.  The second word of the comparand is whatever the   *)
(*       compiler laid out behind exp_lo: exp_hi in the "adjacent" build,  *)
(*       some other stack slot in the "separate" one.                      *)
(*   "lock"   other Windows compilers: the spinlock table.                 *)
(*                                                                         *)
(* The pair exchange takes a spinlock in every build.                      *)
(***************************************************************************)
EXTENDS Naturals

CONSTANTS
  Threads,
  Cells,               \* addresses of the 128-bit cells, 16 bytes apart
  W,                   \* the size of a word: a cell has two words below W
  Programs,            \* [build, requests]: a build and the calls made in it
  NoOp,                \* the call of a thread that is in none
  NoAnswer,            \* what a call has to tell before it takes effect
  SPINLOCK_TABLE_SIZE,
  CACHE_LINE           \* 2^6: get_lock_index drops the six low address bits

(* A word has a value, the table a lock, and a line holds aligned pairs. *)
ASSUME SizesAssumption ==
  /\ W \in Nat \ {0} /\ SPINLOCK_TABLE_SIZE \in Nat \ {0}
  /\ CACHE_LINE \in Nat \ {0} /\ CACHE_LINE % 32 = 0

VARIABLES
  program,       \* the program that is running; it never changes
  mem,           \* contents of every cell
  g_spinlocks,   \* the spinlock table: 0 free, 1 taken
  pc,            \* where each thread is
  op,            \* the call it is in
  seen,          \* what it has read: exp_lo, exp_hi and their kin
  spare          \* the word behind exp_lo in the "separate" build

vars == <<program, mem, g_spinlocks, pc, op, seen, spare>>

NULL == 0

Half == 0 .. W - 1
Word == [lo : Half, hi : Half]

Zero == [lo |-> 0, hi |-> 0]

CellsOf(o) == IF o.kind = "pair" THEN {o.at, o.at + 16} ELSE {o.at}

get_lock_index(p) == (p \div CACHE_LINE) % SPINLOCK_TABLE_SIZE

(* Fault: a pair is only checked for the alignment of one cell. *)
Accepted_Loose(o) == o.at # NULL /\ o.at % 16 = 0

(* The argument checks that open every function. *)
Accepted(o) ==
  /\ o.at # NULL
  /\ o.at % (IF o.kind = "pair" THEN 32 ELSE 16) = 0

(* The arguments of a call that passes the checks: o.exp and o.new are the
   comparand and the new contents of the cells, also where a function has none. *)
IsCall(o) ==
  /\ o.kind \in {"load", "store", "exchange", "fetch_add", "cas", "pair"}
  /\ o.at \in Nat /\ CellsOf(o) \subseteq Cells
  /\ o.exp \in [CellsOf(o) -> Word] /\ o.new \in [CellsOf(o) -> Word]

ASSUME CallsAssumption ==
  \A p \in Programs :
    /\ p.build \in {"adjacent", "separate", "lock"}
    /\ NoOp \notin p.requests
    /\ \A o \in p.requests : Accepted(o) => IsCall(o)

(* NoAnswer is none of the things a call may tell. *)
ASSUME AnswerAssumption ==
  /\ NoAnswer # "done"
  /\ \A p \in Programs : \A o \in p.requests :
       NoAnswer \notin [CellsOf(o) -> Word] \cup [CellsOf(o) -> [lo : Half]]

(* Fault: the carry is tested against the wrong side of equality. *)
AddU128_Carry(v, w) ==
  LET lo == (w.lo + v.lo) % W
      hi == IF lo <= w.lo THEN w.hi + v.hi + 1 ELSE w.hi + v.hi
  IN  [lo |-> lo, hi |-> hi % W]

(* Fault: the high word does not wrap. *)
AddU128_Wide(v, w) ==
  LET lo == (w.lo + v.lo) % W
  IN  [lo |-> lo, hi |-> IF lo < w.lo THEN w.hi + v.hi + 1 ELSE w.hi + v.hi]

(* The sum of a cell and a summand w, the carry detected by the wrap of lo. *)
AddU128(v, w) ==
  LET lo == (w.lo + v.lo) % W
      hi == IF lo < w.lo THEN w.hi + v.hi + 1 ELSE w.hi + v.hi
  IN  [lo |-> lo, hi |-> hi % W]

(* What call o stores once it has read old from its cells. *)
Desired(o, old) ==
  CASE o.kind = "fetch_add" -> [c \in CellsOf(o) |-> AddU128(old[c], o.new[c])]
    [] o.kind = "load"      -> old
    [] OTHER                -> o.new

Goto(t, from, to) ==
  /\ pc[t] = from
  /\ pc' = [pc EXCEPT ![t] = to]

LocksIn(p, o) == p.build = "lock" \/ o.kind = "pair"

Locks(o) == LocksIn(program, o)

Reads(o) == o.kind # "cas"
-----------------------------------------------------------------------------
Init ==
  /\ program \in Programs
  /\ mem = [c \in Cells |-> Zero]
  /\ g_spinlocks = [b \in 0 .. SPINLOCK_TABLE_SIZE - 1 |-> 0]
  /\ pc = [t \in Threads |-> "idle"]
  /\ op = [t \in Threads |-> NoOp]
  /\ seen = [t \in Threads |-> NoAnswer]
  /\ spare = [t \in Threads |-> 0]

(***************************************************************************)
(* A call that passes its checks.  The one function whose comparand is a   *)
(* proper array, compare_exchange_u128, fills it from its argument.  Where *)
(* the comparand runs past exp_lo, its second word starts out as junk.     *)
(***************************************************************************)
Invoke(t) ==
  /\ pc[t] = "idle"
  /\ \E o \in program.requests :
       /\ Accepted(o)
       /\ op' = [op EXCEPT ![t] = o]
       /\ seen' = [seen EXCEPT ![t] =
                     IF Reads(o) \/ Locks(o) THEN [c \in CellsOf(o) |-> Zero]
                     ELSE o.exp]
       /\ pc' = [pc EXCEPT ![t] = CASE Locks(o) -> "lock"
                                    [] ~Locks(o) /\ Reads(o) -> "read_lo"
                                    [] OTHER -> "cas"]
  /\ \E junk \in IF program.build = "separate" THEN Half ELSE {0} :
       spare' = [spare EXCEPT ![t] = junk]
  /\ UNCHANGED <<program, mem, g_spinlocks>>

ReadLo(t) ==
  /\ Goto(t, "read_lo", "read_hi")
  /\ seen' = [seen EXCEPT ![t][op[t].at].lo = mem[op[t].at].lo]
  /\ UNCHANGED <<program, mem, g_spinlocks, op, spare>>

ReadHi(t) ==
  /\ Goto(t, "read_hi", "cas")
  /\ seen' = [seen EXCEPT ![t][op[t].at].hi = mem[op[t].at].hi]
  /\ UNCHANGED <<program, mem, g_spinlocks, op, spare>>

(* The two words the intrinsic compares the cell with. *)
Comparand(t) ==
  IF program.build = "separate" /\ Reads(op[t])
  THEN [lo |-> seen[t][op[t].at].lo, hi |-> spare[t]]
  ELSE seen[t][op[t].at]

CasSuccess(t) ==
  /\ pc[t] = "cas"
  /\ mem[op[t].at] = Comparand(t)
  /\ mem' = [mem EXCEPT ![op[t].at] = Desired(op[t], seen[t])[op[t].at]]
  /\ pc' = [pc EXCEPT ![t] = IF op[t].kind = "fetch_add" THEN "reread" ELSE "return"]
  /\ UNCHANGED <<program, g_spinlocks, op, seen, spare>>

(* The high word that fetch_add hands back is read after its exchange. *)
ReadHiAgain(t) ==
  /\ Goto(t, "reread", "return")
  /\ seen' = [seen EXCEPT ![t][op[t].at].hi = mem[op[t].at].hi]
  /\ UNCHANGED <<program, mem, g_spinlocks, op, spare>>

(* Fault: a failing exchange does not report the second word. *)
CasFailure_Spare(t) ==
  /\ pc[t] = "cas"
  /\ mem[op[t].at] # Comparand(t)
  /\ seen' = [seen EXCEPT ![t][op[t].at].lo = mem[op[t].at].lo]
  /\ pc' = [pc EXCEPT ![t] = IF op[t].kind \in {"load", "cas"}
                             THEN "return" ELSE "read_lo"]
  /\ UNCHANGED <<program, mem, g_spinlocks, op, spare>>

(***************************************************************************)
(* A failing exchange overwrites its comparand with what the cell holds.   *)
(* load and compare_exchange return that; the others start over.           *)
(***************************************************************************)
CasFailure(t) ==
  /\ pc[t] = "cas"
  /\ mem[op[t].at] # Comparand(t)
  /\ IF program.build = "separate" /\ Reads(op[t])
     THEN /\ seen' = [seen EXCEPT ![t][op[t].at].lo = mem[op[t].at].lo]
          /\ spare' = [spare EXCEPT ![t] = mem[op[t].at].hi]
     ELSE /\ seen' = [seen EXCEPT ![t][op[t].at] = mem[op[t].at]]
          /\ UNCHANGED spare
  /\ pc' = [pc EXCEPT ![t] = IF op[t].kind \in {"load", "cas"}
                             THEN "return" ELSE "read_lo"]
  /\ UNCHANGED <<program, mem, g_spinlocks, op>>

Return(t) ==
  /\ Goto(t, "return", "idle")
  /\ op' = [op EXCEPT ![t] = NoOp]
  /\ seen' = [seen EXCEPT ![t] = NoAnswer]
  /\ spare' = [spare EXCEPT ![t] = 0]
  /\ UNCHANGED <<program, mem, g_spinlocks>>
-----------------------------------------------------------------------------
LockAddr(t) ==
  /\ Goto(t, "lock", "read")
  /\ g_spinlocks[get_lock_index(op[t].at)] = 0
  /\ g_spinlocks' = [g_spinlocks EXCEPT ![get_lock_index(op[t].at)] = 1]
  /\ UNCHANGED <<program, mem, op, seen, spare>>

(* Under the lock: the cells are read, and the call knows if it will write. *)
LockedRead(t) ==
  LET o   == op[t]
      old == [c \in CellsOf(o) |-> mem[c]]
  IN  /\ pc[t] = "read"
      /\ seen' = [seen EXCEPT ![t] = old]
      /\ pc' = [pc EXCEPT ![t] =
                  IF o.kind = "load" \/ (o.kind \in {"cas", "pair"} /\ old # o.exp)
                  THEN "unlock" ELSE "write"]
      /\ UNCHANGED <<program, mem, g_spinlocks, op, spare>>

LockedWrite(t) ==
  /\ Goto(t, "write", IF op[t].kind = "pair" THEN "write_next" ELSE "unlock")
  /\ mem' = [mem EXCEPT ![op[t].at] = Desired(op[t], seen[t])[op[t].at]]
  /\ UNCHANGED <<program, g_spinlocks, op, seen, spare>>

LockedWriteNext(t) ==
  /\ Goto(t, "write_next", "unlock")
  /\ mem' = [mem EXCEPT ![op[t].at + 16] = op[t].new[op[t].at + 16]]
  /\ UNCHANGED <<program, g_spinlocks, op, seen, spare>>

UnlockAddr(t) ==
  /\ Goto(t, "unlock", "idle")
  /\ g_spinlocks' = [g_spinlocks EXCEPT ![get_lock_index(op[t].at)] = 0]
  /\ op' = [op EXCEPT ![t] = NoOp]
  /\ seen' = [seen EXCEPT ![t] = NoAnswer]
  /\ spare' = [spare EXCEPT ![t] = 0]
  /\ UNCHANGED <<program, mem>>

Step(t) == \/ ReadLo(t) \/ ReadHi(t) \/ CasSuccess(t) \/ CasFailure(t)
           \/ ReadHiAgain(t) \/ Return(t)
           \/ LockAddr(t) \/ LockedRead(t) \/ LockedWrite(t)
           \/ LockedWriteNext(t) \/ UnlockAddr(t)

Next == \E t \in Threads : Invoke(t) \/ Step(t)

Spec == Init /\ [][Next]_vars

(* Threads in a call keep running; callers need not make calls. *)
FairSpec == Spec /\ \A t \in Threads : WF_vars(Step(t))
-----------------------------------------------------------------------------
TypeOK ==
  /\ program \in Programs
  /\ mem \in [Cells -> Word]
  /\ \A b \in DOMAIN g_spinlocks : g_spinlocks[b] \in {0, 1}
  /\ \A t \in Threads :
       /\ op[t] \in program.requests \cup {NoOp}
       /\ pc[t] = "idle" <=> op[t] = NoOp
       /\ spare[t] \in Half
       /\ op[t] # NoOp => seen[t] \in [CellsOf(op[t]) -> Word]

(***************************************************************************)
(* Refinement.  The cells of a pair exchange that is between its two       *)
(* writes already count as written.  A call has taken effect, and has its  *)
(* answer, once its exchange is over or, under the lock, once it writes or *)
(* has decided that it will not.  Until its second look at the cell, a     *)
(* fetch_add without a lock has the low word of its answer only.           *)
(***************************************************************************)
AbstractReg ==
  [c \in Cells |->
     IF \E t \in Threads : pc[t] = "write_next" /\ op[t].at + 16 = c
     THEN LET t == CHOOSE t \in Threads :
                     pc[t] = "write_next" /\ op[t].at + 16 = c
          IN  op[t].new[c]
     ELSE mem[c]]

AbstractAnswer ==
  [t \in Threads |->
     IF pc[t] \notin {"reread", "return", "write_next", "unlock"} THEN NoAnswer
     ELSE CASE op[t].kind = "store" -> "done"
            [] pc[t] = "reread" -> [c \in CellsOf(op[t]) |-> [lo |-> seen[t][c].lo]]
            [] OTHER -> seen[t]]

AtomicObject ==
  INSTANCE AtomicCells
    WITH Ops <- {o \in UNION {p.requests : p \in Programs} : Accepted(o)},
         reg <- AbstractReg, answer <- AbstractAnswer,
         late <- program.build # "lock"

(***************************************************************************)
(* The programs whose calls are atomic: all of them take the lock, as in   *)
(* the "lock" build or where only pairs are exchanged, or none does, and   *)
(* the comparand is laid out as the code needs or, as for stores and       *)
(* compare_exchange, does not matter.                                      *)
(***************************************************************************)
Sound(p) ==
  \/ \A o \in p.requests : Accepted(o) => LocksIn(p, o)
  \/ \A o \in p.requests :
       Accepted(o) => ~LocksIn(p, o) /\ (p.build = "adjacent" \/ o.kind \in {"store", "cas"})

(***************************************************************************)
(* Every operation changes its cells in one step, and all of its answer is *)
(* what they held at that step, but for the high word that fetch_add gives *)
(* in the builds without the lock: that is the cell's high word at a later *)
(* moment, the new one even where no other thread runs.  In particular a   *)
(* load is never torn, no increment is lost, a failing exchange reports    *)
(* one state of its cell, and in the builds with locks fetch_add gives the *)
(* whole old value and the pair exchange is atomic also against operations *)
(* on its two halves.                                                      *)
(***************************************************************************)
CallsAreAtomic == AtomicObject!Spec

(* The calls in progress never stop completing altogether, although a
   single one may lose every race. *)
Progress ==
  (\E t \in Threads : pc[t] # "idle")
    ~> (\E t \in Threads : pc[t] \in {"return", "unlock"})
=============================================================================
