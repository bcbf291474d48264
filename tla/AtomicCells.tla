----------------------------- MODULE AtomicCells -----------------------------
(***************************************************************************)
(* What the 128-bit operations retryix_atomic_*_u128 and the 256-bit       *)
(* retryix_atomic_compare_exchange_pair_256 promise: every call reads and  *)
(* writes its cells in one indivisible step between its invocation and its *)
(* return, and tells its caller what the cells held at that step.          *)
(*                                                                         *)
(* fetch_add is different in the builds without the lock.  They add in one *)
(* step, but of the old value they keep only the low word: the high word   *)
(* of the answer is read from the cell in a second step, when the sum and  *)
(* perhaps the stores of others are in it.                                 *)
(***************************************************************************)
EXTENDS Naturals

CONSTANTS
  Threads,
  Cells,         \* addresses of 128-bit cells
  W,             \* a cell is two words below W
  Ops,           \* the calls that may be made
  NoOp,          \* no call in progress
  NoAnswer       \* what a call that has not taken effect has to tell

VARIABLES
  reg,           \* contents of every cell
  op,            \* the call each thread is in
  answer,        \* what it will be told, once the call has taken effect
  late           \* whether fetch_add reads its high word late; never changes

vars == <<reg, op, answer, late>>

Word == [lo : 0 .. W - 1, hi : 0 .. W - 1]

(* The pair exchange works on the cell it is given and the next one. *)
CellsOf(o) == IF o.kind = "pair" THEN {o.at, o.at + 16} ELSE {o.at}

Number(w) == w.hi * W + w.lo

Sum(v, w) == CHOOSE s \in Word : Number(s) = (Number(v) + Number(w)) % (W * W)

Written(o, old) ==
  CASE o.kind = "fetch_add"         -> [c \in CellsOf(o) |-> Sum(old[c], o.new[c])]
    [] o.kind = "load"              -> old
    [] o.kind \in {"store", "exchange"} -> o.new
    [] o.kind \in {"cas", "pair"}   -> IF old = o.exp THEN o.new ELSE old

LowWords(o, old) == [c \in CellsOf(o) |-> [lo |-> old[c].lo]]

Told(o, old) ==
  CASE o.kind = "store"             -> "done"
    [] o.kind = "fetch_add" /\ late -> LowWords(o, old)
    [] OTHER                        -> old

Init ==
  /\ reg = [c \in Cells |-> [lo |-> 0, hi |-> 0]]
  /\ op = [t \in Threads |-> NoOp]
  /\ answer = [t \in Threads |-> NoAnswer]
  /\ late \in BOOLEAN

Invoke(t) ==
  /\ op[t] = NoOp
  /\ \E o \in Ops : op' = [op EXCEPT ![t] = o]
  /\ UNCHANGED <<reg, answer, late>>

TakeEffect(t) ==
  /\ op[t] # NoOp
  /\ answer[t] = NoAnswer
  /\ LET o   == op[t]
         old == [c \in CellsOf(o) |-> reg[c]]
     IN  /\ reg' = [c \in Cells |-> IF c \in CellsOf(o)
                                    THEN Written(o, old)[c] ELSE reg[c]]
         /\ answer' = [answer EXCEPT ![t] = Told(o, old)]
  /\ UNCHANGED <<op, late>>

(* The answer of a late fetch_add still lacks its high word. *)
HalfTold(t) ==
  /\ answer[t] # NoAnswer
  /\ late /\ op[t].kind = "fetch_add"
  /\ DOMAIN answer[t][op[t].at] = {"lo"}

ReadHigh(t) ==
  /\ HalfTold(t)
  /\ answer' = [answer EXCEPT ![t] =
        [c \in CellsOf(op[t]) |-> [lo |-> answer[t][c].lo, hi |-> reg[c].hi]]]
  /\ UNCHANGED <<reg, op, late>>

Return(t) ==
  /\ answer[t] # NoAnswer /\ ~HalfTold(t)
  /\ op' = [op EXCEPT ![t] = NoOp]
  /\ answer' = [answer EXCEPT ![t] = NoAnswer]
  /\ UNCHANGED <<reg, late>>

Next == \E t \in Threads : Invoke(t) \/ TakeEffect(t) \/ ReadHigh(t) \/ Return(t)

Spec == Init /\ [][Next]_vars
=============================================================================
