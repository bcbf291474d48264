--------------------------- MODULE ScalarAtomics ---------------------------
(***************************************************************************)
(* Atomic operations on one word, by any number of threads: those of       *)
(* modules/retryix_atomic_module.c, and the 32-bit ones of                 *)
(* svm/retryix_svm_atomic.c.  Most are one instruction; adding floats and  *)
(* the minimum are loops that read, compute, and compare and exchange.     *)
(*                                                                         *)
(* Words of every width and kind are words of WordBits bits here, and the  *)
(* floats a loop adds are their bits.                                      *)
(***************************************************************************)
EXTENDS Integers, Sums

CONSTANTS AtomicThreads, WordBits

ASSUME WordAssumption == WordBits \in Nat \ {0}

VARIABLES
  word,            \* the shared word
  attempt,         \* where each thread stands, and what it read
  previous,        \* what the last call to end has reported
  windows          \* the build

atomicVars == <<word, attempt, previous, windows>>

Power[i \in 0 .. WordBits] == IF i = 0 THEN 1 ELSE 2 * Power[i - 1]     \* 2 ^ i

Words == 0 .. Power[WordBits] - 1
Modulo(n) == n % Power[WordBits]
Signed(w) == IF w < Power[WordBits - 1] THEN w ELSE w - Power[WordBits]
NoAttempt == [at |-> "idle", op |-> "none", value |-> 0, old |-> 0]

AtomicInit ==
  /\ word = 0
  /\ attempt = [t \in AtomicThreads |-> NoAttempt]
  /\ previous = 0
  /\ windows \in BOOLEAN

(* The operations on bits; a word is the sum of its bits. *)
Bit(w, i) == (w \div Power[i - 1]) % 2

BitOf(op, x, y) == CASE op = "and" -> x * y
                     [] op = "or" -> x + y - x * y
                     [] op = "xor" -> (x + y) % 2

Bitwise(op, old, value) ==
  SeqSum([i \in 1 .. WordBits |-> BitOf(op, Bit(old, i), Bit(value, i)) * Power[i - 1]])

(* What an operation makes of the word. *)
Result(op, old, value) ==
  CASE op = "exchange" -> value
    [] op = "add" -> Modulo(old + value)
    [] op = "sub" -> Modulo(old - value)
    [] op \in {"and", "or", "xor"} -> Bitwise(op, old, value)
    [] op = "min" -> IF Signed(value) < Signed(old) THEN value ELSE old

(* One instruction, which reports the old word. *)
Fetch(t, op, value) ==
  /\ attempt[t] = NoAttempt
  /\ word' = Result(op, word, value)
  /\ previous' = word
  /\ UNCHANGED <<attempt, windows>>

retryix_atomic_exchange(t, value) == Fetch(t, "exchange", value)
retryix_atomic_fetch_add(t, value) == Fetch(t, "add", value)
retryix_atomic_fetch_bits(t, value) ==
  \E op \in {"and", "or", "xor"} : Fetch(t, op, value)

(* A failed exchange leaves the current word in the caller's expected value. *)
retryix_atomic_compare_exchange(t, expected, desired) ==
  /\ attempt[t] = NoAttempt
  /\ word' = IF word = expected THEN desired ELSE word
  /\ previous' = word
  /\ UNCHANGED <<attempt, windows>>

(* The loops: read, then exchange if the word is still what was read. *)
Enter(t, op, value) ==
  /\ attempt[t] = NoAttempt
  /\ attempt' = [attempt EXCEPT ![t] = [at |-> "read", op |-> op, value |-> value, old |-> 0]]
  /\ UNCHANGED <<word, previous, windows>>

Read(t) ==
  /\ attempt[t].at = "read"
  /\ attempt' = [attempt EXCEPT ![t].at = "swap", ![t].old = word]
  /\ UNCHANGED <<word, previous, windows>>

(* Fault: the new value is stored without comparing. *)
Swap_Store(t) ==
  /\ attempt[t].at = "swap"
  /\ word' = Result(attempt[t].op, attempt[t].old, attempt[t].value)
  /\ previous' = attempt[t].old
  /\ attempt' = [attempt EXCEPT ![t] = NoAttempt]
  /\ UNCHANGED windows

Swap(t) ==
  /\ attempt[t].at = "swap"
  /\ IF word = attempt[t].old
       THEN /\ word' = Result(attempt[t].op, word, attempt[t].value)
            /\ previous' = attempt[t].old
            /\ attempt' = [attempt EXCEPT ![t] = NoAttempt]
       ELSE /\ attempt' = [attempt EXCEPT ![t].at = "read"]
            /\ UNCHANGED <<word, previous>>
  /\ UNCHANGED windows

retryix_atomic_fetch_add_float(t, value) == Enter(t, "add", value)

(* On an SVM context that supports them; on another they change nothing. *)
retryix_svm_atomic_bits_int32(t, value) ==
  \E op \in {"and", "or", "xor", "exchange"} : Fetch(t, op, value)
retryix_svm_atomic_min_int32(t, value) == Enter(t, "min", value)

(* HOST_ATOMIC_ADD gives the new word on Windows, and the old one elsewhere. *)
HOST_ATOMIC_ADD(value) == IF windows THEN Modulo(word + value) ELSE word

retryix_svm_atomic_sub_int32(t, value) ==
  /\ attempt[t] = NoAttempt
  /\ word' = Result("sub", word, value)
  /\ previous' = HOST_ATOMIC_ADD(-value)
  /\ UNCHANGED <<attempt, windows>>

AtomicNext ==
  \E t \in AtomicThreads :
    \/ Read(t) \/ Swap(t)
    \/ \E value \in Words :
         \/ retryix_atomic_exchange(t, value) \/ retryix_atomic_fetch_add(t, value)
         \/ retryix_atomic_fetch_bits(t, value)
         \/ \E expected \in Words : retryix_atomic_compare_exchange(t, expected, value)
         \/ retryix_atomic_fetch_add_float(t, value)
         \/ retryix_svm_atomic_bits_int32(t, value) \/ retryix_svm_atomic_min_int32(t, value)
         \/ retryix_svm_atomic_sub_int32(t, value)

AtomicSpec == AtomicInit /\ [][AtomicNext]_atomicVars

AtomicTypeOK ==
  /\ word \in Words
  /\ attempt \in [AtomicThreads -> [at : {"idle", "read", "swap"}, op : {"none", "add", "min"},
                                    value : Words, old : Words]]
  /\ previous \in Words
  /\ windows \in BOOLEAN

(* A loop takes effect at once: when it ends, the word becomes what the      *)
(* operation makes of the word as it is at that moment, whoever wrote it     *)
(* since the loop read, and that word is what the call reports.              *)
LoopsAreAtomic ==
  [][\A t \in AtomicThreads :
       (attempt[t].at = "swap" /\ attempt'[t] = NoAttempt) =>
         /\ word' = Result(attempt[t].op, word, attempt[t].value)
         /\ previous' = word]_atomicVars
=============================================================================
