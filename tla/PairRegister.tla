---------------------------- MODULE PairRegister ----------------------------
(***************************************************************************)
(* What retryix_svm_atomic_compare_exchange_pair_256 promises its callers  *)
(* (include/retryix_svm.h): two 128-bit cells, named by two pointers, are  *)
(* compared with an expected pair and replaced by a desired pair in one    *)
(* indivisible step; when the comparison fails the expected pair is        *)
(* overwritten with the pair that was actually there.                      *)
(*                                                                         *)
(* A call is open from the moment it is made until it takes effect, and    *)
(* closed from then until it returns.                                      *)
(***************************************************************************)
CONSTANTS
  Threads,      \* callers
  Ptrs,         \* addresses of 128-bit cells
  Values,       \* contents of a 128-bit cell
  Requests,     \* the argument records callers may pass
  NullPtr,      \* the pointer the function rejects
  NoCall        \* the arguments of a thread that is not in a call

VARIABLES
  reg,          \* contents of every cell
  phase,        \* "idle", "open" or "closed", per thread
  call,         \* the arguments passed by value
  expected,     \* the in/out argument
  ret           \* the last return code of each thread

vars == <<reg, phase, call, expected, ret>>

Valid(r) == r.ptr_lo # NullPtr /\ r.ptr_hi # NullPtr

(* The pair of cells a call names. *)
Current(t) == [lo |-> reg[call[t].ptr_lo], hi |-> reg[call[t].ptr_hi]]

Init ==
  /\ reg \in [Ptrs -> Values]
  /\ phase = [t \in Threads |-> "idle"]
  /\ call = [t \in Threads |-> NoCall]
  /\ expected = [t \in Threads |-> NoCall]
  /\ ret = [t \in Threads |-> "NONE"]

Reject(t) ==
  /\ phase[t] = "idle"
  /\ \E r \in Requests : ~Valid(r)
  /\ ret' = [ret EXCEPT ![t] = "INVALID_PARAM"]
  /\ UNCHANGED <<reg, phase, call, expected>>

Open(t) ==
  /\ phase[t] = "idle"
  /\ \E r \in Requests :
       /\ Valid(r)
       /\ call' = [call EXCEPT ![t] = r]
       /\ expected' = [expected EXCEPT ![t] = r.exp]
  /\ phase' = [phase EXCEPT ![t] = "open"]
  /\ ret' = [ret EXCEPT ![t] = "NONE"]
  /\ UNCHANGED reg

Succeed(t) ==
  /\ phase[t] = "open"
  /\ Current(t) = expected[t]
  /\ reg' = [reg EXCEPT ![call[t].ptr_lo] = call[t].des.lo,
                        ![call[t].ptr_hi] = call[t].des.hi]
  /\ phase' = [phase EXCEPT ![t] = "closed"]
  /\ UNCHANGED <<call, expected, ret>>

Fail(t) ==
  /\ phase[t] = "open"
  /\ Current(t) # expected[t]
  /\ expected' = [expected EXCEPT ![t] = Current(t)]
  /\ phase' = [phase EXCEPT ![t] = "closed"]
  /\ UNCHANGED <<reg, call, ret>>

(***************************************************************************)
(* The return code tells the two outcomes apart: a failed exchange hands   *)
(* back a pair that differs from the one the caller expected.              *)
(***************************************************************************)
Return(t) ==
  /\ phase[t] = "closed"
  /\ phase' = [phase EXCEPT ![t] = "idle"]
  /\ ret' = [ret EXCEPT ![t] = IF expected[t] = call[t].exp
                               THEN "SUCCESS" ELSE "INTERNAL"]
  /\ call' = [call EXCEPT ![t] = NoCall]
  /\ expected' = [expected EXCEPT ![t] = NoCall]
  /\ UNCHANGED reg

Next == \E t \in Threads :
          Reject(t) \/ Open(t) \/ Succeed(t) \/ Fail(t) \/ Return(t)

Spec == Init /\ [][Next]_vars
=============================================================================
