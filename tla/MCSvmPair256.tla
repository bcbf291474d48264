--------------------------- MODULE MCSvmPair256 ---------------------------
(***************************************************************************)
(* Small instances of SvmPair256.  Addresses are real ones: cells are 16   *)
(* bytes, lines 64, and a table of four locks maps line n to lock n % 4.   *)
(***************************************************************************)
EXTENDS SvmPair256

Bits == {0, 1}

(* Every call flips a pair that it expects to be all zeros or all ones; calls
   that share one cell only make the mixed pairs on which they fail. *)
Calls(ptrs) ==
  {[ptr_lo |-> p[1], ptr_hi |-> p[2],
    exp |-> [lo |-> b, hi |-> b], des |-> [lo |-> 1 - b, hi |-> 1 - b]] :
     p \in ptrs, b \in Bits}

(* Three cells in three lines, every pointer pair in ascending bucket order,
   and a caller that passes a null pointer. *)
OrderedPtrs == {64, 128, 192}
OrderedCalls == Calls({<<64, 128>>, <<128, 192>>, <<0, 64>>})

(* The layout of u256_pair_t, whose two halves share a line, and two cells
   in different lines that are passed in both orders. *)
NaturalPtrs == {64, 80, 128}
NaturalCalls == Calls({<<64, 80>>, <<64, 128>>, <<128, 64>>})
===========================================================================
