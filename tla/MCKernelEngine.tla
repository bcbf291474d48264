--------------------------- MODULE MCKernelEngine ---------------------------
(***************************************************************************)
(* A small instance of KernelEngine: kernels that run on the GPU and on    *)
(* the CPU, with one scalar argument and with two, one whose source also   *)
(* holds a kernel that the dispatch looks for first, and one it does not   *)
(* know.                                                                   *)
(***************************************************************************)
EXTENDS KernelEngine

MCPrograms ==
  {[name |-> "vector_add", mentions |-> {"vector_add"}],
   [name |-> "saxpy",      mentions |-> {}],
   [name |-> "vector_mul", mentions |-> {"vector_add", "vector_mul"}],
   [name |-> "fill",       mentions |-> {"fill"}]}
=============================================================================
