------------------------- MODULE KernelEngine_proofs -------------------------
(***************************************************************************)
(* Proofs about the kernel engine, for any set of kernels and programs and *)
(* any finite heap: the arguments of kernel objects, the objects of the    *)
(* Vulkan driver, and what an execution computes.  What is known of the    *)
(* arguments and of the driver is inductive on its own; what is known of   *)
(* the execution in progress needs both.                                   *)
(***************************************************************************)
EXTENDS KernelEngine, NumberLaws, FunctionTheorems

Types ==
  /\ kernels \in [Handles -> KernelObjects \cup {None}]
  /\ heap \in [Blocks -> [owner : {"nobody", "engine", "caller"}, value : Sizes \cup {0}]]

(* Argument i of kernel h is set to a copy of a scalar, in block b. *)
Holds(h, i, b) ==
  /\ h \in Created /\ i \in Args /\ b \in Blocks
  /\ kernels[h].args[i] = b /\ ~kernels[h].is_svm[i]

(* Arguments are set from the first on, each as its kernel has it. *)
Filled ==
  \A h \in Created, i \in Args :
    /\ kernels[h].args[i] # None <=> i < kernels[h].arg_count
    /\ kernels[h].is_svm[i] => kernels[h].args[i] # None
    /\ kernels[h].args[i] # None =>
         (kernels[h].is_svm[i] <=> i \in SvmArgs(kernels[h].program.name))

CallersBlocks ==
  \A h \in Created, i \in Args :
    kernels[h].is_svm[i] => heap[kernels[h].args[i]].owner = "caller"

(* The engine's blocks and the scalar arguments are paired off. *)
EnginesBlocks ==
  /\ \A h, i, b : Holds(h, i, b) => heap[b].owner = "engine"
  /\ \A h, i, g, j, b : Holds(h, i, b) /\ Holds(g, j, b) => h = g /\ i = j
  /\ \A b \in Owned("engine") : \E h, i : Holds(h, i, b)

IInv == Types /\ Filled /\ CallersBlocks /\ EnginesBlocks
-----------------------------------------------------------------------------
LEMMA KernelIs ==
  ASSUME Types, NEW h \in Created
  PROVE  /\ h \in Handles
         /\ kernels[h] \in KernelObjects
         /\ kernels[h].program \in Programs
         /\ kernels[h].args \in [Args -> Blocks \cup {None}]
         /\ kernels[h].is_svm \in [Args -> BOOLEAN]
         /\ kernels[h].arg_count \in 0 .. 4
<1>1. h \in Handles /\ kernels[h] \in KernelObjects
  BY DEF Types, Created
<1> QED
  BY <1>1 DEF KernelObjects

(* What an object becomes when argument i is set to b. *)
LEMMA WithArgIs ==
  ASSUME NEW k \in KernelObjects, NEW i \in Args, i <= k.arg_count,
         NEW b \in Blocks, NEW svm \in BOOLEAN
  PROVE  /\ WithArg(k, i, b, svm) \in KernelObjects
         /\ WithArg(k, i, b, svm).program = k.program
         /\ WithArg(k, i, b, svm).args[i] = b
         /\ WithArg(k, i, b, svm).is_svm[i] = svm
         /\ i < WithArg(k, i, b, svm).arg_count
         /\ \A j \in Args \ {i} :
              /\ WithArg(k, i, b, svm).args[j] = k.args[j]
              /\ WithArg(k, i, b, svm).is_svm[j] = k.is_svm[j]
              /\ j < WithArg(k, i, b, svm).arg_count <=> j < k.arg_count
<1> DEFINE args    == [k.args EXCEPT ![i] = b]
           is_svm  == [k.is_svm EXCEPT ![i] = svm]
           count   == IF i >= k.arg_count THEN i + 1 ELSE k.arg_count
           new     == [program |-> k.program, args |-> args, is_svm |-> is_svm,
                       arg_count |-> count]
<1>1. /\ k.program \in Programs /\ k.args \in [Args -> Blocks \cup {None}]
      /\ k.is_svm \in [Args -> BOOLEAN] /\ k.arg_count \in 0 .. 4
      /\ k = [program |-> k.program, args |-> k.args, is_svm |-> k.is_svm,
              arg_count |-> k.arg_count]
  BY DEF KernelObjects
<1>2. WithArg(k, i, b, svm) = new
  BY <1>1 DEF WithArg
<1>3. /\ args \in [Args -> Blocks \cup {None}] /\ args[i] = b
      /\ \A j \in Args \ {i} : args[j] = k.args[j]
  BY <1>1
<1>4. /\ is_svm \in [Args -> BOOLEAN] /\ is_svm[i] = svm
      /\ \A j \in Args \ {i} : is_svm[j] = k.is_svm[j]
  BY <1>1
<1>5. /\ count \in 0 .. 4 /\ i < count
      /\ \A j \in Args \ {i} : j < count <=> j < k.arg_count
  BY <1>1 DEF Args
<1> HIDE DEF args, is_svm, count
<1>6. /\ new \in KernelObjects /\ new.program = k.program
      /\ new.args = args /\ new.is_svm = is_svm /\ new.arg_count = count
  BY <1>1, <1>3, <1>4, <1>5 DEF KernelObjects
<1> QED
  BY <1>2, <1>3, <1>4, <1>5, <1>6
-----------------------------------------------------------------------------
LEMMA InitIInv == Init => IInv
<1> SUFFICES ASSUME Init PROVE IInv
  OBVIOUS
<1>1. Created = {}
  BY DEF Init, Created
<1>2. Types
  BY DEF Init, Types, Free
<1>3. Owned("engine") = {}
  BY DEF Init, Owned, Free
<1> QED
  BY <1>1, <1>2, <1>3 DEF IInv, Filled, CallersBlocks, EnginesBlocks, Holds

LEMMA CreateKeeps ==
  ASSUME IInv, NEW h \in Handles, retryix_kernel_create_from_source(h)
  PROVE  IInv'
<1> DEFINE empty(p) == [program |-> p, args |-> [i \in Args |-> None],
                        is_svm |-> [i \in Args |-> FALSE], arg_count |-> 0]
<1>1. PICK p \in Programs : kernels' = [kernels EXCEPT ![h] = empty(p)]
  BY DEF retryix_kernel_create_from_source
<1>2. UNCHANGED heap /\ kernels[h] = None
  BY DEF retryix_kernel_create_from_source
<1>3. /\ empty(p) \in KernelObjects
      /\ \A i \in Args : /\ empty(p).args[i] = None /\ ~empty(p).is_svm[i]
                         /\ ~(i < empty(p).arg_count)
  BY DEF KernelObjects, Args
<1> HIDE DEF empty
<1>4. /\ kernels' \in [Handles -> KernelObjects \cup {None}]
      /\ kernels'[h] = empty(p)
      /\ \A g \in Handles \ {h} : kernels'[g] = kernels[g]
  BY <1>1, <1>3 DEF IInv, Types
<1>5. /\ Created' = Created \cup {h} /\ h \notin Created
  BY <1>2, <1>3, <1>4, NoneAssumption DEF Created
<1>6. Types'
  BY <1>2, <1>4 DEF IInv, Types
<1>7. \A g, i, b : Holds(g, i, b)' <=> Holds(g, i, b)
  BY <1>3, <1>4, <1>5, NoneAssumption DEF Holds, Created
<1>8. Filled'
  BY <1>3, <1>4, <1>5 DEF IInv, Filled, Created
<1>9. CallersBlocks'
  BY <1>2, <1>3, <1>4, <1>5 DEF IInv, CallersBlocks, Created
<1>10. EnginesBlocks'
  BY <1>2, <1>7 DEF IInv, EnginesBlocks, Owned
<1> QED
  BY <1>6, <1>8, <1>9, <1>10 DEF IInv

(* Blocks of the caller that no argument refers to come and go. *)
LEMMA HeapKeeps ==
  ASSUME IInv, UNCHANGED kernels, NEW b \in Blocks,
         NEW new \in [owner : {"nobody", "caller"}, value : Sizes \cup {0}],
         heap' = [heap EXCEPT ![b] = new], heap[b].owner # "engine",
         \A h \in Created, i \in Args : kernels[h].args[i] # b
  PROVE  IInv'
<1>1. /\ heap' \in [Blocks -> [owner : {"nobody", "engine", "caller"},
                               value : Sizes \cup {0}]]
      /\ heap'[b] = new /\ new.owner # "engine"
      /\ \A c \in Blocks \ {b} : heap'[c] = heap[c]
  <2>1. new \in [owner : {"nobody", "engine", "caller"}, value : Sizes \cup {0}]
    OBVIOUS
  <2> QED
    BY <2>1 DEF IInv, Types
<1>2. Types' /\ Filled'
  BY <1>1 DEF IInv, Types, Filled, Created
<1>3. Owned("engine")' = Owned("engine")
  BY <1>1 DEF Owned
<1>4. \A h, i, c : Holds(h, i, c)' <=> Holds(h, i, c)
  BY DEF Holds, Created
<1>5. \A h, i, c : Holds(h, i, c) => c # b
  BY DEF Holds
<1>6. EnginesBlocks'
  <2>1. \A h, i, c : Holds(h, i, c) => heap'[c].owner = "engine"
    BY <1>1, <1>5 DEF IInv, EnginesBlocks, Holds
  <2> QED
    BY <1>3, <1>4, <2>1 DEF IInv, EnginesBlocks
<1>7. CallersBlocks'
  <2> SUFFICES ASSUME NEW h \in Created, NEW i \in Args, kernels[h].is_svm[i]
               PROVE  heap'[kernels[h].args[i]].owner = "caller"
    BY DEF CallersBlocks, Created
  <2>1. kernels[h].args[i] \in Blocks \ {b}
    BY KernelIs DEF IInv, Filled
  <2> QED
    BY <1>1, <2>1 DEF IInv, CallersBlocks
<1> QED
  BY <1>2, <1>6, <1>7 DEF IInv

LEMMA AllocKeeps ==
  ASSUME IInv, retryix_mem_alloc
  PROVE  IInv'
<1> DEFINE new == [owner |-> "caller", value |-> 0]
<1>1. PICK b \in Owned("nobody") : heap' = [heap EXCEPT ![b] = new]
  BY DEF retryix_mem_alloc
<1>2. UNCHANGED kernels /\ b \in Blocks /\ heap[b].owner = "nobody"
  BY DEF retryix_mem_alloc, Owned
<1>3. new \in [owner : {"nobody", "caller"}, value : Sizes \cup {0}]
  OBVIOUS
<1>4. ASSUME NEW h \in Created, NEW i \in Args PROVE kernels[h].args[i] # b
  <2>1. kernels[h].is_svm[i] => heap[kernels[h].args[i]].owner = "caller"
    BY DEF IInv, CallersBlocks
  <2>2. ~kernels[h].is_svm[i] /\ kernels[h].args[i] = b => heap[b].owner = "engine"
    <3>1. ~kernels[h].is_svm[i] /\ kernels[h].args[i] = b => Holds(h, i, b)
      BY <1>2 DEF Holds
    <3> QED
      BY <3>1 DEF IInv, EnginesBlocks
  <2> QED
    BY <1>2, <2>1, <2>2
<1> HIDE DEF new
<1> QED
  BY <1>1, <1>2, <1>3, <1>4, HeapKeeps

LEMMA FreeKeeps ==
  ASSUME IInv, NEW b \in Blocks, retryix_mem_free(b)
  PROVE  IInv'
<1>1. /\ UNCHANGED kernels /\ heap' = [heap EXCEPT ![b] = Free]
      /\ heap[b].owner = "caller"
      /\ \A h \in Created, i \in Args : kernels[h].args[i] # b
  BY DEF retryix_mem_free, Owned
<1>2. Free \in [owner : {"nobody", "caller"}, value : Sizes \cup {0}]
  BY DEF Free
<1>3. heap[b].owner # "engine"
  BY <1>1
<1> QED
  BY <1>1, <1>2, <1>3, HeapKeeps
-----------------------------------------------------------------------------
(* The kernels when argument i of h is set to b. *)
LEMMA ArgIsSet ==
  ASSUME IInv, NEW h \in Handles, NEW i \in Args, MaySet(h, i), NEW b \in Blocks,
         NEW svm \in BOOLEAN, svm <=> i \in SvmArgs(kernels[h].program.name),
         kernels' = [kernels EXCEPT ![h] = WithArg(@, i, b, svm)]
  PROVE  /\ h \in Created /\ Created' = Created
         /\ kernels' \in [Handles -> KernelObjects \cup {None}]
         /\ kernels'[h].args[i] = b /\ kernels'[h].is_svm[i] = svm
         /\ \A g \in Created, j \in Args :
              <<g, j>> # <<h, i>> => /\ kernels'[g].args[j] = kernels[g].args[j]
                                     /\ kernels'[g].is_svm[j] = kernels[g].is_svm[j]
         /\ Filled'
<1> DEFINE k == kernels[h]
           new == WithArg(k, i, b, svm)
<1>1. h \in Created /\ k \in KernelObjects /\ i <= k.arg_count
  BY DEF MaySet, Created, IInv, Types
<1>2. /\ new \in KernelObjects /\ new.program = k.program
      /\ new.args[i] = b /\ new.is_svm[i] = svm /\ i < new.arg_count
      /\ \A j \in Args \ {i} : /\ new.args[j] = k.args[j]
                               /\ new.is_svm[j] = k.is_svm[j]
                               /\ j < new.arg_count <=> j < k.arg_count
  BY <1>1, WithArgIs
<1>3. kernels' = [kernels EXCEPT ![h] = new]
  OBVIOUS
<1> HIDE DEF new
<1>4. /\ kernels' \in [Handles -> KernelObjects \cup {None}]
      /\ kernels'[h] = new
      /\ \A g \in Handles \ {h} : kernels'[g] = kernels[g]
  BY <1>2, <1>3 DEF IInv, Types
<1>5. Created' = Created
  BY <1>1, <1>2, <1>4, NoneAssumption DEF Created
<1>6. ASSUME NEW g \in Created, NEW j \in Args, <<g, j>> # <<h, i>>
      PROVE  /\ kernels'[g].args[j] = kernels[g].args[j]
             /\ kernels'[g].is_svm[j] = kernels[g].is_svm[j]
             /\ kernels'[g].program = kernels[g].program
             /\ j < kernels'[g].arg_count <=> j < kernels[g].arg_count
  BY <1>2, <1>4, <1>6 DEF Created
<1>7. Filled'
  <2> SUFFICES ASSUME NEW g \in Created, NEW j \in Args
               PROVE  /\ kernels'[g].args[j] # None <=> j < kernels'[g].arg_count
                      /\ kernels'[g].is_svm[j] => kernels'[g].args[j] # None
                      /\ kernels'[g].args[j] # None =>
                           (kernels'[g].is_svm[j]
                              <=> j \in SvmArgs(kernels'[g].program.name))
    BY <1>5 DEF Filled
  <2>1. CASE <<g, j>> = <<h, i>>
    BY <1>2, <1>4, <2>1, NoneAssumption
  <2>2. CASE <<g, j>> # <<h, i>>
    BY <1>6, <2>2 DEF IInv, Filled
  <2> QED
    BY <2>1, <2>2
<1> QED
  BY <1>1, <1>2, <1>4, <1>5, <1>6, <1>7

LEMMA SetSvmKeeps ==
  ASSUME IInv, NEW h \in Handles, NEW i \in Args, retryix_kernel_set_svm_arg(h, i)
  PROVE  IInv'
<1>1. PICK b \in Owned("caller") : kernels' = [kernels EXCEPT ![h] = WithArg(@, i, b, TRUE)]
  BY DEF retryix_kernel_set_svm_arg
<1>2. /\ UNCHANGED heap /\ MaySet(h, i) /\ i \in SvmArgs(kernels[h].program.name)
      /\ b \in Blocks /\ heap[b].owner = "caller"
  BY DEF retryix_kernel_set_svm_arg, Owned
<1>3. /\ h \in Created /\ Created' = Created
      /\ kernels' \in [Handles -> KernelObjects \cup {None}]
      /\ kernels'[h].args[i] = b /\ kernels'[h].is_svm[i] = TRUE
      /\ \A g \in Created, j \in Args :
           <<g, j>> # <<h, i>> => /\ kernels'[g].args[j] = kernels[g].args[j]
                                  /\ kernels'[g].is_svm[j] = kernels[g].is_svm[j]
      /\ Filled'
  BY <1>1, <1>2, ArgIsSet
<1>4. ~Holds(h, i, kernels[h].args[i])
  BY <1>2, <1>3, NoneAssumption DEF IInv, Filled, Holds
<1>5. \A g, j, c : Holds(g, j, c)' <=> Holds(g, j, c)
  BY <1>3, <1>4 DEF Holds
<1>6. Types'
  BY <1>2, <1>3 DEF IInv, Types
<1>7. EnginesBlocks'
  BY <1>2, <1>5 DEF IInv, EnginesBlocks, Owned
<1>8. CallersBlocks'
  BY <1>2, <1>3 DEF IInv, CallersBlocks
<1> QED
  BY <1>3, <1>6, <1>7, <1>8 DEF IInv

LEMMA SetScalarKeeps ==
  ASSUME IInv, NEW h \in Handles, NEW i \in Args, NEW v \in Sizes,
         retryix_kernel_set_scalar_arg(h, i, v)
  PROVE  IInv'
<1> DEFINE old == kernels[h].args[i]
           copy == [owner |-> "engine", value |-> v]
<1>1. PICK b \in Owned("nobody") \cup ({old} \ {None}) :
        /\ heap' = [c \in Blocks |-> IF c = b THEN copy
                                     ELSE IF c = old THEN Free ELSE heap[c]]
        /\ kernels' = [kernels EXCEPT ![h] = WithArg(@, i, b, FALSE)]
  BY DEF retryix_kernel_set_scalar_arg
<1>2. MaySet(h, i) /\ i \notin SvmArgs(kernels[h].program.name) /\ h \in Created
  BY DEF retryix_kernel_set_scalar_arg, MaySet, Created
<1>3. /\ old \in Blocks \cup {None}
      /\ old # None => Holds(h, i, old) /\ heap[old].owner = "engine"
  <2>1. old \in Blocks \cup {None}
    BY <1>2, KernelIs DEF IInv
  <2>2. old # None => Holds(h, i, old)
    BY <1>2, <2>1 DEF IInv, Filled, Holds
  <2> QED
    BY <2>1, <2>2 DEF IInv, EnginesBlocks
<1>4. /\ b \in Blocks
      /\ b = old \/ heap[b].owner = "nobody"
  BY <1>1, <1>3 DEF Owned
<1>5. /\ h \in Created /\ Created' = Created
      /\ kernels' \in [Handles -> KernelObjects \cup {None}]
      /\ kernels'[h].args[i] = b /\ kernels'[h].is_svm[i] = FALSE
      /\ \A g \in Created, j \in Args :
           <<g, j>> # <<h, i>> => /\ kernels'[g].args[j] = kernels[g].args[j]
                                  /\ kernels'[g].is_svm[j] = kernels[g].is_svm[j]
      /\ Filled'
  BY <1>1, <1>2, <1>4, ArgIsSet
<1>6. /\ copy \in [owner : {"nobody", "engine", "caller"}, value : Sizes \cup {0}]
      /\ Free \in [owner : {"nobody", "engine", "caller"}, value : Sizes \cup {0}]
      /\ copy.owner = "engine" /\ Free.owner = "nobody"
  BY DEF Free
<1> HIDE DEF copy
<1>7. /\ heap' \in [Blocks -> [owner : {"nobody", "engine", "caller"},
                               value : Sizes \cup {0}]]
      /\ heap'[b].owner = "engine"
      /\ \A c \in Blocks \ {b, old} : heap'[c] = heap[c]
      /\ old # b /\ old \in Blocks => heap'[old].owner = "nobody"
  BY <1>1, <1>4, <1>6 DEF IInv, Types
<1> HIDE DEF old
<1>8. Types'
  BY <1>5, <1>7 DEF IInv, Types
<1>9. Holds(h, i, b)'
  BY <1>4, <1>5 DEF Holds
<1>10. ASSUME NEW g, NEW j, NEW c, <<g, j>> # <<h, i>>
       PROVE  Holds(g, j, c)' <=> Holds(g, j, c)
  BY <1>5, <1>10 DEF Holds
<1>11. ASSUME NEW g, NEW j, NEW c, Holds(g, j, c), <<g, j>> # <<h, i>>
       PROVE  c \in Blocks \ {b, old}
  <2>1. c \in Blocks /\ heap[c].owner = "engine"
    BY <1>11 DEF IInv, EnginesBlocks, Holds
  <2>2. c # old
    <3> SUFFICES ASSUME c = old PROVE FALSE
      OBVIOUS
    <3>1. Holds(h, i, c)
      BY <1>3, <2>1, NoneAssumption
    <3> QED
      BY <1>11, <3>1 DEF IInv, EnginesBlocks
  <2> QED
    BY <1>4, <2>1, <2>2
<1>12. EnginesBlocks'
  <2>1. ASSUME NEW g, NEW j, NEW c, Holds(g, j, c)'
        PROVE  heap'[c].owner = "engine"
    <3>1. CASE <<g, j>> = <<h, i>>
      BY <1>5, <1>7, <2>1, <3>1 DEF Holds
    <3>2. CASE <<g, j>> # <<h, i>>
      <4>1. Holds(g, j, c)
        BY <1>10, <2>1, <3>2
      <4>2. heap[c].owner = "engine"
        BY <4>1 DEF IInv, EnginesBlocks
      <4>3. heap'[c] = heap[c]
        BY <1>7, <1>11, <3>2, <4>1
      <4> QED
        BY <4>2, <4>3
    <3> QED
      BY <3>1, <3>2
  <2>2. ASSUME NEW g, NEW j, NEW g2, NEW j2, NEW c, Holds(g, j, c)', Holds(g2, j2, c)'
        PROVE  g = g2 /\ j = j2
    <3>1. ASSUME NEW f, NEW m, Holds(f, m, c)', <<f, m>> # <<h, i>> PROVE c # b
      BY <1>10, <1>11, <3>1
    <3>2. Holds(h, i, c)' => c = b
      BY <1>5 DEF Holds
    <3>3. CASE <<g, j>> = <<h, i>> \/ <<g2, j2>> = <<h, i>>
      BY <2>2, <3>1, <3>2, <3>3
    <3>4. CASE <<g, j>> # <<h, i>> /\ <<g2, j2>> # <<h, i>>
      <4>1. Holds(g, j, c) /\ Holds(g2, j2, c)
        BY <1>10, <2>2, <3>4
      <4> QED
        BY <4>1 DEF IInv, EnginesBlocks
    <3> QED
      BY <3>3, <3>4
  <2>3. ASSUME NEW c \in Blocks, heap'[c].owner = "engine"
        PROVE  \E g, j : Holds(g, j, c)'
    <3>1. CASE c = b
      BY <1>9, <3>1
    <3>2. CASE c # b
      <4>1. c # old /\ heap[c].owner = "engine"
        BY <1>7, <2>3, <3>2
      <4>2. PICK g, j : Holds(g, j, c)
        BY <4>1 DEF IInv, EnginesBlocks, Owned
      <4>3. <<g, j>> # <<h, i>>
        BY <4>1, <4>2 DEF Holds, old
      <4> QED
        BY <1>10, <4>2, <4>3
    <3> QED
      BY <3>1, <3>2
  <2> QED
    BY <2>1, <2>2, <2>3 DEF EnginesBlocks, Owned
<1>13. CallersBlocks'
  <2> SUFFICES ASSUME NEW g \in Created, NEW j \in Args, kernels'[g].is_svm[j]
               PROVE  heap'[kernels'[g].args[j]].owner = "caller"
    BY <1>5 DEF CallersBlocks
  <2>1. <<g, j>> # <<h, i>>
    BY <1>5
  <2>2. kernels'[g].args[j] = kernels[g].args[j] /\ kernels[g].is_svm[j]
    BY <1>5, <2>1
  <2>3. heap[kernels[g].args[j]].owner = "caller"
    BY <2>2 DEF IInv, CallersBlocks
  <2>4. kernels[g].args[j] \in Blocks
    BY <2>2, KernelIs DEF IInv, Filled
  <2>5. kernels[g].args[j] \notin {b, old}
    BY <1>3, <1>4, <2>3, <2>4, NoneAssumption
  <2> QED
    BY <1>7, <2>2, <2>3, <2>4, <2>5
<1> QED
  BY <1>5, <1>8, <1>12, <1>13 DEF IInv
-----------------------------------------------------------------------------
LEMMA IInvKept == IInv /\ UNCHANGED <<kernels, heap>> => IInv'
  BY DEF IInv, Types, Filled, CallersBlocks, EnginesBlocks, Holds, Created, Owned

(* One step of the engine keeps what is known of the arguments. *)
LEMMA NextIInv ==
  ASSUME IInv, [Next]_vars
  PROVE  IInv'
<1>1. ASSUME NEW h \in Handles, retryix_kernel_create_from_source(h) PROVE IInv'
  BY <1>1, CreateKeeps
<1>2. ASSUME NEW h \in Handles, NEW i \in Args, retryix_kernel_set_svm_arg(h, i)
      PROVE  IInv'
  BY <1>2, SetSvmKeeps
<1>3. ASSUME NEW h \in Handles, NEW i \in Args, NEW v \in Sizes,
             retryix_kernel_set_scalar_arg(h, i, v)
      PROVE  IInv'
  BY <1>3, SetScalarKeeps
<1>4. ASSUME NEW h \in Handles, NEW gws \in Sizes \cup {0},
             ExecuteOnCpu(h, gws) \/ ExecuteVectorAdd(h, gws)
      PROVE  UNCHANGED <<kernels, heap>>
  BY <1>4 DEF ExecuteOnCpu, ExecuteVectorAdd
<1>5. CASE retryix_mem_alloc
  BY <1>5, AllocKeeps
<1>6. ASSUME NEW b \in Blocks, retryix_mem_free(b) PROVE IInv'
  BY <1>6, FreeKeeps
<1>7. CASE UNCHANGED kernelVars
  BY <1>7, IInvKept DEF kernelVars
<1>8. CASE FinishVectorAdd
  BY <1>8, IInvKept DEF FinishVectorAdd
<1>9. CASE UNCHANGED vars
  BY <1>7, <1>9 DEF vars
<1> QED
  BY <1>1, <1>2, <1>3, <1>4, <1>5, <1>6, <1>7, <1>8, <1>9, IInvKept DEF Next, EngineStep

(* What is known of the arguments holds in every reachable state. *)
THEOREM Inductive == Spec => []IInv
<1>1. Init => IInv
  BY InitIInv
<1>2. IInv /\ [Next]_vars => IInv'
  BY NextIInv
<1> QED
  BY <1>1, <1>2, PTL DEF Spec

LEMMA PairedOff == IInv => ArgumentsAreOwned
<1> SUFFICES ASSUME IInv PROVE ArgumentsAreOwned
  OBVIOUS
<1>1. ASSUME NEW h \in Created, NEW i \in Args
      PROVE  LET b == kernels[h].args[i]
             IN  /\ b # None <=> i < kernels[h].arg_count
                 /\ b # None => heap[b].owner = IF kernels[h].is_svm[i] THEN "caller"
                                                                       ELSE "engine"
  <2>1. kernels[h].args[i] \in Blocks \cup {None}
    BY KernelIs DEF IInv
  <2>2. CASE kernels[h].is_svm[i]
    BY <2>2 DEF IInv, Filled, CallersBlocks
  <2>3. CASE ~kernels[h].is_svm[i]
    <3>1. kernels[h].args[i] # None => Holds(h, i, kernels[h].args[i])
      BY <2>1, <2>3 DEF Holds
    <3> QED
      BY <2>3, <3>1 DEF IInv, Filled, EnginesBlocks
  <2> QED
    BY <2>2, <2>3
<1>2. Cardinality(Owned("engine")) = Cardinality(ScalarArgs)
  <2> DEFINE E == Owned("engine")
             g == [ha \in ScalarArgs |-> kernels[ha[1]].args[ha[2]]]
  <2>1. IsFiniteSet(E)
    <3>1. E \subseteq Blocks
      BY DEF Owned
    <3> QED
      BY <3>1, BlocksAssumption, FS_Subset
  <2>3. ASSUME NEW ha \in ScalarArgs, NEW b, b = kernels[ha[1]].args[ha[2]]
        PROVE  b \in E /\ Holds(ha[1], ha[2], b)
    <3>1. ha[1] \in Created /\ ha[2] \in Args /\ b # None /\ ~kernels[ha[1]].is_svm[ha[2]]
      BY <2>3 DEF ScalarArgs
    <3>2. b \in Blocks
      BY <2>3, <3>1, KernelIs DEF IInv
    <3>3. Holds(ha[1], ha[2], b)
      BY <2>3, <3>1, <3>2 DEF Holds
    <3> QED
      BY <3>2, <3>3 DEF IInv, EnginesBlocks, Owned
  <2>4. g \in [ScalarArgs -> E]
    BY <2>3
  <2>5. \A a, c \in ScalarArgs : g[a] = g[c] => a = c
    <3> SUFFICES ASSUME NEW a \in ScalarArgs, NEW c \in ScalarArgs, g[a] = g[c]
                 PROVE  a = c
      OBVIOUS
    <3>1. Holds(a[1], a[2], g[a]) /\ Holds(c[1], c[2], g[a])
      BY <2>3
    <3>2. a[1] = c[1] /\ a[2] = c[2]
      BY <3>1 DEF IInv, EnginesBlocks
    <3>3. a = <<a[1], a[2]>> /\ c = <<c[1], c[2]>>
      BY DEF ScalarArgs
    <3> QED
      BY <3>2, <3>3
  <2>6. \A b \in E : \E ha \in ScalarArgs : g[ha] = b
    <3> SUFFICES ASSUME NEW b \in E PROVE \E ha \in ScalarArgs : g[ha] = b
      OBVIOUS
    <3>1. PICK h, i : Holds(h, i, b)
      BY DEF IInv, EnginesBlocks
    <3>2. <<h, i>> \in ScalarArgs /\ kernels[h].args[i] = b
      BY <3>1, NoneAssumption DEF ScalarArgs, Holds
    <3> QED
      BY <3>2
  <2> HIDE DEF g
  <2>7. g \in Bijection(ScalarArgs, E)
    BY <2>4, <2>5, <2>6, Fun_IsBij
  <2>8. ExistsBijection(E, ScalarArgs)
    <3>1. ExistsBijection(ScalarArgs, E)
      BY <2>7 DEF ExistsBijection
    <3> QED
      BY <3>1, Fun_ExistsBijSymmetric
  <2> QED
    BY <2>1, <2>8, FS_Bijection
<1> QED
  BY <1>1, <1>2 DEF ArgumentsAreOwned

(* retryix_kernel_module.c: whatever calls are made on any number of kernels,
   every argument that is set refers to a live block of the owner its kind
   says, and the engine's copies are as many as the scalar arguments: none is
   leaked, none is freed twice. *)
THEOREM ArgumentsHaveOwners == Spec => []ArgumentsAreOwned
  BY Inductive, PairedOff, PTL
-----------------------------------------------------------------------------
(***************************************************************************)
(* The Vulkan engine.  What is known of its context, of its pipeline and   *)
(* of the call in progress.                                                *)
(***************************************************************************)
PCs == {"idle", "init", "pipeline", "set", "buffers", "commands", "return"}

IsGpu(r) == r = [pc |-> r.pc, ok |-> r.ok, set |-> r.set, served |-> r.served]

VkTypes ==
  /\ attempts \in Nat
  /\ machine \in [gpu : {"none", "no_queue", "compute"}, host_visible : BOOLEAN]
  /\ g_vk_ctx \in [initialized : BOOLEAN, device : Nat, pipeline_ready : BOOLEAN,
                   cached : Nat]
  /\ g_vk_ctx.device <= attempts /\ g_vk_ctx.cached <= attempts
  /\ stale \in BOOLEAN /\ restarted \in BOOLEAN
  /\ mislisted \in BOOLEAN /\ physical_device \in BOOLEAN
  /\ \A o \in live : o.of \in 1 .. attempts
  /\ IsGpu(gpu) /\ gpu.pc \in PCs /\ gpu.ok \in BOOLEAN /\ gpu.served \in BOOLEAN

BaseKinds == {"instance", "device", "command_pool"}

(* An engine that is initialised has the device of the last attempt; no other
   device is left of any attempt. *)
ContextInv ==
  /\ g_vk_ctx.initialized => /\ g_vk_ctx.device = attempts /\ attempts >= 1
                             /\ \A k \in BaseKinds : Own(k) \in live
  /\ \A o \in live : o.kind \in BaseKinds => g_vk_ctx.initialized /\ o = Own(o.kind)

(* The cached pipeline is complete, also when its device is gone, and belongs
   to the engine's device until the engine is initialised again. *)
PipelineInv ==
  /\ g_vk_ctx.pipeline_ready => /\ g_vk_ctx.cached >= 1
                                /\ \A k \in PipelineKinds : Cached(k) \in live
  /\ ~g_vk_ctx.pipeline_ready => \A o \in live : o.kind \notin PipelineKinds
  /\ g_vk_ctx.pipeline_ready /\ g_vk_ctx.initialized /\ ~restarted
       => g_vk_ctx.cached = g_vk_ctx.device

TheSet == [kind |-> "set", of |-> g_vk_ctx.cached, no |-> gpu.set]

TheBuffers == Parts("buffer", 1 .. 3) \cup Parts("memory", 1 .. 3)

CallInv ==
  /\ gpu.pc \in {"pipeline", "set", "buffers", "commands"} => g_vk_ctx.initialized
  /\ gpu.pc \in {"set", "buffers", "commands"} => g_vk_ctx.pipeline_ready
  /\ gpu.pc \in {"buffers", "commands"} => TheSet \in live
  /\ \A o \in live : o.kind \in {"buffer", "memory"} => gpu.pc = "commands" /\ o \in TheBuffers

(* What the driver is passed is alive but for the two known ways; a field that
   is set has a GPU of the machine in it, unless the listing failed. *)
StaleInv ==
  /\ stale => restarted \/ mislisted
  /\ physical_device => machine.gpu # "none" \/ mislisted

VkInv == VkTypes /\ ContextInv /\ PipelineInv /\ CallInv /\ StaleInv
-----------------------------------------------------------------------------
LEMMA KindsDiffer ==
  /\ BaseKinds \subseteq ContextKinds /\ ContextKinds = BaseKinds \cup {"library"}
  /\ "library" \notin BaseKinds
  /\ ContextKinds \cap PipelineKinds = {}
  /\ {"buffer", "memory", "set", "command"} \cap (ContextKinds \cup PipelineKinds) = {}
  BY DEF BaseKinds, ContextKinds, PipelineKinds

Steps(order) == {order[i] : i \in DOMAIN order} \cup {"none"}

(* What an attempt at initialisation leaves. *)
Left(failed) == (DoneBefore(InitOrder, failed) \cap ContextKinds) \ InitUndoes(failed)

LEMMA InitLeaves ==
  ASSUME NEW failed \in Steps(InitOrder)
  PROVE  /\ failed # "none" => Left(failed) \subseteq {"library"}
         /\ failed = "none" => Left(failed) = ContextKinds
<1>1. /\ DOMAIN InitOrder = 1 .. 7
      /\ InitOrder[1] = "library" /\ InitOrder[2] = "functions" /\ InitOrder[3] = "instance"
      /\ InitOrder[4] = "devices" /\ InitOrder[5] = "gpu" /\ InitOrder[6] = "device"
      /\ InitOrder[7] = "command_pool"
  BY DEF InitOrder
<1>2. failed \in {"library", "functions", "instance", "devices", "gpu", "device",
                  "command_pool", "none"}
  <2>1. \A i \in 1 .. 7 : i = 1 \/ i = 2 \/ i = 3 \/ i = 4 \/ i = 5 \/ i = 6 \/ i = 7
    OBVIOUS
  <2> QED
    BY <1>1, <2>1 DEF Steps
<1>3. DoneBefore(InitOrder, failed)
        = {InitOrder[i] : i \in {j \in 1 .. 7 : \A k \in 1 .. j : InitOrder[k] # failed}}
  BY <1>1 DEF DoneBefore
<1>4. CASE failed # "none"
  <2>1. ASSUME NEW x \in BaseKinds, x \in DoneBefore(InitOrder, failed)
        PROVE  x \in InitUndoes(failed)
    <3>1. PICK j \in 1 .. 7 : x = InitOrder[j] /\ \A k \in 1 .. j : InitOrder[k] # failed
      BY <1>3, <2>1
    <3>2. \/ j = 3 /\ x = "instance"
          \/ j = 6 /\ x = "device"
          \/ j = 7 /\ x = "command_pool"
      <4>1. j = 1 \/ j = 2 \/ j = 3 \/ j = 4 \/ j = 5 \/ j = 6 \/ j = 7
        OBVIOUS
      <4>2. x \in {"instance", "device", "command_pool"} /\ x = InitOrder[j]
        BY <2>1, <3>1 DEF BaseKinds
      <4>3. j \notin {1, 2, 4, 5}
        BY <1>1, <4>2
      <4>4. /\ j = 3 => x = "instance"
            /\ j = 6 => x = "device"
            /\ j = 7 => x = "command_pool"
        BY <1>1, <4>2
      <4> QED
        BY <4>1, <4>3, <4>4
    <3>3. \A k \in 1 .. 7 : k <= j => InitOrder[k] # failed
      BY <3>1
    <3>4. InitOrder[1] # failed /\ InitOrder[2] # failed /\ InitOrder[3] # failed
      BY <3>2, <3>3
    <3>5. j # 3 => /\ InitOrder[4] # failed /\ InitOrder[5] # failed
                   /\ InitOrder[6] # failed
      BY <3>2, <3>3
    <3>6. j = 7 => InitOrder[7] # failed
      BY <3>3
    <3>7. CASE j = 3
      <4>1. failed \in {"devices", "gpu", "device", "command_pool"}
        BY <1>1, <1>2, <1>4, <3>4
      <4> QED
        BY <3>2, <3>7, <4>1 DEF InitUndoes
    <3>8. CASE j # 3
      <4>1. failed = "command_pool" /\ x = "device"
        BY <1>1, <1>2, <1>4, <3>2, <3>4, <3>5, <3>6, <3>8
      <4> QED
        BY <4>1 DEF InitUndoes
    <3> QED
      BY <3>7, <3>8
  <2> QED
    BY <1>4, <2>1, KindsDiffer DEF Left
<1>5. CASE failed = "none"
  <2>1. \A k \in 1 .. 7 : InitOrder[k] # "none"
    <3>1. \A i \in 1 .. 7 : i = 1 \/ i = 2 \/ i = 3 \/ i = 4 \/ i = 5 \/ i = 6 \/ i = 7
      OBVIOUS
    <3> QED
      BY <1>1, <3>1
  <2>2. \A j \in 1 .. 7 : InitOrder[j] \in DoneBefore(InitOrder, failed)
    BY <1>3, <1>5, <2>1
  <2>3. ContextKinds \subseteq DoneBefore(InitOrder, failed)
    BY <1>1, <2>2 DEF ContextKinds
  <2>4. InitUndoes(failed) = {}
    BY <1>5 DEF InitUndoes
  <2> QED
    BY <1>5, <2>3, <2>4 DEF Left
<1> QED
  BY <1>4, <1>5
-----------------------------------------------------------------------------
(* The initialised engine's device and pool can be used. *)
LEMMA OwnUsable ==
  ASSUME VkInv, g_vk_ctx.initialized, NEW handles,
         \A h \in handles :
           \/ \E k \in BaseKinds : h = Own(k)
           \/ /\ ~restarted /\ g_vk_ctx.pipeline_ready
              /\ h.of = g_vk_ctx.cached /\ h \in live
  PROVE  Usable(handles)
<1> SUFFICES ASSUME NEW h \in handles
             PROVE  /\ h \in live
                    /\ \A k \in {"instance", "device"} :
                         [kind |-> k, of |-> h.of, no |-> 0] \in live
  BY DEF Usable
<1>1. \A k \in BaseKinds : Own(k) \in live
  BY DEF VkInv, ContextInv
<1>2. CASE \E k \in BaseKinds : h = Own(k)
  <2>1. h \in live /\ h.of = g_vk_ctx.device
    BY <1>1, <1>2 DEF Own
  <2>2. Own("instance") \in live /\ Own("device") \in live
    BY <1>1 DEF BaseKinds
  <2> QED
    BY <2>1, <2>2 DEF Own
<1>3. CASE /\ ~restarted /\ g_vk_ctx.pipeline_ready
           /\ h.of = g_vk_ctx.cached /\ h \in live
  <2>1. h.of = g_vk_ctx.device
    BY <1>3 DEF VkInv, PipelineInv
  <2>2. Own("instance") \in live /\ Own("device") \in live
    BY <1>1 DEF BaseKinds
  <2> QED
    BY <1>3, <2>1, <2>2 DEF Own
<1> QED
  BY <1>2, <1>3

(* What an attempt's look at the machine's devices does. *)
LEMMA SelectIs ==
  ASSUME VkInv, NEW failed, ComputeInit(failed)
  PROVE  /\ stale' \in BOOLEAN /\ mislisted' \in BOOLEAN /\ physical_device' \in BOOLEAN
         /\ (mislisted => mislisted')
         /\ (stale' => stale \/ mislisted')
         /\ (physical_device' => machine.gpu # "none" \/ mislisted')
<1>1. /\ stale \in BOOLEAN /\ mislisted \in BOOLEAN /\ physical_device \in BOOLEAN
      /\ physical_device => machine.gpu # "none" \/ mislisted
  BY DEF VkInv, VkTypes, StaleInv
<1>2. CASE UNCHANGED <<stale, mislisted, physical_device>>
  BY <1>1, <1>2
<1>3. CASE SelectGpu(failed)
  <2>1. PICK listing \in {"devices", "nothing", "junk"} : \E picked \in MayPick(listing) :
          /\ physical_device' = (physical_device \/ picked)
          /\ mislisted' = (mislisted \/ listing # "devices")
          /\ stale' = (stale \/ listing = "junk" \/ (physical_device /\ ~picked))
    BY <1>3 DEF SelectGpu
  <2>1a. PICK picked \in MayPick(listing) :
          /\ physical_device' = (physical_device \/ picked)
          /\ mislisted' = (mislisted \/ listing # "devices")
          /\ stale' = (stale \/ listing = "junk" \/ (physical_device /\ ~picked))
    BY <2>1
  <2>2. CASE listing = "devices"
    <3>1. picked = (machine.gpu # "none")
      BY <2>2 DEF MayPick
    <3> QED
      BY <1>1, <2>1a, <2>2, <3>1
  <2>3. CASE listing # "devices"
    <3>1. mislisted' = TRUE
      BY <2>1, <2>3
    <3>2. picked \in BOOLEAN
      BY <2>1a, <2>3 DEF MayPick
    <3> QED
      BY <1>1, <2>1a, <3>1, <3>2
  <2> QED
    BY <2>2, <2>3
<1> QED
  BY <1>2, <1>3 DEF ComputeInit

(* An attempt at initialisation, whether it succeeds or not. *)
LEMMA InitKeeps ==
  ASSUME VkInv, NEW failed \in Steps(InitOrder), ComputeInit(failed),
         gpu.pc \in {"idle", "init"}, IsGpu(gpu)', gpu'.ok \in BOOLEAN, gpu'.served \in BOOLEAN,
         \/ gpu'.pc \in {"idle", "return"}
         \/ gpu'.pc = "set" /\ failed = "none" /\ g_vk_ctx.pipeline_ready
         \/ gpu'.pc = "pipeline" /\ failed = "none"
  PROVE  VkInv'
<1> DEFINE new == {[kind |-> k, of |-> attempts', no |-> 0] : k \in Left(failed)}
<1>1. PICK g, e : /\ g = g_vk_ctx /\ e = g_vk_ctx'
                  /\ e = [g EXCEPT
                            !.initialized = (failed = "none"),
                            !.device = IF failed \in {"command_pool", "none"}
                                       THEN attempts' ELSE g.device]
  BY DEF ComputeInit
<1>2. /\ attempts' = attempts + 1 /\ attempts \in Nat /\ live' = live \cup new
      /\ ~g.initialized /\ UNCHANGED machine
      /\ restarted' = (restarted \/ g.pipeline_ready)
  BY <1>1 DEF ComputeInit, Left, VkInv, VkTypes
<1>2a. /\ stale' \in BOOLEAN /\ mislisted' \in BOOLEAN /\ physical_device' \in BOOLEAN
       /\ (mislisted => mislisted')
       /\ (stale' => stale \/ mislisted')
       /\ (physical_device' => machine.gpu # "none" \/ mislisted')
  BY SelectIs
<1>3. g \in [initialized : BOOLEAN, device : Nat, pipeline_ready : BOOLEAN, cached : Nat]
      /\ g.device <= attempts /\ g.cached <= attempts
  BY <1>1 DEF VkInv, VkTypes
<1> DEFINE init   == failed = "none"
           device == IF failed \in {"command_pool", "none"} THEN attempts' ELSE g.device
<1>4. /\ init \in BOOLEAN /\ device \in Nat
      /\ init <=> failed = "none"
      /\ device = IF failed \in {"command_pool", "none"} THEN attempts' ELSE g.device
  BY <1>2, <1>3
<1>5. e = [g EXCEPT !.initialized = init, !.device = device]
  BY <1>1
<1> HIDE DEF init, device
<1>6. /\ e \in [initialized : BOOLEAN, device : Nat, pipeline_ready : BOOLEAN, cached : Nat]
      /\ e.initialized = init /\ e.device = device
      /\ e.pipeline_ready = g.pipeline_ready /\ e.cached = g.cached
  BY <1>3, <1>4, <1>5
<1>7. /\ \A o \in new : o.of = attempts' /\ o.kind \in Left(failed)
                        /\ o = [kind |-> o.kind, of |-> attempts', no |-> 0]
      /\ \A k \in Left(failed) : [kind |-> k, of |-> attempts', no |-> 0] \in new
  OBVIOUS
<1> HIDE DEF new
<1>8. /\ ~init => Left(failed) \subseteq {"library"}
      /\ init => Left(failed) = ContextKinds
  BY <1>4, InitLeaves
<1>9. Left(failed) \subseteq ContextKinds
  BY DEF Left
<1>10. device <= attempts' /\ (init => device = attempts')
  BY <1>2, <1>3, <1>4
<1>11. VkTypes'
  <2>1. \A o \in live' : o.of \in 1 .. attempts'
    <3>1. \A o \in live : o.of \in 1 .. attempts'
      BY <1>2 DEF VkInv, VkTypes
    <3>2. \A o \in new : o.of \in 1 .. attempts'
      BY <1>2, <1>7
    <3> QED
      BY <1>2, <3>1, <3>2
  <2>2. restarted' \in BOOLEAN /\ stale' \in BOOLEAN
    BY <1>2, <1>2a DEF VkInv, VkTypes
  <2>3. e.device <= attempts' /\ e.cached <= attempts' /\ attempts' \in Nat
    BY <1>2, <1>3, <1>6, <1>10
  <2>4. gpu'.pc \in PCs
    BY DEF PCs
  <2>5. machine' \in [gpu : {"none", "no_queue", "compute"}, host_visible : BOOLEAN]
    BY <1>2 DEF VkInv, VkTypes
  <2> QED
    BY <1>1, <1>2a, <1>6, <2>1, <2>2, <2>3, <2>4, <2>5 DEF VkTypes
<1>12. ContextInv'
  <2>1. \A o \in live : o.kind \notin BaseKinds
    BY <1>1, <1>2 DEF VkInv, ContextInv
  <2>2. \A k : Own(k)' = [kind |-> k, of |-> device, no |-> 0]
    BY <1>1, <1>6 DEF Own
  <2>3. CASE init
    <3>1. \A k \in BaseKinds : [kind |-> k, of |-> device, no |-> 0] \in live'
      BY <1>2, <1>7, <1>8, <1>10, <2>3, KindsDiffer
    <3>2. \A o \in live' : o.kind \in BaseKinds => o = [kind |-> o.kind, of |-> device, no |-> 0]
      BY <1>2, <1>7, <1>10, <2>1, <2>3
    <3>3. e.device = attempts' /\ attempts' >= 1
      BY <1>2, <1>6, <1>10, <2>3
    <3> QED
      BY <1>1, <1>6, <2>2, <2>3, <3>1, <3>2, <3>3 DEF ContextInv
  <2>4. CASE ~init
    <3>1. \A o \in live' : o.kind \notin BaseKinds
      BY <1>2, <1>7, <1>8, <2>1, <2>4, KindsDiffer
    <3> QED
      BY <1>1, <1>6, <2>4, <3>1 DEF ContextInv
  <2> QED
    BY <2>3, <2>4
<1>13. PipelineInv'
  <2>1. \A k : Cached(k)' = Cached(k)
    BY <1>1, <1>6 DEF Cached
  <2>2. g.pipeline_ready => g.cached >= 1 /\ \A k \in PipelineKinds : Cached(k) \in live'
    BY <1>1, <1>2 DEF VkInv, PipelineInv
  <2>3. ~g.pipeline_ready => \A o \in live' : o.kind \notin PipelineKinds
    BY <1>1, <1>2, <1>7, <1>9, KindsDiffer DEF VkInv, PipelineInv
  <2>4. ~(g.pipeline_ready /\ ~restarted')
    BY <1>2
  <2> QED
    BY <1>1, <1>6, <2>1, <2>2, <2>3, <2>4 DEF PipelineInv
<1>14. CallInv'
  <2>1. \A o \in live' : o.kind \notin {"buffer", "memory"}
    <3>1. \A o \in live : o.kind \notin {"buffer", "memory"}
      BY DEF VkInv, CallInv
    <3> QED
      BY <1>2, <1>7, <1>9, <3>1, KindsDiffer
  <2>2. gpu'.pc \in {"pipeline", "set", "buffers", "commands"} => e.initialized
    BY <1>4, <1>6
  <2>3. gpu'.pc \in {"set", "buffers", "commands"} => e.pipeline_ready
    BY <1>1, <1>6
  <2>4. gpu'.pc \notin {"buffers", "commands"}
    OBVIOUS
  <2> QED
    BY <1>1, <2>1, <2>2, <2>3, <2>4 DEF CallInv
<1>15. StaleInv'
  BY <1>2, <1>2a DEF VkInv, StaleInv
<1> QED
  BY <1>11, <1>12, <1>13, <1>14, <1>15 DEF VkInv
-----------------------------------------------------------------------------
(* Steps that leave the context alone keep what is known of the engine when
   they add no part of a context or a pipeline, and remove none. *)
LEMMA LiveKeeps ==
  ASSUME VkInv, UNCHANGED <<g_vk_ctx, attemptVars>>, stale' \in BOOLEAN,
         stale' => stale \/ restarted \/ mislisted,
         IsGpu(gpu)', gpu'.pc \in PCs, gpu'.ok \in BOOLEAN, gpu'.served \in BOOLEAN,
         \A o \in live' : o \in live \/ /\ o.of \in 1 .. attempts
                                        /\ o.kind \notin BaseKinds \cup PipelineKinds,
         \A o \in live : o.kind \in BaseKinds \cup PipelineKinds => o \in live',
         CallInv'
  PROVE  VkInv'
<1>1. VkTypes'
  BY DEF VkInv, VkTypes, attemptVars
<1>2. \A k : Own(k)' = Own(k) /\ Cached(k)' = Cached(k)
  BY DEF Own, Cached
<1>3. \A k : Own(k).kind = k /\ Cached(k).kind = k
  BY DEF Own, Cached
<1>4. ContextInv'
  <2>1. g_vk_ctx.initialized => \A k \in BaseKinds : Own(k) \in live'
    BY <1>3 DEF VkInv, ContextInv
  <2>2. \A o \in live' : o.kind \in BaseKinds => g_vk_ctx.initialized /\ o = Own(o.kind)
    BY DEF VkInv, ContextInv
  <2> QED
    BY <1>2, <2>1, <2>2 DEF VkInv, ContextInv, attemptVars
<1>5. PipelineInv'
  <2>1. g_vk_ctx.pipeline_ready => \A k \in PipelineKinds : Cached(k) \in live'
    BY <1>3 DEF VkInv, PipelineInv
  <2>2. ~g_vk_ctx.pipeline_ready => \A o \in live' : o.kind \notin PipelineKinds
    BY DEF VkInv, PipelineInv
  <2> QED
    BY <1>2, <2>1, <2>2 DEF VkInv, PipelineInv, attemptVars
<1>6. StaleInv'
  BY DEF VkInv, StaleInv, attemptVars
<1> QED
  BY <1>1, <1>4, <1>5, <1>6 DEF VkInv

(* What the driver is passed in a program that does not initialise the engine
   again is alive. *)
LEMMA PassIs ==
  ASSUME VkInv, NEW handles, Pass(handles), ~restarted => Usable(handles)
  PROVE  stale' \in BOOLEAN /\ (stale' => restarted \/ mislisted)
<1>1. stale' = (stale \/ ~Usable(handles)) /\ stale \in BOOLEAN
      /\ (stale => restarted \/ mislisted)
  BY DEF Pass, VkInv, VkTypes, StaleInv
<1>2. ASSUME stale' PROVE restarted \/ mislisted
  BY <1>1, <1>2
<1> QED
  BY <1>1, <1>2

(* What retryix_vulkan_compute_cleanup leaves. *)
LEMMA CleanupKeeps ==
  ASSUME VkInv, retryix_vulkan_compute_cleanup
  PROVE  VkInv'
<1>1. PICK g, e : g = g_vk_ctx /\ e = g_vk_ctx' /\ e = [g EXCEPT !.initialized = FALSE]
  BY DEF retryix_vulkan_compute_cleanup
<1>2. /\ UNCHANGED <<gpu, attemptVars>> /\ gpu.pc = "idle" /\ g.initialized
      /\ Pass({Own("command_pool")})
      /\ live' = live \ ({Own(k) : k \in ContextKinds} \cup Commands)
  BY <1>1 DEF retryix_vulkan_compute_cleanup, attemptVars
<1>3. g \in [initialized : BOOLEAN, device : Nat, pipeline_ready : BOOLEAN, cached : Nat]
  BY <1>1 DEF VkInv, VkTypes
<1>4. /\ e \in [initialized : BOOLEAN, device : Nat, pipeline_ready : BOOLEAN, cached : Nat]
      /\ ~e.initialized /\ e.device = g.device
      /\ e.pipeline_ready = g.pipeline_ready /\ e.cached = g.cached
  BY <1>1, <1>3
<1>5. stale' \in BOOLEAN /\ (stale' => restarted \/ mislisted)
  <2>1. Usable({Own("command_pool")})
    BY <1>1, <1>2, OwnUsable DEF BaseKinds
  <2> QED
    BY <1>2, <2>1, PassIs
<1>6. live' \subseteq live
  BY <1>2
<1>7. VkTypes'
  BY <1>1, <1>2, <1>4, <1>5, <1>6 DEF VkInv, VkTypes, attemptVars
<1>8. \A o \in live' : o.kind \notin BaseKinds
  <2> SUFFICES ASSUME NEW o \in live', o.kind \in BaseKinds PROVE FALSE
    OBVIOUS
  <2>1. o \in live /\ o = Own(o.kind)
    BY <1>6 DEF VkInv, ContextInv
  <2>2. o \in {Own(k) : k \in ContextKinds}
    BY <2>1, KindsDiffer
  <2> QED
    BY <1>2, <2>2
<1>9. ContextInv'
  BY <1>1, <1>4, <1>8 DEF ContextInv
<1>10. PipelineInv'
  <2>1. \A k : Cached(k)' = Cached(k) /\ Cached(k).kind = k
    BY <1>1, <1>4 DEF Cached
  <2>2. ASSUME NEW k \in PipelineKinds, Cached(k) \in live PROVE Cached(k) \in live'
    <3>1. Cached(k) \notin {Own(j) : j \in ContextKinds}
      BY <2>1, KindsDiffer DEF Own
    <3>2. Cached(k) \notin Commands
      BY <2>1, KindsDiffer DEF Commands
    <3> QED
      BY <1>2, <2>2, <3>1, <3>2
  <2>3. g.pipeline_ready => g.cached >= 1 /\ \A k \in PipelineKinds : Cached(k) \in live'
    BY <1>1, <2>2 DEF VkInv, PipelineInv
  <2>4. ~g.pipeline_ready => \A o \in live' : o.kind \notin PipelineKinds
    BY <1>1, <1>6 DEF VkInv, PipelineInv
  <2> QED
    BY <1>1, <1>4, <2>1, <2>3, <2>4 DEF PipelineInv
<1>11. CallInv'
  BY <1>1, <1>2, <1>6 DEF VkInv, CallInv
<1>12. StaleInv'
  BY <1>2, <1>5 DEF VkInv, StaleInv, attemptVars
<1> QED
  BY <1>7, <1>9, <1>10, <1>11, <1>12 DEF VkInv

(* A call that begins, ends, or gives up. *)
LEMMA PcKeeps ==
  ASSUME VkInv, UNCHANGED <<attemptVars, g_vk_ctx, live, stale>>,
         IsGpu(gpu)', gpu'.ok \in BOOLEAN, gpu'.served \in BOOLEAN,
         gpu.pc \notin {"commands"},
         \/ gpu'.pc \in {"idle", "init", "return"}
         \/ gpu'.pc = "pipeline" /\ g_vk_ctx.initialized
         \/ gpu'.pc = "set" /\ g_vk_ctx.initialized /\ g_vk_ctx.pipeline_ready
  PROVE  VkInv'
<1>1. gpu'.pc \in PCs /\ gpu'.pc \notin {"buffers", "commands"}
  BY DEF PCs
<1>2. CallInv'
  BY <1>1 DEF VkInv, CallInv
<1>3. stale' \in BOOLEAN /\ (stale' => stale \/ restarted \/ mislisted)
  BY DEF VkInv, VkTypes
<1>4. UNCHANGED <<g_vk_ctx, attemptVars>> /\ UNCHANGED live
  OBVIOUS
<1> QED
  BY <1>1, <1>2, <1>3, <1>4, LiveKeeps

LEMMA GpuIs ==
  ASSUME NEW g, IsGpu(g), NEW x
  PROVE  LET r == [g EXCEPT !.pc = x]
         IN  IsGpu(r) /\ r.pc = x /\ r.ok = g.ok /\ r.set = g.set /\ r.served = g.served
  BY DEF IsGpu

LEMMA PartsAre ==
  ASSUME NEW kind, NEW I, VkInv, g_vk_ctx.initialized
  PROVE  /\ \A o \in Parts(kind, I) : o.kind = kind /\ o.of \in 1 .. attempts
         /\ UNCHANGED g_vk_ctx => Parts(kind, I)' = Parts(kind, I)
  BY DEF Parts, VkInv, ContextInv, VkTypes

LEMMA EnsureKeeps ==
  ASSUME VkInv, EnsurePipelineReady
  PROVE  VkInv'
<1>1. PICK failed, g, e :
        /\ g = g_vk_ctx /\ e = g_vk_ctx'
        /\ live' = live \cup Objects(PipelineLeft(failed))
        /\ e = IF failed = "none" THEN [g EXCEPT !.pipeline_ready = TRUE, !.cached = attempts]
                                  ELSE g
        /\ gpu' = [gpu EXCEPT !.pc = IF failed = "none" THEN "set" ELSE "return"]
  BY DEF EnsurePipelineReady
<1>2. gpu.pc = "pipeline" /\ UNCHANGED attemptVars /\ Pass({Own("device")})
  BY DEF EnsurePipelineReady, attemptVars
<1>3. g.initialized /\ g.device = attempts /\ attempts >= 1 /\ attempts \in Nat
  BY <1>1, <1>2 DEF VkInv, CallInv, ContextInv, VkTypes
<1>4. /\ g \in [initialized : BOOLEAN, device : Nat, pipeline_ready : BOOLEAN, cached : Nat]
      /\ IsGpu(gpu) /\ gpu.ok \in BOOLEAN /\ gpu.served \in BOOLEAN
  BY <1>1 DEF VkInv, VkTypes
<1>5. stale' \in BOOLEAN /\ (stale' => restarted \/ mislisted)
  <2>1. Usable({Own("device")})
    BY <1>1, <1>3, OwnUsable DEF BaseKinds
  <2> QED
    BY <1>2, <2>1, PassIs
<1>6. /\ IsGpu(gpu)' /\ gpu'.ok \in BOOLEAN /\ gpu'.served \in BOOLEAN
      /\ gpu'.pc = IF failed = "none" THEN "set" ELSE "return"
  <2> DEFINE x == IF failed = "none" THEN "set" ELSE "return"
             r == [gpu EXCEPT !.pc = x]
  <2>1. gpu' = r
    BY <1>1
  <2>2. IsGpu(r) /\ r.pc = x /\ r.ok = gpu.ok /\ r.served = gpu.served
    BY <1>4, GpuIs
  <2> HIDE DEF r
  <2> QED
    BY <1>4, <2>1, <2>2
<1>7. \A o \in live : o.kind \notin {"buffer", "memory"}
  BY <1>2 DEF VkInv, CallInv
<1>8. CASE failed # "none"
  <2>1. live' = live /\ e = g
    BY <1>1, <1>8 DEF PipelineLeft, Objects
  <2>2. gpu'.pc = "return"
    BY <1>6, <1>8
  <2>3. CallInv'
    BY <1>7, <2>1, <2>2 DEF CallInv
  <2> QED
    BY <1>1, <1>2, <1>5, <1>6, <2>1, <2>2, <2>3, LiveKeeps DEF PCs
<1>9. CASE failed = "none"
  <2>1. e = [g EXCEPT !.pipeline_ready = TRUE, !.cached = attempts]
    BY <1>1, <1>9
  <2>2. /\ e \in [initialized : BOOLEAN, device : Nat, pipeline_ready : BOOLEAN, cached : Nat]
        /\ e.initialized /\ e.device = g.device /\ e.pipeline_ready /\ e.cached = attempts
    BY <1>3, <1>4, <2>1
  <2> DEFINE new == Objects(PipelineKinds)
  <2>3. live' = live \cup new
    BY <1>1, <1>9 DEF PipelineLeft
  <2>4. /\ \A o \in new : o.of = attempts /\ o.kind \in PipelineKinds
        /\ \A k \in PipelineKinds : [kind |-> k, of |-> attempts, no |-> 0] \in new
    BY DEF Objects, Object
  <2> HIDE DEF new
  <2>5. gpu'.pc = "set"
    BY <1>6, <1>9
  <2>6. VkTypes'
    <3>1. \A o \in live' : o.of \in 1 .. attempts
      BY <1>3, <2>3, <2>4 DEF VkInv, VkTypes
    <3>2. e.device <= attempts /\ e.cached <= attempts
      BY <1>3, <2>2
    <3> QED
      BY <1>1, <1>2, <1>5, <1>6, <2>2, <2>5, <3>1, <3>2 DEF VkInv, VkTypes, attemptVars, PCs
  <2>7. ContextInv'
    <3>1. \A k : Own(k)' = Own(k)
      BY <1>1, <2>2 DEF Own
    <3>2. \A o \in live' : o.kind \in BaseKinds => o \in live
      BY <2>3, <2>4, KindsDiffer
    <3>3. \A k \in BaseKinds : Own(k) \in live'
      BY <1>1, <1>3, <2>3 DEF VkInv, ContextInv
    <3> QED
      BY <1>1, <1>2, <1>3, <2>2, <3>1, <3>2, <3>3 DEF VkInv, ContextInv, attemptVars
  <2>8. PipelineInv'
    <3>1. \A k : Cached(k)' = [kind |-> k, of |-> attempts, no |-> 0]
      BY <1>1, <2>2 DEF Cached
    <3>2. \A k \in PipelineKinds : Cached(k)' \in live'
      BY <2>3, <2>4, <3>1
    <3>3. e.cached >= 1 /\ e.cached = e.device
      BY <1>3, <2>2
    <3> QED
      BY <1>1, <2>2, <3>2, <3>3 DEF PipelineInv
  <2>9. CallInv'
    <3>1. \A o \in live' : o.kind \notin {"buffer", "memory"}
      BY <1>7, <2>3, <2>4, KindsDiffer
    <3> QED
      BY <1>1, <2>2, <2>5, <3>1 DEF CallInv
  <2>10. StaleInv'
    BY <1>2, <1>5 DEF VkInv, StaleInv, attemptVars
  <2> QED
    BY <2>6, <2>7, <2>8, <2>9, <2>10 DEF VkInv
<1> QED
  BY <1>8, <1>9

LEMMA AllocateKeeps ==
  ASSUME VkInv, AllocateDescriptorSet
  PROVE  VkInv'
<1> DEFINE handles == {Own("device"), Cached("dpool"), Cached("dsl")}
<1>1. /\ gpu.pc = "set" /\ UNCHANGED <<g_vk_ctx, attemptVars>> /\ Pass(handles)
  BY DEF AllocateDescriptorSet, attemptVars
<1>2. /\ g_vk_ctx.initialized /\ g_vk_ctx.pipeline_ready /\ g_vk_ctx.cached \in 1 .. attempts
      /\ IsGpu(gpu) /\ gpu.ok \in BOOLEAN /\ gpu.served \in BOOLEAN
      /\ \A o \in live : o.kind \notin {"buffer", "memory"}
  BY <1>1 DEF VkInv, CallInv, PipelineInv, VkTypes
<1>3. stale' \in BOOLEAN /\ (stale' => restarted \/ mislisted)
  <2>1. ASSUME ~restarted PROVE Usable(handles)
    <3>1. Cached("dpool") \in live /\ Cached("dsl") \in live
      BY <1>2 DEF VkInv, PipelineInv, PipelineKinds
    <3>2. Cached("dpool").of = g_vk_ctx.cached /\ Cached("dsl").of = g_vk_ctx.cached
      BY DEF Cached
    <3>3. "device" \in BaseKinds
      BY DEF BaseKinds
    <3> QED
      BY <1>2, <2>1, <3>1, <3>2, <3>3, OwnUsable
  <2> HIDE DEF handles
  <2> QED
    BY <1>1, <2>1, PassIs
<1>4. CASE GiveUp /\ UNCHANGED live
  <2>1. /\ IsGpu(gpu)' /\ gpu'.pc = "return"
        /\ gpu'.ok = gpu.ok /\ gpu'.served = gpu.served
    BY <1>2, <1>4, GpuIs DEF GiveUp
  <2>2. CallInv'
    BY <1>2, <1>4, <2>1 DEF CallInv
  <2> QED
    BY <1>1, <1>2, <1>3, <1>4, <2>1, <2>2, LiveKeeps DEF PCs
<1>5. ASSUME NEW no, NEW new, new = [kind |-> "set", of |-> g_vk_ctx.cached, no |-> no],
             live' = live \cup {new},
             gpu' = [gpu EXCEPT !.pc = "buffers", !.set = no]
      PROVE  VkInv'
  <2>1. /\ IsGpu(gpu)' /\ gpu'.pc = "buffers" /\ gpu'.set = no
        /\ gpu'.ok = gpu.ok /\ gpu'.served = gpu.served
    BY <1>2, <1>5 DEF IsGpu
  <2>2. new.kind = "set" /\ new.of = g_vk_ctx.cached
    BY <1>5
  <2>3. TheSet' = new
    BY <1>1, <1>5, <2>1 DEF TheSet
  <2>4. CallInv'
    <3>1. \A o \in live' : o.kind \notin {"buffer", "memory"}
      BY <1>2, <1>5, <2>2
    <3> QED
      BY <1>1, <1>2, <1>5, <2>1, <2>3, <3>1 DEF CallInv
  <2>5. \A o \in live' : o \in live \/ /\ o.of \in 1 .. attempts
                                       /\ o.kind \notin BaseKinds \cup PipelineKinds
    BY <1>2, <1>5, <2>2, KindsDiffer
  <2> QED
    BY <1>1, <1>2, <1>3, <1>5, <2>1, <2>4, <2>5, LiveKeeps DEF PCs
<1>6. CASE ~(GiveUp /\ UNCHANGED live)
  <2> DEFINE no == CHOOSE i \in 1 .. MaxSets : \A s \in Sets : s.no # i
  <2>1. /\ live' = live \cup {[kind |-> "set", of |-> g_vk_ctx.cached, no |-> no]}
        /\ gpu' = [gpu EXCEPT !.pc = "buffers", !.set = no]
    BY <1>6 DEF AllocateDescriptorSet
  <2> HIDE DEF no
  <2> QED
    BY <1>5, <2>1
<1> QED
  BY <1>4, <1>6

(* Whichever step of the loop fails, all buffers made are destroyed again. *)
LEMMA BuffersGone ==
  ASSUME NEW i \in 1 .. 3, NEW failed \in {"buffer", "type", "memory", "bind"},
         failed = "type" => i = 1
  PROVE  BuffersMade(i, failed) \ BuffersUndone(i, failed) = {}
<1>1. CASE failed = "buffer"
  BY <1>1 DEF BuffersMade, BuffersUndone
<1>2. CASE failed = "type"
  <2>1. \A I : I = {} => Parts("memory", I) = {}
    BY DEF Parts
  <2>2. 1 .. i - 1 = {}
    BY <1>2
  <2>3. BuffersMade(i, failed) = Parts("buffer", 1 .. i) \cup Parts("memory", 1 .. i - 1)
    BY <1>2 DEF BuffersMade
  <2>4. BuffersUndone(i, failed) = Parts("buffer", 1 .. i)
    BY <1>2 DEF BuffersUndone
  <2> QED
    BY <2>1, <2>2, <2>3, <2>4
<1>3. CASE failed = "memory"
  BY <1>3 DEF BuffersMade, BuffersUndone
<1>4. CASE failed = "bind"
  BY <1>4 DEF BuffersMade, BuffersUndone
<1> QED
  BY <1>1, <1>2, <1>3, <1>4

LEMMA CreateBuffersKeeps ==
  ASSUME VkInv, CreateBuffers
  PROVE  VkInv'
<1>1. gpu.pc = "buffers" /\ UNCHANGED <<g_vk_ctx, attemptVars>> /\ Pass({Own("device")})
  BY DEF CreateBuffers, attemptVars
<1>2. /\ g_vk_ctx.initialized /\ g_vk_ctx.pipeline_ready /\ TheSet \in live
      /\ IsGpu(gpu) /\ gpu.ok \in BOOLEAN /\ gpu.served \in BOOLEAN
      /\ \A o \in live : o.kind \notin {"buffer", "memory"}
  BY <1>1 DEF VkInv, CallInv, VkTypes
<1>3. stale' \in BOOLEAN /\ (stale' => restarted \/ mislisted)
  <2>1. Usable({Own("device")})
    BY <1>2, OwnUsable DEF BaseKinds
  <2> QED
    BY <1>1, <2>1, PassIs
<1>4. CASE /\ live' = live \cup Parts("buffer", 1 .. 3) \cup Parts("memory", 1 .. 3)
           /\ gpu' = [gpu EXCEPT !.pc = "commands"]
  <2>1. /\ IsGpu(gpu)' /\ gpu'.pc = "commands" /\ gpu'.set = gpu.set
        /\ gpu'.ok = gpu.ok /\ gpu'.served = gpu.served
    BY <1>2, <1>4, GpuIs
  <2>2. live' = live \cup TheBuffers
    BY <1>4 DEF TheBuffers
  <2>3. \A o \in TheBuffers : o.kind \in {"buffer", "memory"} /\ o.of \in 1 .. attempts
    BY <1>2, PartsAre DEF TheBuffers
  <2>4. TheBuffers' = TheBuffers /\ TheSet' = TheSet
    BY <1>1, <2>1 DEF TheBuffers, Parts, TheSet
  <2> HIDE DEF TheBuffers
  <2>5. CallInv'
    <3>1. \A o \in live' : o.kind \in {"buffer", "memory"} => o \in TheBuffers
      BY <1>2, <2>2
    <3> QED
      BY <1>1, <1>2, <2>1, <2>2, <2>4, <3>1 DEF CallInv
  <2>6. \A o \in live' : o \in live \/ /\ o.of \in 1 .. attempts
                                       /\ o.kind \notin BaseKinds \cup PipelineKinds
    BY <2>2, <2>3, KindsDiffer
  <2> QED
    BY <1>1, <1>2, <1>3, <2>1, <2>2, <2>5, <2>6, LiveKeeps DEF PCs
<1>5. CASE UNCHANGED live /\ GiveUp
  <2>1. /\ IsGpu(gpu)' /\ gpu'.pc = "return"
        /\ gpu'.ok = gpu.ok /\ gpu'.served = gpu.served
    BY <1>2, <1>5, GpuIs DEF GiveUp
  <2>2. CallInv'
    BY <1>2, <1>5, <2>1 DEF CallInv
  <2> QED
    BY <1>1, <1>2, <1>3, <1>5, <2>1, <2>2, LiveKeeps DEF PCs
<1>6. ASSUME NEW i \in 1 .. 3, NEW failed \in {"buffer", "type", "memory", "bind"},
             failed = "type" => ~machine.host_visible,
             i > 1 \/ failed \in {"memory", "bind"} => machine.host_visible,
             live' = live \cup (BuffersMade(i, failed) \ BuffersUndone(i, failed))
      PROVE  UNCHANGED live
  <2>1. failed = "type" => i = 1
    BY <1>6
  <2>2. BuffersMade(i, failed) \ BuffersUndone(i, failed) = {}
    BY <2>1, BuffersGone
  <2> QED
    BY <1>6, <2>2
<1> QED
  BY <1>4, <1>5, <1>6 DEF CreateBuffers

LEMMA RunKeeps ==
  ASSUME VkInv, RunCommands
  PROVE  VkInv'
<1> DEFINE handles == {Own("device"), Own("command_pool"), Cached("pipeline"),
                       Cached("layout"), TheSet}
           gone    == TheBuffers \cup {TheSet}
<1>1. gpu.pc = "commands" /\ UNCHANGED <<g_vk_ctx, attemptVars>> /\ Pass(handles)
  BY DEF RunCommands, attemptVars, TheSet
<1>2. /\ g_vk_ctx.initialized /\ g_vk_ctx.pipeline_ready /\ TheSet \in live
      /\ \A o \in live : o.kind \in {"buffer", "memory"} => o \in TheBuffers
  BY <1>1 DEF VkInv, CallInv
<1>3. stale' \in BOOLEAN /\ (stale' => restarted \/ mislisted)
  <2>1. ASSUME ~restarted PROVE Usable(handles)
    <3>1. Cached("pipeline") \in live /\ Cached("layout") \in live
      BY <1>2 DEF VkInv, PipelineInv, PipelineKinds
    <3>2. /\ Cached("pipeline").of = g_vk_ctx.cached /\ Cached("layout").of = g_vk_ctx.cached
          /\ TheSet.of = g_vk_ctx.cached
      BY DEF Cached, TheSet
    <3>3. "device" \in BaseKinds /\ "command_pool" \in BaseKinds
      BY DEF BaseKinds
    <3> QED
      BY <1>2, <2>1, <3>1, <3>2, <3>3, OwnUsable
  <2> HIDE DEF handles
  <2> QED
    BY <1>1, <2>1, PassIs
<1>4. PICK failed \in {"command", "begin", "end", "submit", "none"},
           uploaded \in BOOLEAN, waited \in BOOLEAN, downloaded \in BOOLEAN :
        /\ live' = (live \cup (IF failed = "command" THEN {}
                               ELSE Parts("command", {Cardinality(Commands) + 1}))) \ gone
        /\ gpu' = [pc |-> "return", ok |-> failed = "none", set |-> 0,
                   served |-> uploaded /\ (failed = "none" => waited /\ downloaded)]
  BY DEF RunCommands, TheBuffers, TheSet
<1>5. IsGpu(gpu)' /\ gpu'.pc = "return" /\ gpu'.ok \in BOOLEAN /\ gpu'.served \in BOOLEAN
  BY <1>4 DEF IsGpu
<1>6. \A o \in gone : o.kind \in {"buffer", "memory", "set"}
  BY <1>2, PartsAre DEF TheBuffers, TheSet
<1>7. \A o \in Parts("command", {Cardinality(Commands) + 1}) :
        o.kind = "command" /\ o.of \in 1 .. attempts
  BY <1>2, PartsAre
<1>8. \A o \in live' : o \in live \/ /\ o.of \in 1 .. attempts
                                     /\ o.kind \notin BaseKinds \cup PipelineKinds
  BY <1>4, <1>7, KindsDiffer
<1>9. \A o \in live : o.kind \in BaseKinds \cup PipelineKinds => o \in live'
  BY <1>4, <1>6, KindsDiffer
<1>10. CallInv'
  <2>1. ASSUME NEW o \in live' PROVE o.kind \notin {"buffer", "memory"}
    <3>1. o \notin gone /\ (o \in live \/ o.kind = "command")
      BY <1>4, <1>7
    <3> QED
      BY <1>2, <3>1
  <2> QED
    BY <1>5, <2>1 DEF CallInv
<1> QED
  BY <1>1, <1>3, <1>5, <1>8, <1>9, <1>10, LiveKeeps DEF PCs
-----------------------------------------------------------------------------
LEMMA InitVkInv == VkInit => VkInv
<1> SUFFICES ASSUME VkInit PROVE VkInv
  OBVIOUS
<1>1. PICK g, c : /\ g = gpu /\ g = [pc |-> "idle", ok |-> FALSE, set |-> 0, served |-> TRUE]
                  /\ c = g_vk_ctx
                  /\ c = [initialized |-> FALSE, device |-> 0, pipeline_ready |-> FALSE,
                          cached |-> 0]
  BY DEF VkInit
<1>2. IsGpu(g) /\ g.pc = "idle" /\ g.ok \in BOOLEAN /\ g.served \in BOOLEAN
  BY <1>1 DEF IsGpu
<1>3. /\ c \in [initialized : BOOLEAN, device : Nat, pipeline_ready : BOOLEAN, cached : Nat]
      /\ ~c.initialized /\ ~c.pipeline_ready /\ c.device = 0 /\ c.cached = 0
  BY <1>1
<1>4. VkTypes
  <2>1. /\ attempts = 0 /\ live = {} /\ ~stale /\ ~restarted
        /\ stale \in BOOLEAN /\ restarted \in BOOLEAN
        /\ mislisted \in BOOLEAN /\ physical_device \in BOOLEAN /\ ~physical_device
        /\ machine \in [gpu : {"none", "no_queue", "compute"}, host_visible : BOOLEAN]
    BY DEF VkInit
  <2> HIDE DEF VkInit
  <2>2. g_vk_ctx.device <= attempts /\ g_vk_ctx.cached <= attempts /\ attempts \in Nat
    BY <1>1, <1>3, <2>1
  <2>3. g.pc \in PCs
    BY <1>2 DEF PCs
  <2> QED
    BY <1>1, <1>2, <1>3, <2>1, <2>2, <2>3 DEF VkTypes
<1>5. ContextInv /\ PipelineInv /\ CallInv /\ StaleInv
  BY <1>1, <1>2, <1>3 DEF VkInit, ContextInv, PipelineInv, CallInv, StaleInv
<1> QED
  BY <1>4, <1>5 DEF VkInv

LEMMA VkInvKept == VkInv /\ UNCHANGED vkVars => VkInv'
<1> SUFFICES ASSUME VkInv, UNCHANGED vkVars PROVE VkInv'
  OBVIOUS
<1>1. UNCHANGED <<machine, g_vk_ctx, live, attempts, stale, restarted, mislisted, physical_device, gpu>>
  BY DEF vkVars, attemptVars
<1>2. VkTypes'
  BY <1>1 DEF VkInv, VkTypes, IsGpu
<1>3. ContextInv' /\ PipelineInv' /\ StaleInv'
  BY <1>1 DEF VkInv, ContextInv, PipelineInv, StaleInv, Own, Cached
<1>4. CallInv'
  BY <1>1 DEF VkInv, CallInv, TheSet, TheBuffers, Parts
<1> QED
  BY <1>2, <1>3, <1>4 DEF VkInv

LEMMA VulkanKeeps ==
  ASSUME VkInv, VulkanStep
  PROVE  VkInv'
<1>0. IsGpu(gpu) /\ gpu.ok \in BOOLEAN /\ gpu.served \in BOOLEAN
  BY DEF VkInv, VkTypes
<1>1. CASE InitOnDemand
  <2>1. PICK failed \in Steps(InitOrder) :
          /\ ComputeInit(failed)
          /\ gpu' = [gpu EXCEPT !.pc = IF failed # "none" THEN "return"
                                       ELSE IF g_vk_ctx.pipeline_ready THEN "set"
                                       ELSE "pipeline"]
    BY <1>1 DEF InitOnDemand, Steps
  <2> DEFINE x == IF failed # "none" THEN "return"
                  ELSE IF g_vk_ctx.pipeline_ready THEN "set" ELSE "pipeline"
             r == [gpu EXCEPT !.pc = x]
  <2>2. \/ x = "return"
        \/ x = "set" /\ failed = "none" /\ g_vk_ctx.pipeline_ready
        \/ x = "pipeline" /\ failed = "none"
    OBVIOUS
  <2>3. gpu' = r /\ IsGpu(r) /\ r.pc = x /\ r.ok = gpu.ok /\ r.served = gpu.served
    BY <1>0, <2>1, GpuIs
  <2> HIDE DEF x, r
  <2>4. gpu.pc = "init"
    BY <1>1 DEF InitOnDemand
  <2> QED
    BY <1>0, <2>1, <2>2, <2>3, <2>4, InitKeeps
<1>2. CASE InitExhausted
  <2>1. /\ gpu.pc = "init" /\ UNCHANGED <<attemptVars, g_vk_ctx, live, stale>>
        /\ gpu' = [gpu EXCEPT !.pc = "return"]
    BY <1>2 DEF InitExhausted, GiveUp, attemptVars
  <2>2. IsGpu(gpu)' /\ gpu'.pc = "return" /\ gpu'.ok = gpu.ok /\ gpu'.served = gpu.served
    BY <1>0, <2>1, GpuIs
  <2> QED
    BY <1>0, <2>1, <2>2, PcKeeps
<1> QED
  BY <1>1, <1>2, EnsureKeeps, AllocateKeeps, CreateBuffersKeeps, RunKeeps DEF VulkanStep

(* One step of the engine keeps what is known of the Vulkan engine. *)
LEMMA NextVkInv ==
  ASSUME VkInv, [Next]_vars
  PROVE  VkInv'
<1>0. IsGpu(gpu) /\ gpu.ok \in BOOLEAN /\ gpu.served \in BOOLEAN
  BY DEF VkInv, VkTypes
<1>1. ASSUME NEW h \in Handles,
             \/ retryix_kernel_create_from_source(h)
             \/ \E i \in Args : \/ retryix_kernel_set_svm_arg(h, i)
                                \/ \E v \in Sizes : retryix_kernel_set_scalar_arg(h, i, v)
             \/ \E gws \in Sizes \cup {0} : ExecuteOnCpu(h, gws)
      PROVE  UNCHANGED vkVars
  BY <1>1 DEF retryix_kernel_create_from_source, retryix_kernel_set_svm_arg,
              retryix_kernel_set_scalar_arg, ExecuteOnCpu
<1>2. CASE retryix_mem_alloc \/ \E b \in Blocks : retryix_mem_free(b)
  BY <1>2, VkInvKept DEF retryix_mem_alloc, retryix_mem_free
<1>3. ASSUME NEW h \in Handles, NEW gws \in Sizes \cup {0}, ExecuteVectorAdd(h, gws)
      PROVE  VkInv'
  <2> DEFINE x == IF ~g_vk_ctx.initialized THEN "init"
                  ELSE IF g_vk_ctx.pipeline_ready THEN "set" ELSE "pipeline"
             r == [pc |-> x, ok |-> FALSE, set |-> 0, served |-> TRUE]
  <2>1. gpu.pc = "idle" /\ gpu' = r /\ UNCHANGED <<attemptVars, g_vk_ctx, live, stale>>
    BY <1>3 DEF ExecuteVectorAdd, VectorAdd, attemptVars
  <2>2. \/ x = "init"
        \/ x = "set" /\ g_vk_ctx.initialized /\ g_vk_ctx.pipeline_ready
        \/ x = "pipeline" /\ g_vk_ctx.initialized
    OBVIOUS
  <2> HIDE DEF x
  <2>3. IsGpu(r) /\ r.pc = x /\ r.ok \in BOOLEAN /\ r.served \in BOOLEAN
    BY DEF IsGpu
  <2> HIDE DEF r
  <2> QED
    BY <2>1, <2>2, <2>3, PcKeeps
<1>4. CASE retryix_vulkan_compute_init
  <2>1. PICK failed \in Steps(InitOrder) : ComputeInit(failed)
    BY <1>4 DEF retryix_vulkan_compute_init, Steps
  <2>2. UNCHANGED gpu /\ gpu.pc = "idle" /\ IsGpu(gpu)'
    BY <1>0, <1>4 DEF retryix_vulkan_compute_init, IsGpu
  <2> QED
    BY <1>0, <2>1, <2>2, InitKeeps
<1>5. CASE retryix_vulkan_compute_cleanup
  BY <1>5, CleanupKeeps
<1>6. CASE FinishVectorAdd
  <2>1. /\ gpu.pc = "return" /\ UNCHANGED <<attemptVars, g_vk_ctx, live, stale>>
        /\ gpu' = [gpu EXCEPT !.pc = "idle"]
    BY <1>6 DEF FinishVectorAdd, attemptVars
  <2>2. IsGpu(gpu)' /\ gpu'.pc = "idle" /\ gpu'.ok = gpu.ok /\ gpu'.served = gpu.served
    BY <1>0, <2>1, GpuIs
  <2> QED
    BY <1>0, <2>1, <2>2, PcKeeps
<1>7. CASE UNCHANGED vars
  BY <1>7, VkInvKept DEF vars
<1> QED
  BY <1>1, <1>2, <1>3, <1>4, <1>5, <1>6, <1>7, VulkanKeeps, VkInvKept DEF Next, EngineStep
-----------------------------------------------------------------------------
(***************************************************************************)
(* Executions: the one in progress has a kernel whose dispatch is the      *)
(* vector addition, and the last one did what its kernel says.             *)
(***************************************************************************)
Served(r) ==
  r.runs /\ r.served /\ r.program.mentions \subseteq {r.program.name} =>
    /\ r.kind = r.program.name
    /\ 1 .. Lesser(r.n, r.gws) \subseteq r.elements

EngineInv ==
  /\ execution # None <=> gpu.pc # "idle"
  /\ execution # None =>
       /\ execution \in Executions
       /\ execution.kernel \in Created
       /\ Dispatched(kernels[execution.kernel].program) = "vector_add"
  /\ last # None => Served(last)

(* A kernel whose source names no other is dispatched on its own name. *)
LEMMA DispatchedIs ==
  ASSUME NEW p, p.mentions \subseteq {p.name}, Dispatched(p) # "generic"
  PROVE  Dispatched(p) = p.name
<1> DEFINE named == {i \in DOMAIN Kinds : Kinds[i] \in {p.name} \cup p.mentions}
<1>1. Dispatched(p) = IF named = {} THEN "generic" ELSE Kinds[Min(named)]
  BY DEF Dispatched
<1>2. DOMAIN Kinds \subseteq Nat
  BY DEF Kinds
<1>3. named \subseteq Nat /\ \A i \in named : Kinds[i] = p.name
  BY <1>2
<1> HIDE DEF named
<1>4. named # {} => Min(named) \in named
  BY <1>3, MinIsLeast
<1> QED
  BY <1>1, <1>3, <1>4

LEMMA ServedIs ==
  ASSUME NEW p, NEW gws, NEW kind, NEW runs \in BOOLEAN, NEW n, NEW elements, NEW served,
         runs /\ served /\ p.mentions \subseteq {p.name} =>
           kind = p.name /\ 1 .. Lesser(n, gws) \subseteq elements
  PROVE  Served([program |-> p, gws |-> gws, kind |-> kind, runs |-> runs, n |-> n,
                 elements |-> elements, served |-> served])
  BY DEF Served

LEMMA LesserIsLess ==
  ASSUME NEW m \in Nat, NEW n \in Nat
  PROVE  1 .. Lesser(m, n) \subseteq 1 .. m
  BY DEF Lesser

(* The size of a vector addition is a number that some caller set. *)
LEMMA SizeIs ==
  ASSUME IInv, NEW h \in Created, Ready(kernels[h], "vector_add")
  PROVE  Size(kernels[h], "vector_add") \in Sizes \cup {0}
<1>1. SizeArg("vector_add") = 3
  BY DEF SizeArg
<1>2. kernels[h].arg_count >= 4 /\ kernels[h].arg_count \in 0 .. 4
  BY <1>1, KernelIs DEF Ready, IInv
<1>3. kernels[h].args[3] # None /\ 3 \in Args
  BY <1>2 DEF IInv, Filled, Args
<1>4. kernels[h].args[3] \in Blocks
  BY <1>3, KernelIs DEF IInv
<1> QED
  BY <1>1, <1>4 DEF Size, IInv, Types

LEMMA VulkanIsCalled ==
  ASSUME IsGpu(gpu), VulkanStep
  PROVE  gpu.pc # "idle" /\ gpu'.pc # "idle"
<1>1. \A x : x # "idle" /\ gpu' = [gpu EXCEPT !.pc = x] => gpu'.pc # "idle"
  BY DEF IsGpu
<1>2. CASE InitOnDemand
  BY <1>1, <1>2 DEF InitOnDemand
<1>3. CASE InitExhausted
  BY <1>1, <1>3 DEF InitExhausted, GiveUp
<1>4. CASE EnsurePipelineReady
  BY <1>1, <1>4 DEF EnsurePipelineReady
<1>5. CASE AllocateDescriptorSet
  <2>1. \A no : gpu' = [gpu EXCEPT !.pc = "buffers", !.set = no] => gpu'.pc # "idle"
    BY DEF IsGpu
  <2> QED
    BY <1>1, <1>5, <2>1 DEF AllocateDescriptorSet, GiveUp
<1>6. CASE CreateBuffers
  BY <1>1, <1>6 DEF CreateBuffers, GiveUp
<1>7. CASE RunCommands
  BY <1>7 DEF RunCommands
<1> QED
  BY <1>2, <1>3, <1>4, <1>5, <1>6, <1>7 DEF VulkanStep

LEMMA EngineInvKept ==
  ASSUME EngineInv, UNCHANGED <<kernels, execution, last>>, gpu'.pc = "idle" <=> gpu.pc = "idle"
  PROVE  EngineInv'
  BY DEF EngineInv, Created

LEMMA OnCpuKeeps ==
  ASSUME IInv, VkInv, EngineInv, NEW h \in Handles, NEW gws \in Sizes \cup {0},
         ExecuteOnCpu(h, gws)
  PROVE  EngineInv'
<1> DEFINE k    == kernels[h]
           kind == Dispatched(k.program)
           runs == kind # "generic" /\ Ready(k, kind)
           n    == IF runs THEN Size(k, kind) ELSE 0
           elements == IF runs THEN 1 .. Lesser(Size(k, kind), gws) ELSE {}
<1>1. /\ UNCHANGED <<gpu, kernels, execution>>
      /\ last' = [program |-> k.program, gws |-> gws, kind |-> kind, runs |-> runs,
                  n |-> n, elements |-> elements, served |-> TRUE]
  BY DEF ExecuteOnCpu, vkVars
<1>2. runs /\ k.program.mentions \subseteq {k.program.name} =>
        kind = k.program.name /\ 1 .. Lesser(n, gws) \subseteq elements
  BY DispatchedIs
<1>3. runs \in BOOLEAN
  OBVIOUS
<1> HIDE DEF k, kind, runs, n, elements
<1>4. Served(last')
  BY <1>1, <1>2, <1>3, ServedIs
<1> QED
  BY <1>1, <1>4 DEF EngineInv, Created, Served

LEMMA BeginKeeps ==
  ASSUME IInv, VkInv, EngineInv, NEW h \in Handles, NEW gws \in Sizes \cup {0},
         ExecuteVectorAdd(h, gws)
  PROVE  EngineInv'
<1>1. PICK n : n = Size(kernels[h], "vector_add")
  OBVIOUS
<1>2. /\ UNCHANGED kernels /\ last' = None /\ h \in Created
      /\ execution' = [kernel |-> h, gws |-> gws, n |-> n]
      /\ Dispatched(kernels[h].program) = "vector_add"
  BY <1>1 DEF ExecuteVectorAdd, Created
<1>3. n \in Sizes \cup {0}
  BY <1>1, <1>2, SizeIs DEF ExecuteVectorAdd
<1>4. execution' \in Executions /\ execution'.kernel = h
  BY <1>2, <1>3 DEF Executions
<1>5. execution' # None
  BY <1>4, NoneAssumption
<1>6. gpu'.pc # "idle"
  BY DEF ExecuteVectorAdd, VectorAdd
<1> QED
  BY <1>2, <1>4, <1>5, <1>6 DEF EngineInv, Created

LEMMA FinishKeeps ==
  ASSUME IInv, VkInv, EngineInv, FinishVectorAdd
  PROVE  EngineInv'
<1> DEFINE p == kernels[execution.kernel].program
           elements == Computed(execution.n, execution.gws)
<1>1. /\ gpu.pc = "return" /\ gpu' = [gpu EXCEPT !.pc = "idle"] /\ execution' = None
      /\ last' = [program |-> p, gws |-> execution.gws, kind |-> "vector_add",
                  runs |-> TRUE, n |-> execution.n, elements |-> elements,
                  served |-> gpu.served]
  BY DEF FinishVectorAdd
<1>2. execution \in Executions /\ Dispatched(p) = "vector_add"
  BY <1>1 DEF EngineInv
<1>3. execution.n \in Nat /\ execution.gws \in Nat
  <2>1. Sizes \cup {0} \subseteq Nat
    BY BlocksAssumption
  <2>2. execution.n \in Sizes \cup {0} /\ execution.gws \in Sizes \cup {0}
    BY <1>2 DEF Executions
  <2> QED
    BY <2>1, <2>2
<1>4. gpu.served => 1 .. Lesser(execution.n, execution.gws) \subseteq elements
  BY <1>3, LesserIsLess DEF Computed
<1>5. p.mentions \subseteq {p.name} => "vector_add" = p.name
  <2>1. "vector_add" # "generic"
    OBVIOUS
  <2> HIDE DEF p
  <2> QED
    BY <1>2, <2>1, DispatchedIs
<1> HIDE DEF p, elements
<1>6. Served(last')
  <2>1. TRUE \in BOOLEAN
    OBVIOUS
  <2> QED
    BY <1>1, <1>4, <1>5, <2>1, ServedIs
<1>7. gpu'.pc = "idle"
  BY <1>1, GpuIs DEF VkInv, VkTypes
<1> QED
  BY <1>1, <1>6, <1>7 DEF EngineInv, Served

LEMMA NextEngineInv ==
  ASSUME IInv, VkInv, EngineInv, [Next]_vars
  PROVE  EngineInv'
<1>1. ASSUME NEW h \in Handles,
             \/ retryix_kernel_create_from_source(h)
             \/ \E i \in Args : \/ retryix_kernel_set_svm_arg(h, i)
                                \/ \E v \in Sizes : retryix_kernel_set_scalar_arg(h, i, v)
      PROVE  EngineInv'
  <2>1. execution = None /\ UNCHANGED <<gpu, execution, last>>
    BY <1>1 DEF retryix_kernel_create_from_source, retryix_kernel_set_svm_arg,
                retryix_kernel_set_scalar_arg, Idle, vkVars
  <2> QED
    BY <2>1 DEF EngineInv, Served
<1>2. ASSUME NEW h \in Handles, NEW gws \in Sizes \cup {0},
             ExecuteOnCpu(h, gws) \/ ExecuteVectorAdd(h, gws)
      PROVE  EngineInv'
  BY <1>2, OnCpuKeeps, BeginKeeps
<1>3. CASE retryix_mem_alloc \/ \E b \in Blocks : retryix_mem_free(b)
  BY <1>3, EngineInvKept DEF retryix_mem_alloc, retryix_mem_free, vkVars
<1>4. CASE /\ retryix_vulkan_compute_init \/ retryix_vulkan_compute_cleanup
           /\ UNCHANGED kernelVars
  BY <1>4, EngineInvKept DEF retryix_vulkan_compute_init, retryix_vulkan_compute_cleanup,
                             kernelVars
<1>5. CASE VulkanStep /\ UNCHANGED kernelVars
  BY <1>5, EngineInvKept, VulkanIsCalled DEF kernelVars, VkInv, VkTypes
<1>6. CASE FinishVectorAdd
  BY <1>6, FinishKeeps
<1>7. CASE UNCHANGED vars
  BY <1>7, EngineInvKept DEF vars, vkVars, kernelVars
<1> QED
  BY <1>1, <1>2, <1>3, <1>4, <1>5, <1>6, <1>7 DEF Next, EngineStep
-----------------------------------------------------------------------------
AllInv == IInv /\ VkInv /\ EngineInv

(* What is known of the kernel objects, of the Vulkan engine and of the
   execution in progress holds in every reachable state. *)
THEOREM EngineInductive == Spec => []AllInv
<1>1. Init => AllInv
  <2> SUFFICES ASSUME Init PROVE AllInv
    OBVIOUS
  <2>1. IInv /\ VkInv
    BY InitIInv, InitVkInv DEF Init
  <2>2. gpu.pc = "idle" /\ execution = None /\ last = None
    BY DEF Init, VkInit
  <2> QED
    BY <2>1, <2>2 DEF AllInv, EngineInv
<1>2. AllInv /\ [Next]_vars => AllInv'
  BY NextIInv, NextVkInv, NextEngineInv DEF AllInv
<1> QED
  BY <1>1, <1>2, PTL DEF Spec

(* retryix_kernel_module.c and retryix_kernel_vulkan_compute.c: every variable
   has its type, an execution is in progress just when the Vulkan engine is in
   a call, and every object of the driver belongs to an attempt that was made. *)
THEOREM KernelTypes == Spec => []TypeOK
<1>1. AllInv => TypeOK
  <2> SUFFICES ASSUME AllInv PROVE TypeOK
    OBVIOUS
  <2>1. \A h \in Created : kernels[h].arg_count \in 0 .. 4
    BY KernelIs DEF AllInv, IInv
  <2>2. \A b \in Blocks : heap[b].owner \in {"nobody", "engine", "caller"}
    BY DEF AllInv, IInv, Types
  <2>3. execution # None <=> gpu.pc # "idle"
    BY DEF AllInv, EngineInv
  <2>4. gpu.ok \in BOOLEAN /\ gpu.served \in BOOLEAN /\ \A o \in live : o.of \in 1 .. attempts
    BY DEF AllInv, VkInv, VkTypes
  <2>5. g_vk_ctx.device \in 0 .. attempts /\ g_vk_ctx.cached \in 0 .. attempts
    BY DEF AllInv, VkInv, VkTypes
  <2> QED
    BY <2>1, <2>2, <2>3, <2>4, <2>5 DEF TypeOK
<1> QED
  BY <1>1, EngineInductive, PTL

(* retryix_kernel_vulkan_compute.c: wherever a call fails, and however many
   have failed before, it gives back what it had taken by then. *)
THEOREM CallsGiveBack == Spec => []CallsUnwind
<1>1. AllInv => CallsUnwind
  <2> SUFFICES ASSUME AllInv, gpu.pc = "idle"
               PROVE  /\ LiveKinds \cap {"buffer", "memory"} = {}
                      /\ ~g_vk_ctx.pipeline_ready => LiveKinds \cap PipelineKinds = {}
                      /\ ~g_vk_ctx.initialized =>
                           LiveKinds \cap {"instance", "device", "command_pool"} = {}
    BY DEF CallsUnwind
  <2>1. \A o \in live : o.kind \notin {"buffer", "memory"}
    BY DEF AllInv, VkInv, CallInv
  <2>2. ~g_vk_ctx.pipeline_ready => \A o \in live : o.kind \notin PipelineKinds
    BY DEF AllInv, VkInv, PipelineInv
  <2>3. ~g_vk_ctx.initialized => \A o \in live : o.kind \notin BaseKinds
    BY DEF AllInv, VkInv, ContextInv
  <2> QED
    BY <2>1, <2>2, <2>3 DEF LiveKinds, BaseKinds
<1> QED
  BY <1>1, EngineInductive, PTL

(* retryix_kernel_vulkan_compute.c: no handle of a dead object reaches the
   driver before the engine is initialised a second time over a pipeline that
   it still has cached, or a listing of the devices fails unnoticed. *)
THEOREM DriverGetsLiveHandles == Spec => []HandlesAreLive
<1>1. AllInv => HandlesAreLive
  BY DEF AllInv, VkInv, StaleInv, HandlesAreLive
<1> QED
  BY <1>1, EngineInductive, PTL

(* retryix_kernel_execute: an execution with its arguments in place runs the
   kernel that was asked for, on at least the elements that its work size and
   its n allow, whichever of the Vulkan calls fails whose result is looked at.
   Where a vkMapMemory or vkQueueWaitIdle failed, whose results are ignored,
   nothing is shown of the elements. *)
THEOREM ExecutionsServe == Spec => []ExecutionsCompute
<1>1. AllInv => ExecutionsCompute
  BY DEF AllInv, EngineInv, Served, ExecutionsCompute
<1> QED
  BY <1>1, EngineInductive, PTL
=============================================================================
