------------------------------ MODULE Services ------------------------------
(***************************************************************************)
(* The small services of the library, side by side: parts that share no    *)
(* state and do not call each other's operations.  Each behaviour runs     *)
(* one of them, `part`, from its initial states: between parts without     *)
(* common state the interleavings add nothing that a property could see.   *)
(***************************************************************************)
EXTENDS HostComm, SouthBridge, WorkloadControl, KernelThreads, Discovery,
        NativeDiscovery, Multimodal, AndroidBridge, HostBlocks, ScalarAtomics,
        ModuleStates

VARIABLE part

Parts == {"comm", "pch", "table", "kernel", "discovery", "native", "report",
          "android", "heap", "atomic", "module"}

vars == <<part, commVars, pchVars, tableVars, kernelVars, discoveryVars, nativeVars,
          reportVars, androidVars, heapVars, atomicVars, moduleVars>>

Init ==
  /\ part \in Parts
  /\ CommInit /\ PchInit /\ TableInit /\ KernelInit /\ ModuleInit
  /\ ReportInit /\ AndroidInit /\ HeapInit
  /\ IF part = "discovery" THEN DiscoveryInit
     ELSE DiscoveryInit /\ hip = 0
  /\ NativeInit /\ (part # "native" => gpus = 0)
  /\ AtomicInit /\ (part # "atomic" => windows)

Rest(p) ==
  /\ part = p /\ UNCHANGED part
  /\ p # "comm" => UNCHANGED commVars
  /\ p # "pch" => UNCHANGED pchVars
  /\ p # "table" => UNCHANGED tableVars
  /\ p # "kernel" => UNCHANGED kernelVars
  /\ p # "discovery" => UNCHANGED discoveryVars
  /\ p # "native" => UNCHANGED nativeVars
  /\ p # "report" => UNCHANGED reportVars
  /\ p # "android" => UNCHANGED androidVars
  /\ p # "heap" => UNCHANGED heapVars
  /\ p # "atomic" => UNCHANGED atomicVars
  /\ p # "module" => UNCHANGED moduleVars

Next ==
  \/ Rest("comm") /\ CommNext
  \/ Rest("pch") /\ PchNext
  \/ Rest("table") /\ TableNext
  \/ Rest("kernel") /\ KernelNext
  \/ Rest("discovery") /\ DiscoveryNext
  \/ Rest("native") /\ NativeNext
  \/ Rest("report") /\ ReportNext
  \/ Rest("android") /\ AndroidNext
  \/ Rest("heap") /\ HeapNext
  \/ Rest("atomic") /\ AtomicNext
  \/ Rest("module") /\ ModuleNext

Spec == Init /\ [][Next]_vars
-----------------------------------------------------------------------------
TypeOK ==
  /\ part \in Parts
  /\ CommTypeOK /\ PchTypeOK /\ TableTypeOK /\ KernelTypeOK
  /\ DiscoveryTypeOK /\ NativeTypeOK /\ ReportTypeOK /\ AndroidTypeOK
  /\ HeapTypeOK /\ AtomicTypeOK /\ ModuleTypeOK

(* Every search for devices, of OpenCL, of the operating system and on        *)
(* Android, has given back what it opened and allocated when it ends, however *)
(* it ends, but for one adapter of DXGI that found no room in the list        *)
(* (device/retryix_device_native.c:275), and lists only what it found.  A     *)
(* document on the network has freed its buffer of addresses unless no list   *)
(* of adapters could be had (topology/retryix_topology_ext.c:256).  And the   *)
(* documents written from the findings agree with each other.                 *)
FindingsHold ==
  DiscoveryUnwinds /\ NativeUnwinds /\ AndroidUnwinds /\ ReportUnwinds /\ DocumentsAgree
=============================================================================
