-------------------------- MODULE NativeDiscovery --------------------------
(***************************************************************************)
(* Finding GPUs without OpenCL, device/retryix_device_native.c, on         *)
(* Windows: Vulkan first, then DXGI, then the registry.  The other builds  *)
(* lack the Vulkan search, which they call, and do not link.               *)
(*                                                                         *)
(* Every call may fail; GPUs may appear while the search runs.  Assumed: a *)
(* Vulkan library that creates instances also has the two functions that   *)
(* destroy them and tell the memory of a GPU, which the code does not test.*)
(***************************************************************************)
EXTENDS Integers, Sequences, SequencesExt

CONSTANTS
  MaxGpus,         \* bound: GPUs of the machine
  max_devices      \* room in the caller's array

ASSUME NativeAssumption == MaxGpus \in Nat /\ max_devices \in Nat

VARIABLES
  gpus,            \* GPUs by now
  native,          \* where the search stands
  held             \* what it has opened or allocated

nativeVars == <<gpus, native, held>>

NoScan == [at |-> "idle", asked |-> 0, next |-> 1, listed |-> <<>>]
Gpu(via, n) == [via |-> via, number |-> n]

NativeInit ==
  /\ gpus \in 0 .. MaxGpus
  /\ native = NoScan
  /\ held = {}

(* External. *)
GpuAppears ==
  /\ gpus < MaxGpus
  /\ gpus' = gpus + 1
  /\ UNCHANGED <<native, held>>

retryix_discover_devices_native ==
  /\ native.at = "idle"
  /\ native' = [NoScan EXCEPT !.at = "vulkan"]
  /\ UNCHANGED <<gpus, held>>

NativeReturn ==
  /\ native.at = "done"
  /\ native' = NoScan
  /\ UNCHANGED <<gpus, held>>

(* A tier that lists nothing hands over to the next one. *)
TierBelow == CASE native.at \in {"vulkan", "instance", "count", "fetch"} -> "dxgi"
               [] native.at \in {"dxgi", "adapters"} -> "registry"
               [] native.at \in {"registry", "subkeys"} -> "done"
EndTier(listed) ==
  native' = [NoScan EXCEPT !.listed = listed,
                           !.at = IF listed = <<>> THEN TierBelow ELSE "done"]
Lists(d) == [native EXCEPT !.listed = Append(@, d), !.next = @ + 1]
HasRoom == Len(native.listed) < max_devices
-----------------------------------------------------------------------------
(* Vulkan. *)

LoadVulkan ==
  /\ native.at = "vulkan"
  /\ held' = held \cup {"library"}
  /\ native' = [native EXCEPT !.at = "instance"]
  /\ UNCHANGED gpus

CreateInstance ==
  /\ native.at = "instance"
  /\ held' = held \cup {"instance"}
  /\ native' = [native EXCEPT !.at = "count"]
  /\ UNCHANGED gpus

CountGpus ==
  /\ native.at = "count"
  /\ gpus > 0
  /\ held' = held \cup {"array"}
  /\ native' = [native EXCEPT !.at = "fetch",
                  !.asked = IF gpus > max_devices THEN max_devices ELSE gpus]
  /\ UNCHANGED gpus

(* Where there are more than asked for, the driver answers VK_INCOMPLETE, *)
(* which counts as a failure.                                             *)
FetchGpus ==
  /\ native.at = "fetch"
  /\ gpus <= native.asked
  /\ held' = held \ {"library", "instance", "array"}
  /\ EndTier([n \in 1 .. gpus |-> Gpu("vulkan", n)])
  /\ UNCHANGED gpus

VulkanFails ==
  /\ native.at \in {"vulkan", "instance", "count", "fetch"}
  /\ held' = held \ {"library", "instance", "array"}
  /\ EndTier(<<>>)
  /\ UNCHANGED gpus

query_vulkan_gpu == LoadVulkan \/ CreateInstance \/ CountGpus \/ FetchGpus \/ VulkanFails
-----------------------------------------------------------------------------
(* DXGI. *)

CreateFactory ==
  /\ native.at = "dxgi"
  /\ \/ /\ held' = held \cup {"factory"}
        /\ native' = [native EXCEPT !.at = "adapters"]
     \/ /\ EndTier(<<>>)
        /\ UNCHANGED held
  /\ UNCHANGED gpus

(* An adapter that tells no description is left out. *)
ListAdapter ==
  /\ native.at = "adapters"
  /\ native.next <= gpus /\ HasRoom
  /\ \/ native' = Lists(Gpu("dxgi", native.next))
     \/ native' = [native EXCEPT !.next = @ + 1]
  /\ UNCHANGED <<gpus, held>>

(* The adapter that found no room is not released. *)
NoRoomForAdapter ==
  /\ native.at = "adapters"
  /\ native.next <= gpus /\ ~HasRoom
  /\ held' = (held \ {"factory"}) \cup {"adapter"}
  /\ EndTier(native.listed)
  /\ UNCHANGED gpus

NoMoreAdapters ==
  /\ native.at = "adapters"
  /\ native.next > gpus
  /\ held' = held \ {"factory"}
  /\ EndTier(native.listed)
  /\ UNCHANGED gpus

query_windows_gpu_dxgi == CreateFactory \/ ListAdapter \/ NoRoomForAdapter \/ NoMoreAdapters
-----------------------------------------------------------------------------
(* The registry: one key for each GPU, read whether or not there is room left. *)

OpenClass ==
  /\ native.at = "registry"
  /\ \/ /\ held' = held \cup {"key"}
        /\ native' = [native EXCEPT !.at = "subkeys"]
     \/ /\ EndTier(<<>>)
        /\ UNCHANGED held
  /\ UNCHANGED gpus

ReadSubkey ==
  /\ native.at = "subkeys"
  /\ native.next <= gpus
  /\ \/ /\ HasRoom
        /\ native' = Lists(Gpu("registry", native.next))
     \/ native' = [native EXCEPT !.next = @ + 1]
  /\ UNCHANGED <<gpus, held>>

CloseClass ==
  /\ native.at = "subkeys"
  /\ native.next > gpus
  /\ held' = held \ {"key"}
  /\ EndTier(native.listed)
  /\ UNCHANGED gpus

query_windows_gpu_registry == OpenClass \/ ReadSubkey \/ CloseClass
NativeNext ==
  \/ GpuAppears \/ retryix_discover_devices_native \/ NativeReturn
  \/ query_vulkan_gpu \/ query_windows_gpu_dxgi
  \/ query_windows_gpu_registry

NativeSpec == NativeInit /\ [][NativeNext]_nativeVars

NativeTypeOK ==
  /\ gpus \in 0 .. MaxGpus
  /\ held \subseteq {"library", "instance", "array", "factory", "adapter", "key"}

(* A finished search holds nothing, but an adapter that found no room; its   *)
(* list fits the array, comes from one tier, and names no GPU twice, though  *)
(* GPUs appear between the calls that count and list them.                   *)
NativeUnwinds ==
  LET via(i) == native.listed[i].via IN
  /\ native.at \in {"idle", "done"} => held \subseteq {"adapter"}
  /\ "adapter" \in held => gpus > max_devices
  /\ Len(native.listed) <= max_devices
  /\ \A i, j \in DOMAIN native.listed : via(i) = via(j)
  /\ IsInjective(native.listed)
=============================================================================
