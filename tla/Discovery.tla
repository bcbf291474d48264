----------------------------- MODULE Discovery -----------------------------
(***************************************************************************)
(* Finding devices: retryix_auto_initialize of core/retryix_api.c with its *)
(* retries, retryix_discover_all_devices of device/retryix_device.c, and   *)
(* the vendor bridges of utils/ that are tried where OpenCL has nothing.   *)
(*                                                                         *)
(* Every call into a driver may fail.  Drivers come up while discovery is  *)
(* under way: devices appear at any time, and do not disappear.            *)
(***************************************************************************)
EXTENDS Integers, Sequences, SequencesExt

CONSTANTS
  NumPlatforms,
  MaxPresent,      \* bound: devices of one platform
  MAX_DEVICES,     \* room in the caller's array
  Retries,         \* RETRYIX_DISCOVERY_RETRIES
  HipDevices       \* devices that the HIP runtime may count

ASSUME DiscoveryAssumption == /\ NumPlatforms \in Nat \ {0} /\ MaxPresent \in Nat
                              /\ MAX_DEVICES \in Nat /\ Retries \in Nat
                              /\ HipDevices \subseteq Nat

VARIABLES
  present,         \* of each platform, how many devices it has by now
  hip,             \* devices of the HIP runtime
  search,          \* where auto_initialize and the discovery it runs stand
  taken,           \* what the discovery has allocated or opened
  api              \* g_api_state, without its SVM context

discoveryVars == <<present, hip, search, taken, api>>

PlatformIds == 1 .. NumPlatforms
Rocm == 0                \* stands beside the platforms as a source of devices
Dummy == [source |-> -1, number |-> 0]
Device(p, i) == [source |-> p, number |-> i]

(* In the order in which they are tried. *)
Bridges == <<"cuda", "rocm", "intel_l0", "opencl_intel", "apple_metal">>

NoSearch == [at |-> "idle", attempt |-> 0, platform |-> 1, counted |-> 0,
             listed |-> <<>>, bridge |-> 1]

DiscoveryInit ==
  /\ present = [p \in PlatformIds |-> 0]
  /\ hip \in HipDevices
  /\ search = NoSearch
  /\ taken = {}
  /\ api = [is_initialized |-> FALSE, device_count |-> 0, best_device |-> Dummy]

(* External: a driver comes up. *)
DeviceAppears(p) ==
  /\ present[p] < MaxPresent
  /\ present' = [present EXCEPT ![p] = @ + 1]
  /\ UNCHANGED <<hip, search, taken, api>>

retryix_auto_initialize ==
  /\ search.at = "idle"
  /\ search' = [NoSearch EXCEPT !.at = "platforms"]
  /\ api' = [api EXCEPT !.is_initialized = TRUE, !.device_count = 1]
  /\ UNCHANGED <<present, hip, taken>>

(* An attempt that lists nothing is repeated after a pause, up to Retries times. *)
EndAttempt(listed) ==
  IF listed = <<>> /\ search.attempt < Retries
    THEN /\ search' = [NoSearch EXCEPT !.at = "platforms", !.attempt = search.attempt + 1]
         /\ UNCHANGED api
    ELSE /\ search' = [search EXCEPT !.at = "found", !.listed = listed]
         /\ api' = [api EXCEPT !.device_count = Len(listed),
                               !.best_device = IF listed = <<>> THEN Dummy ELSE listed[1]]

NoPlatforms ==
  /\ search.at = "platforms"
  /\ EndAttempt(<<>>)
  /\ UNCHANGED <<present, hip, taken>>

TakePlatforms ==
  /\ search.at = "platforms"
  /\ taken' = taken \cup {"platforms"}
  /\ search' = [search EXCEPT !.at = "fetch platforms"]
  /\ UNCHANGED <<present, hip, api>>

FetchPlatforms(ok) ==
  /\ search.at = "fetch platforms"
  /\ IF ok THEN /\ search' = [search EXCEPT !.at = "count"]
                /\ UNCHANGED <<taken, api>>
           ELSE /\ taken' = taken \ {"platforms"}
                /\ EndAttempt(<<>>)
  /\ UNCHANGED <<present, hip>>

(* The loop goes on while there are platforms and there is room. *)
MovedOn(listed) ==
  [search EXCEPT !.listed = listed, !.platform = @ + 1,
     !.at = IF search.platform < NumPlatforms /\ Len(listed) < MAX_DEVICES
              THEN "count" ELSE "release"]

(* The platform fails, has no device, or there is no memory for the array. *)
SkipPlatform ==
  /\ search.at = "count"
  /\ search' = MovedOn(search.listed)
  /\ UNCHANGED <<present, hip, taken, api>>

CountDevices ==
  /\ search.at = "count"
  /\ present[search.platform] > 0
  /\ taken' = taken \cup {"devs"}
  /\ search' = [search EXCEPT !.at = "fetch", !.counted = present[search.platform]]
  /\ UNCHANGED <<present, hip, api>>

(* Fault: the array of a platform that lists nothing is not freed. *)
NoDevices_Keep ==
  /\ search.at = "fetch"
  /\ search' = MovedOn(search.listed)
  /\ UNCHANGED <<present, hip, taken, api>>

NoDevices ==
  /\ search.at = "fetch"
  /\ taken' = taken \ {"devs"}
  /\ search' = MovedOn(search.listed)
  /\ UNCHANGED <<present, hip, api>>

(* As many as were counted, and as there is room for, in the driver's order. *)
ListDevices ==
  /\ search.at = "fetch"
  /\ LET room == MAX_DEVICES - Len(search.listed)
         n == IF search.counted < room THEN search.counted ELSE room
     IN  search' = MovedOn(search.listed \o [i \in 1 .. n |-> Device(search.platform, i)])
  /\ taken' = taken \ {"devs"}
  /\ UNCHANGED <<present, hip, api>>

ReleasePlatforms ==
  /\ search.at = "release"
  /\ taken' = taken \ {"platforms"}
  /\ IF search.listed = <<>>
       THEN search' = [search EXCEPT !.at = "bridge"] /\ UNCHANGED api
       ELSE EndAttempt(search.listed)
  /\ UNCHANGED <<present, hip>>

NextBridge(listed) ==
  IF search.bridge < Len(Bridges)
    THEN search' = [search EXCEPT !.bridge = @ + 1, !.at = "bridge", !.listed = listed]
         /\ UNCHANGED api
    ELSE EndAttempt(listed)

(* CUDA is compiled out, Metal has no symbol here, and the Intel bridges find *)
(* nothing; so does ROCm where its library does not load.                     *)
SkipBridge ==
  /\ search.at = "bridge"
  /\ NextBridge(search.listed)
  /\ UNCHANGED <<present, hip, taken>>

OpenHip ==
  /\ search.at = "bridge"
  /\ Bridges[search.bridge] = "rocm"
  /\ taken' = taken \cup {"hip"}
  /\ search' = [search EXCEPT !.at = "hip"]
  /\ UNCHANGED <<present, hip, api>>

(* In the runtime's order, as far as there is room.  Symbols or the count may be *)
(* missing, and devices that tell no name are left out.                          *)
HipLists ==
  {numbers \in UNION {[1 .. n -> 1 .. hip] : n \in 0 .. MAX_DEVICES} :
     \A i, j \in DOMAIN numbers : i < j => numbers[i] < numbers[j]}

ListHip(numbers) ==
  /\ search.at = "hip"
  /\ NextBridge([i \in DOMAIN numbers |-> Device(Rocm, numbers[i])])
  /\ taken' = taken \ {"hip"}
  /\ UNCHANGED <<present, hip>>

(* auto_initialize returns; it may be called again, and searches again. *)
AutoInitialized ==
  /\ search.at = "found"
  /\ search' = NoSearch
  /\ UNCHANGED <<present, hip, taken, api>>

retryix_discover_all_devices ==
  \/ NoPlatforms \/ TakePlatforms
  \/ \E ok \in BOOLEAN : FetchPlatforms(ok)
  \/ SkipPlatform \/ CountDevices \/ NoDevices \/ ListDevices \/ ReleasePlatforms
  \/ SkipBridge \/ OpenHip
  \/ \E numbers \in HipLists : ListHip(numbers)

DiscoveryNext ==
  \/ retryix_auto_initialize \/ retryix_discover_all_devices \/ AutoInitialized
  \/ \E p \in PlatformIds : DeviceAppears(p)

DiscoverySpec == DiscoveryInit /\ [][DiscoveryNext]_discoveryVars

DiscoveryTypeOK ==
  /\ present \in [PlatformIds -> 0 .. MaxPresent]
  /\ taken \subseteq {"platforms", "devs", "hip"}
  /\ search.attempt \in 0 .. Retries
  /\ api.device_count \in 0 .. (IF MAX_DEVICES > 1 THEN MAX_DEVICES ELSE 1)

(* Whatever failed on the way, a finished discovery has given back all it took;   *)
(* its list fits the caller's array, names no device twice and none that is not   *)
(* there; and the best device is its first, or the dummy where the list is empty. *)
DiscoveryUnwinds ==
  LET real(d) == \/ d.source \in PlatformIds /\ d.number \in 1 .. present[d.source]
                 \/ d.source = Rocm /\ d.number \in 1 .. hip
  IN  /\ search.at \in {"idle", "found"} => taken = {}
      /\ Len(search.listed) <= MAX_DEVICES
      /\ IsInjective(search.listed)
      /\ \A i \in DOMAIN search.listed : real(search.listed[i])
      /\ search.at = "found" =>
           /\ api.device_count = Len(search.listed)
           /\ api.best_device = IF search.listed = <<>> THEN Dummy ELSE search.listed[1]
=============================================================================
