----------------------------- MODULE Multimodal -----------------------------
(***************************************************************************)
(* What the system reports of itself: the network, audio, device, atomic   *)
(* and SVM documents of topology/retryix_topology_ext.c, and the fixed     *)
(* inventory of modules/retryix_device_module.c that one of them embeds.   *)
(*                                                                         *)
(* An adapter is what the filter looks for in its names.  Adapters come    *)
(* while a document is being made.                                         *)
(***************************************************************************)
EXTENDS Integers, Sequences, FiniteSets

CONSTANTS
  AdapterKinds,    \* sets of marks: "loopback", "keyword", "direct", "starred", ...
  Room,            \* adapters that fit in the first 15000 bytes
  MaxAdapters,     \* bound
  AudioDevices,
  NumaNodes        \* what Windows may list of nodes; 0 when it lists nothing

ASSUME ReportAssumption == MaxAdapters \in Nat /\ AudioDevices \in Nat

VARIABLES
  installed,       \* the adapters of the machine
  report,          \* the document that is being made
  inventory        \* g_platform_count, g_device_count, g_devices_discovered

reportVars == <<installed, report, inventory>>

(* A document: its buffers of addresses are those of the first and the second *)
(* request that are allocated; `failed` when no list of adapters could be had. *)
NoReport == [at |-> "idle", whole |-> FALSE, room |-> 0, buffers |-> {}, failed |-> FALSE,
             seen |-> <<>>, nics |-> {}, virtual |-> 0, audio |-> 0, groups |-> <<>>, nodes |-> 1, native |-> FALSE]

ReportInit ==
  /\ installed = <<>>
  /\ report = NoReport
  /\ inventory = [platforms |-> 0, devices |-> 0, discovered |-> FALSE]

AdapterAppears(marks) ==
  /\ Len(installed) < MaxAdapters
  /\ installed' = Append(installed, marks)
  /\ UNCHANGED <<report, inventory>>

(* Loopbacks, names of virtual machines and tunnels, Wi-Fi Direct and starred *)
(* connections; "Virtual" with "Adapter" or "Switch", unless for Bluetooth.   *)
is_virtual_adapter(marks) ==
  \/ marks \cap {"loopback", "keyword", "direct", "starred"} # {}
  \/ {"virtual", "adapter or switch"} \subseteq marks /\ "bluetooth" \notin marks
-----------------------------------------------------------------------------
(* The network.  Asked again, with the room it wanted, when it overflows. *)

retryix_discover_network_topology_json(whole) ==
  /\ report.at = "idle"
  /\ \E memory \in BOOLEAN :
       report' = [NoReport EXCEPT !.at = "first", !.whole = whole, !.room = Room,
                                  !.buffers = IF memory THEN {"first"} ELSE {}]
  /\ UNCHANGED <<installed, inventory>>

AskAgain ==
  /\ report.at = "first" /\ Len(installed) > report.room
  /\ \E memory \in BOOLEAN :
       report' = [report EXCEPT !.at = "second", !.room = Len(installed),
                                !.buffers = (@ \ {"first"}) \cup (IF memory THEN {"second"} ELSE {})]
  /\ UNCHANGED <<installed, inventory>>

(* The adapters that are filtered, by their places in the list. *)
Filtered == {i \in DOMAIN installed : is_virtual_adapter(installed[i])}

AfterNetwork == IF report.whole THEN "audio" ELSE "done"

Walk ==
  /\ report.at \in {"first", "second"} /\ Len(installed) <= report.room
  /\ report.buffers # {}
  /\ report' = [report EXCEPT !.at = AfterNetwork, !.buffers = {}, !.seen = installed,
                  !.nics = DOMAIN installed \ Filtered,
                  !.virtual = Cardinality(Filtered)]
  /\ UNCHANGED <<installed, inventory>>

(* A failed call, a second overflow or no memory: nothing is listed, or freed. *)
ListFails ==
  /\ report.at \in {"first", "second"}
  /\ report' = [report EXCEPT !.at = AfterNetwork, !.failed = TRUE]
  /\ UNCHANGED <<installed, inventory>>
-----------------------------------------------------------------------------
(* Sound: an output that does not tell its capabilities is left out. *)

retryix_discover_audio_topology_json ==
  /\ report.at \in {"idle", "audio"}
  /\ \E answered \in 0 .. AudioDevices :
       report' = [report EXCEPT !.at = IF report.at = "audio" THEN "devices" ELSE "done",
                                !.audio = answered]
  /\ UNCHANGED <<installed, inventory>>

(* The inventory. *)

DeviceTypes == <<"CPU", "GPU", "GPU", "Accelerator">>

retryix_discover_platforms ==
  /\ inventory' = [inventory EXCEPT !.platforms = 3]
  /\ UNCHANGED <<installed, report>>

discover_all_devices == [inventory EXCEPT !.devices = 4, !.discovered = TRUE]

(* retryix_export_all_devices_json discovers in the same way. *)
retryix_enumerate_devices ==
  /\ inventory' = IF inventory.discovered THEN inventory ELSE discover_all_devices
  /\ UNCHANGED <<installed, report>>

retryix_filter_devices_by_type(type) ==
  CASE type = "GPU" -> 2 [] type = "CPU" -> 1 [] OTHER -> 0

(* What the exports say of one device, alone (retryix_export_device_info_json *)
(* says the same): only the first is a CPU; and among all of them.            *)
retryix_get_device_info(id) == IF id = 0 THEN "CPU" ELSE "GPU"
retryix_export_all_devices_json(id) == DeviceTypes[id + 1]

InGroup(group) == {id \in 0 .. 3 : DeviceTypes[id + 1] = group}

(* The devices of the whole document, by type. *)
retryix_discover_multimodal_topology_json ==
  /\ report.at = "devices"
  /\ inventory' = discover_all_devices
  /\ report' = [report EXCEPT !.at = "done",
                  !.groups = <<InGroup("CPU"), InGroup("GPU"), InGroup("Accelerator")>>]
  /\ UNCHANGED <<installed>>
-----------------------------------------------------------------------------
(* Atomics and SVM. *)

EMULATED == 4
retryix_atomic_get_128bit_capabilities == {8, 16}      \* native, and pairs

(* "native_128bit" is told from the bit of 4. *)
retryix_discover_atomic_topology_json ==
  /\ report.at = "idle"
  /\ report' = [NoReport EXCEPT !.at = "done",
                  !.native = EMULATED \in retryix_atomic_get_128bit_capabilities]
  /\ UNCHANGED <<installed, inventory>>

(* One node when the nodes are not told, or there is no memory to ask for them. *)
retryix_discover_svm_topology_json ==
  /\ report.at = "idle"
  /\ \E n \in NumaNodes, memory \in BOOLEAN :
       report' = [NoReport EXCEPT !.at = "done", !.nodes = IF n > 0 /\ memory THEN n ELSE 1]
  /\ UNCHANGED <<installed, inventory>>

numa_enabled == report.nodes > 1

retryix_free_json ==
  /\ report.at = "done"
  /\ report' = NoReport
  /\ UNCHANGED <<installed, inventory>>

ReportNext ==
  \/ \E k \in AdapterKinds : AdapterAppears(k)
  \/ \E whole \in BOOLEAN : retryix_discover_network_topology_json(whole)
  \/ AskAgain \/ Walk \/ ListFails
  \/ retryix_discover_audio_topology_json
  \/ retryix_discover_platforms \/ retryix_enumerate_devices
  \/ retryix_discover_multimodal_topology_json
  \/ retryix_discover_atomic_topology_json \/ retryix_discover_svm_topology_json
  \/ retryix_free_json

ReportSpec == ReportInit /\ [][ReportNext]_reportVars

ReportTypeOK ==
  /\ report.at \in {"idle", "first", "second", "audio", "devices", "done"}
  /\ report.virtual \in 0 .. MaxAdapters /\ report.audio \in 0 .. AudioDevices
  /\ report.buffers \subseteq {"first", "second"} /\ report.failed \in BOOLEAN
  /\ inventory.platforms \in {0, 3} /\ inventory.devices \in {0, 4}

(* Between its two requests a document on the network holds the buffer of the *)
(* one it makes and no other; when it ends it holds one only where no list of *)
(* adapters could be had, the exit on which the source does not free it.      *)
ReportUnwinds ==
  /\ report.at \in {"first", "second"} => report.buffers \subseteq {report.at}
  /\ report.at \notin {"first", "second"} /\ report.buffers # {} => report.failed
  /\ Cardinality(report.buffers) <= 1

(* The lists a document gives agree with their counts: the physical adapters  *)
(* with the filtered ones are those of the list that was walked, or none when *)
(* there was none; the groups of devices are the whole inventory and agree    *)
(* with the filter on CPUs and GPUs; and the export of one device gives it    *)
(* the type that the export of all of them does, but for the accelerator,     *)
(* which alone is called a GPU.                                               *)
DocumentsAgree ==
  /\ Cardinality(report.nics) + report.virtual = Len(report.seen)
  /\ report.failed => report.seen = <<>>
  /\ report.groups # <<>> =>
       /\ report.groups[1] \cup report.groups[2] \cup report.groups[3]
            = 0 .. inventory.devices - 1
       /\ Cardinality(report.groups[1]) = retryix_filter_devices_by_type("CPU")
       /\ Cardinality(report.groups[2]) = retryix_filter_devices_by_type("GPU")
       /\ \A id \in (0 .. inventory.devices - 1) \ report.groups[3] :
            retryix_export_all_devices_json(id) = retryix_get_device_info(id)
  /\ inventory.discovered <=> inventory.devices = 4
=============================================================================
