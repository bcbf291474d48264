---------------------------- MODULE ModuleStates ----------------------------
(***************************************************************************)
(* The modules that simulate their hardware: system, bridge, topology and  *)
(* zero copy, of which all that later calls depend on are flags and        *)
(* counts.  Every call of them leaves a reply: what it says, or that it    *)
(* was not asked in time.                                                  *)
(***************************************************************************)
EXTENDS Integers

VARIABLES
  system,          \* the flags of the bus scheduler, south bridge and host communication
  bridge,          \* g_universal_bridge_initialized, g_discovered_hardware_count
  mapped,          \* g_topology_discovered
  zerocopy,        \* g_zerocopy_initialized, g_dpdk_available, g_detection_score
  reply

moduleVars == <<system, bridge, mapped, zerocopy, reply>>

Off == [bus |-> FALSE, southbridge |-> FALSE, host_comm |-> FALSE, controllers |-> 0]
NoBridge == [initialized |-> FALSE, hardware |-> 0]

NoNetwork == [initialized |-> FALSE, dpdk |-> FALSE, score |-> 0]

ModuleInit ==
  /\ system = Off /\ bridge = NoBridge /\ mapped = FALSE /\ zerocopy = NoNetwork
  /\ reply = <<"none", 0>>

Done == reply' = <<"ok", 0>>
-----------------------------------------------------------------------------
(* The system module.  What is on already stays as it is. *)

system_bus_scheduler_init ==
  /\ system' = [system EXCEPT !.bus = TRUE, !.controllers = 3]
  /\ Done /\ UNCHANGED <<bridge, mapped, zerocopy>>

(* Fault: cleanup leaves what the system was told of the bus. *)
BusOff_Keep(s) == [s EXCEPT !.bus = FALSE]
BusOff(s) == [s EXCEPT !.bus = FALSE, !.controllers = 0]
system_bus_scheduler_cleanup ==
  system' = BusOff(system) /\ Done /\ UNCHANGED <<bridge, mapped, zerocopy>>

system_southbridge_init ==
  system' = [system EXCEPT !.southbridge = TRUE] /\ Done /\ UNCHANGED <<bridge, mapped, zerocopy>>
SouthbridgeOff(s) == [s EXCEPT !.southbridge = FALSE]
system_southbridge_cleanup ==
  system' = SouthbridgeOff(system) /\ Done /\ UNCHANGED <<bridge, mapped, zerocopy>>

system_host_comm_init ==
  system' = [system EXCEPT !.host_comm = TRUE] /\ Done /\ UNCHANGED <<bridge, mapped, zerocopy>>
HostCommOff(s) == [s EXCEPT !.host_comm = FALSE]
system_host_comm_cleanup ==
  system' = HostCommOff(system) /\ Done /\ UNCHANGED <<bridge, mapped, zerocopy>>

retryix_host_shutdown ==
  /\ system' = BusOff(SouthbridgeOff(HostCommOff(system)))
  /\ Done /\ UNCHANGED <<bridge, mapped, zerocopy>>

(* A reply of a module that is asked before it is on, and the count it gives. *)
Replies(ready, count) ==
  /\ reply' = IF ready THEN <<"ok", count>> ELSE <<"not initialized", 0>>
  /\ UNCHANGED <<system, bridge, mapped, zerocopy>>

system_bus_enumerate_controllers == Replies(system.bus, system.controllers)
system_southbridge_get_info == Replies(system.southbridge, 0)
retryix_send_command == Replies(system.host_comm, 0)

(* Two that answer whether or not anything is on. *)
system_bus_calculate_theoretical_bandwidth == Replies(TRUE, system.controllers * 16)
retryix_host_comm_status == Replies(TRUE, IF system.host_comm THEN 3 ELSE 0)
-----------------------------------------------------------------------------
(* The bridge module. *)

(* A second initialisation keeps the count that the discovery has left. *)
retryix_bridge_initialize_universal ==
  /\ bridge' = IF bridge.initialized THEN bridge ELSE [initialized |-> TRUE, hardware |-> 3]
  /\ Done /\ UNCHANGED <<system, mapped, zerocopy>>

retryix_initialize_device_bridge == retryix_bridge_initialize_universal

retryix_bridge_discover_hardware ==
  /\ bridge' = IF bridge.initialized THEN [bridge EXCEPT !.hardware = 1] ELSE bridge
  /\ reply' = IF bridge.initialized THEN <<"ok", 1>> ELSE <<"not initialized", 0>>
  /\ UNCHANGED <<system, mapped, zerocopy>>

retryix_bridge_nvidia_initialize == Replies(bridge.initialized, 0)
retryix_bridge_enumerate_bridges == Replies(bridge.initialized, bridge.hardware)
retryix_unified_resource_init == Replies(bridge.initialized, 0)

retryix_bridge_get_optimal_vendor(workload) ==
  CASE workload = "ML_TRAINING" -> 0 [] workload = "GRAPHICS" -> 1
    [] workload = "COMPUTE" -> 2 [] OTHER -> -1

retryix_bridge_cleanup_all ==
  bridge' = NoBridge /\ Done /\ UNCHANGED <<system, mapped, zerocopy>>
retryix_unified_cleanup == retryix_bridge_cleanup_all
-----------------------------------------------------------------------------
(* The topology module. *)

TopologyDiscovered == mapped' = TRUE /\ Done /\ UNCHANGED <<system, bridge, zerocopy>>
retryix_svm_analyze_numa_layout == Replies(mapped, 0)
retryix_svm_monitor_bandwidth == Replies(mapped, 42)

-----------------------------------------------------------------------------
(* The zero-copy module.  It finds DPDK, and 40 points, on Linux; neither it, *)
(* nor more than 20 points, on Windows; RDMA on neither.                      *)

detect_network_capabilities ==
  {[initialized |-> FALSE, dpdk |-> FALSE, score |-> 20],
   [initialized |-> FALSE, dpdk |-> TRUE, score |-> 40]}

retryix_zerocopy_net_init ==
  /\ \E found \in detect_network_capabilities :
       zerocopy' = IF zerocopy.initialized THEN zerocopy
                   ELSE [found EXCEPT !.initialized = found.score >= 20]
  /\ Done /\ UNCHANGED <<system, bridge, mapped>>

retryix_zerocopy_net_cleanup ==
  zerocopy' = NoNetwork /\ Done /\ UNCHANGED <<system, bridge, mapped>>

retryix_zerocopy_configure_dpdk == Replies(zerocopy.initialized /\ zerocopy.dpdk, 0)
retryix_zerocopy_dma_transfer == Replies(zerocopy.initialized, 0)
retryix_zerocopy_infiniband_init == Replies(zerocopy.initialized, 0)
retryix_zerocopy_get_system_health == Replies(TRUE, zerocopy.score)

ModuleNext ==
  \/ system_bus_scheduler_init \/ system_bus_scheduler_cleanup
  \/ system_southbridge_init \/ system_southbridge_cleanup
  \/ system_host_comm_init \/ system_host_comm_cleanup
  \/ retryix_host_shutdown
  \/ system_bus_enumerate_controllers \/ system_southbridge_get_info
  \/ system_bus_calculate_theoretical_bandwidth
  \/ retryix_host_comm_status \/ retryix_send_command
  \/ retryix_initialize_device_bridge \/ retryix_bridge_discover_hardware
  \/ retryix_bridge_nvidia_initialize \/ retryix_bridge_enumerate_bridges
  \/ retryix_unified_resource_init \/ retryix_unified_cleanup
  \/ TopologyDiscovered \/ retryix_svm_analyze_numa_layout \/ retryix_svm_monitor_bandwidth
  \/ retryix_zerocopy_net_init \/ retryix_zerocopy_net_cleanup
  \/ retryix_zerocopy_configure_dpdk \/ retryix_zerocopy_dma_transfer
  \/ retryix_zerocopy_infiniband_init \/ retryix_zerocopy_get_system_health

ModuleSpec == ModuleInit /\ [][ModuleNext]_moduleVars

(* The counts are there with what they count, whatever was turned on and off, *)
(* in whatever order; a module that is off gives no count.                    *)
ModuleTypeOK ==
  /\ reply[1] \in {"none", "ok", "not initialized"}
  /\ reply[2] \in {0, 1, 3, 20, 40, 42, 48}
  /\ system.bus <=> system.controllers = 3
  /\ bridge.initialized <=> bridge.hardware \in {1, 3}
  /\ zerocopy.initialized <=> zerocopy.score > 0
  /\ zerocopy.dpdk => zerocopy.score = 40
  /\ reply[1] = "not initialized" => reply[2] = 0
=============================================================================
