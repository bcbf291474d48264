---------------------------- MODULE SouthBridge ----------------------------
(***************************************************************************)
(* Talking to the chipset, southbridge/retryix_southbridge.c: the lanes    *)
(* the PCH has to give, which requests take and unplugged devices return,  *)
(* and its power modes.                                                    *)
(*                                                                         *)
(* A detached device returns four lanes, whatever its slot was granted,    *)
(* and a request for fewer than no lanes returns some: `overpaid` tells    *)
(* whether a slot has ever returned more than it had.                      *)
(***************************************************************************)
EXTENDS Integers, Sums

CONSTANTS
  NumSlots,
  LaneRequests,    \* lanes that requests ask for
  Priorities,
  MaxFree,         \* bound: free lanes
  MaxWatts         \* bound: tenths of a watt

ASSUME LanesAssumption == NumSlots \in Nat /\ LaneRequests \subseteq Int
ASSUME WattsAssumption == MaxWatts \in Nat /\ MaxWatts >= 65

VARIABLES
  g_southbridge_info,
  g_southbridge_initialized,
  overpaid,        \* history: a slot returned lanes that it did not have
  lanes_of         \* history, until then: lanes granted to each slot and not returned

pchVars == <<g_southbridge_info, g_southbridge_initialized, lanes_of, overpaid>>

PchSlots == 1 .. NumSlots

INTEL == 32902   \* 0x8086
AMD == 4130      \* 0x1022

(* External to the chipset code: 0x8086A282, of which the low half is taken *)
(* for the vendor.                                                          *)
read_pci_config == [vendor |-> 41602, device |-> 32902]

(* Unlisted devices of a vendor count as its flagship. *)
detect_chipset_type(id) ==
  CASE id.vendor = INTEL /\ id.device = 41603 -> "H670"    \* 0xA283
    [] id.vendor = INTEL /\ id.device = 41604 -> "B660"
    [] id.vendor = INTEL /\ id.device \notin {41603, 41604} -> "Z690"
    [] id.vendor = AMD /\ id.device = 5249 -> "B550"       \* 0x1481
    [] id.vendor = AMD /\ id.device = 5250 -> "A520"
    [] id.vendor = AMD /\ id.device \notin {5249, 5250} -> "X570"
    [] id.vendor \notin {INTEL, AMD} -> "unknown"

(* On Windows, and in other builds, which do not look. *)
Detected == {detect_chipset_type(read_pci_config), "Z690"}

PchLanes(chipset) == IF chipset = "Z690" THEN 20 ELSE 16
CpuLanes(chipset) == CASE chipset = "Z690" -> 20
                       [] chipset = "X570" -> 24
                       [] chipset \notin {"Z690", "X570"} -> 16

SATA_USB == 8            \* lanes that storage and USB occupy
SAVING == 65             \* tenths of a watt while gated
HIGH == 25               \* what high performance adds

Cleared == [chipset_type |-> "unknown", total_pch_lanes |-> 0, cpu_direct_lanes |-> 0,
            available_pch_lanes |-> 0, power_consumption |-> 0, temperature |-> 0,
            gating_active |-> FALSE, lane_allocation |-> "default"]

PchInit ==
  /\ g_southbridge_info = Cleared
  /\ g_southbridge_initialized = FALSE
  /\ lanes_of = [s \in PchSlots |-> 0]
  /\ overpaid = FALSE

retryix_southbridge_init ==
  /\ ~g_southbridge_initialized
  /\ \E chipset \in Detected :
       g_southbridge_info' =
         [chipset_type |-> chipset,
          total_pch_lanes |-> PchLanes(chipset), cpu_direct_lanes |-> CpuLanes(chipset),
          available_pch_lanes |-> PchLanes(chipset) - SATA_USB,
          power_consumption |-> SAVING, temperature |-> 45,
          gating_active |-> TRUE, lane_allocation |-> "default"]
  /\ g_southbridge_initialized' = TRUE
  /\ UNCHANGED <<lanes_of, overpaid>>

(* A slot is granted lanes, or returns some. *)
Takes(slot, lanes) ==
  LET held == lanes_of[slot] + lanes IN
  /\ overpaid' = (overpaid \/ held < 0)
  /\ lanes_of' = IF overpaid \/ held < 0 THEN [s \in PchSlots |-> 0]
                                         ELSE [lanes_of EXCEPT ![slot] = held]

(* Approved with a priority of 7 or more, or when forced. *)
Approved(priority, force) == priority >= 7 \/ force

(* Fault: the request is compared with all lanes, not with the free ones. *)
TooMany_Total(lanes) == lanes > g_southbridge_info.total_pch_lanes
TooMany(lanes) == lanes > g_southbridge_info.available_pch_lanes

(* A granted request takes its lanes; a conflict or a low priority changes nothing. *)
retryix_southbridge_coordinate_lanes(slot, lanes, priority, force) ==
  /\ g_southbridge_initialized
  /\ g_southbridge_info.available_pch_lanes - lanes <= MaxFree
  /\ ~TooMany(lanes)
  /\ Approved(priority, force)
  /\ g_southbridge_info' = [g_southbridge_info EXCEPT !.available_pch_lanes = @ - lanes]
  /\ Takes(slot, lanes)
  /\ UNCHANGED g_southbridge_initialized

RETURNED == 4            \* lanes a detached device is assumed to free

(* Attaching only reports.  A slot without any lanes can be detached too. *)
retryix_southbridge_hotplug_coordinate(slot) ==
  /\ g_southbridge_initialized
  /\ g_southbridge_info.available_pch_lanes + RETURNED <= MaxFree
  /\ g_southbridge_info' = [g_southbridge_info EXCEPT !.available_pch_lanes = @ + RETURNED]
  /\ Takes(slot, -RETURNED)
  /\ UNCHANGED g_southbridge_initialized

(* Whether a slot can run all sixteen lanes: slot 1 hangs on the CPU. *)
Feasible16x(slot) ==
  IF slot = 1 THEN g_southbridge_info.cpu_direct_lanes >= 16
              ELSE g_southbridge_info.available_pch_lanes >= 16

(* Leaving gating costs 2.5 W, once more at every call. *)
retryix_southbridge_power_coordinate(high_performance) ==
  /\ g_southbridge_initialized
  /\ \/ /\ high_performance
        /\ g_southbridge_info.temperature <= 75
        /\ g_southbridge_info.power_consumption + HIGH <= MaxWatts
        /\ g_southbridge_info' =
             [g_southbridge_info EXCEPT !.gating_active = FALSE, !.power_consumption = @ + HIGH]
     \/ /\ ~high_performance
        /\ g_southbridge_info' =
             [g_southbridge_info EXCEPT !.gating_active = TRUE, !.power_consumption = SAVING]
  /\ UNCHANGED <<g_southbridge_initialized, lanes_of, overpaid>>

(* Only the description of the lanes changes. *)
retryix_southbridge_dynamic_remap ==
  /\ g_southbridge_initialized
  /\ g_southbridge_info.chipset_type # "unknown"
  /\ g_southbridge_info' = [g_southbridge_info EXCEPT !.lane_allocation = "remapped"]
  /\ UNCHANGED <<g_southbridge_initialized, lanes_of, overpaid>>

retryix_southbridge_cleanup ==
  /\ g_southbridge_initialized
  /\ g_southbridge_info' = Cleared
  /\ g_southbridge_initialized' = FALSE
  /\ lanes_of' = [s \in PchSlots |-> 0]
  /\ overpaid' = FALSE

PchNext ==
  \/ retryix_southbridge_init \/ retryix_southbridge_cleanup
  \/ retryix_southbridge_dynamic_remap
  \/ \E slot \in PchSlots :
       \/ retryix_southbridge_hotplug_coordinate(slot)
       \/ \E lanes \in LaneRequests, priority \in Priorities, force \in BOOLEAN :
            retryix_southbridge_coordinate_lanes(slot, lanes, priority, force)
  \/ \E high \in BOOLEAN : retryix_southbridge_power_coordinate(high)

PchSpec == PchInit /\ [][PchNext]_pchVars

PchTypeOK ==
  /\ g_southbridge_info.available_pch_lanes \in Int
  /\ g_southbridge_info.power_consumption \in 0 .. MaxWatts
  /\ g_southbridge_info.gating_active \in BOOLEAN
  /\ g_southbridge_initialized \in BOOLEAN
  /\ g_southbridge_info.lane_allocation \in {"default", "remapped"}

(* No lane is granted twice: the lanes the slots hold and the free ones are  *)
(* together those that SATA and USB leave, and never fewer than none are     *)
(* free, over any order of requests, several for one slot included, and of   *)
(* detached devices, so that no slot but the first can have sixteen lanes.   *)
(* Only until a slot returns more than it was granted, which the code does   *)
(* for a device detached from a slot with fewer than four lanes: from then   *)
(* on it gives lanes the chipset does not have.                              *)
LanesWithinTotal ==
  g_southbridge_initialized /\ ~overpaid =>
    /\ g_southbridge_info.available_pch_lanes >= 0
    /\ g_southbridge_info.available_pch_lanes + SeqSum(lanes_of)
         = g_southbridge_info.total_pch_lanes - SATA_USB
    /\ \A s \in PchSlots \ {1} : ~Feasible16x(s)
=============================================================================
