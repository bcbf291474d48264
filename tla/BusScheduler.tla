---------------------------- MODULE BusScheduler ----------------------------
(***************************************************************************)
(* The bus scheduler of src/bus/retryix_bus_scheduler.c: the table of NVMe *)
(* controllers, filled on the first use, and the choice of the one with    *)
(* the best score.  What limits a controller is a function of its id, as   *)
(* in the simulated detection of the code, so the table is its length.     *)
(* Bandwidths are in MB/s.  The reasons are sets of names for the          *)
(* sentences that the code joins.                                          *)
(***************************************************************************)
EXTENDS Integers, FiniteSets, FiniteSetsExt, SequencesExt

CONSTANTS
  Adapters,      \* numbers of NVMe adapters in a machine
  Unset          \* stands for a structure that was not filled in

ASSUME AdaptersAssumption == Adapters \subseteq Nat

VARIABLES
  adapters,            \* adapters present, Unset where the enumeration is refused
  g_controller_count,
  bus_initialized      \* g_initialized of this file

busVars == <<adapters, g_controller_count, bus_initialized>>

MAX_CONTROLLERS == 16

BusInit ==
  /\ adapters \in Adapters \cup {Unset}
  /\ g_controller_count = 0
  /\ bus_initialized = FALSE
-----------------------------------------------------------------------------
PowerLimited(id)  == id % 3 = 0
Throttled(id)     == id % 4 = 0
BoardLimited(id)  == id % 5 = 0
LanesExhausted(id) == id % 6 = 0

(* detect_pcie_configuration and detect_nvme_generation, alike for all. *)
ConfiguredLanes == 8
Generation == 4

LaneBandwidth(gen) ==
  CASE gen = 3 -> 985 [] gen = 5 -> 3938 [] gen = 6 -> 7875 [] OTHER -> 1969

Theoretical == LaneBandwidth(Generation) * ConfiguredLanes

Percent(x, p, applies) == IF applies THEN (x * p) \div 100 ELSE x

ActualBandwidth(id) ==
  LET power   == Percent(Theoretical, 75, PowerLimited(id))
      thermal == Percent(power, 80, Throttled(id))
  IN  Percent(thermal, 50, LanesExhausted(id))

Score(id) ==
  LET power   == Percent(ActualBandwidth(id), 80, PowerLimited(id))
      thermal == Percent(power, 70, Throttled(id))
  IN  Percent(thermal, 90, BoardLimited(id))

LimitationReason(id) ==
  LET limits == {l \in {<<"power", PowerLimited(id)>>, <<"thermal", Throttled(id)>>,
                        <<"board", BoardLimited(id)>>, <<"lanes", LanesExhausted(id)>>} : l[2]}
  IN  IF ConfiguredLanes >= 16 THEN {"best"}
      ELSE IF limits = {} THEN {"hardware"} ELSE {l[1] : l \in limits}

(* Fault: the best score so far is not kept, the last controller wins. *)
Best_Last(count) == count - 1

(* The first controller with the highest score. *)
Best(count) ==
  Min({i \in 0 .. count - 1 : \A j \in 0 .. count - 1 : Score(j) <= Score(i)})
-----------------------------------------------------------------------------
(* What the initialisation finds, and its result. *)
Found == IF adapters = Unset THEN 0 ELSE Min({adapters, MAX_CONTROLLERS})

BusReady == bus_initialized \/ Found > 0

(* The body of retryix_bus_scheduler_init, which the other calls make too. *)
EnsureBus ==
  /\ g_controller_count' = IF bus_initialized THEN g_controller_count ELSE Found
  /\ bus_initialized' = BusReady

retryix_bus_scheduler_init == EnsureBus /\ UNCHANGED adapters

(* Copies the table, or tells the caller how much room it needs. *)
retryix_bus_enumerate_controllers == EnsureBus /\ UNCHANGED adapters

(* The configuration copied out after EnsureBus: its controller and how many
   there were, Unset where there is none. *)
Optimal ==
  IF BusReady THEN [id |-> Best(g_controller_count'), of |-> g_controller_count']
              ELSE Unset

retryix_bus_get_optimal_config == EnsureBus /\ UNCHANGED adapters

(* The reason, asked without any initialisation; {} for an unknown id. *)
retryix_bus_fallback_reason(id) ==
  IF id \in 0 .. g_controller_count - 1 THEN LimitationReason(id) ELSE {}

retryix_bus_scheduler_cleanup ==
  /\ g_controller_count' = IF bus_initialized THEN 0 ELSE g_controller_count
  /\ bus_initialized' = FALSE

(* Adapters come and go. *)
Plug ==
  /\ adapters' \in (Adapters \cup {Unset}) \ {adapters}
  /\ UNCHANGED <<g_controller_count, bus_initialized>>
=============================================================================
