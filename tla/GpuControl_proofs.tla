-------------------------- MODULE GpuControl_proofs --------------------------
(***************************************************************************)
(* Proofs about the direct control of the GPU: the choice of the bus       *)
(* controller, the mappings, and the ring, for any number of handles and   *)
(* addresses, any sizes of the ring, and any threads.                      *)
(*                                                                         *)
(* The three parts of the state are independent of each other, so there    *)
(* are three inductive invariants: BusInv, MapInv and RingInv.             *)
(***************************************************************************)
EXTENDS GpuControl, NumberLaws

(* The only choices there can be are those of a table of some length. *)
Configs == {[id |-> Best(n), of |-> n] : n \in 1 .. MAX_CONTROLLERS}

Devices ==
  [initialized : BOOLEAN, bar0 : 0 .. MaxMaps, bar2 : 0 .. MaxMaps, bar5 : 0 .. MaxMaps,
   bus_info : Configs \cup {Unset}]

BusInv ==
  /\ adapters \in Adapters \cup {Unset}
  /\ g_controller_count \in 0 .. MAX_CONTROLLERS
  /\ bus_initialized \in BOOLEAN
  /\ g_controller_count > 0 <=> bus_initialized
-----------------------------------------------------------------------------
MapTypes ==
  /\ handles \subseteq 1 .. MaxHandles
  /\ mapped \subseteq 1 .. MaxMaps
  /\ g_winring0_handle \in handles \cup {INVALID}
  /\ mapping \in [Bars -> [handle : -1 .. MaxHandles, address : 0 .. MaxMaps]]
  /\ dev \in Devices
  /\ phase \in Bars \cup {"none", "find", "verify"}

(* Room for n more handles and m more mappings. *)
Room(n, m) == Cardinality(handles) + n <= MaxHandles /\ Cardinality(mapped) + m <= MaxMaps

(* Nothing is open or mapped that was not found, but for hs and ms. *)
Added(hs, ms) == handles \subseteq found.handles \cup hs /\ mapped \subseteq found.mapped \cup ms

(* What an initialisation has reached, phase by phase. *)
AtFind == Room(4, 3) /\ Added({}, {})

AtBar0 == Room(3, 3) /\ Added({g_winring0_handle}, {})

AtBar2 ==
  /\ Room(2, 2)
  /\ Own("bar0")
  /\ Added({g_winring0_handle, mapping["bar0"].handle}, {mapping["bar0"].address})

AtBar5 == Room(1, 1) /\ Own("bar0") /\ Own("bar2") /\ Apart("bar0", "bar2")

Phases ==
  /\ phase # "none" => ~dev.initialized
  /\ phase \in Bars \cup {"verify"} => g_winring0_handle \in handles
  /\ phase \in {"find", "bar0"} => dev.bar0 = NULL
  /\ phase \in {"find", "bar0", "bar2"} => dev.bar2 = NULL
  /\ phase \in {"find", "bar0", "bar2", "bar5"} => dev.bar5 = NULL
  /\ phase = "find" => AtFind
  /\ phase = "bar0" => AtBar0
  /\ phase = "bar2" => AtBar2
  /\ phase = "bar5" => AtBar5
  /\ phase = "verify" \/ dev.initialized => Connected

MapInv == MapTypes /\ Phases
-----------------------------------------------------------------------------
PcStates == {"idle", "status", "doorbell", "poll", "sleep", "modify", "copy"}

RingTypes ==
  /\ ring \in [size : RingSizes, rptr : Nat, wptr : Nat, control : SUBSET Controls]
  /\ ring.rptr < Words /\ ring.wptr < Words
  /\ queue \in Seq(Nat \ {0})
  /\ pc \in [Threads -> PcStates]
  /\ local = [t \in Threads |-> local[t]]
  /\ answer \in [Threads -> {"none", "idle", "busy", "timeout"}]

(* What a thread carries from one step of a call to the next. *)
Carried ==
  \A t \in Threads :
    /\ pc[t] = "status" => /\ t \in Dispatchers
                           /\ local[t].dwords \in Nat \ {0}
    /\ pc[t] = "doorbell" => /\ t \in Dispatchers
                             /\ local[t].dwords \in Nat \ {0}
                             /\ local[t].wptr \in Nat
    /\ pc[t] = "modify" => local[t].old \subseteq Controls /\ local[t].value \subseteq Controls
    /\ pc[t] = "copy" => /\ local[t].offset \in Nat /\ local[t].size \in Nat
                         /\ InWindow(local[t].offset, local[t].size)

OneDispatcher == \A t, u \in Dispatchers : t = u

PointersMatchQueue == (ring.rptr + Total(queue)) % Words = ring.wptr

(* The write pointer that was read is the one in the register, as nobody else
   submits or resets. *)
Announced ==
  OneDispatcher =>
    /\ PointersMatchQueue
    /\ \A t \in Dispatchers : pc[t] = "doorbell" => local[t].wptr = ring.wptr

(* Whoever has learned that the GPU is idle finds the ring empty until it
   submits, so that the space was computed for an empty ring. *)
Empty ==
  OneDispatcher /\ WaitsForIdle =>
    /\ Total(queue) <= Words - 2
    /\ \A t \in Dispatchers :
         /\ answer[t] = "idle" \/ pc[t] \in {"status", "doorbell"} => queue = << >>
         /\ pc[t] = "status" => local[t].rptr = ring.rptr
         /\ pc[t] = "doorbell" => local[t].dwords <= Words - 2

RingInv == RingTypes /\ Carried /\ Announced /\ Empty
-----------------------------------------------------------------------------
(* The choice of the controller. *)
LEMMA PercentLess ==
  ASSUME NEW x \in Nat, NEW p \in 1 .. 99
  PROVE  (x * p) \div 100 \in Nat /\ (x > 0 => (x * p) \div 100 < x) /\ (x * p) \div 100 <= x
<1> DEFINE a == x * p
           q == a \div 100
<1>1. a \in Nat /\ a <= 99 * x
  <2>1. x * (99 - p) \in Nat
    OBVIOUS
  <2> QED
    BY <2>1
<1> HIDE DEF a
<1>2. a = 100 * q + (a % 100) /\ a % 100 \in 0 .. 99 /\ q \in Int
  BY <1>1, DivisionWithRest
<1> HIDE DEF q
<1>3. q \in Nat /\ 100 * q <= 99 * x
  BY <1>1, <1>2
<1> QED
  BY <1>3 DEF a, q

LEMMA PercentIs ==
  ASSUME NEW x \in Nat, NEW p \in 1 .. 99, NEW applies \in BOOLEAN
  PROVE  /\ Percent(x, p, applies) \in Nat
         /\ Percent(x, p, applies) <= x
         /\ applies /\ x > 0 => Percent(x, p, applies) < x
         /\ ~applies => Percent(x, p, applies) = x
<1>1. CASE applies
  <2>1. Percent(x, p, applies) = (x * p) \div 100
    BY <1>1 DEF Percent
  <2> QED
    BY <1>1, <2>1, PercentLess
<1>2. CASE ~applies
  BY <1>2 DEF Percent
<1> QED
  BY <1>1, <1>2

Unlimited(id) ==
  ~PowerLimited(id) /\ ~Throttled(id) /\ ~BoardLimited(id) /\ ~LanesExhausted(id)

LEMMA ReasonOfUnlimited ==
  ASSUME NEW id \in Nat
  PROVE  LimitationReason(id) = {"hardware"} <=> Unlimited(id)
<1> DEFINE all == {<<"power", PowerLimited(id)>>, <<"thermal", Throttled(id)>>,
                   <<"board", BoardLimited(id)>>, <<"lanes", LanesExhausted(id)>>}
           limits == {l \in all : l[2]}
<1>1. LimitationReason(id) = IF limits = {} THEN {"hardware"} ELSE {l[1] : l \in limits}
  BY DEF LimitationReason, ConfiguredLanes
<1>2. limits = {} <=> Unlimited(id)
  <2> DEFINE p == PowerLimited(id)
             h == Throttled(id)
             b == BoardLimited(id)
             n == LanesExhausted(id)
  <2>1. p \in BOOLEAN /\ h \in BOOLEAN /\ b \in BOOLEAN /\ n \in BOOLEAN
    BY DEF PowerLimited, Throttled, LanesExhausted, BoardLimited
  <2>2. Unlimited(id) <=> ~p /\ ~h /\ ~b /\ ~n
    BY DEF Unlimited
  <2> HIDE DEF p, h, b, n
  <2>3. /\ <<"power", p>>[2] = p /\ <<"thermal", h>>[2] = h
        /\ <<"board", b>>[2] = b /\ <<"lanes", n>>[2] = n
    OBVIOUS
  <2>4. limits = {l \in {<<"power", p>>, <<"thermal", h>>, <<"board", b>>, <<"lanes", n>>} : l[2]}
    BY DEF p, h, b, n
  <2> HIDE DEF all, limits
  <2> QED
    BY <2>1, <2>2, <2>3, <2>4
<1>3. \A l \in limits : l[1] # "hardware"
  OBVIOUS
<1> HIDE DEF limits
<1> QED
  BY <1>1, <1>2, <1>3

(* A controller has the full score exactly if nothing limits it. *)
LEMMA ScoreIs ==
  ASSUME NEW id \in Nat
  PROVE  /\ Score(id) \in Nat /\ Theoretical \in Nat
         /\ Score(id) <= Theoretical
         /\ Score(id) = Theoretical <=> Unlimited(id)
<1> DEFINE T == Theoretical
           P == PowerLimited(id)
           H == Throttled(id)
           L == LanesExhausted(id)
           B == BoardLimited(id)
           a1 == Percent(T, 75, P)
           a2 == Percent(a1, 80, H)
           a3 == Percent(a2, 50, L)
           s1 == Percent(a3, 80, P)
           s2 == Percent(s1, 70, H)
           s3 == Percent(s2, 90, B)
<1>1. T \in Nat /\ T > 0
  BY DEF Theoretical, LaneBandwidth, Generation, ConfiguredLanes
<1>2. P \in BOOLEAN /\ H \in BOOLEAN /\ L \in BOOLEAN /\ B \in BOOLEAN
  BY DEF PowerLimited, Throttled, LanesExhausted, BoardLimited
<1>3. Score(id) = s3
  BY DEF Score, ActualBandwidth
<1> HIDE DEF T, P, H, L, B
<1>4. a1 \in Nat /\ a1 <= T /\ (P => a1 < T) /\ (~P => a1 = T)
  BY <1>1, <1>2, PercentIs
<1> HIDE DEF a1
<1>5. a2 \in Nat /\ a2 <= a1 /\ (H /\ a1 > 0 => a2 < a1) /\ (~H => a2 = a1)
  BY <1>2, <1>4, PercentIs
<1> HIDE DEF a2
<1>6. a3 \in Nat /\ a3 <= a2 /\ (L /\ a2 > 0 => a3 < a2) /\ (~L => a3 = a2)
  BY <1>2, <1>5, PercentIs
<1> HIDE DEF a3
<1>7. s1 \in Nat /\ s1 <= a3 /\ (P /\ a3 > 0 => s1 < a3) /\ (~P => s1 = a3)
  BY <1>2, <1>6, PercentIs
<1> HIDE DEF s1
<1>8. s2 \in Nat /\ s2 <= s1 /\ (H /\ s1 > 0 => s2 < s1) /\ (~H => s2 = s1)
  BY <1>2, <1>7, PercentIs
<1> HIDE DEF s2
<1>9. s3 \in Nat /\ s3 <= s2 /\ (B /\ s2 > 0 => s3 < s2) /\ (~B => s3 = s2)
  BY <1>2, <1>8, PercentIs
<1> HIDE DEF s3
<1>10. s3 <= T /\ (s3 = T <=> ~P /\ ~H /\ ~L /\ ~B)
  BY <1>1, <1>2, <1>4, <1>5, <1>6, <1>7, <1>8, <1>9
<1>11. Unlimited(id) <=> ~P /\ ~H /\ ~L /\ ~B
  BY DEF Unlimited, P, H, L, B
<1> QED
  BY <1>1, <1>3, <1>9, <1>10, <1>11 DEF T

(* If nothing limits some controller of the table, then nothing limits the
   one that is chosen. *)
LEMMA BestIsUnlimited ==
  ASSUME NEW n \in Nat, NEW u \in 0 .. n - 1, Unlimited(u)
  PROVE  Best(n) \in 0 .. n - 1 /\ Unlimited(Best(n))
<1> DEFINE M == {i \in 0 .. n - 1 : \A j \in 0 .. n - 1 : Score(j) <= Score(i)}
<1>1. \A i \in 0 .. n - 1 : /\ Score(i) \in Nat /\ Theoretical \in Nat
                            /\ Score(i) <= Theoretical
                            /\ Score(i) = Theoretical <=> Unlimited(i)
  BY ScoreIs
<1>2. M \in SUBSET Nat /\ u \in M
  BY <1>1
<1>3. Best(n) = Min(M)
  BY DEF Best
<1>4. Best(n) \in M
  <2> HIDE DEF M
  <2> QED
    BY <1>2, <1>3, MinIsLeast
<1>5. Score(u) <= Score(Best(n)) /\ Best(n) \in 0 .. n - 1
  BY <1>4
<1> QED
  BY <1>1, <1>5

LEMMA ConfigsAreUnlimited ==
  ASSUME NEW c \in Configs
  PROVE  \/ LimitationReason(c.id) = {"hardware"}
         \/ \A i \in 0 .. c.of - 1 : LimitationReason(i) # {"hardware"}
<1>1. PICK n \in 1 .. MAX_CONTROLLERS : c = [id |-> Best(n), of |-> n]
  BY DEF Configs
<1>2. n \in Nat /\ c.id = Best(n) /\ c.of = n
  BY <1>1 DEF MAX_CONTROLLERS
<1>3. ASSUME NEW i \in 0 .. n - 1, LimitationReason(i) = {"hardware"}
      PROVE  LimitationReason(Best(n)) = {"hardware"}
  <2>1. i \in Nat /\ Unlimited(i)
    BY <1>3, ReasonOfUnlimited
  <2>2. Best(n) \in Nat /\ Unlimited(Best(n))
    BY <1>2, <2>1, BestIsUnlimited
  <2> QED
    BY <2>2, ReasonOfUnlimited
<1> QED
  BY <1>2, <1>3
-----------------------------------------------------------------------------
(* The scheduler. *)
LEMMA FoundIs ==
  ASSUME adapters \in Adapters \cup {Unset}
  PROVE  Found \in 0 .. MAX_CONTROLLERS
<1>1. CASE adapters = Unset
  BY <1>1 DEF Found, MAX_CONTROLLERS
<1>2. CASE adapters # Unset
  <2>1. {adapters, MAX_CONTROLLERS} \in SUBSET Nat /\ {adapters, MAX_CONTROLLERS} # {}
    BY <1>2, AdaptersAssumption DEF MAX_CONTROLLERS
  <2>2. Min({adapters, MAX_CONTROLLERS}) \in Nat /\ Min({adapters, MAX_CONTROLLERS}) <= MAX_CONTROLLERS
    BY <2>1, MinIsLeast
  <2> QED
    BY <1>2, <2>2 DEF Found, MAX_CONTROLLERS
<1> QED
  BY <1>1, <1>2

LEMMA EnsureBusKeeps ==
  ASSUME BusInv, EnsureBus, UNCHANGED adapters
  PROVE  BusInv' /\ Optimal \in Configs \cup {Unset}
<1>1. Found \in 0 .. MAX_CONTROLLERS
  BY FoundIs DEF BusInv
<1>2. BusInv'
  BY <1>1 DEF BusInv, EnsureBus, BusReady, MAX_CONTROLLERS
<1>3. BusReady => g_controller_count' \in 1 .. MAX_CONTROLLERS
  BY <1>1 DEF BusInv, EnsureBus, BusReady, MAX_CONTROLLERS
<1> QED
  BY <1>2, <1>3 DEF Optimal, Configs

LEMMA CleanupKeeps ==
  ASSUME BusInv, retryix_bus_scheduler_cleanup, UNCHANGED adapters
  PROVE  BusInv'
<1>1. g_controller_count' = 0 /\ bus_initialized' = FALSE
  BY DEF BusInv, retryix_bus_scheduler_cleanup, MAX_CONTROLLERS
<1>2. ~bus_initialized' /\ ~(g_controller_count' > 0)
  BY <1>1
<1>3. bus_initialized' \in BOOLEAN
  BY <1>1
<1>4. g_controller_count' \in 0 .. MAX_CONTROLLERS
  <2>1. g_controller_count' = 0
    BY <1>1
  <2> QED
    BY <2>1 DEF MAX_CONTROLLERS
<1>5. adapters' \in Adapters \cup {Unset}
  BY DEF BusInv
<1> QED
  BY <1>2, <1>3, <1>4, <1>5 DEF BusInv

LEMMA BusClientKeeps ==
  ASSUME BusInv, BusClient \/ Plug
  PROVE  BusInv'
<1>1. CASE BusClient
  BY <1>1, EnsureBusKeeps, CleanupKeeps
  DEF BusClient, retryix_bus_scheduler_init, retryix_bus_enumerate_controllers,
      retryix_bus_get_optimal_config
<1>2. CASE Plug
  BY <1>2 DEF Plug, BusInv
<1> QED
  BY <1>1, <1>2
-----------------------------------------------------------------------------
(* Opening the drivers and mapping. *)
LEMMA LowestIs ==
  ASSUME NEW max \in Nat, NEW taken \in SUBSET (1 .. max), NEW k \in Nat \ {0},
         Cardinality(taken) + k <= max
  PROVE  /\ Lowest(taken, max) \in (1 .. max) \ taken
         /\ Cardinality(taken \cup {Lowest(taken, max)}) + (k - 1) <= max
<1>1. IsFiniteSet(1 .. max) /\ Cardinality(1 .. max) = max
  BY FS_Interval
<1>2. IsFiniteSet(taken) /\ Cardinality(taken) \in Nat
  BY <1>1, FS_Subset, FS_CardinalityType
<1>3. (1 .. max) \ taken # {}
  <2> SUFFICES ASSUME (1 .. max) \ taken = {} PROVE FALSE
    OBVIOUS
  <2>1. taken = 1 .. max
    OBVIOUS
  <2> QED
    BY <1>1, <1>2, <2>1
<1>4. Lowest(taken, max) \in (1 .. max) \ taken
  <2> DEFINE free == (1 .. max) \ taken
  <2>1. free \in SUBSET Nat
    OBVIOUS
  <2> HIDE DEF free
  <2>2. Min(free) \in free
    BY <1>3, <2>1, MinIsLeast DEF free
  <2> QED
    BY <2>2 DEF Lowest, free
<1>5. Cardinality(taken \cup {Lowest(taken, max)}) = Cardinality(taken) + 1
  BY <1>2, <1>4, FS_AddElement
<1> QED
  BY <1>2, <1>4, <1>5

Records == [handle : -1 .. MaxHandles, address : 0 .. MaxMaps]

LEMMA Counts ==
  ASSUME MapTypes
  PROVE  /\ IsFiniteSet(handles) /\ IsFiniteSet(mapped)
         /\ Cardinality(handles) \in Nat /\ Cardinality(mapped) \in Nat
<1>1. IsFiniteSet(1 .. MaxHandles) /\ IsFiniteSet(1 .. MaxMaps)
  BY BoundsAssumption, FS_Interval
<1>2. IsFiniteSet(handles) /\ IsFiniteSet(mapped)
  BY <1>1, FS_Subset DEF MapTypes
<1> QED
  BY <1>2, FS_CardinalityType

(* What a mapping can come to: a handle and an address that nobody has, or a
   record whose handle is not open. *)
Succeeded(o, hs, ms) ==
  /\ o.record \in Records
  /\ o.record.handle \in (1 .. MaxHandles) \ hs /\ o.record.address \in (1 .. MaxMaps) \ ms
  /\ o.handles = hs \cup {o.record.handle} /\ o.mapped = ms \cup {o.record.address}
  /\ Cardinality(o.handles) = Cardinality(hs) + 1 /\ Cardinality(o.mapped) = Cardinality(ms) + 1

Failed(o, hs, ms) ==
  /\ o.record \in Records
  /\ o.record.handle \notin hs
  /\ o.handles = hs /\ o.mapped = ms

LEMMA Outcomes ==
  ASSUME MapTypes, NEW b \in Bars, NEW n \in Nat \ {0}, NEW m \in Nat \ {0}, Room(n, m),
         NEW o \in map_physical_memory(b)
  PROVE  /\ o.ok \in BOOLEAN
         /\ IF o.ok THEN Succeeded(o, handles, mapped) ELSE Failed(o, handles, mapped)
<1> DEFINE h == Lowest(handles, MaxHandles)
           a == Lowest(mapped, MaxMaps)
<1>1. h \in (1 .. MaxHandles) \ handles /\ a \in (1 .. MaxMaps) \ mapped
  BY BoundsAssumption, LowestIs DEF MapTypes, Room
<1>2. /\ Cardinality(handles \cup {h}) = Cardinality(handles) + 1
      /\ Cardinality(mapped \cup {a}) = Cardinality(mapped) + 1
  BY <1>1, Counts, FS_AddElement
<1>3. mapping[b] \in Records
  BY DEF MapTypes, Records
<1>4. INVALID \notin handles /\ INVALID \in -1 .. MaxHandles
  BY BoundsAssumption DEF MapTypes, INVALID
<1> DEFINE none == [ok |-> FALSE, record |-> [mapping[b] EXCEPT !.handle = INVALID],
                    handles |-> handles, mapped |-> mapped]
           late == [ok |-> FALSE, record |-> [mapping[b] EXCEPT !.handle = h],
                    handles |-> handles, mapped |-> mapped]
           done == [ok |-> TRUE, record |-> [handle |-> h, address |-> a],
                    handles |-> handles \cup {h}, mapped |-> mapped \cup {a}]
<1>5. o \in {none, late, done}
  BY DEF map_physical_memory
<1> HIDE DEF h, a
<1>6. CASE o = none
  BY <1>3, <1>4, <1>6 DEF Failed, Records
<1>7. CASE o = late
  BY <1>1, <1>3, <1>7 DEF Failed, Records
<1>8. CASE o = done
  <2>1. /\ o.ok = TRUE /\ o.record = [handle |-> h, address |-> a]
        /\ o.handles = handles \cup {h} /\ o.mapped = mapped \cup {a}
    BY <1>8
  <2>2. o.record \in Records /\ o.record.handle = h /\ o.record.address = a
    BY <1>1, <2>1 DEF Records
  <2> HIDE DEF done
  <2> QED
    BY <1>1, <1>2, <2>1, <2>2 DEF Succeeded
<1> QED
  BY <1>5, <1>6, <1>7, <1>8
-----------------------------------------------------------------------------
(* The invariant of the mappings, action by action. *)
LEMMA MapUnmoved ==
  ASSUME MapInv, UNCHANGED mapVars
  PROVE  MapInv'
  BY DEF MapInv, mapVars, MapTypes, Phases, AtFind, AtBar0, AtBar2, AtBar5, Room, Added, Own,
         Apart, Connected

LEMMA InitKeepsMap ==
  ASSUME BusInv, MapInv, retryix_gpu_hw_init
  PROVE  MapInv'
<1>1. /\ Optimal \in Configs \cup {Unset}
      /\ Room(4, 3)
      /\ dev' = [Zeroed EXCEPT !.bus_info = Optimal]
      /\ phase' = "find" /\ found' = [handles |-> handles, mapped |-> mapped]
      /\ UNCHANGED <<handles, mapped, g_winring0_handle, mapping>>
  BY EnsureBusKeeps DEF retryix_gpu_hw_init, Room
<1>2. /\ dev' = [initialized |-> FALSE, bar0 |-> NULL, bar2 |-> NULL, bar5 |-> NULL,
                 bus_info |-> Optimal]
  BY <1>1 DEF Zeroed
<1>3. NULL \in 0 .. MaxMaps
  BY BoundsAssumption DEF NULL
<1>4. MapTypes'
  <2>1. dev' \in Devices
    <3>1. PICK c \in Configs \cup {Unset} :
            dev' = [initialized |-> FALSE, bar0 |-> NULL, bar2 |-> NULL, bar5 |-> NULL,
                    bus_info |-> c]
      BY <1>1, <1>2
    <3> QED
      BY <1>3, <3>1 DEF Devices
  <2> QED
    BY <1>1, <2>1 DEF MapInv, MapTypes
<1>5. Phases'
  BY <1>1, <1>2 DEF Phases, AtFind, Room, Added, Bars
<1> QED
  BY <1>4, <1>5 DEF MapInv

LEMMA FindKeepsMap ==
  ASSUME MapInv, find_amd_gpu_pci_address
  PROVE  MapInv'
<1>1. /\ phase = "find" /\ phase' \in {"bar0", "none"}
      /\ phase' = "bar0" => found' = found /\ init_winring0
      /\ UNCHANGED <<mapped, mapping, dev>>
      /\ init_winring0 \/ UNCHANGED <<handles, g_winring0_handle>>
  BY DEF find_amd_gpu_pci_address
<1>2. Room(4, 3) /\ handles \subseteq found.handles /\ mapped \subseteq found.mapped
  BY <1>1 DEF MapInv, Phases, AtFind, Added
<1>3. dev.initialized = FALSE /\ dev.bar0 = NULL /\ dev.bar2 = NULL /\ dev.bar5 = NULL
  BY <1>1 DEF MapInv, MapTypes, Devices, Phases
<1>4. /\ handles' \subseteq 1 .. MaxHandles
      /\ g_winring0_handle' \in handles' \cup {INVALID}
      /\ init_winring0 => /\ g_winring0_handle' \in handles'
                          /\ handles' \subseteq handles \cup {g_winring0_handle'}
                          /\ Cardinality(handles') + 3 <= MaxHandles
  <2>1. CASE init_winring0 /\ g_winring0_handle = INVALID
    <3>1. /\ g_winring0_handle' = Lowest(handles, MaxHandles)
          /\ handles' = handles \cup {Lowest(handles, MaxHandles)}
      BY <2>1 DEF init_winring0
    <3>2. /\ Lowest(handles, MaxHandles) \in 1 .. MaxHandles
          /\ Cardinality(handles \cup {Lowest(handles, MaxHandles)}) + (4 - 1) <= MaxHandles
      <4>1. MaxHandles \in Nat /\ handles \in SUBSET (1 .. MaxHandles)
        BY BoundsAssumption DEF MapInv, MapTypes
      <4>2. Cardinality(handles) + 4 <= MaxHandles /\ 4 \in Nat \ {0}
        BY <1>2 DEF Room
      <4> QED
        BY <4>1, <4>2, LowestIs
    <3> DEFINE h == Lowest(handles, MaxHandles)
    <3>3. Cardinality(handles \cup {h}) + 3 <= MaxHandles
      <4>1. 4 - 1 = 3
        OBVIOUS
      <4> QED
        BY <3>2, <4>1
    <3>4. handles \subseteq 1 .. MaxHandles
      BY DEF MapInv, MapTypes
    <3> HIDE DEF h
    <3> QED
      BY <3>1, <3>2, <3>3, <3>4 DEF h
  <2>2. CASE UNCHANGED <<handles, g_winring0_handle>> /\ ~(init_winring0 /\ g_winring0_handle = INVALID)
    <3>1. Cardinality(handles) \in Nat
      BY Counts DEF MapInv
    <3>2. Cardinality(handles) + 3 <= MaxHandles
      BY <1>2, <3>1, BoundsAssumption DEF Room
    <3> QED
      BY <2>2, <3>2 DEF MapInv, MapTypes
  <2> QED
    BY <1>1, <2>1, <2>2 DEF init_winring0
<1>5. MapTypes'
  <2>1. phase' \in Bars \cup {"none", "find", "verify"}
    BY <1>1 DEF Bars
  <2> QED
    BY <1>1, <1>4, <2>1 DEF MapInv, MapTypes
<1>6. Phases'
  <2>1. CASE phase' = "none"
    BY <1>1, <1>3, <2>1 DEF Phases, Bars
  <2>2. CASE phase' = "bar0"
    <3>1. AtBar0'
      BY <1>1, <1>2, <1>4, <2>2 DEF AtBar0, Room, Added
    <3> QED
      BY <1>1, <1>3, <1>4, <2>2, <3>1 DEF Phases, Bars
  <2> QED
    BY <1>1, <2>1, <2>2
<1> QED
  BY <1>5, <1>6 DEF MapInv

(* A mapping that succeeds or fails without undoing another. *)
LEMMA OneMapping ==
  ASSUME MapInv, NEW b \in Bars, NEW o, NEW n \in Nat,
         mapping' = [mapping EXCEPT ![b] = o.record],
         handles' = o.handles, mapped' = o.mapped, g_winring0_handle' = g_winring0_handle,
         IF o.ok THEN Succeeded(o, handles, mapped) ELSE Failed(o, handles, mapped),
         dev' = IF o.ok THEN [dev EXCEPT ![b] = o.record.address] ELSE dev,
         phase' \in Bars \cup {"none", "find", "verify"}
  PROVE  /\ MapTypes'
         /\ mapping[b]' = o.record
         /\ \A c \in Bars \ {b} : mapping[c]' = mapping[c] /\ dev[c]' = dev[c]
         /\ dev[b]' = IF o.ok THEN o.record.address ELSE dev[b]
         /\ dev.initialized' = dev.initialized
         /\ \A c \in Bars \ {b} : Own(c) => Own(c)'
<1>1. /\ handles \subseteq 1 .. MaxHandles /\ mapped \subseteq 1 .. MaxMaps
      /\ g_winring0_handle \in handles \cup {INVALID}
      /\ mapping \in [Bars -> Records]
      /\ dev \in Devices
      /\ o.record \in Records
  BY DEF MapInv, MapTypes, Records, Succeeded, Failed
<1>2. /\ handles \subseteq handles' /\ mapped \subseteq mapped'
      /\ handles' \subseteq 1 .. MaxHandles /\ mapped' \subseteq 1 .. MaxMaps
  BY <1>1 DEF Succeeded, Failed
<1>3. /\ mapping' \in [Bars -> Records]
      /\ mapping'[b] = o.record
      /\ \A c \in Bars \ {b} : mapping'[c] = mapping[c]
  BY <1>1
<1>4. o.ok => o.record.address \in 0 .. MaxMaps
  BY BoundsAssumption DEF Succeeded
<1>5. /\ dev' \in Devices
      /\ \A c \in Bars \ {b} : dev'[c] = dev[c]
      /\ dev'[b] = IF o.ok THEN o.record.address ELSE dev[b]
      /\ dev'.initialized = dev.initialized
  <2>1. CASE ~o.ok
    BY <1>1, <2>1
  <2>2. CASE o.ok /\ b = "bar0"
    BY <1>1, <1>4, <2>2 DEF Devices, Bars
  <2>3. CASE o.ok /\ b = "bar2"
    BY <1>1, <1>4, <2>3 DEF Devices, Bars
  <2>4. CASE o.ok /\ b = "bar5"
    BY <1>1, <1>4, <2>4 DEF Devices, Bars
  <2> QED
    BY <2>1, <2>2, <2>3, <2>4 DEF Bars
<1>6. MapTypes'
  BY <1>1, <1>2, <1>3, <1>5 DEF MapTypes, Records
<1>7. \A c \in Bars \ {b} : Own(c) => Own(c)'
  BY <1>2, <1>3, <1>5 DEF Own
<1> QED
  BY <1>3, <1>5, <1>6, <1>7

LEMMA Bar0KeepsMap ==
  ASSUME MapInv, enumerate_amd_gpu_bars("bar0")
  PROVE  MapInv'
<1> DEFINE b == "bar0"
<1>1. /\ b \in Bars /\ phase = b
      /\ g_winring0_handle' = g_winring0_handle
      /\ phase' = "none" \/ found' = found
  BY DEF enumerate_amd_gpu_bars, Bars
<1>2. /\ MapTypes /\ Room(3, 3) /\ Added({g_winring0_handle}, {})
      /\ g_winring0_handle \in handles
      /\ dev.initialized = FALSE /\ dev.bar2 = NULL /\ dev.bar5 = NULL
  BY <1>1 DEF MapInv, MapTypes, Devices, Phases, AtBar0, Bars
<1>3. PICK o \in map_physical_memory(b) :
        /\ mapping' = [mapping EXCEPT ![b] = o.record]
        /\ handles' = o.handles /\ mapped' = o.mapped
        /\ dev' = IF o.ok THEN [dev EXCEPT ![b] = o.record.address] ELSE dev
        /\ phase' = IF o.ok THEN "bar2" ELSE "none"
  BY DEF enumerate_amd_gpu_bars, MapSucceeds, MapFails, After
<1>4. /\ o.ok \in BOOLEAN
      /\ IF o.ok THEN Succeeded(o, handles, mapped) ELSE Failed(o, handles, mapped)
  BY <1>1, <1>2, Outcomes
<1>5. /\ MapTypes'
      /\ mapping'[b] = o.record
      /\ dev'.bar2 = NULL /\ dev'.bar5 = NULL
      /\ dev'[b] = IF o.ok THEN o.record.address ELSE dev[b]
      /\ dev'.initialized = FALSE
  BY <1>1, <1>2, <1>3, <1>4, OneMapping DEF Bars
<1>6. CASE ~o.ok
  BY <1>3, <1>5, <1>6 DEF MapInv, Phases, Bars
<1>7. CASE o.ok
  <2>1. /\ phase' = "bar2" /\ found' = found
        /\ handles' = handles \cup {o.record.handle} /\ mapped' = mapped \cup {o.record.address}
        /\ Cardinality(handles') = Cardinality(handles) + 1
        /\ Cardinality(mapped') = Cardinality(mapped) + 1
        /\ o.record.handle \notin handles
    BY <1>1, <1>3, <1>4, <1>7 DEF Succeeded
  <2>2. Room(2, 2)'
    BY <1>2, <2>1, Counts, BoundsAssumption DEF Room
  <2>3. Own("bar0")'
    BY <1>1, <1>2, <1>5, <1>7, <2>1 DEF Own
  <2>4. Added({g_winring0_handle, mapping["bar0"].handle}, {mapping["bar0"].address})'
    BY <1>1, <1>2, <1>5, <2>1 DEF Added
  <2> QED
    BY <1>1, <1>2, <1>5, <2>1, <2>2, <2>3, <2>4 DEF MapInv, Phases, AtBar2, Bars
<1> QED
  BY <1>4, <1>6, <1>7

LEMMA Bar2KeepsMap ==
  ASSUME MapInv, enumerate_amd_gpu_bars("bar2")
  PROVE  MapInv'
<1> DEFINE b == "bar2"
<1>1. b \in Bars /\ phase = b /\ g_winring0_handle' = g_winring0_handle
  BY DEF enumerate_amd_gpu_bars, Bars
<1>2. /\ MapTypes /\ AtBar2 /\ Own("bar0")
      /\ g_winring0_handle \in handles
      /\ dev.initialized = FALSE /\ dev.bar5 = NULL
  BY <1>1 DEF MapInv, MapTypes, Devices, Phases, AtBar2, Bars
<1>3. PICK o \in map_physical_memory(b) :
        /\ dev' = IF o.ok THEN [dev EXCEPT ![b] = o.record.address] ELSE dev
        /\ IF o.ok THEN /\ mapping' = [mapping EXCEPT ![b] = o.record]
                        /\ handles' = o.handles /\ mapped' = o.mapped
                        /\ phase' = "bar5"
                   ELSE /\ mapping' = [mapping EXCEPT !["bar2"] = o.record, !["bar0"] = Unmapped(@)]
                        /\ handles' = handles \ HandlesOf({"bar0"})
                        /\ mapped' = mapped \ AddressesOf({"bar0"})
                        /\ phase' = "none"
  BY DEF enumerate_amd_gpu_bars, MapSucceeds, MapFails, After
<1>4. /\ o.ok \in BOOLEAN
      /\ IF o.ok THEN Succeeded(o, handles, mapped) ELSE Failed(o, handles, mapped)
  BY <1>1, <1>2, Outcomes DEF AtBar2
<1>5. CASE ~o.ok
  <2>1. mapping' \in [Bars -> Records]
    <3>1. mapping \in [Bars -> Records] /\ o.record \in Records
      BY <1>2, <1>4, <1>5 DEF MapTypes, Records, Failed
    <3>2. Unmapped(mapping["bar0"]) \in Records
      BY <3>1, BoundsAssumption DEF Unmapped, Records, Bars, INVALID, NULL
    <3>3. [mapping EXCEPT !["bar2"] = o.record, !["bar0"] = Unmapped(@)] =
            [c \in Bars |-> IF c = "bar0" THEN Unmapped(mapping["bar0"])
                            ELSE IF c = "bar2" THEN o.record ELSE mapping[c]]
      BY <3>1 DEF Bars
    <3> QED
      BY <1>3, <1>5, <3>1, <3>2, <3>3
  <2>2. g_winring0_handle \in handles'
    BY <1>2, <1>3, <1>5 DEF Own, HandlesOf
  <2>3. handles' \subseteq handles /\ mapped' \subseteq mapped /\ phase' = "none" /\ dev' = dev
    BY <1>3, <1>5
  <2>4. MapTypes'
    BY <1>1, <1>2, <2>1, <2>2, <2>3 DEF MapTypes, Records
  <2> QED
    BY <1>2, <2>3, <2>4 DEF MapInv, Phases, Bars
<1>6. CASE o.ok
  <2>1. /\ phase' = "bar5"
        /\ handles' = handles \cup {o.record.handle} /\ mapped' = mapped \cup {o.record.address}
        /\ Cardinality(handles') = Cardinality(handles) + 1
        /\ Cardinality(mapped') = Cardinality(mapped) + 1
        /\ o.record.handle \notin handles /\ o.record.address \notin mapped
    BY <1>3, <1>4, <1>6 DEF Succeeded
  <2>2. /\ MapTypes'
        /\ mapping'[b] = o.record /\ mapping'["bar0"] = mapping["bar0"]
        /\ dev'.bar5 = NULL /\ dev'.bar0 = dev.bar0
        /\ dev'[b] = o.record.address
        /\ dev'.initialized = FALSE
        /\ Own("bar0")'
    <3>1. /\ mapping' = [mapping EXCEPT ![b] = o.record]
          /\ handles' = o.handles /\ mapped' = o.mapped
          /\ phase' \in Bars \cup {"none", "find", "verify"}
      BY <1>3, <1>6 DEF Bars
    <3>2. dev' = IF o.ok THEN [dev EXCEPT ![b] = o.record.address] ELSE dev
      BY <1>3
    <3>3. /\ MapTypes'
          /\ mapping[b]' = o.record
          /\ \A c \in Bars \ {b} : mapping[c]' = mapping[c] /\ dev[c]' = dev[c]
          /\ dev[b]' = IF o.ok THEN o.record.address ELSE dev[b]
          /\ dev.initialized' = dev.initialized
          /\ \A c \in Bars \ {b} : Own(c) => Own(c)'
      BY <1>1, <1>4, <3>1, <3>2, OneMapping
    <3> QED
      BY <1>2, <1>6, <3>3 DEF Bars
  <2>3. Room(1, 1)'
    BY <1>2, <2>1, Counts, BoundsAssumption DEF Room, AtBar2
  <2>4. Own("bar2")'
    BY <1>1, <1>2, <2>1, <2>2 DEF Own
  <2>5. Apart("bar0", "bar2")'
    BY <1>2, <2>1, <2>2 DEF Own, Apart
  <2> QED
    BY <1>1, <1>2, <2>1, <2>2, <2>3, <2>4, <2>5 DEF MapInv, Phases, AtBar5, Bars
<1> QED
  BY <1>4, <1>5, <1>6

LEMMA Bar5KeepsMap ==
  ASSUME MapInv, enumerate_amd_gpu_bars("bar5")
  PROVE  MapInv'
<1> DEFINE b == "bar5"
<1>1. b \in Bars /\ phase = b /\ g_winring0_handle' = g_winring0_handle /\ phase' = "verify"
  BY DEF enumerate_amd_gpu_bars, Bars, MapSucceeds, MapFails, After
<1>2. /\ MapTypes /\ AtBar5
      /\ g_winring0_handle \in handles
      /\ dev.initialized = FALSE /\ dev.bar5 = NULL
  BY <1>1 DEF MapInv, MapTypes, Devices, Phases, Bars
<1>3. PICK o \in map_physical_memory(b) :
        /\ mapping' = [mapping EXCEPT ![b] = o.record]
        /\ handles' = o.handles /\ mapped' = o.mapped
        /\ dev' = IF o.ok THEN [dev EXCEPT ![b] = o.record.address] ELSE dev
  BY DEF enumerate_amd_gpu_bars, MapSucceeds, MapFails
<1>4. /\ o.ok \in BOOLEAN
      /\ IF o.ok THEN Succeeded(o, handles, mapped) ELSE Failed(o, handles, mapped)
  BY <1>1, <1>2, Outcomes DEF AtBar5
<1>5. /\ MapTypes'
      /\ mapping'[b] = o.record
      /\ mapping'["bar0"] = mapping["bar0"] /\ mapping'["bar2"] = mapping["bar2"]
      /\ dev'.bar0 = dev.bar0 /\ dev'.bar2 = dev.bar2
      /\ dev'[b] = IF o.ok THEN o.record.address ELSE dev[b]
      /\ dev'.initialized = FALSE
      /\ Own("bar0")' /\ Own("bar2")'
  BY <1>1, <1>2, <1>3, <1>4, OneMapping DEF Bars, AtBar5
<1>6. Apart("bar0", "bar2")' /\ Apart("bar2", "bar0")'
  BY <1>2, <1>5 DEF AtBar5, Apart
<1>7. o.record.handle \notin handles /\ (o.ok => o.record.address \notin mapped)
  BY <1>4 DEF Succeeded, Failed
<1>8. NULL \notin mapped
  BY <1>2 DEF MapTypes, NULL
<1>9. ASSUME NEW c \in {"bar0", "bar2"}
      PROVE  Apart(c, "bar5")' /\ Apart("bar5", c)'
  <2>1. /\ mapping'[c] = mapping[c] /\ dev'[c] = dev[c]
        /\ mapping[c].handle \in handles /\ dev[c] \in mapped
    BY <1>2, <1>5 DEF AtBar5, Own
  <2>2. mapping'["bar5"].handle # mapping'[c].handle
    BY <1>5, <1>7, <2>1
  <2>3. dev'["bar5"] # dev'[c]
    BY <1>2, <1>5, <1>7, <1>8, <2>1
  <2> QED
    BY <2>2, <2>3 DEF Apart
<1>10. dev'.bar5 # NULL => Own("bar5")'
  <2> SUFFICES ASSUME dev'.bar5 # NULL PROVE Own("bar5")'
    OBVIOUS
  <2>1. o.ok /\ dev'.bar5 = o.record.address
    BY <1>2, <1>5
  <2> QED
    BY <1>1, <1>2, <1>3, <1>4, <1>5, <2>1 DEF Own, Succeeded
<1>11. g_winring0_handle' \in handles'
  BY <1>1, <1>2, <1>3, <1>4 DEF Succeeded, Failed
<1>12. Connected'
  BY <1>5, <1>6, <1>9, <1>10, <1>11 DEF Connected, Bars
<1> QED
  BY <1>1, <1>5, <1>11, <1>12 DEF MapInv, Phases, Bars

LEMMA VerifyKeepsMap ==
  ASSUME MapInv, VerifyAccess
  PROVE  MapInv'
<1>1. PICK ok \in BOOLEAN : dev' = [dev EXCEPT !.initialized = ok]
  BY DEF VerifyAccess
<1>2. /\ phase = "verify" /\ phase' = "none"
      /\ UNCHANGED <<handles, mapped, mapping, g_winring0_handle>>
  BY DEF VerifyAccess
<1>3. dev \in Devices /\ Connected /\ MapTypes
  BY <1>2 DEF MapInv, MapTypes, Phases
<1>4. /\ dev' \in Devices
      /\ dev'.bar0 = dev.bar0 /\ dev'.bar2 = dev.bar2 /\ dev'.bar5 = dev.bar5
  BY <1>1, <1>3 DEF Devices
<1>5. Connected'
  BY <1>2, <1>3, <1>4 DEF Connected, Own, Apart, Bars
<1>6. MapTypes'
  BY <1>2, <1>3, <1>4 DEF MapTypes
<1> QED
  BY <1>2, <1>5, <1>6 DEF MapInv, Phases, Bars

LEMMA CleanupKeepsMap ==
  ASSUME MapInv, retryix_gpu_hw_cleanup
  PROVE  MapInv'
<1>1. /\ phase = "none" /\ phase' = phase
      /\ dev' = [dev EXCEPT !.initialized = FALSE]
      /\ mapping' = [b \in Bars |-> Unmapped(mapping[b])]
      /\ handles' \subseteq handles /\ mapped' \subseteq mapped /\ g_winring0_handle' = INVALID
  BY DEF retryix_gpu_hw_cleanup, AllIdle
<1>2. dev' \in Devices /\ dev'.initialized = FALSE
  BY <1>1 DEF MapInv, MapTypes, Devices
<1>3. mapping' \in [Bars -> Records]
  <2>1. \A b \in Bars : Unmapped(mapping[b]) \in Records
    BY BoundsAssumption DEF MapInv, MapTypes, Records, Unmapped, INVALID, NULL
  <2> QED
    BY <1>1, <2>1
<1>4. MapTypes'
  BY <1>1, <1>2, <1>3 DEF MapInv, MapTypes, Records
<1> QED
  BY <1>1, <1>2, <1>4 DEF MapInv, Phases, Bars

Safe == BusInv /\ MapInv

LEMMA SafeInit == Init => Safe
<1> SUFFICES ASSUME Init PROVE Safe
  OBVIOUS
<1>1. BusInv
  <2>1. g_controller_count = 0 /\ bus_initialized = FALSE /\ adapters \in Adapters \cup {Unset}
    BY DEF Init, BusInit
  <2>2. bus_initialized \in BOOLEAN /\ ~bus_initialized
    BY <2>1
  <2>3. g_controller_count \in 0 .. MAX_CONTROLLERS /\ ~(g_controller_count > 0)
    <3>1. g_controller_count = 0
      BY <2>1
    <3> QED
      BY <3>1 DEF MAX_CONTROLLERS
  <2>4. adapters \in Adapters \cup {Unset}
    BY <2>1
  <2> QED
    BY <2>2, <2>3, <2>4 DEF BusInv
<1>2. NULL \in 0 .. MaxMaps /\ 0 \in -1 .. MaxHandles
  BY BoundsAssumption DEF NULL
<1>3. MapTypes
  BY <1>2 DEF Init, MapTypes, Zeroed, Devices, Bars
<1>4. Phases
  BY DEF Init, Phases, Zeroed, Bars
<1> QED
  BY <1>1, <1>3, <1>4 DEF Safe, MapInv

LEMMA SafeStep == Safe /\ [Next]_vars => Safe'
<1> SUFFICES ASSUME Safe, [Next]_vars PROVE Safe'
  OBVIOUS
<1>1. BusInv /\ MapInv
  BY DEF Safe
<1>2. ASSUME UNCHANGED busVars, UNCHANGED mapVars PROVE Safe'
  BY <1>1, <1>2, MapUnmoved DEF Safe, BusInv, busVars
<1>3. CASE retryix_gpu_hw_init
  BY <1>1, <1>3, InitKeepsMap, EnsureBusKeeps DEF Safe, retryix_gpu_hw_init
<1>4. CASE find_amd_gpu_pci_address
  BY <1>1, <1>4, FindKeepsMap DEF Safe, BusInv, busVars, find_amd_gpu_pci_address
<1>5. ASSUME NEW b \in Bars, enumerate_amd_gpu_bars(b) PROVE Safe'
  <2>1. UNCHANGED busVars
    BY <1>5 DEF enumerate_amd_gpu_bars
  <2>2. MapInv'
    BY <1>1, <1>5, Bar0KeepsMap, Bar2KeepsMap, Bar5KeepsMap DEF Bars
  <2> QED
    BY <1>1, <2>1, <2>2 DEF Safe, BusInv, busVars
<1>6. CASE VerifyAccess
  BY <1>1, <1>6, VerifyKeepsMap DEF Safe, BusInv, busVars, VerifyAccess
<1>7. CASE retryix_gpu_hw_cleanup
  BY <1>1, <1>7, CleanupKeepsMap, CleanupKeeps DEF Safe, retryix_gpu_hw_cleanup
<1>8. CASE (BusClient \/ Plug) /\ UNCHANGED gpuVars
  BY <1>1, <1>8, BusClientKeeps, MapUnmoved DEF Safe, gpuVars
<1>9. ASSUME NEW t \in Dispatchers, Submit(t) PROVE Safe'
  BY <1>2, <1>9 DEF Submit, retryix_gpu_dispatch_compute, submit_pm4_to_ring,
                    retryix_gpu_ring_doorbell
<1>10. ASSUME NEW t \in Dispatchers, NEW timeout \in Timeouts,
              retryix_gpu_wait_compute_idle(t, timeout)
       PROVE  Safe'
  BY <1>2, <1>10 DEF retryix_gpu_wait_compute_idle
<1>11. ASSUME NEW t \in Dispatchers, WaitStep(t) PROVE Safe'
  BY <1>2, <1>11 DEF WaitStep, PollStatus, Sleep
<1>12. ASSUME NEW t \in Dispatchers, retryix_gpu_is_idle(t) \/ retryix_gpu_soft_reset(t) PROVE Safe'
  BY <1>2, <1>12 DEF retryix_gpu_is_idle, retryix_gpu_soft_reset
<1>13. ASSUME NEW t \in Threads, Access(t) PROVE Safe'
  BY <1>2, <1>13 DEF Access, retryix_gpu_modify_reg, retryix_gpu_write_reg32,
                     retryix_gpu_vram_access, VramAccessDone
<1>14. CASE GpuTakesChain
  BY <1>2, <1>14 DEF GpuTakesChain
<1>15. CASE UNCHANGED vars
  BY <1>2, <1>15 DEF vars, gpuVars
<1> QED
  BY <1>3, <1>4, <1>5, <1>6, <1>7, <1>8, <1>9, <1>10, <1>11, <1>12, <1>13, <1>14, <1>15
  DEF Next, Initialise

(* What is known of the controllers and of the mappings holds in every
   reachable state. *)
THEOREM SafeAlways == Spec => []Safe
  BY SafeInit, SafeStep, PTL DEF Spec

(***************************************************************************)
(* The registers and the window of an initialised handle are mapped.       *)
(***************************************************************************)
THEOREM HandlesAreConnected == Spec => []InitializedHandleMapped
<1>1. Safe => InitializedHandleMapped
  BY DEF Safe, MapInv, Phases, InitializedHandleMapped
<1> QED
  BY <1>1, SafeAlways, PTL

(***************************************************************************)
(* The controller that was chosen has no limit if one without was there.   *)
(***************************************************************************)
THEOREM ChoiceIsUnlimited == Spec => []OptimalIsUnlimited
<1>1. Safe => OptimalIsUnlimited
  <2> SUFFICES ASSUME Safe, dev.bus_info # Unset
               PROVE  \/ LimitationReason(dev.bus_info.id) = {"hardware"}
                      \/ \A i \in 0 .. dev.bus_info.of - 1 : LimitationReason(i) # {"hardware"}
    BY DEF OptimalIsUnlimited
  <2>1. dev.bus_info \in Configs
    BY DEF Safe, MapInv, MapTypes, Devices
  <2> QED
    BY <2>1, ConfigsAreUnlimited
<1> QED
  BY <1>1, SafeAlways, PTL

(***************************************************************************)
(* A failed initialisation gives back what it opened and mapped.           *)
(***************************************************************************)
THEOREM FailureIsUndone == Spec => FailedMappingIsUndone
<1> DEFINE Undone == phase \in Bars /\ phase' = "none" =>
                       /\ mapped' \subseteq found.mapped
                       /\ handles' \subseteq (found.handles \cup {g_winring0_handle'})
<1>1. Safe /\ [Next]_vars => [Undone]_vars
  <2> SUFFICES ASSUME Safe, Next, phase \in Bars, phase' = "none"
               PROVE  /\ mapped' \subseteq found.mapped
                      /\ handles' \subseteq (found.handles \cup {g_winring0_handle'})
    OBVIOUS
  <2>1. phase # "none" /\ phase # "find" /\ phase # "verify" /\ phase # phase'
    BY DEF Bars
  <2>2. ~UNCHANGED mapVars
    BY <2>1 DEF mapVars
  <2>3. \A t \in Dispatchers : /\ ~Submit(t) /\ ~WaitStep(t)
                               /\ ~retryix_gpu_is_idle(t) /\ ~retryix_gpu_soft_reset(t)
                               /\ \A timeout \in Timeouts : ~retryix_gpu_wait_compute_idle(t, timeout)
    BY <2>2 DEF Submit, retryix_gpu_dispatch_compute, submit_pm4_to_ring, retryix_gpu_ring_doorbell,
                WaitStep, PollStatus, Sleep, retryix_gpu_is_idle, retryix_gpu_soft_reset,
                retryix_gpu_wait_compute_idle
  <2>4. (\A t \in Threads : ~Access(t)) /\ ~GpuTakesChain
    BY <2>2 DEF Access, retryix_gpu_modify_reg, retryix_gpu_write_reg32, retryix_gpu_vram_access,
                VramAccessDone, GpuTakesChain
  <2>5. ~retryix_gpu_hw_init /\ ~find_amd_gpu_pci_address /\ ~VerifyAccess /\ ~retryix_gpu_hw_cleanup
    BY <2>1 DEF retryix_gpu_hw_init, find_amd_gpu_pci_address, VerifyAccess,
                retryix_gpu_hw_cleanup, AllIdle
  <2>6. PICK b \in Bars : enumerate_amd_gpu_bars(b)
    BY <2>1, <2>3, <2>4, <2>5 DEF Next, Initialise
  <2>7. phase = b /\ g_winring0_handle' = g_winring0_handle
    BY <2>6 DEF enumerate_amd_gpu_bars
  <2>8. MapTypes /\ (phase = "bar0" => AtBar0) /\ (phase = "bar2" => AtBar2)
    BY DEF Safe, MapInv, Phases
  <2>9. CASE b = "bar0"
    <3>1. PICK o \in map_physical_memory(b) : handles' = handles /\ mapped' = mapped
      <4>1. PICK o \in map_physical_memory(b) : ~o.ok /\ handles' = o.handles /\ mapped' = o.mapped
        BY <2>6, <2>9 DEF enumerate_amd_gpu_bars, MapSucceeds, MapFails, After
      <4>2. Failed(o, handles, mapped)
        BY <2>7, <2>8, <2>9, <4>1, Outcomes DEF AtBar0
      <4> QED
        BY <4>1, <4>2 DEF Failed
    <3> QED
      BY <2>7, <2>8, <2>9, <3>1 DEF AtBar0, Added
  <2>10. CASE b = "bar2"
    <3>1. /\ handles' = handles \ HandlesOf({"bar0"})
          /\ mapped' = mapped \ AddressesOf({"bar0"})
      BY <2>6, <2>10 DEF enumerate_amd_gpu_bars, MapSucceeds, MapFails, After
    <3>2. AtBar2
      BY <2>7, <2>8, <2>10
    <3>3. handles' = handles \ {mapping["bar0"].handle}
      BY <3>1 DEF HandlesOf
    <3>4. mapped' = mapped \ {mapping["bar0"].address}
      BY <3>1, <3>2 DEF AddressesOf, AtBar2, Own
    <3> QED
      BY <2>7, <3>2, <3>3, <3>4 DEF AtBar2, Added
  <2>11. CASE b = "bar5"
    BY <2>1, <2>6, <2>11 DEF enumerate_amd_gpu_bars, MapSucceeds, MapFails, After
  <2> QED
    BY <2>9, <2>10, <2>11 DEF Bars
<1> QED
  BY <1>1, SafeAlways, PTL DEF Spec, FailedMappingIsUndone
-----------------------------------------------------------------------------
(* The ring. *)
LEMMA WordsIs ==
  ASSUME ring.size \in RingSizes
  PROVE  /\ ring.size \in Nat /\ ring.size >= 8
         /\ Words \in Nat /\ Words >= 2
         /\ ring.size < 4 * Words + 4
<1>1. ring.size \in Nat /\ ring.size >= 8
  BY RingAssumption
<1>2. ring.size = 4 * (ring.size \div 4) + (ring.size % 4) /\ ring.size % 4 \in 0 .. 3
      /\ ring.size \div 4 \in Int
  <2>1. PICK n \in Nat : n = ring.size
    BY <1>1
  <2>2. 4 \in Nat \ {0} /\ n \in Int
    OBVIOUS
  <2>3. n = 4 * (n \div 4) + (n % 4) /\ n % 4 \in 0 .. 4 - 1 /\ n \div 4 \in Int
    BY <2>2, DivisionWithRest
  <2> QED
    BY <2>1, <2>3
<1> QED
  BY <1>1, <1>2 DEF Words

LEMMA ChainIs ==
  ASSUME NEW args
  PROVE  Chain(args) \in Nat \ {0}
  BY DEF Chain, SetShReg, AcquireMem, DispatchDirect

LEMMA TotalOfNone == Total(<< >>) = 0
<1>1. << >> \in Seq(Int) /\ Len(<< >>) = 0
  OBVIOUS
<1> QED
  BY <1>1, SumOfNone DEF Total

LEMMA TotalIs ==
  ASSUME NEW s \in Seq(Nat \ {0})
  PROVE  Total(s) \in Nat /\ (Total(s) = 0 => s = << >>)
<1>1. SeqSum(s) \in Nat /\ SeqSum(s) >= Len(s)
  BY SumAtLeastLength
<1>2. Len(s) \in Nat /\ (Len(s) = 0 => s = << >>)
  OBVIOUS
<1> QED
  BY <1>1, <1>2 DEF Total

LEMMA TotalOfAppend ==
  ASSUME NEW s \in Seq(Nat \ {0}), NEW d \in Nat \ {0}
  PROVE  Append(s, d) \in Seq(Nat \ {0}) /\ Total(Append(s, d)) = Total(s) + d
<1>1. s \in Seq(Int) /\ d \in Int /\ Append(s, d) \in Seq(Nat \ {0})
  OBVIOUS
<1> QED
  BY <1>1, SumOfAppend DEF Total

LEMMA TotalOfTail ==
  ASSUME NEW s \in Seq(Nat \ {0}), s # << >>
  PROVE  /\ Tail(s) \in Seq(Nat \ {0}) /\ Head(s) \in Nat \ {0}
         /\ Total(s) = Head(s) + Total(Tail(s))
<1>1. s \in Seq(Int) /\ Tail(s) \in Seq(Nat \ {0}) /\ Head(s) \in Nat \ {0}
  OBVIOUS
<1> QED
  BY <1>1, SumOfTail DEF Total

(* An empty ring takes a chain only if there are two words to spare. *)
LEMMA FitsIs ==
  ASSUME ring.size \in RingSizes, NEW r \in Nat, NEW d \in Nat, Fits(r, r, d)
  PROVE  d <= Words - 2
<1>1. /\ ring.size \in Nat /\ ring.size >= 8
      /\ Words \in Nat /\ ring.size < 4 * Words + 4
  BY WordsIs
<1>2. SpaceUsed(r, r) = 0
  BY DEF SpaceUsed
<1>3. SpaceFree(r, r) = ring.size - 8
  BY <1>1, <1>2 DEF SpaceFree
<1>4. d * 4 <= ring.size - 8
  BY <1>3 DEF Fits
<1> QED
  BY <1>1, <1>4

(* If the pointers meet, and the ring is not full, it is empty. *)
LEMMA IdleIsEmpty ==
  ASSUME RingTypes, PointersMatchQueue, Total(queue) <= Words - 2, ring.rptr = ring.wptr
  PROVE  queue = << >>
<1> DEFINE T == Total(queue)
           r == ring.rptr
<1>1. Words \in Nat \ {0} /\ Words >= 2
  BY WordsIs DEF RingTypes
<1>2. T \in Nat /\ (T = 0 => queue = << >>)
  BY TotalIs DEF RingTypes
<1>3. r \in 0 .. Words - 1
  BY <1>1 DEF RingTypes
<1>4. (r + T) % Words = r
  BY DEF PointersMatchQueue
<1>5. T \in 0 .. Words - 1
  BY <1>1, <1>2
<1> HIDE DEF T, r
<1>6. T = 0
  BY <1>1, <1>3, <1>4, <1>5, LessThanATurn
<1> QED
  BY <1>2, <1>6
-----------------------------------------------------------------------------
(* A step of thread t that leaves ring and queue alone. *)
LEMMA ThreadStep ==
  ASSUME RingInv, NEW t \in Threads, NEW l \in PcStates, NEW x, NEW a \in {"none", "idle", "busy", "timeout"},
         ring' = ring, queue' = queue,
         pc' = [pc EXCEPT ![t] = l], local' = [local EXCEPT ![t] = x],
         answer' = [answer EXCEPT ![t] = a],
         l = "status" => /\ t \in Dispatchers /\ x.dwords \in Nat \ {0} /\ x.rptr = ring.rptr
                         /\ OneDispatcher /\ WaitsForIdle => queue = << >>,
         l = "doorbell" => /\ t \in Dispatchers /\ x.dwords \in Nat \ {0} /\ x.wptr = ring.wptr
                           /\ OneDispatcher /\ WaitsForIdle => queue = << >> /\ x.dwords <= Words - 2,
         l = "modify" => x.old \subseteq Controls /\ x.value \subseteq Controls,
         l = "copy" => x.offset \in Nat /\ x.size \in Nat /\ InWindow(x.offset, x.size),
         a = "idle" => a = answer[t] \/ (OneDispatcher /\ WaitsForIdle => queue = << >>)
  PROVE  RingInv'
<1>1. /\ RingTypes /\ Carried /\ Announced /\ Empty
  BY DEF RingInv
<1>2. /\ pc'[t] = l /\ local'[t] = x /\ answer'[t] = a
      /\ \A u \in Threads \ {t} : pc'[u] = pc[u] /\ local'[u] = local[u] /\ answer'[u] = answer[u]
  BY <1>1 DEF RingTypes
<1>3. RingTypes'
  <2>1. pc' \in [Threads -> PcStates] /\ answer' \in [Threads -> {"none", "idle", "busy", "timeout"}]
    BY <1>1 DEF RingTypes
  <2>2. local' = [u \in Threads |-> local'[u]]
    BY <1>1 DEF RingTypes
  <2> QED
    BY <1>1, <2>1, <2>2 DEF RingTypes, Words
<1>4. ring.wptr \in Nat
  BY <1>1 DEF RingTypes
<1>5. Carried'
  <2> SUFFICES ASSUME NEW u \in Threads
               PROVE  /\ pc'[u] = "status" => u \in Dispatchers /\ local'[u].dwords \in Nat \ {0}
                      /\ pc'[u] = "doorbell" => /\ u \in Dispatchers
                                                /\ local'[u].dwords \in Nat \ {0}
                                                /\ local'[u].wptr \in Nat
                      /\ pc'[u] = "modify" => local'[u].old \subseteq Controls /\ local'[u].value \subseteq Controls
                      /\ pc'[u] = "copy" => /\ local'[u].offset \in Nat /\ local'[u].size \in Nat
                                            /\ InWindow(local'[u].offset, local'[u].size)
    BY DEF Carried, InWindow
  <2>1. CASE u = t
    BY <1>2, <1>4, <2>1
  <2>2. CASE u # t
    BY <1>1, <1>2, <2>2 DEF Carried
  <2> QED
    BY <2>1, <2>2
<1>6. Announced'
  <2> SUFFICES ASSUME OneDispatcher
               PROVE  /\ PointersMatchQueue
                      /\ \A u \in Dispatchers : pc'[u] = "doorbell" => local'[u].wptr = ring.wptr
    BY DEF Announced, PointersMatchQueue, Words, OneDispatcher
  <2> QED
    BY <1>1, <1>2, DispatchersAssumption DEF Announced
<1>7. Empty'
  <2> SUFFICES ASSUME OneDispatcher, WaitsForIdle, NEW u \in Dispatchers
               PROVE  /\ Total(queue) <= Words - 2
                      /\ answer'[u] = "idle" \/ pc'[u] \in {"status", "doorbell"} => queue = << >>
                      /\ pc'[u] = "status" => local'[u].rptr = ring.rptr
                      /\ pc'[u] = "doorbell" => local'[u].dwords <= Words - 2
    BY <1>1 DEF Empty, Words, OneDispatcher
  <2>1. CASE u = t
    BY <1>1, <1>2, <2>1 DEF Empty
  <2>2. CASE u # t
    BY <1>1, <1>2, <2>2, DispatchersAssumption DEF Empty
  <2> QED
    BY <2>1, <2>2
<1> QED
  BY <1>3, <1>5, <1>6, <1>7 DEF RingInv

(* The steps of the calls. *)
LEMMA DispatchKeepsRing ==
  ASSUME RingInv, NEW t \in Dispatchers, NEW args, retryix_gpu_dispatch_compute(t, args)
  PROVE  RingInv'
<1> DEFINE x == [dwords |-> Chain(args), rptr |-> ring.rptr]
<1>1. /\ t \in Threads /\ "status" \in PcStates
      /\ ring' = ring /\ queue' = queue
      /\ pc' = [pc EXCEPT ![t] = "status"] /\ local' = [local EXCEPT ![t] = x]
      /\ answer' = answer
      /\ WaitsForIdle => answer[t] = "idle"
  BY DispatchersAssumption DEF retryix_gpu_dispatch_compute, Goto, PcStates
<1>2. answer' = [answer EXCEPT ![t] = answer[t]] /\ answer[t] \in {"none", "idle", "busy", "timeout"}
  BY <1>1 DEF RingInv, RingTypes
<1>3. x.dwords \in Nat \ {0} /\ x.rptr = ring.rptr
  BY ChainIs
<1>4. OneDispatcher /\ WaitsForIdle => queue = << >>
  BY <1>1 DEF RingInv, Empty
<1> HIDE DEF x
<1> QED
  BY <1>1, <1>2, <1>3, <1>4, ThreadStep

LEMMA SubmitKeepsRing ==
  ASSUME RingInv, NEW t \in Dispatchers, submit_pm4_to_ring(t)
  PROVE  RingInv'
<1> DEFINE fits == "enable" \in ring.control /\ Fits(local[t].rptr, ring.wptr, local[t].dwords)
           l == IF fits THEN "doorbell" ELSE "idle"
           x == [dwords |-> local[t].dwords, wptr |-> ring.wptr]
<1>1. /\ t \in Threads /\ l \in PcStates /\ pc[t] = "status"
      /\ ring' = ring /\ queue' = queue
      /\ pc' = [pc EXCEPT ![t] = l] /\ answer' = answer
  BY DispatchersAssumption DEF submit_pm4_to_ring, Goto, PcStates
<1>2. local' = [local EXCEPT ![t] = x]
  BY <1>1 DEF submit_pm4_to_ring, RingInv, RingTypes
<1>3. answer' = [answer EXCEPT ![t] = answer[t]] /\ answer[t] \in {"none", "idle", "busy", "timeout"}
  BY <1>1 DEF RingInv, RingTypes
<1>4. x.dwords = local[t].dwords /\ x.dwords \in Nat \ {0} /\ x.wptr = ring.wptr
  BY <1>1 DEF RingInv, Carried
<1>5. ASSUME OneDispatcher, WaitsForIdle, fits
      PROVE  queue = << >> /\ x.dwords <= Words - 2
  <2>1. /\ queue = << >> /\ local[t].rptr = ring.rptr /\ PointersMatchQueue
        /\ ring.size \in RingSizes
    BY <1>1, <1>5 DEF RingInv, RingTypes, Empty, Announced
  <2>2. /\ ring.rptr \in 0 .. Words - 1 /\ ring.wptr \in Nat
        /\ Words \in Nat \ {0}
    BY <2>1, WordsIs DEF RingInv, RingTypes
  <2>3. ring.rptr = ring.wptr
    <3>1. (ring.rptr + 0) % Words = ring.wptr
      BY <2>1, TotalOfNone DEF PointersMatchQueue
    <3>2. ring.rptr + 0 = ring.rptr
      BY <2>2
    <3>3. ring.rptr % Words = ring.rptr
      BY <2>2, SmallRest
    <3> QED
      BY <3>1, <3>2, <3>3
  <2>4. Fits(ring.wptr, ring.wptr, x.dwords)
    BY <1>4, <1>5, <2>1, <2>3
  <2> QED
    BY <1>4, <2>1, <2>2, <2>4, FitsIs
<1>6. /\ l = "doorbell" => fits
      /\ l # "status" /\ l # "modify" /\ l # "copy"
  OBVIOUS
<1> HIDE DEF x, fits, l
<1> QED
  BY <1>1, <1>2, <1>3, <1>4, <1>5, <1>6, ThreadStep

LEMMA WaitKeepsRing ==
  ASSUME RingInv, NEW t \in Dispatchers, NEW timeout,
         retryix_gpu_wait_compute_idle(t, timeout) \/ Sleep(t)
  PROVE  RingInv'
<1>1. PICK l \in {"poll", "sleep"} :
        /\ ring' = ring /\ queue' = queue /\ answer' = answer
        /\ pc' = [pc EXCEPT ![t] = l]
        /\ \E x : local' = [local EXCEPT ![t] = x]
  <2>1. CASE retryix_gpu_wait_compute_idle(t, timeout)
    <3>1. PICK now \in Starts :
            local' = [local EXCEPT ![t] = [timeout |-> timeout, start |-> now, now |-> now]]
      BY <2>1 DEF retryix_gpu_wait_compute_idle
    <3> QED
      BY <2>1, <3>1 DEF retryix_gpu_wait_compute_idle, Goto
  <2>2. CASE Sleep(t)
    <3>1. PICK d \in 1 .. 2 :
            local' = [local EXCEPT ![t].now =
                        IF local[t].timeout = 0 THEN @ ELSE (@ + d) % TickRange]
      BY <2>2 DEF Sleep
    <3> DEFINE x == [local[t] EXCEPT !.now =
                       IF local[t].timeout = 0 THEN @ ELSE (@ + d) % TickRange]
    <3>2. local' = [local EXCEPT ![t] = x]
      BY <3>1
    <3> HIDE DEF x
    <3> QED
      BY <2>2, <3>2 DEF Sleep, Goto
  <2> QED
    BY <2>1, <2>2
<1>2. answer' = [answer EXCEPT ![t] = answer[t]] /\ answer[t] \in {"none", "idle", "busy", "timeout"}
  BY <1>1, DispatchersAssumption DEF RingInv, RingTypes
<1>3. t \in Threads /\ l \in PcStates /\ l # "status" /\ l # "doorbell" /\ l # "modify" /\ l # "copy"
  BY <1>1, DispatchersAssumption DEF PcStates
<1> QED
  BY <1>1, <1>2, <1>3, ThreadStep

(* Who learns that the GPU is idle finds an empty ring. *)
LEMMA IdleSeen ==
  ASSUME RingInv, ~GUI_ACTIVE, OneDispatcher, WaitsForIdle
  PROVE  queue = << >>
  BY IdleIsEmpty DEF RingInv, Announced, Empty, GUI_ACTIVE

LEMMA PollKeepsRing ==
  ASSUME RingInv, NEW t \in Dispatchers, PollStatus(t)
  PROVE  RingInv'
<1>1. t \in Threads /\ ring' = ring /\ queue' = queue /\ RingTypes
  BY DispatchersAssumption DEF PollStatus, RingInv
<1>2. /\ answer = [answer EXCEPT ![t] = answer[t]] /\ answer[t] \in {"none", "idle", "busy", "timeout"}
      /\ local = [local EXCEPT ![t] = local[t]]
  <2>1. local = [u \in Threads |-> local[u]] /\ answer \in [Threads -> {"none", "idle", "busy", "timeout"}]
    BY <1>1 DEF RingTypes
  <2> QED
    BY <1>1, <2>1
<1>3. CASE ~GUI_ACTIVE
  <2>1. Return(t, "idle")
    BY <1>3 DEF PollStatus
  <2>2. OneDispatcher /\ WaitsForIdle => queue = << >>
    BY <1>3, IdleSeen
  <2> QED
    BY <1>1, <2>1, <2>2, ThreadStep DEF Return, Goto, PcStates
<1>4. CASE GUI_ACTIVE /\ Return(t, TimedOut)
  BY <1>1, <1>4, ThreadStep DEF Return, Goto, PcStates, TimedOut
<1>5. CASE Goto(t, "sleep") /\ UNCHANGED <<local, answer>>
  BY <1>1, <1>2, <1>5, ThreadStep DEF Goto, PcStates
<1> QED
  BY <1>3, <1>4, <1>5 DEF PollStatus

LEMMA IsIdleKeepsRing ==
  ASSUME RingInv, NEW t \in Dispatchers, retryix_gpu_is_idle(t)
  PROVE  RingInv'
<1> DEFINE a == IF GUI_ACTIVE THEN "busy" ELSE "idle"
<1>1. /\ t \in Threads /\ ring' = ring /\ queue' = queue /\ RingTypes
      /\ pc' = pc /\ local' = local /\ pc[t] = "idle"
      /\ answer' = [answer EXCEPT ![t] = a]
  BY DispatchersAssumption DEF retryix_gpu_is_idle, RingInv, MayUse
<1>2. pc' = [pc EXCEPT ![t] = "idle"] /\ local' = [local EXCEPT ![t] = local[t]]
  <2>1. local = [u \in Threads |-> local[u]] /\ pc \in [Threads -> PcStates]
    BY <1>1 DEF RingTypes
  <2> QED
    BY <1>1, <2>1
<1>3. a \in {"busy", "idle"} /\ (a = "idle" => ~GUI_ACTIVE)
  OBVIOUS
<1>4. a = "idle" => (OneDispatcher /\ WaitsForIdle => queue = << >>)
  BY <1>3, IdleSeen
<1> HIDE DEF a
<1> QED
  BY <1>1, <1>2, <1>3, <1>4, ThreadStep DEF PcStates

LEMMA AccessKeepsRing ==
  ASSUME RingInv, NEW t \in Threads, Access(t)
  PROVE  RingInv'
<1>1. RingTypes /\ Carried
  BY DEF RingInv
<1>2. answer = [answer EXCEPT ![t] = answer[t]] /\ answer[t] \in {"none", "idle", "busy", "timeout"}
  BY <1>1 DEF RingTypes
<1>3. ASSUME NEW bit \in Controls, NEW on \in BOOLEAN,
             retryix_gpu_modify_reg(t, {bit}, IF on THEN {bit} ELSE {})
      PROVE  RingInv'
  <2> DEFINE x == [old |-> ring.control, mask |-> {bit}, value |-> IF on THEN {bit} ELSE {}]
  <2>1. /\ ring' = ring /\ queue' = queue /\ answer' = answer
        /\ pc' = [pc EXCEPT ![t] = "modify"] /\ local' = [local EXCEPT ![t] = x]
    BY <1>3 DEF retryix_gpu_modify_reg, Goto
  <2>2. x.old \subseteq Controls /\ x.value \subseteq Controls
    BY <1>1 DEF RingTypes
  <2> HIDE DEF x
  <2> QED
    BY <1>2, <2>1, <2>2, ThreadStep DEF PcStates
<1>4. ASSUME NEW offset \in Offsets, NEW size \in Sizes, retryix_gpu_vram_access(t, offset, size)
      PROVE  RingInv'
  <2> DEFINE x == [offset |-> offset, size |-> size]
  <2>1. /\ ring' = ring /\ queue' = queue /\ answer' = answer
        /\ pc' = [pc EXCEPT ![t] = "copy"] /\ local' = [local EXCEPT ![t] = x]
        /\ InWindow(x.offset, x.size)
    BY <1>4 DEF retryix_gpu_vram_access, Goto
  <2>2. x.offset \in Nat /\ x.size \in Nat
    BY VramAssumption
  <2> HIDE DEF x
  <2> QED
    BY <1>2, <2>1, <2>2, ThreadStep DEF PcStates
<1>5. CASE VramAccessDone(t)
  <2>1. /\ ring' = ring /\ queue' = queue /\ answer' = answer
        /\ pc' = [pc EXCEPT ![t] = "idle"] /\ local' = [local EXCEPT ![t] = Unset]
    BY <1>5 DEF VramAccessDone, Goto
  <2> QED
    BY <1>2, <2>1, ThreadStep DEF PcStates
<1>6. CASE retryix_gpu_write_reg32(t)
  <2>1. PICK c \in SUBSET Controls : ring' = [ring EXCEPT !.control = c]
    BY <1>1, <1>6 DEF retryix_gpu_write_reg32, Carried
  <2>2. /\ queue' = queue /\ answer' = answer /\ pc' = [pc EXCEPT ![t] = "idle"]
        /\ local' = [local EXCEPT ![t] = Unset]
    BY <1>6 DEF retryix_gpu_write_reg32, Goto
  <2>3. /\ ring' \in [size : RingSizes, rptr : Nat, wptr : Nat, control : SUBSET Controls]
        /\ ring'.size = ring.size /\ ring'.rptr = ring.rptr /\ ring'.wptr = ring.wptr
    BY <1>1, <2>1 DEF RingTypes
  <2>4. /\ pc'[t] = "idle"
        /\ \A u \in Threads \ {t} : pc'[u] = pc[u] /\ local'[u] = local[u]
        /\ pc' \in [Threads -> PcStates]
        /\ local' = [u \in Threads |-> local'[u]]
    BY <1>1, <2>2 DEF RingTypes, PcStates
  <2>5. RingTypes'
    BY <1>1, <2>2, <2>3, <2>4 DEF RingTypes, Words
  <2>6. Carried'
    BY <1>1, <2>4 DEF Carried, InWindow
  <2>7. Announced'
    BY <2>2, <2>3, <2>4, DispatchersAssumption DEF RingInv, Announced, PointersMatchQueue, Words
  <2>8. Empty'
    BY <2>2, <2>3, <2>4, DispatchersAssumption DEF RingInv, Empty, Words
  <2> QED
    BY <2>5, <2>6, <2>7, <2>8 DEF RingInv
<1> QED
  BY <1>3, <1>4, <1>5, <1>6 DEF Access

LEMMA DoorbellKeepsRing ==
  ASSUME RingInv, NEW t \in Dispatchers, retryix_gpu_ring_doorbell(t)
  PROVE  RingInv'
<1> DEFINE d == local[t].dwords
           w == local[t].wptr
<1>1. /\ RingTypes /\ Carried /\ Announced /\ Empty /\ t \in Threads /\ pc[t] = "doorbell"
      /\ ring' = [ring EXCEPT !.wptr = NewWptr(w, d)]
      /\ queue' = Append(queue, d)
      /\ answer' = [answer EXCEPT ![t] = "none"]
      /\ local' = [local EXCEPT ![t] = Unset] /\ pc' = [pc EXCEPT ![t] = "idle"]
  BY DispatchersAssumption DEF RingInv, retryix_gpu_ring_doorbell, Goto
<1>2. d \in Nat \ {0} /\ w \in Nat
  BY <1>1 DEF Carried
<1>3. Words \in Nat \ {0} /\ Words >= 2
  BY <1>1, WordsIs DEF RingTypes
<1>4. queue' \in Seq(Nat \ {0}) /\ Total(queue') = Total(queue) + d
  BY <1>1, <1>2, TotalOfAppend DEF RingTypes
<1>5. NewWptr(w, d) \in 0 .. Words - 1
  <2>1. w + d \in Int
    BY <1>2
  <2> QED
    BY <1>3, <2>1, DivisionWithRest DEF NewWptr
<1>6. /\ ring' \in [size : RingSizes, rptr : Nat, wptr : Nat, control : SUBSET Controls]
      /\ ring'.size = ring.size /\ ring'.rptr = ring.rptr /\ ring'.wptr = NewWptr(w, d)
  <2> DEFINE n == NewWptr(w, d)
  <2>1. n \in Nat /\ ring' = [ring EXCEPT !.wptr = n]
    BY <1>1, <1>3, <1>5
  <2> HIDE DEF n
  <2>2. /\ ring' \in [size : RingSizes, rptr : Nat, wptr : Nat, control : SUBSET Controls]
        /\ ring'.size = ring.size /\ ring'.rptr = ring.rptr /\ ring'.wptr = n
    BY <1>1, <2>1 DEF RingTypes
  <2> QED
    BY <2>2 DEF n
<1>7. /\ pc'[t] = "idle" /\ answer'[t] = "none"
      /\ \A u \in Threads \ {t} : pc'[u] = pc[u] /\ local'[u] = local[u] /\ answer'[u] = answer[u]
      /\ pc' \in [Threads -> PcStates] /\ answer' \in [Threads -> {"none", "idle", "busy", "timeout"}]
      /\ local' = [u \in Threads |-> local'[u]]
  BY <1>1 DEF RingTypes, PcStates
<1>8. Words' = Words
  BY <1>6 DEF Words
<1>9. RingTypes'
  <2>1. ring'.rptr < Words' /\ ring'.wptr < Words'
    BY <1>1, <1>3, <1>5, <1>6, <1>8 DEF RingTypes
  <2> QED
    BY <1>4, <1>6, <1>7, <2>1 DEF RingTypes
<1>10. Carried'
  <2> HIDE DEF d, w
  <2> QED
    BY <1>1, <1>7 DEF Carried, InWindow
<1>11. Announced'
  <2> SUFFICES ASSUME OneDispatcher
               PROVE  /\ (ring'.rptr + Total(queue')) % Words = ring'.wptr
                      /\ \A u \in Dispatchers : pc'[u] = "doorbell" => local'[u].wptr = ring'.wptr
    BY <1>8 DEF Announced, PointersMatchQueue, OneDispatcher
  <2>1. \A u \in Dispatchers : u = t
    BY DEF OneDispatcher
  <2>2. w = (ring.rptr + Total(queue)) % Words
    BY <1>1 DEF Announced, PointersMatchQueue
  <2> DEFINE a == ring.rptr + Total(queue)
  <2>3. a \in Int /\ a + d = ring'.rptr + Total(queue')
    <3>1. Total(queue) \in Nat /\ ring.rptr \in Nat
      BY <1>1, TotalIs DEF RingTypes
    <3> HIDE DEF d
    <3> QED
      BY <1>2, <1>4, <1>6, <3>1
  <2>4. ((a % Words) + d) % Words = (a + d) % Words
    <3>1. a \in Int /\ d \in Int
      BY <1>2, <2>3
    <3> HIDE DEF a, d
    <3> QED
      BY <1>3, <3>1, RestOfSum
  <2>5. ring'.wptr = ((a % Words) + d) % Words
    BY <1>6, <2>2 DEF NewWptr
  <2> QED
    BY <1>7, <2>1, <2>3, <2>4, <2>5
<1>12. Empty'
  <2> SUFFICES ASSUME OneDispatcher, WaitsForIdle
               PROVE  /\ Total(queue') <= Words - 2
                      /\ \A u \in Dispatchers : /\ answer'[u] # "idle"
                                                /\ pc'[u] \notin {"status", "doorbell"}
    BY <1>8 DEF Empty, OneDispatcher
  <2>1. \A u \in Dispatchers : u = t
    BY DEF OneDispatcher
  <2>2. queue = << >> /\ d <= Words - 2
    BY <1>1 DEF Empty
  <2>3. Total(queue') <= Words - 2
    BY <1>2, <1>3, <1>4, <2>2, TotalOfNone
  <2> QED
    BY <1>7, <2>1, <2>3
<1> QED
  BY <1>9, <1>10, <1>11, <1>12 DEF RingInv

LEMMA ResetKeepsRing ==
  ASSUME RingInv, NEW t \in Dispatchers, retryix_gpu_soft_reset(t)
  PROVE  RingInv'
<1>1. PICK c \in SUBSET {"enable"} : ring' = [ring EXCEPT !.rptr = 0, !.wptr = 0, !.control = c]
  BY DEF retryix_gpu_soft_reset
<1>2. /\ RingTypes /\ Carried /\ Empty /\ t \in Threads /\ pc[t] = "idle"
      /\ queue' = << >> /\ pc' = pc /\ local' = local
      /\ answer' = [answer EXCEPT ![t] = "none"]
  BY DispatchersAssumption DEF RingInv, retryix_gpu_soft_reset, MayUse
<1>3. Words \in Nat \ {0} /\ Words >= 2
  BY <1>2, WordsIs DEF RingTypes
<1>4. /\ ring' \in [size : RingSizes, rptr : Nat, wptr : Nat, control : SUBSET Controls]
      /\ ring'.size = ring.size /\ ring'.rptr = 0 /\ ring'.wptr = 0
  <2>1. c \in SUBSET Controls
    BY DEF Controls
  <2>2. ring' = [size |-> ring.size, rptr |-> 0, wptr |-> 0, control |-> c]
    BY <1>1, <1>2 DEF RingTypes
  <2>3. ring.size \in RingSizes
    BY <1>2 DEF RingTypes
  <2> QED
    BY <2>1, <2>2, <2>3
<1>5. Words' = Words
  BY <1>4 DEF Words
<1>6. answer'[t] = "none" /\ answer' \in [Threads -> {"none", "idle", "busy", "timeout"}]
  BY <1>2 DEF RingTypes
<1>7. RingTypes'
  <2>1. queue' \in Seq(Nat \ {0})
    BY <1>2
  <2>2. ring'.rptr < Words' /\ ring'.wptr < Words'
    BY <1>3, <1>4, <1>5
  <2> QED
    BY <1>2, <1>4, <1>6, <2>1, <2>2 DEF RingTypes
<1>8. Carried'
  BY <1>2 DEF Carried, InWindow
<1>9. Announced'
  <2> SUFFICES ASSUME OneDispatcher
               PROVE  /\ (0 + Total(<< >>)) % Words = 0
                      /\ \A u \in Dispatchers : pc[u] # "doorbell"
    BY <1>2, <1>4, <1>5 DEF Announced, PointersMatchQueue, OneDispatcher
  <2>1. (0 + Total(<< >>)) % Words = 0
    <3>1. 0 + Total(<< >>) = 0
      BY TotalOfNone
    <3>2. 0 \in 0 .. Words - 1
      BY <1>3
    <3> QED
      BY <1>3, <3>1, <3>2, SmallRest
  <2> QED
    BY <1>2, <2>1 DEF OneDispatcher
<1>10. Empty'
  <2> SUFFICES ASSUME OneDispatcher, WaitsForIdle
               PROVE  /\ Total(<< >>) <= Words - 2
                      /\ \A u \in Dispatchers : pc[u] \notin {"status", "doorbell"}
    BY <1>2, <1>5 DEF Empty, OneDispatcher
  <2> QED
    BY <1>2, <1>3, TotalOfNone DEF OneDispatcher
<1> QED
  BY <1>7, <1>8, <1>9, <1>10 DEF RingInv

LEMMA TakeKeepsRing ==
  ASSUME RingInv, GpuTakesChain
  PROVE  RingInv'
<1> DEFINE h == Head(queue)
           a == ring.rptr + h
<1>1. /\ RingTypes /\ Carried /\ Announced /\ Empty
      /\ queue # << >> /\ queue' = Tail(queue)
      /\ ring' = [ring EXCEPT !.rptr = (ring.rptr + h) % Words]
      /\ pc' = pc /\ local' = local /\ answer' = answer
  BY DEF RingInv, GpuTakesChain
<1>2. Words \in Nat \ {0} /\ Words >= 2
  BY <1>1, WordsIs DEF RingTypes
<1>3. queue' \in Seq(Nat \ {0}) /\ h \in Nat \ {0} /\ Total(queue) = h + Total(queue')
  BY <1>1, TotalOfTail DEF RingTypes
<1>4. ring.rptr \in Nat /\ a \in Int /\ Total(queue') \in Nat
  <2>1. ring.rptr \in Nat
    BY <1>1 DEF RingTypes
  <2> HIDE DEF h
  <2> QED
    BY <1>3, <2>1, TotalIs
<1>5. a % Words \in 0 .. Words - 1
  <2> HIDE DEF a
  <2> QED
    BY <1>2, <1>4, DivisionWithRest
<1>6. /\ ring' \in [size : RingSizes, rptr : Nat, wptr : Nat, control : SUBSET Controls]
      /\ ring'.size = ring.size /\ ring'.rptr = a % Words /\ ring'.wptr = ring.wptr
  <2> HIDE DEF h
  <2> DEFINE n == a % Words
  <2>1. n \in Nat /\ ring' = [ring EXCEPT !.rptr = n]
    BY <1>1, <1>2, <1>5
  <2> HIDE DEF n
  <2>2. /\ ring' \in [size : RingSizes, rptr : Nat, wptr : Nat, control : SUBSET Controls]
        /\ ring'.size = ring.size /\ ring'.rptr = n /\ ring'.wptr = ring.wptr
    BY <1>1, <2>1 DEF RingTypes
  <2> QED
    BY <2>2 DEF n
<1>7. Words' = Words
  BY <1>6 DEF Words
<1> HIDE DEF h
<1>8. RingTypes'
  <2>1. ring'.rptr < Words' /\ ring'.wptr < Words'
    BY <1>1, <1>2, <1>5, <1>6, <1>7 DEF RingTypes
  <2> QED
    BY <1>1, <1>3, <1>6, <2>1 DEF RingTypes
<1>9. Carried'
  BY <1>1 DEF Carried, InWindow
<1>10. Announced'
  <2> SUFFICES ASSUME OneDispatcher
               PROVE  ((a % Words) + Total(queue')) % Words = ring.wptr
    BY <1>1, <1>6, <1>7 DEF Announced, PointersMatchQueue, OneDispatcher
  <2>1. a + Total(queue') = ring.rptr + Total(queue)
    BY <1>3, <1>4
  <2>2. (ring.rptr + Total(queue)) % Words = ring.wptr
    BY <1>1 DEF Announced, PointersMatchQueue
  <2> DEFINE b == Total(queue')
  <2>3. ((a % Words) + b) % Words = (a + b) % Words
    <3>1. b \in Int
      BY <1>4
    <3> HIDE DEF a, b
    <3> QED
      BY <1>2, <1>4, <3>1, RestOfSum
  <2> QED
    BY <2>1, <2>2, <2>3
<1>11. Empty'
  <2> SUFFICES ASSUME OneDispatcher, WaitsForIdle
               PROVE  /\ Total(queue') <= Words - 2
                      /\ \A u \in Dispatchers : /\ ~(answer[u] = "idle" \/ pc[u] \in {"status", "doorbell"})
    BY <1>1, <1>7 DEF Empty, OneDispatcher
  <2>1. Total(queue) <= Words - 2
    BY <1>1 DEF Empty
  <2>2. Total(queue') <= Words - 2
    BY <1>2, <1>3, <1>4, <2>1
  <2> QED
    BY <1>1, <2>2 DEF Empty
<1> QED
  BY <1>8, <1>9, <1>10, <1>11 DEF RingInv

LEMMA RingUnmoved ==
  ASSUME RingInv, UNCHANGED <<ring, queue, pc, local, answer>>
  PROVE  RingInv'
  BY DEF RingInv, RingTypes, Words, Carried, InWindow, Announced, PointersMatchQueue, Empty,
         OneDispatcher

LEMMA RingInit == Init => RingInv
<1> SUFFICES ASSUME Init PROVE RingInv
  OBVIOUS
<1>1. PICK size \in RingSizes, p \in RingStarts, c \in SUBSET Controls :
        p < size \div 4 /\ ring = [size |-> size, rptr |-> p, wptr |-> p, control |-> c]
  BY DEF Init
<1>2. /\ queue = << >> /\ pc = [t \in Threads |-> "idle"]
      /\ local = [t \in Threads |-> Unset] /\ answer = [t \in Threads |-> "none"]
  BY DEF Init
<1>3. /\ ring \in [size : RingSizes, rptr : Nat, wptr : Nat, control : SUBSET Controls]
      /\ ring.size = size /\ ring.rptr = p /\ ring.wptr = p /\ p \in Nat
  BY <1>1, RingAssumption
<1>4. Words \in Nat \ {0} /\ Words >= 2 /\ p < Words
  BY <1>1, <1>3, WordsIs DEF Words
<1>5. RingTypes
  <2>1. queue \in Seq(Nat \ {0})
    BY <1>2
  <2>2. ring.rptr < Words /\ ring.wptr < Words
    BY <1>3, <1>4
  <2> QED
    BY <1>2, <1>3, <2>1, <2>2 DEF RingTypes, PcStates
<1>6. Carried
  BY <1>2 DEF Carried
<1>7. PointersMatchQueue
  <2>1. ring.rptr + Total(queue) = p /\ p \in 0 .. Words - 1
    BY <1>2, <1>3, <1>4, TotalOfNone
  <2>2. p % Words = p
    BY <1>4, <2>1, SmallRest
  <2> QED
    BY <1>3, <2>1, <2>2 DEF PointersMatchQueue
<1>8. Announced /\ Empty
  BY <1>2, <1>4, <1>7, TotalOfNone, DispatchersAssumption DEF Announced, Empty
<1> QED
  BY <1>5, <1>6, <1>8 DEF RingInv

LEMMA RingStep == RingInv /\ [Next]_vars => RingInv'
<1> SUFFICES ASSUME RingInv, [Next]_vars PROVE RingInv'
  OBVIOUS
<1>1. CASE Initialise \/ retryix_gpu_hw_cleanup
  <2>1. UNCHANGED <<ring, queue, pc, local, answer>>
    BY <1>1 DEF Initialise, retryix_gpu_hw_init, find_amd_gpu_pci_address,
                enumerate_amd_gpu_bars, VerifyAccess, retryix_gpu_hw_cleanup
  <2> QED
    BY <2>1, RingUnmoved
<1>2. CASE UNCHANGED gpuVars
  BY <1>2, RingUnmoved DEF gpuVars
<1>3. ASSUME NEW t \in Dispatchers, Submit(t) PROVE RingInv'
  BY <1>3, DispatchKeepsRing, SubmitKeepsRing, DoorbellKeepsRing DEF Submit
<1>4. ASSUME NEW t \in Dispatchers, NEW timeout \in Timeouts,
             retryix_gpu_wait_compute_idle(t, timeout)
      PROVE  RingInv'
  BY <1>4, WaitKeepsRing
<1>5. ASSUME NEW t \in Dispatchers, WaitStep(t) PROVE RingInv'
  BY <1>5, WaitKeepsRing, PollKeepsRing DEF WaitStep
<1>6. ASSUME NEW t \in Dispatchers, retryix_gpu_is_idle(t) \/ retryix_gpu_soft_reset(t)
      PROVE  RingInv'
  BY <1>6, IsIdleKeepsRing, ResetKeepsRing
<1>7. ASSUME NEW t \in Threads, Access(t) PROVE RingInv'
  BY <1>7, AccessKeepsRing
<1>8. CASE GpuTakesChain
  BY <1>8, TakeKeepsRing
<1>9. CASE UNCHANGED vars
  BY <1>2, <1>9 DEF vars
<1> QED
  BY <1>1, <1>2, <1>3, <1>4, <1>5, <1>6, <1>7, <1>8, <1>9 DEF Next

(* What is known of the ring and of the threads that use it holds in every
   reachable state. *)
THEOREM RingAlways == Spec => []RingInv
  BY RingInit, RingStep, PTL DEF Spec
-----------------------------------------------------------------------------
(***************************************************************************)
(* Types, over all parts.                                                  *)
(***************************************************************************)
THEOREM GpuTypes == Spec => []TypeOK
<1>1. Safe /\ RingInv => TypeOK
  <2> SUFFICES ASSUME Safe, RingInv PROVE TypeOK
    OBVIOUS
  <2>1. ring.rptr \in 0 .. Words - 1 /\ ring.wptr \in 0 .. Words - 1 /\ ring.control \subseteq Controls
    BY WordsIs DEF RingInv, RingTypes
  <2>2. \A t \in Threads : pc[t] \in {"idle", "status", "doorbell", "poll", "sleep", "modify", "copy"}
    BY DEF RingInv, RingTypes, PcStates
  <2>3. BusInv /\ MapTypes
    BY DEF Safe, MapInv
  <2> QED
    BY <2>1, <2>2, <2>3 DEF TypeOK, BusInv, MapTypes
<1> QED
  BY <1>1, SafeAlways, RingAlways, PTL

(***************************************************************************)
(* One dispatcher that waits for an idle GPU never overruns the ring.      *)
(***************************************************************************)
THEOREM RingIsNotOverrun == OneDispatcher /\ WaitsForIdle => (Spec => []RingNotOverrun)
<1> SUFFICES ASSUME OneDispatcher, WaitsForIdle PROVE Spec => []RingNotOverrun
  OBVIOUS
<1>1. RingInv => RingNotOverrun
  <2> SUFFICES ASSUME RingInv PROVE RingNotOverrun
    OBVIOUS
  <2>1. Total(queue) <= Words - 2 /\ Total(queue) \in Nat /\ Words \in Nat
    BY WordsIs, TotalIs DEF RingInv, RingTypes, Empty
  <2> QED
    BY <2>1 DEF RingNotOverrun
<1> QED
  BY <1>1, RingAlways, PTL
=============================================================================
