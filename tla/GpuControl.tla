----------------------------- MODULE GpuControl -----------------------------
(***************************************************************************)
(* Direct control of the GPU, src/device/retryix_gpu_hw_windows.c: opening *)
(* the drivers and mapping the three BARs step by step, handing them back, *)
(* copies through the VRAM window, and compute work submitted to the ring  *)
(* of the command processor while the GPU takes commands off it.           *)
(*                                                                         *)
(* The drivers and the GPU are external.  Any open or mapping may fail.    *)
(* Windows gives out the lowest free handle value again, which is what a   *)
(* stale value can meet.  The GPU is active exactly while its two ring     *)
(* pointers differ.  It takes the chains as they were counted by the       *)
(* submitter, whose words the code does not put into the ring.             *)
(***************************************************************************)
EXTENDS BusScheduler, Sums

CONSTANTS
  Threads,
  Dispatchers,   \* the threads that submit, wait and reset
  WaitsForIdle,  \* TRUE if they submit only after they have seen an idle GPU
  RingSizes,     \* sizes of the ring in bytes
  Args,          \* whether kernels come with arguments
  RingStarts,    \* where its pointers may be at first
  MaxHandles, MaxMaps,
  MaxQueued,     \* bound: chains in the ring
  TickRange,     \* milliseconds after which GetTickCount wraps, 2^32
  Starts,        \* ticks at which waits begin
  Timeouts,
  VramRange,     \* 2^64, the range of an offset
  VramWindow,    \* bar2_size
  Offsets, Sizes

ASSUME DispatchersAssumption == Dispatchers \subseteq Threads

ASSUME BoundsAssumption == MaxHandles \in Nat /\ MaxMaps \in Nat

(* The command processor counts its ring in quad words: the least is 8 bytes. *)
ASSUME RingAssumption == RingSizes \subseteq {n \in Nat : n >= 8} /\ RingStarts \subseteq Nat

ASSUME VramAssumption ==
  VramRange \in Nat \ {0} /\ VramWindow \in Nat /\ Offsets \subseteq Nat /\ Sizes \subseteq Nat

VARIABLES
  handles,            \* open handles of the process
  mapped,             \* addresses at which a BAR is mapped
  g_winring0_handle,
  mapping,            \* g_bar0_mapping, g_bar2_mapping, g_bar5_mapping
  dev,                \* the handle object of the caller
  phase,              \* where an initialisation stands
  found,              \* during an initialisation, what was open and mapped before
  ring,               \* ring registers: size, read and write pointer, control bits
  queue,              \* words of the chains submitted and not yet taken
  pc, local,
  answer              \* what a dispatcher learned last of the GPU

mapVars == <<handles, mapped, g_winring0_handle, mapping, dev, phase, found>>

gpuVars == <<mapVars, ring, queue, pc, local, answer>>

vars == <<busVars, gpuVars>>

INVALID == -1
NULL == 0
Bars == {"bar0", "bar2", "bar5"}
Controls == {"enable"}   \* of CP_RB_CNTL; the other bits play no part

(* The handle object after its memset. *)
Zeroed == [initialized |-> FALSE, bar0 |-> NULL, bar2 |-> NULL, bar5 |-> NULL,
           bus_info |-> Unset]

NotFound == [handles |-> {}, mapped |-> {}]

Init ==
  /\ BusInit
  /\ handles = {} /\ mapped = {}
  /\ g_winring0_handle = INVALID
  /\ mapping = [b \in Bars |-> [handle |-> 0, address |-> NULL]]
  /\ dev = Zeroed
  /\ phase = "none"
  /\ found = NotFound
  /\ \E size \in RingSizes, p \in RingStarts, c \in SUBSET Controls :
       /\ p < size \div 4
       /\ ring = [size |-> size, rptr |-> p, wptr |-> p, control |-> c]
  /\ queue = <<>>
  /\ pc = [t \in Threads |-> "idle"]
  /\ local = [t \in Threads |-> Unset]
  /\ answer = [t \in Threads |-> "none"]

Goto(t, l) == pc' = [pc EXCEPT ![t] = l]

Lowest(taken, max) == Min((1 .. max) \ taken)

AllIdle == phase = "none" /\ \A t \in Threads : pc[t] = "idle"
-----------------------------------------------------------------------------
(* Opens one of the two drivers and asks it to map.  A handle that is closed
   again stays in the record, an address there outlives a failure. *)
map_physical_memory(b) ==
  LET h    == Lowest(handles, MaxHandles)
      a    == Lowest(mapped, MaxMaps)
      Outcome(ok, rec, hs, ms) == [ok |-> ok, record |-> rec, handles |-> hs, mapped |-> ms]
  IN  {Outcome(FALSE, [mapping[b] EXCEPT !.handle = INVALID], handles, mapped),
       Outcome(FALSE, [mapping[b] EXCEPT !.handle = h], handles, mapped),
       Outcome(TRUE, [handle |-> h, address |-> a], handles \cup {h}, mapped \cup {a})}

(* What unmapping does to a record, and what it gives back.  A handle that is
   not INVALID is closed, also one whose value is stale or was never set. *)
Unmapped(m) ==
  IF m.handle = INVALID THEN m ELSE [handle |-> INVALID, address |-> NULL]

HandlesOf(bs) == {mapping[b].handle : b \in bs}

AddressesOf(bs) == {mapping[b].address : b \in {c \in bs : mapping[c].handle \in handles}}

(* A handle that is in use may be initialised again.
   Bound: while enough handles and addresses are left. *)
retryix_gpu_hw_init ==
  /\ AllIdle
  /\ Cardinality(handles) + 4 <= MaxHandles
  /\ Cardinality(mapped) + 3 <= MaxMaps
  /\ EnsureBus
  /\ dev' = [Zeroed EXCEPT !.bus_info = Optimal]
  /\ phase' = "find"
  /\ found' = [handles |-> handles, mapped |-> mapped]
  /\ UNCHANGED <<adapters, handles, mapped, g_winring0_handle, mapping, ring, queue, pc,
                 local, answer>>

(* The scan reads through WinRing0, opened on the first read and kept. *)
init_winring0 ==
  IF g_winring0_handle # INVALID
  THEN UNCHANGED <<handles, g_winring0_handle>>
  ELSE /\ g_winring0_handle' = Lowest(handles, MaxHandles)
       /\ handles' = handles \cup {g_winring0_handle'}

find_amd_gpu_pci_address ==
  /\ phase = "find"
  /\ \/ init_winring0 /\ phase' \in {"bar0", "none"}
     \/ /\ g_winring0_handle = INVALID
        /\ phase' = "none"
        /\ UNCHANGED <<handles, g_winring0_handle>>
  /\ found' = IF phase' = "none" THEN NotFound ELSE found
  /\ UNCHANGED <<busVars, mapped, mapping, dev, ring, queue, pc, local, answer>>

After(b) == CASE b = "bar0" -> "bar2" [] b = "bar2" -> "bar5" [] b = "bar5" -> "verify"

(* Fault: the mapping of BAR0 is kept when BAR2 cannot be mapped. *)
MapFails_Keep(b, o) ==
  /\ mapping' = [mapping EXCEPT ![b] = o.record]
  /\ handles' = o.handles /\ mapped' = o.mapped
  /\ phase' = IF b = "bar5" THEN "verify" ELSE "none"

(* Fault: the initialisation goes on without BAR2, as it does without BAR5. *)
MapFails_Optional(b, o) ==
  /\ mapping' = [mapping EXCEPT ![b] = o.record]
  /\ handles' = o.handles /\ mapped' = o.mapped
  /\ phase' = IF b = "bar0" THEN "none" ELSE After(b)

(* BAR0 is needed, BAR2 too and undoes BAR0, BAR5 is optional. *)
MapFails(b, o) ==
  IF b = "bar2"
  THEN /\ mapping' = [mapping EXCEPT !["bar2"] = o.record, !["bar0"] = Unmapped(@)]
       /\ handles' = handles \ HandlesOf({"bar0"})
       /\ mapped' = mapped \ AddressesOf({"bar0"})
       /\ phase' = "none"
  ELSE /\ mapping' = [mapping EXCEPT ![b] = o.record]
       /\ handles' = o.handles /\ mapped' = o.mapped
       /\ phase' = IF b = "bar5" THEN "verify" ELSE "none"

MapSucceeds(b, o) ==
  /\ mapping' = [mapping EXCEPT ![b] = o.record]
  /\ handles' = o.handles /\ mapped' = o.mapped
  /\ phase' = After(b)

enumerate_amd_gpu_bars(b) ==
  /\ phase = b
  /\ \E o \in map_physical_memory(b) :
       /\ IF o.ok THEN MapSucceeds(b, o) ELSE MapFails(b, o)
       /\ dev' = IF o.ok THEN [dev EXCEPT ![b] = o.record.address] ELSE dev
  /\ found' = IF phase' = "none" THEN NotFound ELSE found
  /\ UNCHANGED <<busVars, g_winring0_handle, ring, queue, pc, local, answer>>

(* GRBM_STATUS reads as ones or it does not. *)
VerifyAccess ==
  /\ phase = "verify"
  /\ phase' = "none"
  /\ found' = NotFound
  /\ \E ok \in BOOLEAN : dev' = [dev EXCEPT !.initialized = ok]
  /\ UNCHANGED <<busVars, handles, mapped, g_winring0_handle, mapping, ring, queue, pc, local,
                 answer>>

(* The BAR pointers stay in the handle. *)
retryix_gpu_hw_cleanup ==
  /\ AllIdle
  /\ dev.initialized
  /\ mapping' = [b \in Bars |-> Unmapped(mapping[b])]
  /\ handles' = handles \ (HandlesOf(Bars) \cup {g_winring0_handle})
  /\ mapped' = mapped \ AddressesOf(Bars)
  /\ g_winring0_handle' = INVALID
  /\ retryix_bus_scheduler_cleanup
  /\ dev' = [dev EXCEPT !.initialized = FALSE]
  /\ UNCHANGED <<adapters, phase, found, ring, queue, pc, local, answer>>
-----------------------------------------------------------------------------
(* The program uses the handle between a successful init and cleanup. *)
MayUse(t) == dev.initialized /\ phase = "none" /\ pc[t] = "idle"

Words == ring.size \div 4

(* The words of the packets: nop, set_sh_reg, acquire_mem, dispatch_direct. *)
SetShReg(count) == count + 2
AcquireMem == 7
DispatchDirect == 5

(* The packet chain of a dispatch, with kernel arguments or without. *)
Chain(args) ==
  2 + SetShReg(2) + SetShReg(2) + SetShReg(3) + (IF args THEN SetShReg(2) ELSE 0)
    + AcquireMem + DispatchDirect + AcquireMem

Total(chains) == SeqSum(chains)

(* The first register that get_ring_status reads of what submit needs. *)
retryix_gpu_dispatch_compute(t, args) ==
  /\ MayUse(t)
  /\ WaitsForIdle => answer[t] = "idle"
  /\ Len(queue) < MaxQueued
  /\ local' = [local EXCEPT ![t] = [dwords |-> Chain(args), rptr |-> ring.rptr]]
  /\ Goto(t, "status")
  /\ UNCHANGED <<busVars, mapVars, ring, queue, answer>>

(* Space in use as the code counts it, and what is left, a uint32_t that is
   beyond every packet once it falls below zero. *)
SpaceUsed(r, w) == IF w >= r THEN w - r ELSE (ring.size - r) + w

SpaceFree(r, w) ==
  LET free == (ring.size - SpaceUsed(r, w)) - 8
  IN  IF free < 0 THEN 2147483647 ELSE free

Fits(r, w, dwords) == dwords * 4 <= SpaceFree(r, w)

submit_pm4_to_ring(t) ==
  /\ pc[t] = "status"
  /\ local' = [local EXCEPT ![t] = [dwords |-> @.dwords, wptr |-> ring.wptr]]
  /\ Goto(t, IF "enable" \in ring.control /\ Fits(local[t].rptr, ring.wptr, local[t].dwords)
             THEN "doorbell" ELSE "idle")
  /\ UNCHANGED <<busVars, mapVars, ring, queue, answer>>

(* Fault: the write pointer is taken modulo the bytes of the ring. *)
NewWptr_Bytes(w, dwords) == (w + dwords) % ring.size

NewWptr(w, dwords) == (w + dwords) % Words

(* Register and BAR5 get the same value. *)
retryix_gpu_ring_doorbell(t) ==
  /\ pc[t] = "doorbell"
  /\ ring' = [ring EXCEPT !.wptr = NewWptr(local[t].wptr, local[t].dwords)]
  /\ queue' = Append(queue, local[t].dwords)
  /\ answer' = [answer EXCEPT ![t] = "none"]
  /\ local' = [local EXCEPT ![t] = Unset]
  /\ Goto(t, "idle")
  /\ UNCHANGED <<busVars, mapVars>>

(* The GPU takes the next chain.  Where it stands within one is not seen. *)
GpuTakesChain ==
  /\ queue # <<>>
  /\ ring' = [ring EXCEPT !.rptr = (@ + Head(queue)) % Words]
  /\ queue' = Tail(queue)
  /\ UNCHANGED <<busVars, mapVars, pc, local, answer>>

GUI_ACTIVE == ring.rptr # ring.wptr
-----------------------------------------------------------------------------
Return(t, result) ==
  /\ answer' = [answer EXCEPT ![t] = result]
  /\ local' = [local EXCEPT ![t] = Unset]
  /\ Goto(t, "idle")

retryix_gpu_wait_compute_idle(t, timeout) ==
  /\ MayUse(t)
  /\ \E now \in Starts :
       local' = [local EXCEPT ![t] = [timeout |-> timeout, start |-> now, now |-> now]]
  /\ Goto(t, "poll")
  /\ UNCHANGED <<busVars, mapVars, ring, queue, answer>>

(* Fault: the difference of the ticks is not taken modulo their range. *)
Elapsed_Signed(start, now) == now - start

Elapsed(start, now) == (now - start) % TickRange

(* Fault: a wait that has run out says that the GPU is idle. *)
TimedOut_Idle == "idle"

TimedOut == "timeout"

PollStatus(t) ==
  /\ pc[t] = "poll"
  /\ IF ~GUI_ACTIVE
     THEN Return(t, "idle")
     ELSE IF local[t].timeout > 0 /\ Elapsed(local[t].start, local[t].now) > local[t].timeout
     THEN Return(t, TimedOut)
     ELSE Goto(t, "sleep") /\ UNCHANGED <<local, answer>>
  /\ UNCHANGED <<busVars, mapVars, ring, queue>>

(* Sleep(1) lasts one millisecond or two.  A wait without a timeout does not
   look at the time. *)
Sleep(t) ==
  /\ pc[t] = "sleep"
  /\ \E d \in 1 .. 2 :
       local' = [local EXCEPT ![t].now =
                   IF local[t].timeout = 0 THEN @ ELSE (@ + d) % TickRange]
  /\ Goto(t, "poll")
  /\ UNCHANGED <<busVars, mapVars, ring, queue, answer>>

retryix_gpu_is_idle(t) ==
  /\ MayUse(t)
  /\ answer' = [answer EXCEPT ![t] = IF GUI_ACTIVE THEN "busy" ELSE "idle"]
  /\ UNCHANGED <<busVars, mapVars, ring, queue, pc, local>>

(* The reset drops what is in the ring; the driver of the system may enable
   the ring again or not. *)
retryix_gpu_soft_reset(t) ==
  /\ MayUse(t)
  /\ \E c \in SUBSET {"enable"} :
       ring' = [ring EXCEPT !.rptr = 0, !.wptr = 0, !.control = c]
  /\ queue' = <<>>
  /\ answer' = [answer EXCEPT ![t] = "none"]
  /\ UNCHANGED <<busVars, mapVars, pc, local>>

(* A bit of the control register is changed: read, then written. *)
retryix_gpu_modify_reg(t, mask, value) ==
  /\ MayUse(t)
  /\ local' = [local EXCEPT ![t] = [old |-> ring.control, mask |-> mask, value |-> value]]
  /\ Goto(t, "modify")
  /\ UNCHANGED <<busVars, mapVars, ring, queue, answer>>

retryix_gpu_write_reg32(t) ==
  /\ pc[t] = "modify"
  /\ LET m == local[t]
     IN  ring' = [ring EXCEPT !.control = (m.old \ m.mask) \cup (m.value \cap m.mask)]
  /\ local' = [local EXCEPT ![t] = Unset]
  /\ Goto(t, "idle")
  /\ UNCHANGED <<busVars, mapVars, queue, answer>>

(* The check of a copy; the sum wraps where it leaves the range of an offset. *)
InWindow(offset, size) == (offset + size) % VramRange <= VramWindow

(* vram_read, vram_write and vram_map: the check, then the access. *)
retryix_gpu_vram_access(t, offset, size) ==
  /\ MayUse(t)
  /\ InWindow(offset, size)
  /\ local' = [local EXCEPT ![t] = [offset |-> offset, size |-> size]]
  /\ Goto(t, "copy")
  /\ UNCHANGED <<busVars, mapVars, ring, queue, answer>>

VramAccessDone(t) ==
  /\ pc[t] = "copy"
  /\ local' = [local EXCEPT ![t] = Unset]
  /\ Goto(t, "idle")
  /\ UNCHANGED <<busVars, mapVars, ring, queue, answer>>
-----------------------------------------------------------------------------
(* The steps of a wait, which returns or sleeps. *)
WaitStep(t) == PollStatus(t) \/ Sleep(t)

Initialise ==
  \/ retryix_gpu_hw_init
  \/ find_amd_gpu_pci_address
  \/ \E b \in Bars : enumerate_amd_gpu_bars(b)
  \/ VerifyAccess

(* Other users of the bus scheduler.
   Bound: they act, and adapters come and go, while no handle is in use. *)
BusClient ==
  \/ retryix_bus_scheduler_init
  \/ retryix_bus_enumerate_controllers
  \/ retryix_bus_get_optimal_config
  \/ retryix_bus_scheduler_cleanup /\ UNCHANGED adapters

Submit(t) ==
  \/ \E args \in Args : retryix_gpu_dispatch_compute(t, args)
  \/ submit_pm4_to_ring(t)
  \/ retryix_gpu_ring_doorbell(t)

Access(t) ==
  \/ \E bit \in Controls, on \in BOOLEAN :
       retryix_gpu_modify_reg(t, {bit}, IF on THEN {bit} ELSE {})
  \/ retryix_gpu_write_reg32(t)
  \/ \E offset \in Offsets, size \in Sizes : retryix_gpu_vram_access(t, offset, size)
  \/ VramAccessDone(t)

Next ==
  \/ Initialise
  \/ retryix_gpu_hw_cleanup
  \/ ~dev.initialized /\ phase = "none" /\ (BusClient \/ Plug) /\ UNCHANGED gpuVars
  \/ \E t \in Dispatchers :
       \/ Submit(t)
       \/ \E timeout \in Timeouts : retryix_gpu_wait_compute_idle(t, timeout)
       \/ WaitStep(t)
       \/ retryix_gpu_is_idle(t)
       \/ retryix_gpu_soft_reset(t)
  \/ \E t \in Threads : Access(t)
  \/ GpuTakesChain

Spec == Init /\ [][Next]_vars

(* A wait is a loop of one thread, which the system schedules.  Nothing is
   assumed of the GPU. *)
FairSpec == Spec /\ \A t \in Dispatchers : WF_vars(WaitStep(t))
-----------------------------------------------------------------------------
TypeOK ==
  /\ g_controller_count \in 0 .. MAX_CONTROLLERS
  /\ g_controller_count > 0 <=> bus_initialized
  /\ handles \subseteq 1 .. MaxHandles /\ mapped \subseteq 1 .. MaxMaps
  /\ \A b \in Bars : /\ mapping[b].handle \in -1 .. MaxHandles
                     /\ mapping[b].address \in 0 .. MaxMaps
  /\ phase \in Bars \cup {"none", "find", "verify"}
  /\ ring.rptr \in 0 .. Words - 1 /\ ring.wptr \in 0 .. Words - 1
  /\ ring.control \subseteq Controls
  /\ \A t \in Threads : pc[t] \in {"idle", "status", "doorbell", "poll", "sleep",
                                  "modify", "copy"}

(* A BAR at its own address, through its own driver handle. *)
Own(b) ==
  /\ dev[b] = mapping[b].address
  /\ dev[b] \in mapped
  /\ mapping[b].handle \in handles \ {g_winring0_handle}

Apart(b, c) == mapping[c].handle # mapping[b].handle /\ dev[c] # dev[b]

Connected ==
  /\ \A b \in Bars : (b # "bar5" \/ dev.bar5 # NULL) =>
                        Own(b) /\ \A c \in Bars \ {b} : Apart(b, c)
  /\ g_winring0_handle \in handles

(***************************************************************************)
(* A handle that says it is initialised has its registers and its VRAM     *)
(* window at addresses that are mapped now, through drivers whose handles  *)
(* are open and its own, and a doorbell if it has one, whatever failed in  *)
(* earlier attempts and whichever handle values were closed and reused.    *)
(***************************************************************************)
InitializedHandleMapped == dev.initialized => Connected

(***************************************************************************)
(* An initialisation that fails while it maps leaves nothing mapped and no *)
(* handle open that was not there before, but for the WinRing0 handle,     *)
(* which is kept for the next one.                                         *)
(***************************************************************************)
FailedMappingIsUndone ==
  [][(phase \in Bars /\ phase' = "none") =>
       mapped' \subseteq found.mapped
       /\ handles' \subseteq (found.handles \cup {g_winring0_handle'})]_vars

(***************************************************************************)
(* A dispatcher that submits only after a wait or a query has told it that *)
(* the GPU is idle never writes past what the GPU has read, for every size *)
(* of the ring, with waits that run out, resets and re-initialisations in  *)
(* between.                                                                *)
(***************************************************************************)
RingNotOverrun == Total(queue) <= Words

(***************************************************************************)
(* The comment on the free space says that 8 words are held back, so that  *)
(* what is accepted leaves them free.                                      *)
(***************************************************************************)
ReserveKept == queue # <<>> => Total(queue) + 8 <= Words

(***************************************************************************)
(* The controller a handle works with is one that nothing limits whenever  *)
(* the table it was chosen from had such a controller: what is said of the *)
(* choice is that its hardware limits it, and nothing else does.           *)
(***************************************************************************)
OptimalIsUnlimited ==
  dev.bus_info # Unset =>
    \/ LimitationReason(dev.bus_info.id) = {"hardware"}
    \/ \A i \in 0 .. dev.bus_info.of - 1 : LimitationReason(i) # {"hardware"}

(***************************************************************************)
(* A wait with a timeout returns although the GPU hangs, also across the   *)
(* wrap of the tick counter, as long as one poll and its sleep are shorter *)
(* than what is left of the range of ticks.                                *)
(***************************************************************************)
WaitEnds ==
  \A t \in Dispatchers :
    pc[t] \in {"poll", "sleep"} /\ local[t].timeout \in 1 .. TickRange - 3
      ~> pc[t] = "idle"
=============================================================================
