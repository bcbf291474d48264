# RetryIX 3.0 "Lu Ban": specifications and proofs

TLA+ specifications of the C sources of this repository, the TLC runs that check
them on small instances, and proofs checked by TLAPS. Paths below are relative to
the root of the repository: the library is `src/`, its headers `include/`.

1. [The system](#1-the-system): components, interactions, what is hard
2. [The modules](#2-the-modules): state and actions, and the code they stand for
3. [The runs](#3-the-runs): what each one checks, bounds, fairness
4. [Proofs](#4-proofs)
5. [Where code and documentation disagree](#5-where-code-and-documentation-disagree)
6. [What is not modelled](#6-what-is-not-modelled)
7. [Plan](#7-plan)

## 1. The system

RetryIX is a Windows DLL that offers one C API over several compute back ends:
128-bit and 256-bit atomics in software, "SVM" (shared virtual memory) blocks,
kernels that run on the GPU through Vulkan or on the CPU, and a layer of system
services (bus, south bridge, host messages, topology, direct register access).
`build_modular.bat` compiles the files under `src/modules`, the Vulkan engine, the
control interface, `svm/retryix_svm_atomic.c`, the topology extension and the
direct GPU control. Other files are alternatives that the script leaves out
(`core/retryix_api.c`, `memory/*.c`, `kernel/*.c` but for the Vulkan engine); some
are identical copies of files under `src/modules`.

### Components

| component | state it keeps | operations | what makes it correct |
|---|---|---|---|
| pair exchange, `svm/retryix_svm_atomic.c` | table of one-byte spinlocks; the caller's two cells | compare and exchange of two 128-bit cells | locks are exclusive and never lost, no deadlock, the two cells change together |
| exported atomics, `modules/retryix_atomic_advanced_module.c` | another such table; cells | fetch-add, compare-exchange, exchange, load, store of 128 bits, pair exchange | every call is atomic and reports what it replaced |
| scalar atomics, `modules/retryix_atomic_module.c` | one word | one instruction each, and loops of compare and exchange | a loop loses no other thread's operation |
| memory manager, `memory/retryix_memory.c` | growing array of descriptors, counters | init, alloc, free, map, unmap, copies, cleanup | every block and buffer has one descriptor, nothing leaks or is freed twice, counters are exact |
| core, `modules/retryix_core_module.c` | two flags, a critical section, a count | initialize, finalize, quick alloc and free | the critical section exists while it is used; the flags may be read without it |
| kernel engine, `modules/retryix_kernel_module.c` | kernel objects with arguments | create, set arguments, execute | arguments are owned by one side, an execution computes what was asked for |
| Vulkan engine, `kernel/retryix_kernel_vulkan_compute.c` | instance, device, pool, cached pipeline | init, cleanup, vector addition | each of some thirty calls to the driver may fail, and everything taken is given back |
| 8-thread kernels, `kernel/retryix_kernel_module.c` | a kernel with arguments, two counts | create, set arguments, execute | the threads compute each element once, all of them |
| SVM contexts, `svm/retryix_svm.c`; API layer, `core/retryix_api.c`; simple memory; zero copy; topology allocator | contexts with counts, allocation counters, handles | quick alloc and free, counted alloc and free, transfers | a block is freed by the heap it came from; a handle is freed once; counters tell a leak |
| host messages, `comm/retryix_host_comm.c` | ring of packets, two indices | init, send, recv, cleanup | first in, first out; no packet lost |
| control, `control/retryix_control.c` | table of workloads | set and query affinity | an answer belongs to its workload |
| south bridge, `southbridge/retryix_southbridge.c` | lanes, power, flags | detect, request lanes, hot plug, power modes, remap, cleanup | budgets stay in range |
| bus scheduler, `bus/retryix_bus_scheduler.c` | table of NVMe controllers | init, enumerate, choose, cleanup | the choice is the best one there is |
| direct GPU control, `device/retryix_gpu_hw_windows.c` | mapped BARs, the GPU's registers and ring | init, cleanup, register and VRAM access, packet submission, wait, reset | packets are not overwritten; waiting ends; mappings are undone |
| discovery, `core/retryix_api.c`, `device/*.c`, `utils/retryix_bridge_*.c` | lists of devices | auto-initialisation with retries, OpenCL, Vulkan, DXGI, registry, EGL | lists fit and name what is there once; everything taken is given back, whatever fails, but where section 5 says otherwise |
| topology documents, `topology/retryix_topology_ext.c` | inventory, documents | discover network, sound, devices, atomics, SVM | lists agree with their counts |
| system, bridge, topology and zero-copy modules | flags and counts | init, queries, shutdown | nothing answers before init or after shutdown |
| utilities | | probes, benchmarks | I/O |

### Interactions

* The kernel engine calls the Vulkan engine for `vector_add`; the Vulkan engine
  initialises itself on the first such call. Both are modelled together
  (`KernelEngine` extends `VulkanCompute`).
* The memory manager and the Vulkan engine call a driver (OpenCL, Vulkan) that may
  refuse any request. The driver is modelled by the objects that live in it.
* The two atomics files share nothing but their idea of a lock table; a cell that
  is used through both is protected by neither.
* The core, the control interface and the host messages are called by any thread
  of the host program. `DllMain` calls `retryix_finalize` on unload.
* Direct GPU control takes its NVMe controller from the bus scheduler and ends it
  on cleanup (`GpuControl` extends `BusScheduler`); the GPU itself moves the read
  pointer of the ring at any time. The system module's shutdown calls three
  cleanups in a fixed order.
* The API layer calls discovery and an SVM context; discovery calls the bridges
  where OpenCL has nothing; the topology documents embed the device inventory.
* The remaining services share no state and do not call each other.

### What is hard here

Interleavings of threads in the atomics, in the core's life cycle and in the
tables without locks; locks taken in an order the caller determines; partial
failure in the long sequences of calls to a driver; state that is cached across a
cleanup; long sequences of legal calls on tables that move their entries; sizes
that wrap; pointers that hardware moves. `PROJECT.json` lists these as hazards, each at its line, with the
properties that cover it.

## 2. The modules

Names of definitions are those of the functions and variables they stand for;
`PROJECT.json` has the lines of each. Definitions marked `Fault:` are plausible
mistakes in the code, kept next to what they change: each property of a passing
run is accompanied by one under which TLC finds it violated.

### `PairRegister`, `SvmPair256`: the 256-bit exchange

`PairRegister` is the promise: a call compares two cells with an expected pair and
replaces them in one step, or hands back the pair that was there.

`SvmPair256` is `retryix_svm_atomic_compare_exchange_pair_256` step by step, for any
set of threads. `g_spinlocks` and `mem` are the shared memory; `pc`, `call`,
`expected`, `success` and `ret` belong to a thread. Each acquisition of a lock, each
comparison, load, store and release is an action (`LockLo` is line 522, `CmpLo`
line 526, and so on). A cell is read or written in one step, although it is four
or two machine words: all accesses happen under the cell's lock, which
`LockOwnership` shows, so no thread that keeps to this function can see a part of
one. Spinning is an action that is disabled while the byte is 1.

The refinement (`PairIsAtomic`) lets a successful exchange take effect with its
first store and a failed one with the comparison that fails.

### `AtomicCells`, `AtomicAdvanced`: the exported atomics

The functions have two bodies, chosen by the compiler. With MSVC for x64 they are
loops around `_InterlockedCompareExchange128`, whose fourth argument is an array
of two words. `compare_exchange_u128` passes such an array. The others pass the
address of the local `exp_lo`. What the second word of the comparand is then
depends on the layout of the stack frame, and the model has both: `"adjacent"`,
where `exp_hi` follows `exp_lo`, and `"separate"`, where something else does, whose
initial value is arbitrary. With other compilers (`"lock"`) every operation takes a
spinlock. The pair exchange takes one in every build.

`program` holds the build and the calls made in it, and never changes; `op` is the
call a thread is in, `seen` what it has read, `spare` the word behind `exp_lo`.
Without the lock, `fetch_add` reads the high word of its answer again after the exchange
(line 83, `ReadHiAgain`): even with one thread it is the new word, where
`include/retryix_svm.h:135` documents the old value. The object of `AtomicCells` says so:
where calls are `late`, the step at which `fetch_add` takes effect tells its low word only,
and `ReadHigh` tells the high word at a later moment. All other answers are of the step.

`Sound` names the programs whose calls are atomic: all calls take the lock (`LocksIn`), or
none does and `exp_hi` follows `exp_lo` or does not matter (`store`, and
`compare_exchange`, which has its own array). The pair exchange next to lock-free calls, and
loads in the `"separate"` build, are outside it, and there the code does fail
(`atomic_shipped` shows the second).

### `MemoryManager`

`g_memory_context` is a record with the fields of the struct, or `NoContext`.
`heap` and `buffers` are the live host blocks and OpenCL buffers, whose names are
reused as soon as they are free; `mappings` counts, outside the manager, how often
the runtime has a buffer mapped. An allocation that fails gives back what it got,
so only the failure that leaves a trace is an action:
`memory_alloc_realloc_fails`, after which the array pointer is null and the next
call crashes (`UseLostArray`). Cleanup is a loop, one descriptor per step. Reference
counts are always 1 in the code.

### `CoreLifecycle`

One action per access to a flag and per operation on the critical section. Using
a critical section that does not exist, creating one that does, and deleting one
that is held have no defined effect on Windows; they set `undefined`, and the model
stops. The constant `Managed` says whether callers keep to the rules without which
the code cannot work: one thread starts and ends the library, and it ends it when
no other thread is in a call. `outlived` remembers that a block was live when the
library was finalized; blocks of that kind may be freed after the next initialize.

### `VulkanCompute`, `KernelEngine`

`live` is the set of the driver's objects, each with the number of the attempt at
initialisation that it belongs to. `stale` records that a handle of a dead object
was passed to the driver. A step of initialisation, of the pipeline's construction
or of the buffer loop that fails undoes exactly what the code undoes there
(`InitUndoes`, `PipelineLeft`, `BuffersUndone`). What fails because of the machine
(no GPU with a compute queue, no host-visible memory) fails every time; everything
else may fail at any time. Failures that the code does not look at are steps like the
others. When the second `vkEnumeratePhysicalDevices` fails (151, and the `malloc` before it),
the loop goes over what the array held (`mislisted`), and a `physical_device` that an earlier
attempt chose is taken for this one's (170, `SelectGpu`). When a `vkMapMemory` (580, 584, 669)
or the `vkQueueWaitIdle` (666) fails, the call goes on and reports success without having
delivered its result: `served` is false. `vector_add` is five actions: init on demand, pipeline,
descriptor set, buffers, commands. One thread uses the engine, as in the examples;
its globals have no lock.

`KernelEngine` adds kernel objects. An argument refers to a block of the heap, owned
by the engine (a copied scalar) or by the caller (an SVM block). `Dispatched` is the
chain of `strstr` tests: a kernel is recognised by its name or by a name anywhere in
its source. An execution computes `1 .. n` on the GPU and, where that fails,
`1 .. min(n, work size)` on the CPU.

### `BusScheduler`, `GpuControl`: the GPU's registers and its ring

`BusScheduler` is the table of NVMe controllers. What limits a controller is a
function of its number, as in the code's simulated detection, so the table is its
length. `GpuControl` is initialisation as one step per BAR (`enumerate_amd_gpu_bars`),
each of which may fail, the copies through the VRAM window, and the ring.

`handles` and `mapped` are what Windows has open and mapped for the process. Values of
closed handles are given out again, lowest first, and `mapping` keeps the values that
the code keeps, so a stale one can meet a new handle (lines 201 and 238-240 close it
twice). A submission is three steps: the read pointer (`retryix_gpu_dispatch_compute`),
the write pointer and the test for space (`submit_pm4_to_ring`), the doorbell. The GPU
takes a chain in between, at any time (`GpuTakesChain`). Pointers count words, the size
counts bytes, and the free space is a `uint32_t` (`SpaceFree`), as in lines 815-833.
`Chain` counts the words of a dispatch as the code builds it. A wait alternates `PollStatus`
and `Sleep`; ticks wrap at `TickRange`. A program may work on registers of the same
ring from other threads (`retryix_gpu_modify_reg` reads, then writes).

The GPU is external: it is active exactly while its pointers differ. One thread
submits, waits and resets (`Dispatchers`), since two would lose submissions (line 833).

### `HostComm`, `WorkloadControl`: tables without locks

Both model each load and store of a shared variable as an action. `HostComm` is the ring
with one sender and one receiver, `sent` and `received` its history. `WorkloadControl` has
one thread that sets affinities, field by field, against any number that query; `given`
and `settled` are history: what was ever set for a workload, and whether a call that
sets it has ended.

### `SouthBridge`, `KernelThreads`, `ScalarAtomics`, `ModuleStates`

`SouthBridge` keeps lanes, power and the modes of the chipset. Requests are of any width the
code takes, and any slot may be detached at any time. `lanes_of` is history, the lanes that
a slot was granted and has not returned, and `overpaid` says that one returned more (368).
The chipset's id has the halves that the code takes from it (30, 50-51), so that on Windows
it is always an unknown chipset.

`KernelThreads` is the CPU kernel engine with eight threads over one array; `output` says who
computed an element. `missing` counts the threads of the call that could not be created
(129): its join fails at once (132), it reports success, and those that run are `abandoned`;
they read a stack frame that is gone, and may write any element (`AbandonedThread`).

`ScalarAtomics` has the operations on a word, each one step, and the loops as read and
exchange. `windows` chooses the subtraction that reports the new word
(`svm/retryix_svm_atomic.c:25`). `ModuleStates` are the flags and counts of four simulated
modules with the answers that depend on them.

### `Discovery`, `NativeDiscovery`, `Multimodal`, `AndroidBridge`

The searches for devices, one step per call that may fail; `taken`, `held`, `egl` are what
has to be given back. Devices appear between the call that counts them and the one
that lists them. The native search is that of Windows, the only build that links. `Multimodal`
is the topology documents with the filter on adapters and the buffers (`buffers`) that the
document on the network asks for.

### `HostBlocks`

The blocks that small services hand out. A block knows the heap it came from; whoever
gives it back chooses the deallocator from what it knows then: `retryix_quick_svm_free`
asks the context (`Deallocator`), which may have changed since. `regular` is history: no
SVM allocation has fallen back to malloc, no context changed under live blocks, and no
aligned block went to the plain `free` of Windows (`topology_svm_free`); outside it the
code does mix heaps.

### `Services`

These parts share no state and do not call each other's operations, so a behaviour
of `Services` runs one of them, `part`, from its initial states: interleaving the others
would add nothing that a property could see. The initial predicates and next-state
relations are those of the modules, each of which also has a specification of its own
(`CommSpec`, `PchSpec`, `TableSpec` and so on) that the proofs are about.

### `Sums`, `NumberLaws`

`Sums` is the sum of a sequence of numbers as a recursive function; the allocated bytes of
the memory manager, the words in the GPU's ring and the bits of a word are such sums.
`NumberLaws` has what the proofs need of numbers: the least number of a set, division with
rest, and that such a recursion has a solution and what it computes.

## 3. The runs

| run | instance | checks | states |
|---|---|---|---|
| `svm_pair` | 3 threads, 3 cells in 3 lines, 2 overlapping pairs, 4 locks | `TypeOK` `LockOwnership` `NoCircularWait` `PairIsAtomic` `Progress` | 67 000 |
| `svm_pair_natural` | 2 threads, cells of one line and pairs in both orders | finds `NoCircularWait` violated | |
| `atomic_u128` | 3 threads, 1-bit words, all builds | `TypeOK` `CallsAreAtomic` `Progress` | 332 000 |
| `atomic_shipped` | 2 threads, loads and stores, `"separate"` | finds `CallsAreAtomic` violated | |
| `memory` | 3 blocks, 3 buffers, 3 allocations, 4-bit sizes | `TypeOK` `Accounting` `Ownership` `BlocksLargeEnough` `MappingTracked` `CleanupEnds` | 240 000 |
| `memory_unmap` | 2 blocks | finds `UnmappedBeforeRelease` violated | |
| `core` | 3 threads, 2 blocks, managed | `TypeOK` `MutexCanBeTrusted` `CountIsExact` `FinalizeEnds` | 1 800 |
| `core_unmanaged` | the same, not managed | finds `MutexIsUsedWhileItLives` violated | |
| `kernel` | 1 kernel object, 3 blocks, 4 programs, 2 attempts, 2 descriptor sets, 2 command buffers | `TypeOK` `ArgumentsAreOwned` `CallsUnwind` `HandlesAreLive` `ExecutionsCompute` `ExecutionsEnd` | 414 000 |
| `gpu` | 2 threads, of which one submits, rings of 32 and 57 words, 2 chains, 8 handles, 8 ticks | `TypeOK` `InitializedHandleMapped` `RingNotOverrun` `OptimalIsUnlimited` `FailedMappingIsUndone` `WaitEnds` | 530 000 |
| `gpu_ring` | a ring of 64 words, submissions without waiting | finds `ReserveKept` violated | |
| `services` | eleven parts, each small | `TypeOK` `ReceivedInOrder` `LanesWithinTotal` `AnswersWereGiven` `ResultsAreComplete` `FindingsHold` `HeapConsistent` `LoopsAreAtomic` | 567 000 |

Bounds, and why they are enough:

* `svm_pair`: three threads are the fewest for a circle longer than two; two pairs
  that share one cell are the fewest for a lock that two calls want first and
  second. Every call expects a pair of equal bits and flips it, so calls on the
  other pair produce the mixed pairs on which exchanges fail. One pointer is null.
* `atomic_u128`: with words of one bit every sum carries or wraps. Each program has
  the calls that are sound in its build; one call in each group fails its argument
  checks. Three threads let one call be overtaken twice.
* `memory`: `SIZE_WIDTH` 16 stands for 2^64; size 15 wraps when rounded up, 5 is
  rounded to different sizes by the two alignments. The array starts with room for
  one descriptor (128 in the code), so three allocations double it twice.
  `MaxAllocs` and `MaxTransfers` bound the counters for the life of a context; a new
  context after cleanup starts over. Deadlock is not checked: after the crash
  the process is gone.
* `core`: a third thread is needed for a free or an allocation between the others'
  initialize and finalize. Nothing is bounded but the blocks.
* `kernel`: `MaxSets` 2 (100 in the code) lets the pool run dry; `MaxAttempts` 2 is one
  clean-up and one re-initialisation; `MaxCommands` bounds what the driver hands out,
  after which the allocation fails, as it may at any time. The caller has one block
  at a time.
* `gpu`: a chain with arguments has 38 words. The first ring is too small for it and
  must refuse it; the second has room for one, but not for two, and the pointers
  start at 30, so they wrap within it. The second thread changes the ring's control
  register and copies through the window in the middle of the first one's calls.
  `MaxHandles` leaves room for a second initialisation after one that leaks. Ticks
  start near their wrap; timeouts are none and half the range.
  Offsets lie inside, across and beyond the wrap of the sum with the size.
* `services`: the ring has one slot more than it uses and wraps twice; the workload
  table is one entry shorter than the workloads; lanes are asked for in widths between
  -4 and 16 for three slots, with at most 20 (`MaxFree`) ever free; one of the eight
  threads (`MaxMissing`) may be missing; `WorkSizes` are less than, more than
  and no multiple of eight; discovery retries once, over two platforms with two
  devices and an array of three; a word has two bits. Deadlock is not checked: bounded
  parts stop (`MaxSent` packets, `MaxRuns` executions, `MaxAllocs` allocations).

Fairness. `svm_pair`, `atomic_u128` and `core` assume that a thread inside a call keeps
being scheduled (weak fairness of its steps) and nothing about callers. Acquisition
is only weakly fair, since nothing in the code makes a spinning thread win; so
`Progress` promises that somebody finishes, not everybody. `FinalizeEnds` holds
nevertheless, because in a managed program nobody competes with finalize. In
`memory` and `kernel` one call is one loop or one straight function, which runs
(`CleanupStep`, `EngineStep`). The driver is assumed to answer. In `gpu` a wait is a loop
of one thread that the system schedules (`WaitStep`); nothing at all is assumed of the
GPU, so `WaitEnds` covers one that hangs. `services` has no fairness and no liveness.

What the deeper ones say:

* `PairIsAtomic`, `CallsAreAtomic` are refinements: whatever the interleaving, each call
  is one step of the abstract object between its start and its return, and what it
  reports is what it met at that step, except for the high word of a `fetch_add` without
  the lock, which is the one that was there at a later moment.
* `Ownership`: heap, runtime and array agree after any sequence of calls, although the
  array moves its entries and addresses are reused. `CleanupEnds` needs it: cleanup
  frees by address and relies on finding the descriptor it started from.
* `CountIsExact` separates the two cases a test would mix up: the count is exact until
  a block outlives the library, and afterwards is still not above what is live.
* `CallsUnwind` and `HandlesAreLive` cover every combination of failed steps over
  repeated attempts. `HandlesAreLive` allows dead handles in two cases, in both of which the
  code does pass them: the engine was initialised again after a cleanup (line 305 leaves
  `pipeline_ready` set), or the listing of devices failed unnoticed (151).
* `ExecutionsCompute`: whatever fails of what the code looks at, the elements are computed.
  Its exemptions are behaviour of the code: a source that names another kernel runs that
  kernel, and the results of `vkMapMemory` (580, 584, 669) and `vkQueueWaitIdle` (666) are
  dropped, so that success is reported for an execution that has not delivered.
* `MutexCanBeTrusted`: in a managed program the critical section lives whenever a
  thread uses it, and the flag that is read without it does not lie.
* `RingNotOverrun`: with waits that time out, resets and repeated initialisation in
  between, a dispatcher that trusts what a wait told it never writes over what the GPU
  has not read, although the free space is computed from mixed units.
* `InitializedHandleMapped`, `FailedMappingIsUndone`: a handle works on live mappings of
  its own, whatever failed before, and a failed attempt leaves what was there.
  Success of all mappings followed by a failed check of the registers is exempt: there
  the code leaves the mappings (lines 449-456).
* `WaitEnds` covers timeouts up to 3 ticks below the range. Nearer to 2^32 ms a poll can
  step over the moment at which the difference exceeds the timeout, again and again.
* `AnswersWereGiven`: queries race with the setting of fields. An answer may mix two
  configurations of its workload, but never shows another's, and a workload that was
  set once is found at once.
* `FindingsHold` joins the four searches: what was taken is given back on each way out,
  lists fit and name what is there; documents agree with each other. Its exemptions are
  behaviour of the code, and its comment names them: DXGI's last adapter is leaked when the
  list is full (`device/retryix_device_native.c:275`), the document on the network leaks its
  buffer when no list can be had (`topology/retryix_topology_ext.c:256`), and the
  accelerator is called a GPU when it is exported alone.
* `LanesWithinTotal` counts the lanes of each slot, through requests, detached slots, remapping
  and cleanup, and says that free and granted lanes add up. It holds until some slot
  returns more than it was granted, which the code lets happen.
* `ResultsAreComplete` is about executions all of whose threads were created and which no
  thread of an earlier call disturbs; the code reports success for the others too.
* `HeapConsistent` states what clients may rely on while the history is `regular`.

## 4. Proofs

Every theorem holds for all values of the constants under the assumptions below,
which TLC evaluates in the runs. `_proofs` modules extend the module they are about.

| module | theorem | statement |
|---|---|---|
| `SvmPair256_proofs` | `TypeCorrect` | `Spec => []TypeOK` |
| | `LocksAreExclusive` | `Spec => []LockOwnership` |
| | `OrderedCallsDoNotDeadlock` | given `OrderedRequests`, `Spec => []NoCircularWait` |
| | `PairExchangeIsAtomic` | `Spec => PairIsAtomic` |
| `AtomicAdvanced_proofs` | `AtomicTypes` | `Spec => []TypeOK` |
| | `SoundProgramsAreAtomic` | if all `Programs` are `Sound`, `Spec => CallsAreAtomic` |
| `MemoryManager_proofs` | `MemoryTypes` | `Spec => []TypeOK` |
| | `CountersAreExact` | `Spec => []Accounting` |
| | `OneOwnerEach` | `Spec => []Ownership` |
| | `GrantsAreEnough` | `Spec => []BlocksLargeEnough` |
| | `MappingIsTracked` | `Spec => []MappingTracked` |
| `CoreLifecycle_proofs` | `ManagedTypeOK` | given `Managed`, `Spec => []TypeOK` |
| | `ManagedMutex` | given `Managed`, `Spec => []MutexCanBeTrusted` |
| | `ManagedCount` | given `Managed`, `Spec => []CountIsExact` |
| | `ManagedExclusion` | given `Managed`, no two threads are in the critical section |
| `KernelEngine_proofs` | `KernelTypes` | `Spec => []TypeOK` |
| | `ArgumentsHaveOwners` | `Spec => []ArgumentsAreOwned` |
| | `CallsGiveBack` | `Spec => []CallsUnwind` |
| | `DriverGetsLiveHandles` | `Spec => []HandlesAreLive` |
| | `ExecutionsServe` | `Spec => []ExecutionsCompute` |
| `GpuControl_proofs` | `GpuTypes` | `Spec => []TypeOK` |
| | `HandlesAreConnected` | `Spec => []InitializedHandleMapped` |
| | `FailureIsUndone` | `Spec => FailedMappingIsUndone` |
| | `ChoiceIsUnlimited` | `Spec => []OptimalIsUnlimited` |
| | `RingIsNotOverrun` | with one dispatcher that waits, `Spec => []RingNotOverrun` |
| `Services_proofs` | `ServicesTyped` | `Spec => []TypeOK` |
| | `SearchesUnwind` | `Spec => []FindingsHold` |
| | `RingIsFifo` | `CommSpec => []ReceivedInOrder` |
| | `LanesStayWithinTotal` | `PchSpec => []LanesWithinTotal` |
| | `AnswersAreSound` | `TableSpec => []AnswersWereGiven` |
| | `ThreadsShareTheWork` | `KernelSpec => []ResultsAreComplete` |
| | `BlocksGoHome` | `HeapSpec => []HeapConsistent` |
| | `LoopsActAtOnce` | `AtomicSpec => LoopsAreAtomic` |
| | `ServicesKeepPromises` | the last six, from `Spec` of `Services` |

All safety properties of the passing runs are stated by one of them.

### Numbers

The prover cannot use an induction theorem, whose parameter is an operator. `NumberLaws`
does without: the subsets of a finite set are well-founded under strict inclusion
(`FS_StrictSubsetOrderingWellFounded`), so a set of numbers that is not empty has a least
one (`LeastNumber`), and a set that contains 0 and, with a number, the next has them
all (`UpTo`). The set of the numbers for which a claim holds takes the place of the operator.
`Recursion` is the existence of a function defined by recursion, `SumsAre` what `Sums` is,
and the laws of sums (of an append, of a tail, of a sequence that lost or replaced an
element) follow. Division with rest is proved unique (`OnlyRest`), from which come the
laws of `%`.

### Pair exchange

For every finite or infinite set of threads and cells, every set of requests and
every size of the lock table. Assumptions: table size and line size are positive,
addresses are numbers other than NULL, requests are made of them (`TableAssumption`,
`PtrAssumption`, `RequestAssumption`).

*Locks.* `LockOwnership` is not inductive alone. A thread that gives a lock back must be
its only holder, which fails if it holds the same lock twice; and the bucket it
releases must be the one it took, which needs the call to be a request. The
invariant is

    IInv == TypeOK /\ CallOK /\ LockOwnership /\ TwoLocks

where `CallOK` says that a thread in the function has a valid call, and `TwoLocks` that
a thread with both locks has them in different buckets: it took the second while
the byte was 0, and the first was 1. `HoldsFrame`, `KeepLocks`, `TakeLock` and `GiveLock`
treat the four ways an action can affect who holds what, so each action is one
short step.

*No deadlock.* In a circle take a thread that wants the largest bucket. Who waits holds
nothing or holds a bucket below the one it wants (`WaitsUpwards`); the thread that
holds the largest wanted bucket would have to want a larger one. `LargestBucket`
picks it; that the table is finite is all it needs, the threads may be any number.

*Atomicity.* The refinement needs what a thread knows between its steps:

    DInv == IInv /\ Knowledge

After `CmpLo` succeeded the low cell still holds the expected value; on the way to
the loads the cells still differ from the expected pair; after the first load the
low cell has not changed. This is inductive because two threads that have both
locks work on disjoint cells (`DisjointCells`), which follows from `LockOwnership`.
`NextRefines` then maps each action to a step of `PairRegister` or to a stutter:
`StoreLo` is `Succeed`, a comparison that fails is `Fail`, `UnlockLo` is `Return`.

### Exported atomics

For any words, threads and cells, and any programs that are `Sound`. Assumptions:
the lock table and the words are not empty, a cache line is a multiple of 32 bytes
(`SizesAssumption`); calls that pass the checks name cells there are and have values for
them (`CallsAssumption`); `NoAnswer` is no answer, whole or half (`AnswerAssumption`). TLC evaluates these and that
the programs of `atomic_u128` are `Sound`. `AtomicTypes` needs no soundness.

    ReachInv == Types /\ LockInv /\ SeenInv /\ Sound(program)

`LockInv`: the byte of a thread in its critical section is 1, and no two such threads share one.
Both cells of an aligned pair fall into one line (`PairsInLines`), so calls with a cell in
common have the lock in common, and what was read under it is what is there until the
write (`SeenInv`). Where calls go without locks, the compare-and-swap itself says that the
cell still holds what was read. `PendInv` (at most one thread is between the two writes of a
pair) makes the abstract cells a function of the state: they are the memory, but for
the second cell of such a thread, which already has its new value. `SumIs` shows that the
carry deduced from the wrap of the low word yields the sum of two-word numbers. The steps
that take effect are the successful exchange, the failed one of a load or of
`compare_exchange`, the first locked write, and a locked read with nothing to write after it.
Invocation and return map to those of `AtomicCells`, and the second read of `fetch_add`
(`ReadHiAgain`) to its `ReadHigh`; all other steps stutter.

### Memory manager

For any addresses, sizes, initial capacity and number of allocations, and any
alignments that divide the range of `size_t` (`SizeAssumption`, `NullAssumption`).

    IInv == Types /\ (HasArray => Owned(ctx.descriptors) /\ AllSound(ctx.descriptors))

`Owned(s)` says that the descriptors in `s` name the live blocks and buffers one to one.
Free moves the last descriptor into the gap, so the lemma about `Removed` is about an
index and the last one, which may be the same. `Sound` of a descriptor does not
mention its place, and survives the move. Rounding up is `(n + a - 1) - (n + a - 1) % a`
modulo 2^w: where it wraps the result is 0, for which OpenCL creates no buffer, and
otherwise it is at least `n`; that needs `a` to divide 2^w.

*Counters.* `CountInv` says that the counters are sums over the array, whatever its order.
An allocation appends a size; a free moves the last descriptor into the gap, which
takes one size out of the sum.

### Core

For any threads and blocks, where `Managed` holds.

    IInv == Places /\ MainAlone /\ Life /\ Ownership /\ Freed /\ Counted

`MainAlone`: nobody else is in a call while the main thread creates or destroys.
`Life` ties flag and mutex together along the main thread's steps; `Ownership` says who is
inside. The count goes down only for a block that is live and that no other thread
is freeing (`Freed`), which is what keeps it from passing below zero.

### Kernel engine

For any kernels, programs, sizes and any finite heap (`BlocksAssumption`,
`NoneAssumption`).

    IInv == Types /\ Filled /\ CallersBlocks /\ EnginesBlocks

`EnginesBlocks` pairs the engine's blocks with the scalar arguments: each argument
has its block, no two the same, and no block is without an argument. That gives the
bijection from which the equality of the two cardinalities follows. `Filled` says that
an argument is an SVM pointer exactly where its kernel has one; without it, setting
an argument would free the caller's block or drop the engine's. It is what callers
have to keep to (`MaySet`).

*Vulkan.* The other properties rest on an invariant of the Vulkan engine,

    VkInv == VkTypes /\ ContextInv /\ PipelineInv /\ CallInv /\ StaleInv

It accounts for every object of the driver by kind. An initialised engine has instance, device and
pool of the last attempt, and no others live (`ContextInv`); the cached pipeline is complete
or absent, and belongs to the engine's device as long as the engine was not initialised
again (`PipelineInv`); buffers and memory live only during a call, and are those of the
call (`CallInv`). Each failure is a set of objects made and then undone, so one lemma
per phase covers all points of failure. Failures that are not looked at change no object
but are remembered (`mislisted`, `served`), and the two claims about handles and results
stop there. `EngineInv` adds that the execution in progress has a
kernel dispatched as the vector addition, and that the last one served its kernel;
a kernel whose source names no other is dispatched on its own name (`DispatchedIs`).

### Direct GPU control

For any number of handles and addresses, any ring of at least two words, any window and
any threads. The three parts of the state are independent, and so are the invariants:

* `BusInv`: the table has a length between 0 and its capacity. The score falls with every limit, so
  the best one of any table has none if there is such a controller; this covers
  tables of each length.
* `MapInv`: what an initialisation has reached, phase by phase (`AtFind` ... `AtBar5`). Handle
  values are given out lowest first, so a stale value in `mapping` can meet a new handle; the
  phases say which values are the attempt's own (`Own`), that no two BARs share one
  (`Apart`), and that nothing is open or mapped that was not found (`Added`).
  `FailureIsUndone` is an action property over the same invariant.
* `RingInv`: what a thread carries from step to step (`Carried`); with one dispatcher, that the
  registers announce the queue (`Announced`); and if it also submits only to an idle
  GPU, that the queue is empty from the moment it has learned so until its doorbell
  (`Empty`). Then the space was computed from equal pointers, and the mixed units cannot
  hurt: what is accepted fits. Both hypotheses are needed: with two dispatchers a chain is
  lost (line 833), and without waiting the run `gpu_ring` finds the reserve gone.

### The services

Each service has an invariant `...Inv` and three lemmas: `...Begins`, `...Keeps` (one step per
action) and `...Holds`. `PartsRun` takes them into `Services`: a step of the whole is a step
or a stutter of each part.

*Table.* One thread sets while any number read. `Origin` says where a field of an entry
comes from: once its workload has been set, or once the running call has passed the
field, it is a configuration of that workload. `QueryOK` says the same of the part of an
answer that has been copied. An entry keeps its workload for ever, which makes it
safe to go on reading it without a lock.

*Ring.* `Accepted` and `HandedOut` count packets; the indices are these numbers modulo the
size, and the slot of a packet that is in the ring holds it (`RingPlaces`). That two packets
in the ring have different slots is a fact about remainders of numbers that differ
by less than the modulus, proved from the uniqueness of division with rest. The
size is any positive number.

*Heap.* The invariant replaces the history by a function of the owner: while everything
is regular a block comes from `HomeHeap(owner)`. A context counts the live blocks of its
owner, and can change only when there are none.

*Lanes.* A detached slot returns four lanes, whatever it had, and a request may be of any
width. Until a slot returns more than it has (`overpaid`), the free lanes and those of the
slots, `available + SeqSum(lanes_of)`, are `total - 8`. A step changes one slot's number, so
the lemmas are the laws of a sum of which one element is replaced. Nothing is assumed
of the requests but that they are integers.

*Eight threads.* Where all threads were created and none is abandoned, a worker stays in its chunk and has done what it has passed (`ThreadsOK`). The
chunks tile the work although the division leaves a remainder; products of two
variables are split off into lemmas (`Monotone`).

*Searches.* What is held is a function of where the search is (`HeldAt`, `HeldIn`, `EglAt`), which is
what makes every way out give it back (`BuffersIn` for the documents). A list of OpenCL devices grows platform by
platform, so a device is listed once (`Visited`); DXGI's adapter that stays behind is
tied to a machine with more GPUs than there is room for.

*Scalar atomics.* The operations on bits are sums of bits times powers of two, and stay words:
`BitwiseIsWord` bounds such a sum by the next power (`PowersAre`, `BitsAre`). A loop takes
effect where its exchange meets the word it has read.

### What is only model-checked

* Liveness (`Progress`, `CleanupEnds`, `FinalizeEnds`, `ExecutionsEnd`, `WaitEnds`): it
  needs fairness and ENABLED, which the prover does not have.
* The disagreements of section 5 are counterexamples, which TLC finds and a proof
  could only restate.
* Hypotheses. `OrderedRequests`, `Managed`, one dispatcher that waits, and `Sound` are what the code needs
  of its callers or its build; the violating runs show what happens without the
  first two, without waiting, and in a build that is not `Sound`.

## 5. Where code and documentation disagree

| run | the documentation | the code |
|---|---|---|
| `svm_pair_natural` | `include/retryix_svm.h:218`: two spinlocks, sorted by address to avoid deadlock | `svm/retryix_svm_atomic.c:522`: taken in argument order, also twice the same |
| `atomic_shipped` | `README.md:143`: all atomics guarantee sequential consistency | `modules/retryix_atomic_advanced_module.c:178`: the comparand is one word too short, and a load can be torn |
| `memory_unmap` | `memory/retryix_memory.c:261`: a mapped buffer is unmapped first | line 263 passes no queue, and unmap does nothing without one |
| `core_unmanaged` | `README.md:236`: thread-safe | `modules/retryix_core_module.c:53`: the critical section is created without a lock |
| `gpu_ring` | `device/retryix_gpu_hw_windows.c:814,818`: computes the space left, keeps a reserve of 8 words | lines 815-818 subtract pointers in words from a size in bytes, in unsigned arithmetic |

Other behaviour that differs from what a reader would expect, met while modelling.
The models have it as it is:

* `device/retryix_gpu_hw_windows.c`: the words of a packet are never written to the ring
  (825-831), though dispatch returns 0; `pm4_build_nop` counts one word too many
  (735); a dispatch without BAR0 returns 0; the PCI address parameters are ignored
  (406); BAR pointers stay in the handle after cleanup; a check of the registers that
  fails leaves the mappings (449-456); a wait with a timeout near 2^32 never expires;
  two submitting threads lose a chain (833); offset and size of a copy are added before
  they are compared with the window, so that a sum that wraps passes the check (592).
* `modules/retryix_atomic_advanced_module.c:83`: without the lock, `fetch_add` returns the
  high word that it reads after the exchange, which is the new one;
  `include/retryix_svm.h:135` documents the value before the operation.
* `kernel/retryix_kernel_vulkan_compute.c`: success is reported though `vkMapMemory` (580, 584,
  669) or `vkQueueWaitIdle` (666) failed and nothing was delivered; the second
  `vkEnumeratePhysicalDevices` (151) and the `malloc` before it are not checked, and a
  `physical_device` of an earlier attempt counts for a later one (170);
  `pipeline_ready` outlives a cleanup (305).
* `kernel/retryix_kernel_module.c`: `CreateThread` (129) is not checked. One thread that is
  missing makes the join (132) fail at once; the call reports success, with incomplete
  results, while its threads run on a stack frame that is gone.
* `memory/retryix_memory.c:139`: when `realloc` fails the array is lost.
  `core/retryix_api.c:149` may free a block with another heap's function.
* `svm/retryix_svm_atomic.c:25,121`: on Windows the additions store the new word in
  `old_value` (`include/retryix_svm.h:121`).
* `topology/retryix_topology_ext.c:461-480`: the document tests bit 4, which means
  emulated, and so says that native atomics are missing where they are there. The
  buffer of addresses is freed on success only (114-257). On Windows `_aligned_malloc` blocks go
  to `free`.
* `modules/retryix_device_module.c`: device 3 is a GPU for two functions and an
  accelerator for a third, and the filter finds no accelerator.
* `utils/retryix_bridge_android.c`: a surface is not destroyed when the context cannot be
  made current (156-160); a path with a wildcard is given to `fopen` (474);
  `device_info` is read before it is set (352).
* `device/retryix_device_native.c`: `VK_INCOMPLETE` counts as a failure (187); the adapter
  that finds no room is leaked (275); `vkGetPhysicalDeviceMemoryProperties` (125, 202) and
  `vkDestroyInstance` are called without a test that they were found.
  `query_vulkan_gpu` is inside `#ifdef _WIN32` (32-365) and is called outside it (441): other
  builds do not link.
* `southbridge/retryix_southbridge.c`: detaching returns four lanes (368), whatever was
  attached, and also where nothing was, so that the number of free lanes has no bound; a
  request for a negative width returns lanes. The halves of the PCI id are taken in the
  wrong order (30, 50-51), so no chipset is ever known on Windows.
* `memory/retryix_memory_simple_new.c`: `current_usage` only grows.

## 6. What is not modelled

* The 128-bit operations of `svm/retryix_svm_atomic.c` (205-506), which are compiled
  only with `RETRYIX_HAS_INT128`, which nothing defines.
* `atomic/retryix_atomic_128_256.c`: not built, and not compilable on its own.
* `kernel/retryix_kernel.c` and the built-in kernels: wrappers of OpenCL calls and scalar
  loops, not built.
* The search of `/sys` in `device/retryix_device_native.c` (367-423), which belongs to the builds
  that do not link.
* Weak memory. The spinlocks are interlocked exchanges, so what is written under
  them is seen under them; outside locks the models interleave machine words in
  program order, as x86 keeps it.
* Asynchronous copies of the memory manager: the transfer is counted, not in
  flight. Freeing a block under a transfer is listed as a hazard.
* Arguments without a defined effect: argument indices of 4 and above, scalar
  arguments set over SVM pointers, negative element counts, two threads in the
  kernel engine, two submitters in GPU control, two threads that set workloads.
* What the GPU does with packets; clocks, temperatures and reports that are only
  read; `bus/retryix_bus_simple.c`, a variant with fixed answers.
* Formatting, logging and JSON text (the documents are modelled by their lists and
  counts), `host/retryix_host.c`, the stubs, probes and benchmarks under `src/utils`, the
  driver demo under `virtualdrv_demo`, most headers, third-party code, examples.

## 7. Plan

What is left, the most consequential first:

1. Transfers in flight in `MemoryManager`: an OpenCL queue that completes copies later,
   against free and cleanup (line 355).
2. Two submitters in `GpuControl`, with the lost chain as a run of its own; the state of
   the GPU within a chain.
3. The programs that are not `Sound`, one by one: which mixtures of calls are still atomic
   where `exp_hi` is elsewhere.
4. More of the bridges and of the SVM module's 32-bit operations, as services.
