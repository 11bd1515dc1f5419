# DolphinXR: a TLA+ model of its threading core

DolphinXR is a fork of the Dolphin GameCube/Wii emulator with OpenXR support and an agent server.
Most of its two million lines are emulation detail, file formats, graphics APIs and user interface.
What can be model-checked, and what unit tests hardly reach, is how its threads work together: the
CPU thread that executes guest code, the host threads (user interface, hotkeys, agent server,
NetPlay) that pause it, read its memory, hand it work and shut it down, the GPU thread that follows
it, and the worker threads behind them. This project models those protocols, checks them with TLC
on small instances and proves the most important properties with TLAPS for every instance.

Paths below are relative to `src/Source/Core/`.

## 1. Inventory

### The threads

| Thread | Runs | Shares with the others |
|---|---|---|
| host threads | the calls of `Core.h`: `Init`, `Stop`, `SetState`, `CPUThreadGuard`, `RunOnCPUThread`; the debugger's `StepOpcode` | `s_core_mutex`, `s_state`, all of `CPUManager` |
| EmuThread = CPU thread | boot, `CPUManager::Run`, guest code, shutdown | the same |
| GPU thread (dual core) | `FifoManager::RunGpuLoop` on a `BlockingLoop` | FIFO, `AsyncRequests`, `s_core_mutex` for presents while paused |
| DVD thread | `DVDThread::ProcessReadRequest` on a `WorkQueueThread` | a request queue and a result queue with the CPU thread |
| Vulkan recording worker | `RecordingWorker::ThreadMain` | `RecordingQueue` |
| further workers | save-state writer, achievements, Vulkan submission, game list, sound, sockets, ... on `WorkQueueThread` | one queue each |

### Components

| Component | State | Operations | What makes it correct |
|---|---|---|---|
| `CPUManager` (Core/HW/CPU) | `m_state`, two mutexes, two condition variables, flags `m_state_*`, `m_pending_jobs` | `Run`, `SetStepping`, `Break`, `PauseAndLock`, `RestoreStateAndUnlock`, `StepOpcode`, `AddCPUThreadJob`, `Stop` | a lock excludes guest code; requests to pause, resume and stop are not lost; FIFO and sound follow the CPU; waits end |
| `Core` (Core/Core.cpp) | `s_state`, `s_core_mutex`, the EmuThread | `Init`, `Stop`, `SetState`, `PauseAndLock`, `RestoreStateAndUnlock`, `RunOnCPUThread`, `TryRunUnlessPausedAndLocked`; also host jobs and frame stepping | pause and restore are balanced across the change of state; nothing is left held for the next session; a stopped session ends; calls return |
| config callbacks (Core/CPUThreadConfigCallback) | `s_should_run_callbacks` | `OnConfigChanged`, `CheckForConfigChanges` | callbacks run on the CPU thread and leave the rest of the machine as it was |
| `BlockingLoop` (Common) | `m_running_state`, flags, two events, two mutexes | `Wakeup`, `Wait`, `WaitYield`, `Prepare`, `Run`, `Stop`, `AllowSleep` | `Wait` means the work was done; no wake-up and no stop is lost |
| `RecordingQueue` (VideoBackends/Vulkan) | ring, two u32 indices, three flags, a wait target | `Push`, `WaitForEmpty`, `WaitForEmptyFor`, `Shutdown`, `WaitForCommand`, `Front`, `Pop` | a bounded FIFO across index wrap; nobody sleeps with work to do |
| `FifoManager`, `AsyncRequests`, `CommandProcessor` (VideoCommon) | the GPU loop, `m_emu_running_state`, `m_gpu_loop_waiters`, CPReadWriteDistance, `m_interrupt_*`, `m_sync_ticks`, four positions in `m_video_buffer`, the request queue | `RunGpu`, `FlushGpu`, `SyncGPU`, `RunGpuOnCpu`, `WaitForGpuThread`, the payload of `RunGpuLoop`, `PauseAndLock`, `EmulatorState`, `UpdateWantDeterminism`, `ExitGpuLoop`, `PushBlockingEvent`, the status and control registers | a locked GPU decodes nothing; the buffer is moved only when it is drained; the CPU never waits for a GPU that waits for it; commands, requests and interrupts are not lost |
| `CoreTiming` (Core) | event heap, queue of events from other threads, the slice and its downcount, the timer, the overclock factor | `ScheduleEvent`, `RemoveEvent`, `MoveEvents`, `Advance`, `ForceExceptionCheck`, `Idle`, `DoState` | the clock never goes back and counts executed cycles, up to what the overclock conversions truncate; events fire on time |
| `DVDThread`, with the disc of `DVDInterface` (Core/HW/DVD) | request queue, result queue, result map, next id, the disc | `StartRead`, `FinishRead`, `ProcessReadRequest`, `SetDisc`, `DoState`, `Start`, `Stop` | each read is answered once, with its own data, from the disc it was started on, across disc changes and save states |
| `State` (Core) | the saved state | the order in which the parts are saved and loaded | a load restores the clock, the events and the reads |
| `WorkQueueThread`, `AsyncWorkThread`, `WaitableSPSCQueue` (Common) | item queue, command queue, event, recursive mutex, the thread | `Push`, `PushBlocking`, `Cancel`, `WaitForCompletion`, `Stop`, `StopAndCancel`, `Shutdown`, `Reset`, `ThreadLoop` | items run in order and once; a call returns when what it promises holds; no wake-up is lost |
| `HookableEvent` | listeners, `is_triggering` | `Register`, `Trigger`, hook destruction | a removed listener is not called |
| `CallGate` (Core/AgentServer) | the running call | `Enter`, `MarkCallRunsEmulation`, `Cancel`, `Release` | one call at a time; a refused caller was refused by a call that ran |

Components that are not modelled, with the reason, are listed in `PROJECT.json`.

### What is hard

Interleavings of host calls with each other and with the CPU thread; stores of `m_state` outside
its lock; condition variables whose notification falls between a test and a wait; sessions that
follow each other on the same objects; a `Stop` at any moment of a boot; optimistic early returns
and lock-free announcements in `BlockingLoop` and `RecordingQueue`; indices that wrap; deadlines
that race the event they wait for; a GPU thread whose payload may run when nobody asked for it,
beside a pause, a lock or a change of its mode; one counter of ticks that two threads raise and
lower between two thresholds; a buffer that one thread moves while the other reads it; a slice of
emulated time that is cut in the middle, saved and loaded; a disc that changes, a state that is
loaded or a session that ends while reads are under way. `PROJECT.json` lists each hazard at its line
with the properties that cover it.

## 2. Modules

| Module | Models | Checked by runs | Proofs |
|---|---|---|---|
| `CPUManager` | Core/HW/CPU.cpp, CPU.h, with the config callbacks that `Run` executes | `cpu_live`, and through `Core` | `CPUManagerProofs` |
| `Core` (EXTENDS `CPUManager`) | Core/Core.cpp: the session and the hosts' calls, composed with the CPU thread | `core_*` | `CoreProofs` (EXTENDS `CPUManagerProofs`) |
| `RecordingQueue` | VideoBackends/Vulkan/VKRecordingQueue.h and the worker's loop | `recording_queue` | `RecordingQueueProofs` |
| `CommandFifo` | the abstract queue that `RecordingQueue` implements | `recording_queue` | `RecordingQueueProofs` |
| `LoopContract` | the contract of the loop, as its users rely on it | | `BlockingLoopProofs`, `FifoProofs` |
| `BlockingLoop` | Common/BlockingLoop.h, started and joined as Core.cpp:521-560 does | `blocking_loop` | `BlockingLoopProofs` |
| `WorkQueue` | the contract of a work queue | `work_queue` | `WorkQueueThreadProofs` |
| `WorkQueueThread` | Common/WorkQueueThread.h, Common/SPSCQueue.h | `work_queue` | `WorkQueueThreadProofs` |
| `Fifo` | VideoCommon/Fifo.cpp in dual core mode, AsyncRequests, and the part of CommandProcessor.cpp that both threads touch | `fifo*` | `FifoProofs` |
| `CoreTiming` | Core/CoreTiming.cpp | through `DVDThread` | `DVDThreadProofs` |
| `DVDThread` (EXTENDS `CoreTiming`) | Core/HW/DVD/DVDThread.cpp, with the disc of DVDInterface.cpp, the order of State.cpp, and the CPU thread's slices | `dvd_thread`, `timing_load_clock` | `DVDThreadProofs` |
| `MC*` | model-checking instances | | |

### CPUManager

The variables keep the names of the members. An action is one critical section of
`m_state_change_lock`, or one unlocked stretch of `Run`: since host sections are atomic, only the
CPU thread is seen holding the lock between two steps (`CpuHolding`). `cpu_pc` is the place in
`Run`, `host_pc` the place in the call of each host. Condition variables are modelled with their
lost notifications (`NotifyCpu` is recorded only when the CPU thread waits) and spurious wake-ups
(`CpuResume` and the `...Resume` actions are always possible). The stores of lines 141 and 146,
which the code makes without the lock, are actions without the lock, and
`PauseAndLockOverDebugStep` is the one outcome of that race that needs two accesses of
`PauseAndLock` to be separated. The wait of line 122 ends only with the pause: a `Stop` notifies it, and it
goes on waiting. A job is counted, not named. What the FIFO and the sound stream are
told is kept in `fifo_running` and `sound_running`; `requested` is a history variable.

`OnConfigChanged` sets the flag of the config callbacks on any thread, or runs the callback at once
on the CPU thread or its stand-in; `CheckForConfigChanges` is part of both places at which `Run`
executes jobs. The video backend's callback is two steps: `RunCallbacks` reads whether the core runs
and stops the FIFO, and `EndCallback` starts it again later (VideoConfig.cpp:71-79), whatever has
happened in between, a `Stop` that returned included. `in_callback` says which threads are inside.
Whether the core runs is `Core`'s state: this module allows both answers unless the CPU is powered
down.

A boot is also several steps: EmuThread leaves it (`CpuLeaveBoot`), sets the initial state as a host
would (`CpuBoot`, Core.cpp:353) and takes the lock of `Run` later (`CpuEnterRun`, CPU.cpp:119).

Left out: the GDB stub's branch of the wait predicate (lines 164-182) and `Continue`, the play-time
timer thread, and the present that a paused single-core session runs between two waits (an unlocked
stretch with no access to this state).

### Core

`s_core_mutex` has an owner; `emu_pc` is the place in EmuThread, `core_op` the call each host is in.
The actions of `CPUManager` are conjoined with what `Core` does around them, so that every call
holds what the code holds. `Owners` are the threads that call `Init` and `Stop`: in the program
that is the main thread of the interface. `sessions` counts calls of `Init` and is bounded by
`MaxSessions`. `CallbacksAskIsRunning` gives the config callbacks the state they ask for.

Of `PauseAndLock` the part after the CPU (Core.cpp:866-872), which parks the GPU thread and the DSP, is left
to `Fifo`, where the host's lock is that call: nothing in `Core` reads it back.

Also left out: nested calls of one thread (the mutex is recursive, and the inner guard does nothing), the host job queue, frame stepping, state-change callbacks, and the FIFO player's thread function,
which makes the same handshake with another core.

### RecordingQueue and CommandFifo

Each load or store that the other side can race is a step. The accesses that matter are seq_cst, so
interleaving is their meaning. The indices count modulo `Modulus`, 2^32 in the code; `Contents` is
the refinement mapping: the slots between the two indices, oldest first.

### BlockingLoop and LoopContract

Each access to an atomic is a step, apart from those protected by one lock. A `Common::Event` is a
flag that a waiter consumes; `Event::Set` takes the mutex between the flag and the notification, so
none is lost. `work` says for each client whether what it posted before its last `Wakeup` was
taken up and finished by a payload run. There is no counter: restarts and calls are unbounded.
Left out: `Stop(BlockAndGiveUp)`, which only the destructor uses.

`LoopContract` is what a user sees: after a `Wakeup` the loop is "Done" only when the payload has begun
a new run and ended it. `LoopState` maps `m_running_state` to "Need", "Last" and "Done" (asleep counts
as done), `Place` the place in `Run` to the test, the payload, its end, the pause after it, and "Off".

### WorkQueue and WorkQueueThread

An action is one access to the size of a queue, to the event or to the mutex: those are all that the
two sides share. `wpc` is the place in `ThreadLoop`, `pc` and `op` the place and the call of each
client, all of which compete for the one recursive mutex. Items are numbered in the order of the
pushes; a command is "Clear" (the function `Cancel` gives to `RunCommand`) or "Exit" (the empty
function). `self_push` is chosen once and says whether the queue's function pushes to its own queue,
as AchievementManager.cpp:1313 does: its worker then takes the clients' mutex. `future` is the item
a `PushBlocking` waits for.

`WorkQueue` is what a client may rely on: items are worked on one at a time, in the order of the
pushes, and a cancellation falls between two of them. The refinement mapping takes an item to be in
progress from the moment the function is called until `Pop`. `DVDThread` builds on `WorkQueue`'s
contract and makes a read one step.

### Fifo

Three actors: the CPU thread that writes bursts of commands, the GPU thread that decodes them, and
one host that pauses, locks, changes the mode and stops. `pc` is the place of each of them, `ret`
where a call made from several places (`RunGpu`, `FlushGpu`, `SyncGPU`) goes back to. `loop` is the
state of `LoopContract`: `Wakeup` makes it "Need", a whole run of the payload after that makes it
"Done", `Wait` waits for "Done", and the payload may run at any time all the same, since the loop
busy-waits and has a time limit of 100 ms. The payload is split at each access the CPU thread can
race. A burst is the unit of CPReadWriteDistance and of the buffer; ticks are counted in time slots,
and a decoded burst takes 0, 1 or 2 of them. `boundary` holds, for each
position of the buffer, where the last whole command before it ends: commands need not end with
a burst, and `RunGpuOnCpu` and the payload stop at the last whole one.

A `scenario` says what may happen in a behaviour (which threads are linked, whether the game idles,
uses the registers or the interrupt; whether the user breaks, pauses, locks, saves a state, records a
movie or stops), whether SyncGPU is on, and the initial mode. The low watermark and the breakpoint of the
command processor act as the high watermark and a cleared `bFF_GPReadEnable` do.

Outside the deterministic mode the payload fills the buffer itself: `GpuExecute` moves `write_ptr` and
`read_ptr` (Fifo.cpp:266, 381). A payload that is past its pause test when the mode changes goes on doing so
beside a CPU thread that now fills the buffer too; the history variable `stale_payload` records that this
has happened, and `Preprocess` then writes at any position, since what the racing loads return is open. It can
happen in scenarios with `Overlap`, which the theorems include and the run does not.

`SyncGPU`'s return when the core is not running (Fifo.cpp:184) is not modelled: the CPU thread of the model
executes guest code only in a running core.

Left out: single core mode, where there is no second thread; the contents of the auxiliary buffer;
the FIFO's part of loading a save state; a lost GPU device.

### CoreTiming and DVDThread

`CoreTiming` holds the clock: `global_timer` at the beginning of the slice, the length of the slice,
the downcount within it, and whether the timer is the clock itself (`m_is_global_timer_sane`, inside
`Advance`). The heap is the set of its events; which of several equal ones pops first is left open.
Events of other threads wait in `m_ts_queue` until the CPU thread moves them, and count from the
beginning of the slice.

`DVDThread` composes it with a CPU thread that executes blocks of up to `MaxBlock` cycles, leaves
and enters the CPU core, and runs callbacks; with the DVD thread; with a thread that schedules
events; with a user who changes the overclock factor; and with what comes in between: a change of the
disc (which waits for the DVD thread and has its two events, eject and insert), saving and loading a state in the order of State.cpp
(CoreTiming, hardware, memory cards, CPU), the end of a session and the next one. A read carries the
disc that was in the drive when it was started, so that a read from the wrong disc would be visible.

A factor is a fraction. `DowncountToCycles` and `CyclesToDowncount` multiply and divide by it and truncate, as
the code does, each time the clock is read, a slice begins or is cut. `Advance` may find another factor each
time (`RefreshConfig`, also the forced VBI rate of CoreTiming.cpp:72-90), and the downcount of `Init` is
computed with the factor of the session before (CoreTiming.cpp:140). A read is started with a disc in the
drive, as DVDInterface.cpp:708 makes sure of; the DTK read of line 250 after loading a state without a disc is
left out. A disc is changed when no insertion is pending: the code's own test (`m_disc_path_to_insert`,
DVDInterface.cpp:493) is stronger.

Left out: the rounding of single-precision factors beyond the truncation, `AdjustEventQueueTimes`
(rescaling of the events when the VBI rate changes), throttling against the host's clock, `Interpreter::SingleStep`'s own use of the slice, and in `DVDThread` the
queries that change no state.

## 3. Runs

| Run | Instance | Distinct states | Shows |
|---|---|---|---|
| `cpu_live` | 2 hosts, 1 job, config changes, no breakpoints | 145,816 | the state is the one last asked for; FIFO and sound follow it; `Stop` is final; pauses are granted, `Stop` ends and jobs run once they are heard of, without help from spurious wake-ups |
| `core_safety` | 2 hosts, 1 owner, 2 sessions, breakpoints, config changes | 998,924 | while a host has the CPU locked no guest code runs and no other host has it; guards are balanced, nothing stays held, guest code is confined to its session |
| `core_live` | 2 hosts, 1 owner, 2 sessions | 164,197 | a session stopped after `HW::Init` ends, every call returns |
| `core_early_stop` | 1 session | violation | a `Stop` before `HW::Init` is forgotten and the session never ends |
| `core_job_stranded` | 1 session, 1 job | violation | a job queued on a paused core between the CPU thread's last look at the queue and its wait stays there |
| `recording_queue` | 2 commands, capacity 2, modulus 4 | 67,197 | the ring implements `CommandFifo`; drains, wake-ups, shutdown |
| `blocking_loop` | owner and 1 client | 221,034 | `Wait`, `Wakeup` and `Stop` keep their promises |
| `work_queue` | 2 clients, 2 items | 125,682 | the thread implements `WorkQueue`; the worker never pops an empty queue; calls return, and only when what they promise holds; no wake-up is lost |
| `fifo` | 8 scenarios | 251,526 | a locked host faces an idle GPU; `SyncGPU` moves a drained buffer, and the move is not taken for commands; waits end, commands run, the interrupt follows the distance |
| `fifo_stop_order` | SyncGPU, a stop | violation | `Core::Stop` pauses the FIFO before it stops the CPU, and may wait for ever for a CPU thread that waits for the GPU |
| `dvd_thread` | 2 discs, 2 reads, 10 scenarios, factors 1, 3/2, 1/2 | 1,184,009 | every read is in one place and answered with its own data, on time; the clock never goes back and counts executed cycles, up to truncation; waits for the DVD thread end |
| `timing_load_clock` | a state load that changes a memory card | violation | an event scheduled during a load uses the downcount of the machine before the load, and the clock is off afterwards |

The four violations are disagreements between the code and its own comments. They are quoted under
`findings` in `PROJECT.json`.

### Bounds, and why they are enough

* **Hosts 2.** No action of a host looks at another host except through a mutex or a shared flag.
  Two hosts give a holder and one that waits, stops or steps; the theorems about safety cover any number.
* **MaxJobs 1.** One queued job suffices for every order of queueing, running and losing it.
* **MaxSessions 2.** What a session leaves behind shows in the next one.
* **One owner.** With two owners TLC finds that a `Stop` delayed across a failed boot powers down the
  following session; in the program both calls come from one thread.
* **Capacity 2, Modulus 4.** The smallest ring that is neither empty nor full in between, on the
  smallest index range the assumption `2 * Capacity <= Modulus` admits; indices wrap all the time.
* **BlockingLoop, 2 clients.** The owner, which also stops and restarts the loop, and a second
  waiter, so that one event is competed for.
* **WorkQueueThread, 2 clients, 2 items.** A client inside a call and one that competes with it; an
  item in progress with one behind it, or one pushed after a cancellation. The safety properties and
  the refinement are proved for any number.
* **Fifo.** `MaxDistance` 2 and `FIFO_SIZE` 2 give an empty, a partly filled and a full FIFO and
  buffer; `HiWatermark` 1 lies in between; `DistanceLimit` 4 is where the distance would wrap.
  `MinTicks` -1, `WaitTicks` 1 and `MaxTicks` 2 with slots of 0 to 2 ticks reach both sides of both
  thresholds and the threshold itself. A request is counted: one shows whether it is lost. The
  eight scenarios combine the features that act on each other; `Break` is combined with the
  non-deterministic mode only, see section 5.
  The mode changes any number of times, but without `Overlap`: after an overlap two threads move the same
  positions, the safety properties claim nothing any more (section 5), and the graph would be twice as large.
* **DVDThread.** Slices of 2 cycles and blocks of 1 let an event fall on the beginning, the middle
  and the end of a slice. The first session begins its slices at tick 2 (section 5), so `MaxTicks` 4 has
  events in and across slices, and slices in which nothing was cut. Reads take 0 or 1 ticks, two of them overlap, and `Second` 2 separates taking out and putting in a disc or a
  card. Two discs tell the wrong disc from the right one; one offset suffices since ids tell reads apart.
  `MaxEvents` 4 and `MaxWaiting` 1 leave room for two reads, an event of another thread and one more. The
  factors 3/2 and 1/2 lose a tick on slices and remainders of 1, in one conversion or the other. The ten
  scenarios are the pairs of interferences that meet in shared state.

Runs with `CHECK_DEADLOCK FALSE` are those in which the system may come to rest: all items are
pushed, the clock has reached its bound, or the session has ended. That nobody waits for ever there
is the subject of `CallsReturn`, `WaitsEnd` and `GpuReleasesCpu`.

### Fairness

* The CPU thread (or EmuThread) and every host inside a call get strong fairness: they compete for
  mutexes, and none starves on one. A host that waits is only required to move once it was notified,
  and no fairness is put on spurious wake-ups or timeouts.
  A `CPUThreadGuard` is a scope, so a host that holds the CPU gives it back.
* `CoreCallsReturn` assumes that the debugger does not single-step for ever, and `StopEventuallyExits`,
  `JobsRunWhenHeard` and `JobsEventuallyRun` that hosts do not pause the CPU for ever; each says so in its
  formula. `JobsRunWhenHeard` speaks of a CPU that runs, or of a CPU thread that was asleep to hear the
  notification; without one of these a job can be stranded (`core_job_stranded`).
* `RecordingQueue`: weak fairness for the producer inside a call and for a notified producer, strong
  fairness for the consumer, which competes for `m_wait_mutex`. No deadline helps.
* `BlockingLoop`: weak fairness for the worker, strong fairness for clients inside a call. The
  worker's timeout is not fair. `WaitReturns` assumes that `Wakeup` is not called for ever, as
  BlockingLoop.h:19-20 does.
* `WorkQueueThread`: weak fairness for the worker and for clients inside a call, strong fairness for
  taking the mutex. `CallsReturn` and `ItemsProcessed` assume that the function does not push to its
  own queue: with a client in `Cancel` or `Stop`, which hold the mutex while they wait for the worker,
  such a push never returns (section 5).
* `Fifo`: weak fairness for each of the three threads inside a call or the payload; strong fairness for
  the end of a slice and for the CPU thread's event, which an endless guest program reaches again and
  again, and for answering a request. The game is not required to write commands, and the user is not
  required to resume. `GpuReleasesCpu` relies on the payload running again by itself: the code has it
  from the 100 ms limit of the loop (section 5).
* `DVDThread`: weak fairness for the CPU thread and the DVD thread.

## 4. Theorems

All hold for every set of threads and all bounds; the constants are only assumed to be of their
kind (`HostsAssumption`, `BoundsAssumption`, `FlagsAssumption`, `CoreAssumption`, `RingAssumption`,
`CommandsAssumption`, `ThreadsAssumption`, `TimeoutAssumption`, `ItemsAssumption`,
`ScenariosAssumption`, `TicksAssumption`, `SliceAssumption`, `FactorAssumption`, `DiscAssumption`, `ScenarioAssumption`,
`StateAssumption`).

**CPUManagerProofs.** `TypeCorrect`. `MutualExclusion`: `LockedHostExcludesGuest` is not inductive,
for nothing in it says that the CPU thread does not start guest code after the lock was given.
`ExclusionInv` adds that the flag `PauseAndLock` waits on says exactly whether guest code runs
(`ActiveInv`), who can own `m_stepping_lock` (`SteppingLockInv`), when `m_state_paused_and_locked`
is set (`PausedInv`), and that during a pause `m_state` can be Running only because line 146 has
just put it back (`IdleInv`). `IntentCorrect` and `AdjacentCorrect` rest on `IntentInv`: what
`RestoreStateAndUnlock` is going to restore (`Restored`, from `was_unpaused` and
`m_state_system_request_stepping`) is what was last requested. They, and `StopCorrect`, hold
without breakpoints; with breakpoints the stores of lines 141 and 146 refute them (section 5).
`StopCorrect` lets the FIFO be started after `Stop` by a config callback that was already under way, and by
nothing else.
`RequestsHeard` and `ToldCorrect` are the safety side of `PauseEventuallyGranted` and `StopEventuallyExits`.
A thread asleep with no notification on its way still has to wait: the CPU thread for the end of the pause or
for a step, a host for a CPU thread that is active (`NoLostRequest`, from `ActiveInv`; also with breakpoints). It says
nothing of queued jobs, whose notification is lost in `core_job_stranded`.
And without breakpoints the CPU thread that a host waits for has been told to leave guest code, and is not told
otherwise before the host has it (`GuestTold`).

**CoreProofs.** `CoreTypeCorrect`. `GuardsBalanced`, `NothingLeaks` and `GuestConfined` rest on `CoreIInv`:
`ExclusionInv` survives what `Core` adds, a call that spans several steps holds `s_core_mutex`
(`CallInv`), and `s_state` says how far EmuThread is (`SessionInv`). `SessionsHearRequests` is `RequestsHeard`
across sessions.

**RecordingQueueProofs.** Types across index wrap, `DrainMeansEmpty` and the absence of lost wake-ups
on either side, for every capacity and modulus, from `RingInv`: the producer's stale copy of the
read index only makes the ring look fuller (`DepthInv`), a drain waits for the write index
(`DrainInv`), and a sleeper whose condition holds has its waker on the way (`ProducerWakeInv`,
`ConsumerWakeInv`). `RingIsFifo` is the refinement of `CommandFifo`: a step is seen through the distance of the
two indices and through the slots in between. A slot is an index modulo `Capacity`, which survives the wrap
since `Capacity` divides `Modulus`; positions less than `Capacity` apart are in different slots, so a `Push` writes
behind all that is there, and `CommandInv` says that what is there is a command.

**BlockingLoopProofs.** `LoopTypeCorrect`, `WaitCorrect`, `WakeupCorrect` and `StopCorrect` rest on
`LoopInv`: which thread is where and who prepares (`PlaceInv`, `LifeInv`), what the worker still
knows of `m_running_state` (`StateInv`), that announced work and stops are ahead of the worker
(`WorkInv`), and what a `Wait` has seen (`CallInv`). `ContractCorrect` is the refinement of `LoopContract`, from
`StateInv` and `LifeInv`: the optimistic exchange of `Run` is the contract's `End` only if what the worker
remembers of `m_running_state` cannot hide a `Wakeup`.

**WorkQueueThreadProofs.** `PopCorrect`, `ReturnCorrect`, `WakeCorrect` and `Refinement`. Why is the queue
not empty when the worker pops? Because only a client that holds the mutex can clear it, and then it
waits for the worker: `IInv` says who holds the mutex (`LockInv`), which calls can be at which place
(`OpInv`), that the command queue holds at most the one command of the client that waits for it
(`CommandInv`), that the item in progress stays in the queue (`ItemInv`), and that a command or item
before a sleeping worker is about to be announced (`WakeInv`). `Refinement` maps every step to a
step of `WorkQueue` or a stutter and holds also when the function pushes to its own queue.

**FifoProofs.** `LockedCorrect`: the host waits for the loop to be done, but the payload may run all the
same, so "done" has to mean that it would find nothing. `IInv` says that whatever could run while the
loop is done is about to be announced by the CPU thread or a resuming host (`LoopInv`), which are both
parked under a lock (`HostInv`, `CpuInv`); what a payload that outlives a change of the mode may still
do (`StaleInv`); that the loop's waiters are counted exactly (`WaitersInv`); and that outside the
deterministic mode the buffer is unused (`BufferInv`). `TypeCorrect` comes with it.
`LockedCorrect`, `DecodeCorrect`, `DrainCorrect` and `PreprocessedAnnounced` speak of behaviours in which no
payload past its pause test has outlived a change of the mode (`stale_payload`); section 5 says why they have to. `DecodeCorrect` and `DrainCorrect` are about the deterministic mode and assume `NoBreak`: `DrainInv` adds
how the four positions and `boundary` are related (`PositionInv`), that the FIFO is paused only behind a
parked CPU thread (`ParkInv`), that what was preprocessed is decoded or about to be announced (`DueInv`),
and that while `SyncGPU` moves the buffer the payload has seen all of it or the machine is at rest with
nothing in it (`MoveInv`, `Frozen`).
`AnnouncedCorrect`, `PreprocessedAnnounced` (with `NoBreak`) and `RequestsAnnounced` are the safety side of
`CommandsRun` and `CallsReturn`: when the loop is done over commands while the emulation runs, a thread is on
its way to wake it (`CommandsAnnounced`), and a thread that waits for the answer to its request waits for a run of
the payload that has still to pull it (`RequestAnnounced`). The runs' liveness would not notice a missing
wake-up, since the payload also runs by itself every 100 ms. `LoopUsedCorrectly`: `loop` and the place of the GPU
thread only take steps of `LoopContract` (`UsesContract`), which `BlockingLoop` implements, so the two
proofs meet in one contract.

**DVDThreadProofs.** `TypeCorrect`. `ClockCorrect` follows from which of the two readings of the timer is
valid at which place (`SaneInAdvance`, with the full slice that `Advance` starts from) and from lemmas about the
conversions for every factor: truncation is monotone, and there and back it loses less than `Rounding`
says, which is nothing for the factor one, and never gains (`RoundTrip`). `OnTimeCorrect` rests on `TimingInv`:
outside `Advance` no read and no event of another thread is due within the slice, so `ForceExceptionCheck` has
cut it far enough (`QueueAhead`), a slice is at most `MAX_SLICE_LENGTH` and the downcount at most a block below
zero (`SliceFits`), and inside `Advance` no event is later than the cycles of a block for some factor
(`NotLate`). `AnswersCorrect` rests on `ReadInv`: ids are below `m_next_id`, requests name the disc in the
drive, and results answer the read with their id. Both invariants speak of the saved state
(`SavedFits`, `SavedReads`), which a load makes the current one, and of the rest between two sessions
(`OffIsEmpty`). `TimingInv` excludes the scenario of `timing_load_clock`, which refutes it.

`ReadsMatchedCorrect` rests on `MatchInv`: no id is in two places or twice in one, and the ids found in the
requests, the result queue and the result map are the ids that the events in the heap
await; the same for the saved state. Cardinalities are compared through bijections with sets of ids, which are finite since
ids are below `m_next_id`.

Model-checked only: liveness, which takes fairness and ENABLED and is out of TLAPS's reach. Every invariant, action
property and refinement that a passing run checks is stated by a theorem.

## 5. Observations without a run of their own

* With config changes, the FIFO of a paused CPU may run: the callback ends with
  `RestoreState(true)` whatever the CPU's state (VideoCommon/VideoConfig.cpp:79), and `Run` calls it
  in the wait predicate of a paused CPU (CPU.cpp:162). `AdjacentFollowsState` makes the exception
  explicit.
* `CPUManager::Stop` returns as soon as the CPU thread is idle, before `Run` has returned (CPU.h:57);
  EmuThread's own shutdown closes the gap.
* When the mode changes from stepping to running, a pending `StepOpcode` is signalled only when the
  wait predicate is evaluated again (CPU.cpp:207-211); its caller has a timeout.
* The wake-up command that `RecordingQueue::Shutdown` pushes may stay in the ring
  (VKRecordingQueue.h:127-133): the consumer may see the flag first.
* A blocking `BlockingLoop::Stop` may return between the worker's store of STATE_DONE and its
  `m_stopped.Set()` (BlockingLoop.h:192-198), so the owner has to join the worker before it prepares
  the loop again, as Core.cpp:552-560 does.

**CPU and Core**

* A job queued just before `Stop` (Core.cpp:926) stays in the queue. The 2 ms poll of a paused single-core
  session with a headset hides what `core_job_stranded` shows.
* A config callback under way in a job, or on a host that stands in for the CPU thread, starts the FIFO again
  when it ends, even after `Stop` has returned (VideoConfig.cpp:79). `StopIsFinal` makes the exception
  explicit.
* A job callback runs on the CPU thread while another host may be given the CPU (CPU.cpp:66): the
  comment at CPU.h:89-91 says that then "the CPU Thread will not perform any action".
* At a breakpoint the unlocked stores of CPU.cpp:141 and 146 can replace `PowerDown`, which according to
  CPU.h:56 cannot be stopped; the next wait of `Run` then stays.
* Between Core.cpp:309 and 325 a function given to `RunOnCPUThread` runs directly (line 918) although guest
  code still runs.
* `StepOpcode` leaves a pointer to its caller's event behind when the caller gives up (CPU.cpp:310).

**Work queues**

* A function that pushes to its own queue deadlocks with a client in `Cancel` or `Stop`
  (WorkQueueThread.h:47, 117), which hold the mutex while they wait. AchievementManager.cpp:1313 has
  such a function.
* `AsyncWorkThread::PushBlocking` does not return if its item is cancelled.

**FIFO**

* `WaitForGpuThread` may wait (Fifo.cpp:643) for a payload that has already had its last look at the ticks
  (lines 414-419) while the loop does not count as done yet (line 630). When the minimum distance was
  passed earlier nobody wakes the loop, and only its limit of 100 ms releases the CPU thread.
* As in `fifo_stop_order`, a breakpoint followed by `PauseAndLock` under SyncGPU lets a CPU thread wait for a
  paused GPU.
* In the deterministic mode, `Break` pauses the FIFO while the CPU thread goes on to the end of its slice,
  and a save-state lock may follow an ordinary pause: `SyncGPU` then finds the loop done over undecoded
  commands and moves the buffer (the alert of Fifo.cpp:190-194). `NoSpuriousDecode` and `SyncGPUDrains`
  do not hold there, so `SyncGPUDrains` speaks of a running emulation and the theorems assume `NoBreak`.
* `UpdateWantDeterminism` says "We are paused (or not running at all yet), so it should be safe to change this"
  (Fifo.cpp:588-589). `PauseAndLock` waits until the loop has been done (line 109), but the limit of 100 ms (line
  432) may have begun another payload that passed the pause test (line 333) before the pause. It reads the mode
  once (line 336), and when the emulation resumes in the deterministic mode it takes a burst as in the old one:
  `write_ptr` and `read_ptr` move (lines 266, 381) and `pp_read_ptr` does not, so that the next `SyncGPU` moves a
  buffer with bytes that nobody decodes. It and the CPU thread both take bursts, and the distance passes below zero
  (the assertion at line 375); the model keeps that outcome, modulo `DistanceLimit`. In a scenario
  `{"Lock", "Movie", "Overlap"}`, `SyncGPUDrains` without its condition on `stale_payload` is violated.
* The tail of such a payload may change the tick count while the host holds the lock.
* In the deterministic mode an interrupt that waits in `m_interrupt_waiting` when the mode changes is not
  delivered (CommandProcessor.cpp:429), `SyncGPU`'s wait is not counted in `m_gpu_loop_waiters`, and
  `AsyncRequests::QueueEvent` does not wake the loop. `InterruptFollows` is stated for the other mode.

**Clock, disc and save states**

* `CoreTimingManager::DoState` writes `m_event_fifo_id` (CoreTiming.cpp:233) before `MoveEvents` (237)
  numbers the waiting events, so after a load two events of one tick can have the same number, and
  their order (CoreTiming.h:67) is open.
* `Init` computes the downcount (CoreTiming.cpp:140) before it sets `m_last_oc_factor` (line 161), with the
  factor of the session before, or 0.0 in the first. The first `Advance` subtracts it, converted with the new
  factor, from `MAX_SLICE_LENGTH`: the clock jumps by a whole slice in the first session, and below zero after a
  session with a larger factor, although "the time between CoreTiming being initialized and the first call to
  Advance()" is "the slice boundary" (lines 145-146), where no cycle was executed. `ClockKeepsTime` names that case.
* A load before the first `Advance` of a session (Core.cpp:394) finds the timer declared sane: until the
  first slice `GetTicks` leaves out the loaded partial slice, and events scheduled then are up to a
  slice late. `ClockKeepsTime` names that case.
* The factor and its inverse are floats (CoreTiming.cpp:107-115). Where an exact product is an integer the code's
  may be just below it and lose one tick more than `Rounding` allows for the fraction; the model has the
  exact fraction.
* Events of other threads that still wait in `m_ts_queue` at a load are dropped.
* Loading a state that had a disc, without a disc in the drive, only alerts (DVDThread.cpp:86-87).

## 6. Plan

Done: `CPUManager`, `Core`, `RecordingQueue` with `CommandFifo`, `BlockingLoop`, `WorkQueueThread` with
`WorkQueue`, `LoopContract`, `Fifo`, `CoreTiming` with `DVDThread`, and the proofs above. Left, in this order:

1. **CallGate** (Core/AgentServer/CallGate.cpp): `Enter` with its deadline, `MarkCallRunsEmulation`,
   `Cancel`, `Release`; one call at a time, and nobody is refused by a call that did not run.
2. **Host jobs and frame stepping** in `Core` (Core.cpp:935-975, 1045-1108): a queued job is
   dispatched once; a frame step stops after one frame, also when a pause or a stop intervenes.
3. **HookableEvent**: listeners added and removed while `Trigger` runs.
4. **Event** as a refinement of the flag that `BlockingLoop` and `WorkQueueThread` use.

Not modelled, and why: instruction semantics, the JIT, graphics APIs, emulated devices and file formats
are data and arithmetic without a protocol between threads, and out of a model checker's reach; the
OpenXR session depends on a runtime that the repository does not contain; NetPlay is a protocol of its own
with more than fifty kinds of messages. `PROJECT.json` gives the reason for each component.
