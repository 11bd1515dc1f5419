-------------------------------- MODULE Fifo --------------------------------
(***************************************************************************)
(* Fifo::FifoManager (VideoCommon/Fifo.cpp) in dual core mode, with the    *)
(* command processor's interrupt and the requests to the GPU thread it     *)
(* serves: the CPU thread writes bursts of commands, the GPU thread        *)
(* decodes them, and the host pauses, locks and stops both.                *)
(*                                                                         *)
(* In the deterministic mode the CPU thread moves the bursts itself and    *)
(* the GPU thread only decodes.  The GPU thread's loop is LoopContract, of *)
(* Common::BlockingLoop: Wakeup asks for a whole run of the payload, Wait  *)
(* returns once it has happened, and the payload may run again at any time *)
(* (the busy loop, and the time limit of 100 ms).                          *)
(*                                                                         *)
(* The low watermark and the breakpoint of the command processor raise the *)
(* interrupt as the high watermark does, and a breakpoint stops the loop   *)
(* as a cleared bFF_GPReadEnable does; neither is a variable of its own.   *)
(***************************************************************************)
EXTENDS Integers

CONSTANTS
  Scenarios,      \* records: what the game, the user and the settings bring about
  MaxDistance,    \* bound: bursts in the FIFO
  DistanceLimit,  \* bound: bursts that the 32 bits of CPReadWriteDistance count
  MaxRequests,    \* bound: requests to the GPU thread
  MaxTicks,       \* bound: m_sync_ticks
  Cycles,         \* time slots that a burst may take
  HiWatermark,    \* CPHiWatermark, in bursts
  MinTicks,       \* m_config_sync_gpu_min_distance, in time slots
  WaitTicks,      \* m_config_sync_gpu_max_distance, in time slots
  FIFO_SIZE       \* size of m_video_buffer, in bursts

\* What may happen in a scenario.  "Overlap": a movie may begin or end while a
\* payload is past its pause test.
Uses == {"Unlinked", "Idle", "Register", "Control", "Interrupt", "Request", "Break",
         "Headset", "Pause", "Lock", "State", "Movie", "Overlap", "Stop"}

ASSUME ScenariosAssumption ==
  Scenarios \subseteq [uses : SUBSET Uses, sync_gpu : BOOLEAN, deterministic : BOOLEAN]
\* The defaults are -200000 and 200000 ticks.
ASSUME TicksAssumption ==
  /\ MinTicks \in Int /\ WaitTicks \in Int /\ MaxTicks \in Int
  /\ Cycles \subseteq Nat /\ Cycles # {}
  /\ MinTicks <= 0 /\ 0 < WaitTicks /\ WaitTicks <= MaxTicks
ASSUME BoundsAssumption ==
  /\ MaxDistance \in Nat /\ MaxRequests \in Nat /\ HiWatermark \in Nat
  /\ DistanceLimit \in Nat /\ MaxDistance < DistanceLimit
  /\ FIFO_SIZE \in Nat /\ FIFO_SIZE > 1

VARIABLES
  scenario,
  pc,                              \* where each thread is
  ret,                             \* where a call of the CPU or the host thread returns to
  caller,                          \* who called RunGpuOnCpu or WaitForGpuThread
  loop, m_shutdown,                \* m_gpu_mainloop
  m_gpu_loop_waiters,
  m_emu_running_state,
  requests,                        \* AsyncRequests::m_queue, its length
  distance,                        \* CPReadWriteDistance, in bursts
  bFF_GPReadEnable, GPReadEnable,  \* what the GPU reads, and the control register
  m_interrupt_set, m_interrupt_waiting,
  cp_event,                        \* the scheduled UpdateInterrupts, if any
  m_sync_ticks, m_sync_wakeup_event, m_syncing_suspended,
  old,                             \* WaitForGpuThread's m_sync_ticks before it added its own
  m_use_deterministic_gpu_thread,
  write_ptr, seen_ptr, read_ptr, pp_read_ptr,  \* of m_video_buffer
  boundary,                        \* end of the last whole command before a buffer position
  stale_payload,                   \* history: the mode has changed under a payload past its pause test
  gpu_seen, gpu_write,             \* the payload's copies of seen_ptr and write_ptr, while used
  interrupt,                       \* the local variable of SetCPStatusFromCPU and -FromGPU
  m_state, stopping,               \* CPUManager::m_state; s_state = Stopping
  was_unpaused                     \* whether the host's unlock resumes the emulation

loopVars == <<loop, m_shutdown>>
cpVars == <<distance, bFF_GPReadEnable, GPReadEnable, m_interrupt_set, m_interrupt_waiting,
            cp_event>>
syncVars == <<m_sync_ticks, m_sync_wakeup_event, m_syncing_suspended>>
bufferVars == <<m_use_deterministic_gpu_thread, write_ptr, seen_ptr, read_ptr, pp_read_ptr,
                boundary, stale_payload>>
coreVars == <<m_state, stopping, was_unpaused>>
callVars == <<ret, caller, old>>
localVars == <<gpu_seen, gpu_write, interrupt>>
runVars == <<scenario, loopVars, m_gpu_loop_waiters, m_emu_running_state, requests>>
memVars == <<cpVars, syncVars, bufferVars>>
threadVars == <<callVars, localVars, coreVars>>
vars == <<pc, runVars, memVars, threadVars>>

Init ==
  /\ scenario \in Scenarios
  /\ pc = [t \in {"Cpu", "Gpu", "Host"} |->
             CASE t = "Cpu" -> "Run" [] t = "Gpu" -> "Test" [] t = "Host" -> "Idle"]
  /\ ret = [t \in {"Cpu", "Host"} |-> "Run"] /\ caller = "None" /\ old = 0
  /\ loop = "Last" /\ m_shutdown = FALSE
  /\ m_gpu_loop_waiters = 0 /\ m_emu_running_state = TRUE /\ requests = 0
  /\ distance = 0 /\ bFF_GPReadEnable = TRUE /\ GPReadEnable = TRUE
  /\ m_interrupt_set = FALSE /\ m_interrupt_waiting = FALSE /\ cp_event = "None"
  /\ m_sync_ticks = 0 /\ m_sync_wakeup_event = FALSE /\ m_syncing_suspended = TRUE
  /\ m_use_deterministic_gpu_thread = scenario.deterministic
  /\ write_ptr = 0 /\ seen_ptr = 0 /\ read_ptr = 0 /\ pp_read_ptr = 0
  /\ boundary = [i \in 0..FIFO_SIZE |-> 0] /\ stale_payload = FALSE
  /\ gpu_seen = 0 /\ gpu_write = 0 /\ interrupt = [t \in {"Cpu", "Gpu"} |-> FALSE]
  /\ m_state = "Running" /\ stopping = FALSE /\ was_unpaused = FALSE

Goto(t, to) == pc' = [pc EXCEPT ![t] = to]
Call(t, to, back) == Goto(t, to) /\ ret' = [ret EXCEPT ![t] = back]
Return(t) == Goto(t, ret[t]) /\ ret' = [ret EXCEPT ![t] = "Run"]

-----------------------------------------------------------------------------
\* What the threads share.

\* BlockingLoop::IsDone, and Wakeup as RunGpu uses it (lines 502-521).
IsDone == pc["Gpu"] = "Exited" \/ loop = "Done"

RunGpu ==
  /\ loop' = IF m_use_deterministic_gpu_thread THEN loop ELSE "Need"
  /\ m_syncing_suspended' =
       (m_syncing_suspended /\ ~m_use_deterministic_gpu_thread /\ ~scenario.sync_gpu)

\* The interrupt the command processor should hold, if the game has enabled it.
Interrupt == "Interrupt" \in scenario.uses /\ distance > HiWatermark /\ GPReadEnable

\* The test of SetCPStatusFromCPU and SetCPStatusFromGPU.
StatusDiffers == Interrupt # m_interrupt_set /\ ~m_interrupt_waiting

\* Announces the interrupt, but schedules it only outside the deterministic mode
\* (CommandProcessor.cpp:429).
UpdateInterruptsFromVideoBackend(set) ==
  /\ m_interrupt_waiting' = TRUE
  /\ cp_event' = IF m_use_deterministic_gpu_thread THEN cp_event
                 ELSE IF set THEN "Set" ELSE "Clear"

\* EmulatorState(false): AllowSleep changes nothing the contract shows.
EmulatorPause == m_emu_running_state' = FALSE

-----------------------------------------------------------------------------
\* Calls that the CPU thread and the host thread make.

CallRunGpu(t) ==
  /\ pc[t] = "RunGpu"
  /\ RunGpu
  /\ Return(t)
  /\ UNCHANGED <<scenario, caller, old, m_shutdown, m_gpu_loop_waiters, m_emu_running_state,
                 requests, cpVars, m_sync_ticks, m_sync_wakeup_event, bufferVars, localVars,
                 coreVars>>

\* FlushGpu, and the last lines of PauseAndLock.
FlushGpu(t) ==
  /\ pc[t] = "Flush"
  /\ m_gpu_loop_waiters' = m_gpu_loop_waiters + 1
  /\ Goto(t, "FlushWait")
  /\ UNCHANGED <<scenario, threadVars, loopVars, m_emu_running_state, requests, memVars>>

FlushWait(t) ==
  /\ pc[t] = "FlushWait" /\ IsDone
  /\ m_gpu_loop_waiters' = m_gpu_loop_waiters - 1
  /\ Return(t)
  /\ UNCHANGED <<scenario, caller, old, loopVars, m_emu_running_state, requests, memVars, localVars,
                 coreVars>>

\* SyncGPU in the deterministic mode, lines 181-214.
SyncWait(t) ==
  /\ pc[t] = "SyncWait" /\ IsDone
  /\ Goto(t, "SyncMove")
  /\ UNCHANGED <<runVars, threadVars, memVars>>

\* Mutant: SyncGPU stores seen_ptr before write_ptr.
SyncMoveSeenFirst(t) ==
  /\ pc[t] = "SyncMove" /\ pp_read_ptr <= write_ptr
  /\ IF seen_ptr # write_ptr - pp_read_ptr
     THEN seen_ptr' = write_ptr - pp_read_ptr
          /\ UNCHANGED <<pc, write_ptr, pp_read_ptr, read_ptr, boundary>>
     ELSE /\ write_ptr' = write_ptr - pp_read_ptr
          /\ pp_read_ptr' = 0 /\ read_ptr' = 0
          /\ boundary' = [i \in 0..FIFO_SIZE |-> 0]
          /\ Goto(t, "SyncSeen") /\ UNCHANGED seen_ptr
  /\ UNCHANGED <<runVars, cpVars, syncVars, m_use_deterministic_gpu_thread, stale_payload,
                 threadVars>>

\* Moves the incomplete command to the front of the buffer.  A command of
\* negative size, which only a stale payload can leave, crashes the program.
SyncMove(t) ==
  /\ pc[t] = "SyncMove" /\ pp_read_ptr <= write_ptr
  /\ write_ptr' = write_ptr - pp_read_ptr
  /\ pp_read_ptr' = 0 /\ read_ptr' = 0
  /\ boundary' = [i \in 0..FIFO_SIZE |-> 0]
  /\ Goto(t, "SyncSeen")
  /\ UNCHANGED <<runVars, threadVars, cpVars, syncVars, m_use_deterministic_gpu_thread, seen_ptr,
                 stale_payload>>

SyncSeen(t) ==
  /\ pc[t] = "SyncSeen"
  /\ seen_ptr' = write_ptr
  /\ Return(t)
  /\ UNCHANGED <<runVars, caller, old, cpVars, syncVars, m_use_deterministic_gpu_thread,
                 write_ptr, read_ptr, pp_read_ptr, boundary, stale_payload, localVars, coreVars>>

\* PushEvent and PushBlockingEvent; the queue has one producer, so that a
\* blocking request is answered when the queue is empty.
Push(t, from, back) ==
  /\ pc[t] = from /\ requests < MaxRequests
  /\ requests' = requests + 1
  /\ Call(t, "RunGpu", back)
  /\ UNCHANGED <<scenario, caller, old, loopVars, m_gpu_loop_waiters, m_emu_running_state,
                 memVars, localVars, coreVars>>

Answered(t, back) ==
  /\ pc[t] = "Answer" /\ requests = 0
  /\ Goto(t, back)
  /\ UNCHANGED <<runVars, threadVars, memVars>>

-----------------------------------------------------------------------------
\* The CPU thread.

\* GatherPipeBursted: first SetCPStatusFromCPU, which computes the interrupt ...
GatherPipeBursted ==
  /\ pc["Cpu"] = "Run" /\ (distance < MaxDistance \/ "Unlinked" \in scenario.uses)
  /\ interrupt' = [interrupt EXCEPT !["Cpu"] = StatusDiffers /\ Interrupt]
  /\ Goto("Cpu", IF StatusDiffers THEN "BurstStatus" ELSE "Burst")
  /\ UNCHANGED <<runVars, memVars, callVars, gpu_seen, gpu_write, coreVars>>

\* ... and stores it,
SetCPStatusFromCPU ==
  /\ pc["Cpu"] = "BurstStatus"
  /\ m_interrupt_set' = interrupt["Cpu"]
  /\ interrupt' = [interrupt EXCEPT !["Cpu"] = FALSE]
  /\ Goto("Cpu", "Burst")
  /\ UNCHANGED <<runVars, distance, bFF_GPReadEnable, GPReadEnable, m_interrupt_waiting, cp_event,
                 syncVars, bufferVars, callVars, gpu_seen, gpu_write, coreVars>>

\* then the burst, with the FIFOs linked or not.
Burst ==
  /\ pc["Cpu"] = "Burst"
  /\ \/ /\ distance < MaxDistance
        /\ distance' = distance + 1
        /\ Call("Cpu", "RunGpu", "Run")
     \/ /\ "Unlinked" \in scenario.uses
        /\ IF ~m_use_deterministic_gpu_thread /\ distance > 0
           THEN Call("Cpu", "Flush", "RunGpu")
           ELSE Call("Cpu", "RunGpu", "Run")
        /\ UNCHANGED distance
  /\ UNCHANGED <<runVars, caller, old, bFF_GPReadEnable, GPReadEnable, m_interrupt_set,
                 m_interrupt_waiting, cp_event, syncVars, bufferVars, localVars, coreVars>>

\* CoreTiming's Idle.
Idle ==
  /\ pc["Cpu"] = "Run" /\ "Idle" \in scenario.uses /\ ~m_use_deterministic_gpu_thread
  /\ Call("Cpu", "Flush", "Run")
  /\ UNCHANGED <<runVars, caller, old, memVars, localVars, coreVars>>

\* Mutant: the interrupt stays announced.
UpdateInterruptsWaiting ==
  /\ pc["Cpu"] = "Run" /\ cp_event # "None"
  /\ m_interrupt_set' = (cp_event = "Set")
  /\ cp_event' = "None"
  /\ Call("Cpu", "RunGpu", "Run")
  /\ UNCHANGED <<runVars, caller, old, distance, bFF_GPReadEnable, GPReadEnable,
                 m_interrupt_waiting, syncVars, bufferVars, localVars, coreVars>>

\* The scheduled CP interrupt.
UpdateInterrupts ==
  /\ pc["Cpu"] = "Run" /\ cp_event # "None"
  /\ m_interrupt_set' = (cp_event = "Set")
  /\ m_interrupt_waiting' = FALSE /\ cp_event' = "None"
  /\ Call("Cpu", "RunGpu", "Run")
  /\ UNCHANGED <<runVars, caller, old, distance, bFF_GPReadEnable, GPReadEnable, syncVars,
                 bufferVars, localVars, coreVars>>

Request ==
  "Request" \in scenario.uses /\ (Push("Cpu", "Run", "Run") \/ Push("Cpu", "Run", "Answer"))

\* SyncGPUForRegisterAccess, lines 668-676, on behalf of c.
RegisterAccess(c, back) ==
  CASE m_use_deterministic_gpu_thread -> Call("Cpu", "SyncWait", "OnCpu") /\ caller' = c
    [] ~m_use_deterministic_gpu_thread /\ scenario.sync_gpu ->
         Goto("Cpu", "Ticks") /\ caller' = c /\ UNCHANGED ret
    [] OTHER -> Goto("Cpu", back) /\ UNCHANGED <<ret, caller>>

\* A read of the status register, and of the pointers.
ReadStatus ==
  /\ pc["Cpu"] = "Run" /\ "Register" \in scenario.uses
  /\ RegisterAccess("Status", "Run")
  /\ UNCHANGED <<runVars, old, memVars, localVars, coreVars>>

\* A write of the control register and SetCpControlRegister.
WriteControl ==
  /\ pc["Cpu"] = "Run" /\ "Control" \in scenario.uses
  /\ GPReadEnable' = ~GPReadEnable
  /\ IF GPReadEnable THEN RegisterAccess("Control", "Store")
     ELSE Goto("Cpu", "Store") /\ UNCHANGED <<ret, caller>>
  /\ UNCHANGED <<runVars, old, distance, bFF_GPReadEnable, m_interrupt_set, m_interrupt_waiting,
                 cp_event, syncVars, bufferVars, localVars, coreVars>>

SetCpControlRegister ==
  /\ pc["Cpu"] = "Store"
  /\ bFF_GPReadEnable' = GPReadEnable
  /\ Call("Cpu", "RunGpu", "Run")
  /\ UNCHANGED <<runVars, caller, old, distance, GPReadEnable, m_interrupt_set,
                 m_interrupt_waiting, cp_event, syncVars, bufferVars, localVars, coreVars>>

\* The SyncGPU event is scheduled iff m_syncing_suspended is clear.
SyncGPUCallback ==
  /\ pc["Cpu"] = "Run" /\ ~m_syncing_suspended
  /\ IF m_use_deterministic_gpu_thread \/ scenario.sync_gpu
     THEN /\ Goto("Cpu", IF m_use_deterministic_gpu_thread THEN "OnCpu" ELSE "Ticks")
          /\ caller' = "Callback" /\ UNCHANGED m_syncing_suspended
     ELSE m_syncing_suspended' = TRUE /\ UNCHANGED <<pc, caller>>
  /\ UNCHANGED <<runVars, ret, old, cpVars, m_sync_ticks, m_sync_wakeup_event, bufferVars,
                 localVars, coreVars>>

\* RunGpuOnCpu and WaitForGpuThread return; `idle' is a negative result.
SyncReturn(idle, suspended) ==
  /\ Goto("Cpu", IF caller = "Control" THEN "Store" ELSE "Run")
  /\ m_syncing_suspended' = IF caller = "Callback" THEN idle ELSE suspended
  /\ caller' = "None"

\* WaitForGpuThread, lines 624-646.
AddTicks ==
  /\ pc["Cpu"] = "Ticks" /\ m_sync_ticks < MaxTicks
  /\ old' = m_sync_ticks
  /\ m_sync_ticks' = m_sync_ticks + 1
  /\ Goto("Cpu", "Poll")
  /\ UNCHANGED <<runVars, ret, caller, cpVars, m_sync_wakeup_event, m_syncing_suspended,
                 bufferVars, localVars, coreVars>>

WaitForGpuThread ==
  /\ pc["Cpu"] = "Poll"
  /\ CASE old >= 0 /\ IsDone ->
            SyncReturn(TRUE, m_syncing_suspended) /\ UNCHANGED loop
       [] ~(old >= 0 /\ IsDone) /\ old < MinTicks /\ old + 1 >= MinTicks ->
            loop' = "Need" /\ SyncReturn(FALSE, FALSE)
       [] ~(old >= 0 /\ IsDone) /\ old + 1 >= WaitTicks ->
            Goto("Cpu", "Blocked") /\ UNCHANGED <<caller, loop, m_syncing_suspended>>
       [] OTHER -> SyncReturn(FALSE, m_syncing_suspended) /\ UNCHANGED loop
  /\ old' = 0
  /\ UNCHANGED <<scenario, ret, m_shutdown, m_gpu_loop_waiters, m_emu_running_state, requests,
                 cpVars, m_sync_ticks, m_sync_wakeup_event, bufferVars, localVars, coreVars>>

\* Line 643.
SyncWakeup ==
  /\ pc["Cpu"] = "Blocked" /\ m_sync_wakeup_event
  /\ m_sync_wakeup_event' = FALSE
  /\ SyncReturn(FALSE, m_syncing_suspended)
  /\ UNCHANGED <<runVars, ret, old, cpVars, m_sync_ticks, bufferVars, localVars, coreVars>>

\* RunGpuOnCpu in the deterministic mode, lines 524-584.
RunGpuOnCpu ==
  /\ pc["Cpu"] = "OnCpu"
  /\ LET available_ticks == m_sync_ticks + 1
     IN  IF bFF_GPReadEnable /\ distance > 0 /\ available_ticks >= 0
         THEN /\ IF write_ptr = FIFO_SIZE THEN Call("Cpu", "SyncWait", "Preprocess")
                 ELSE Goto("Cpu", "Preprocess") /\ UNCHANGED ret
              /\ UNCHANGED <<caller, m_interrupt_waiting, cp_event, m_sync_ticks,
                             m_syncing_suspended>>
         ELSE /\ IF StatusDiffers THEN UpdateInterruptsFromVideoBackend(Interrupt)
                 ELSE UNCHANGED <<m_interrupt_waiting, cp_event>>
              /\ m_sync_ticks' = IF available_ticks >= 0 THEN 0 ELSE available_ticks
              /\ SyncReturn(available_ticks >= 0, m_syncing_suspended)
              /\ UNCHANGED ret
  /\ UNCHANGED <<runVars, old, distance, bFF_GPReadEnable, GPReadEnable, m_interrupt_set,
                 m_sync_wakeup_event, bufferVars, localVars, coreVars>>

\* ReadDataFromFifoOnCPU: the burst ends a command or leaves one incomplete,
\* and an incomplete command always fits in the buffer.  A stale payload stores
\* to the same pointers at any time: the position read is then arbitrary.
Preprocess ==
  /\ pc["Cpu"] = "Preprocess"
  /\ \E whole \in BOOLEAN, at \in IF stale_payload THEN 0..FIFO_SIZE - 1 ELSE {write_ptr} :
       LET end == IF whole THEN at + 1 ELSE pp_read_ptr
       IN  /\ whole \/ at + 1 - pp_read_ptr < FIFO_SIZE
           /\ pp_read_ptr' = end
           /\ boundary' = [boundary EXCEPT ![at + 1] = end]
           /\ write_ptr' = at + 1
  /\ Goto("Cpu", "Preprocessed")
  /\ UNCHANGED <<runVars, threadVars, cpVars, syncVars, m_use_deterministic_gpu_thread, seen_ptr,
                 read_ptr, stale_payload>>

\* Mutant: RunGpuOnCpu does not wake the loop.
PreprocessedSilently ==
  /\ pc["Cpu"] = "Preprocessed"
  /\ distance' = (distance - 1) % DistanceLimit
  /\ Goto("Cpu", "OnCpu")
  /\ UNCHANGED <<runVars, bFF_GPReadEnable, GPReadEnable, m_interrupt_set, m_interrupt_waiting,
                 cp_event, syncVars, bufferVars, threadVars>>

Preprocessed ==
  /\ pc["Cpu"] = "Preprocessed"
  /\ loop' = "Need"
  /\ distance' = (distance - 1) % DistanceLimit
  /\ Goto("Cpu", "OnCpu")
  /\ UNCHANGED <<scenario, threadVars, m_shutdown, m_gpu_loop_waiters, m_emu_running_state,
                 requests, bFF_GPReadEnable, GPReadEnable, m_interrupt_set, m_interrupt_waiting,
                 cp_event, syncVars, bufferVars>>

\* CPUManager::Break, for a breakpoint or the end of a frame step.  A Break
\* while the host locks the CPU is remembered.
Break ==
  /\ pc["Cpu"] = "Run" /\ "Break" \in scenario.uses /\ pc["Host"] # "Wakeup"
  /\ IF pc["Host"] = "Locking"
     THEN was_unpaused' = FALSE /\ UNCHANGED <<m_state, m_emu_running_state>>
     ELSE /\ m_state' = IF m_state = "PowerDown" THEN m_state ELSE "Stepping"
          /\ EmulatorPause /\ UNCHANGED was_unpaused
  /\ UNCHANGED <<scenario, pc, callVars, loopVars, m_gpu_loop_waiters, requests, memVars, localVars,
                 stopping>>

\* The slice ends, and CPUManager::Run waits for a new state.
EndSlice ==
  /\ pc["Cpu"] = "Run" /\ m_state # "Running"
  /\ Goto("Cpu", "Parked")
  /\ UNCHANGED <<runVars, threadVars, memVars>>

Unpark ==
  /\ pc["Cpu"] = "Parked" /\ m_state # "Stepping" /\ pc["Host"] # "Wakeup"
  /\ Goto("Cpu", IF m_state = "Running" THEN "Run" ELSE "Exit")
  /\ UNCHANGED <<runVars, threadVars, memVars>>

\* ExitGpuLoop, lines 156-168, and the join of the GPU thread.
ExitGpuLoop ==
  /\ pc["Cpu"] = "Exit"
  /\ bFF_GPReadEnable' = FALSE
  /\ IF m_use_deterministic_gpu_thread THEN Goto("Cpu", "ExitRun") /\ UNCHANGED ret
     ELSE Call("Cpu", "Flush", "ExitRun")
  /\ UNCHANGED <<runVars, caller, old, distance, GPReadEnable, m_interrupt_set,
                 m_interrupt_waiting, cp_event, syncVars, bufferVars, localVars, coreVars>>

ExitRun ==
  /\ pc["Cpu"] = "ExitRun"
  /\ m_emu_running_state' = TRUE
  /\ Goto("Cpu", "ExitStop")
  /\ UNCHANGED <<scenario, threadVars, loopVars, m_gpu_loop_waiters, requests, memVars>>

ExitStop ==
  /\ pc["Cpu"] = "ExitStop"
  /\ m_shutdown' = TRUE /\ loop' = "Need"
  /\ Goto("Cpu", "Join")
  /\ UNCHANGED <<scenario, threadVars, m_gpu_loop_waiters, m_emu_running_state, requests,
                 memVars>>

Join ==
  /\ pc["Cpu"] = "Join" /\ pc["Gpu"] = "Exited"
  /\ Goto("Cpu", "Ended")
  /\ UNCHANGED <<runVars, threadVars, memVars>>

-----------------------------------------------------------------------------
\* The host thread.  It holds s_core_mutex inside SetState and from Lock to
\* Unlock, but not in Stop.

CoreMutexFree == pc["Host"] \in {"Idle", "StopPause", "StopCpu", "StopWait", "Stopped"}

\* m_state_cpu_thread_active is clear: the CPU thread is outside its slices.
CpuIdle ==
  \/ pc["Cpu"] \in {"Parked", "Exit", "ExitRun", "ExitStop", "Join", "Ended"}
  \/ pc["Cpu"] \in {"Flush", "FlushWait"} /\ ret["Cpu"] = "ExitRun"

\* Core::SetState(Paused): CPUManager::SetStepping waits for the CPU thread and
\* then pauses the FIFO.
Pause ==
  /\ pc["Host"] = "Idle" /\ ~stopping /\ "Pause" \in scenario.uses
  /\ m_state' = "Stepping"
  /\ Goto("Host", "Pausing")
  /\ UNCHANGED <<runVars, callVars, memVars, localVars, stopping, was_unpaused>>

Paused ==
  /\ pc["Host"] = "Pausing" /\ CpuIdle
  /\ EmulatorPause
  /\ Goto("Host", "Idle")
  /\ UNCHANGED <<scenario, threadVars, loopVars, m_gpu_loop_waiters, requests, memVars>>

\* Sets m_state and calls EmulatorState(true), whose Wakeup is a step of its own,
\* under m_state_change_lock: the CPU thread neither leaves Run's wait nor breaks.
ResumeFrom(from) ==
  /\ pc["Host"] = from
  /\ m_state' = "Running" /\ m_emu_running_state' = TRUE /\ was_unpaused' = FALSE
  /\ Goto("Host", "Wakeup")
  /\ UNCHANGED <<scenario, callVars, loopVars, m_gpu_loop_waiters, requests, memVars, localVars,
                 stopping>>

\* Core::SetState(Running).
Resume == ~stopping /\ m_state = "Stepping" /\ ResumeFrom("Idle")

ResumeWakeup ==
  /\ pc["Host"] = "Wakeup"
  /\ loop' = "Need"
  /\ Goto("Host", "Idle")
  /\ UNCHANGED <<scenario, threadVars, m_shutdown, m_gpu_loop_waiters, m_emu_running_state,
                 requests, memVars>>

\* Core::PauseAndLock: first the CPU, then the FIFO (lines 100-111).
Lock ==
  /\ pc["Host"] = "Idle" /\ ~stopping /\ "Lock" \in scenario.uses
  /\ was_unpaused' = (m_state = "Running")
  /\ m_state' = "Stepping"
  /\ Goto("Host", "Locking")
  /\ UNCHANGED <<runVars, callVars, memVars, localVars, stopping>>

LockCpu ==
  /\ pc["Host"] = "Locking" /\ CpuIdle
  /\ IF m_use_deterministic_gpu_thread THEN Call("Host", "SyncWait", "LockFifo")
     ELSE Goto("Host", "LockFifo") /\ UNCHANGED ret
  /\ UNCHANGED <<runVars, caller, old, memVars, localVars, coreVars>>

\* Mutant: PauseAndLock returns without waiting for the loop.
LockFifoNoWait ==
  /\ pc["Host"] = "LockFifo"
  /\ EmulatorPause
  /\ Goto("Host", "Locked")
  /\ UNCHANGED <<scenario, callVars, loopVars, m_gpu_loop_waiters, requests, memVars, localVars,
                 coreVars>>

LockFifo ==
  /\ pc["Host"] = "LockFifo"
  /\ EmulatorPause
  /\ IF m_use_deterministic_gpu_thread THEN Goto("Host", "Locked") /\ UNCHANGED ret
     ELSE Call("Host", "Flush", "Locked")
  /\ UNCHANGED <<scenario, caller, old, loopVars, m_gpu_loop_waiters, requests, memVars, localVars,
                 coreVars>>

\* The payload has passed line 333 and not yet returned.
PastPauseTest ==
  pc["Gpu"] \notin {"Test", "Exited", "Pull", "Present", "Presented", "StayAwake", "PauseTest",
                   "End", "Settle"}

\* UpdateWantDeterminism, when a movie or a netplay session begins or ends.
\* What is in the buffer from read_ptr on is incomplete.
UpdateWantDeterminism ==
  /\ pc["Host"] = "Locked" /\ "Movie" \in scenario.uses
  /\ PastPauseTest => "Overlap" \in scenario.uses
  /\ m_use_deterministic_gpu_thread' = ~m_use_deterministic_gpu_thread
  /\ IF m_use_deterministic_gpu_thread THEN UNCHANGED <<seen_ptr, pp_read_ptr>>
     ELSE seen_ptr' = read_ptr /\ pp_read_ptr' = read_ptr
  /\ stale_payload' = (stale_payload \/ PastPauseTest)
  /\ UNCHANGED <<runVars, pc, threadVars, cpVars, syncVars, write_ptr, read_ptr, boundary>>

\* A save state of the video, on the GPU thread (VideoBackendBase.cpp:302).
DoState == "State" \in scenario.uses /\ Push("Host", "Locked", "Answer")

\* CPUManager::RestoreStateAndUnlock.
Unlock ==
  \/ was_unpaused /\ ResumeFrom("Locked")
  \/ /\ ~was_unpaused /\ pc["Host"] = "Locked"
     /\ Goto("Host", "Idle")
     /\ UNCHANGED <<runVars, threadVars, memVars>>

\* Core::Stop, which pauses the FIFO first (Core.cpp:319), and CPUManager::Stop.
Stop ==
  /\ pc["Host"] = "Idle" /\ ~stopping /\ "Stop" \in scenario.uses
  /\ stopping' = TRUE
  /\ Goto("Host", "StopPause")
  /\ UNCHANGED <<runVars, callVars, memVars, localVars, m_state, was_unpaused>>

StopPause ==
  /\ pc["Host"] = "StopPause"
  /\ EmulatorPause
  /\ Goto("Host", "StopCpu")
  /\ UNCHANGED <<scenario, threadVars, loopVars, m_gpu_loop_waiters, requests, memVars>>

StopCpu ==
  /\ pc["Host"] = "StopCpu"
  /\ m_state' = "PowerDown"
  /\ Goto("Host", "StopWait")
  /\ UNCHANGED <<runVars, callVars, memVars, localVars, stopping, was_unpaused>>

\* CPUManager::Stop calls RunAdjacentSystems(false) after its wait, when the CPU
\* thread may be in ExitGpuLoop already.
Stopped ==
  /\ pc["Host"] = "StopWait" /\ CpuIdle
  /\ EmulatorPause
  /\ Goto("Host", "Stopped")
  /\ UNCHANGED <<scenario, threadVars, loopVars, m_gpu_loop_waiters, requests, memVars>>

-----------------------------------------------------------------------------
\* The GPU thread: the payload of RunGpuLoop, lines 322-432.

GpuTest ==
  /\ pc["Gpu"] = "Test"
  /\ Goto("Gpu", IF m_shutdown THEN "Exited" ELSE "Pull")
  /\ UNCHANGED <<runVars, threadVars, memVars>>

\* PullEvents, at the start of the payload and after each burst.
PullEvents(here, then) ==
  /\ pc["Gpu"] = here
  /\ IF requests > 0 THEN requests' = requests - 1 /\ UNCHANGED pc
     ELSE Goto("Gpu", then) /\ UNCHANGED requests
  /\ UNCHANGED <<scenario, threadVars, loopVars, m_gpu_loop_waiters, m_emu_running_state,
                 memVars>>

\* RunPausedPresent.
WantsPausedPresents == "Headset" \in scenario.uses /\ m_state = "Stepping" /\ ~stopping

RunPausedPresent ==
  /\ pc["Gpu"] = "Present"
  /\ Goto("Gpu", IF WantsPausedPresents /\ CoreMutexFree THEN "Presented" ELSE "PauseTest")
  /\ UNCHANGED <<runVars, threadVars, memVars>>

\* Mutant: the waiters are not looked at.
PresentedAwake ==
  /\ pc["Gpu"] = "Presented"
  /\ Goto("Gpu", "StayAwake")
  /\ UNCHANGED <<runVars, memVars, threadVars>>

\* Line 329: stay awake unless someone waits for the loop to settle.
Presented ==
  /\ pc["Gpu"] = "Presented"
  /\ Goto("Gpu", IF m_gpu_loop_waiters = 0 THEN "StayAwake" ELSE "PauseTest")
  /\ UNCHANGED <<runVars, threadVars, memVars>>

StayAwake ==
  /\ pc["Gpu"] = "StayAwake"
  /\ loop' = "Need"
  /\ Goto("Gpu", "PauseTest")
  /\ UNCHANGED <<scenario, threadVars, m_shutdown, m_gpu_loop_waiters, m_emu_running_state,
                 requests, memVars>>

PauseTest ==
  /\ pc["Gpu"] = "PauseTest"
  /\ Goto("Gpu", IF m_emu_running_state THEN "Mode" ELSE "End")
  /\ UNCHANGED <<runVars, threadVars, memVars>>

ModeTest ==
  /\ pc["Gpu"] = "Mode"
  /\ Goto("Gpu", IF m_use_deterministic_gpu_thread THEN "Seen" ELSE "Status")
  /\ UNCHANGED <<runVars, threadVars, memVars>>

\* The deterministic mode, lines 336-346.
LoadSeen ==
  /\ pc["Gpu"] = "Seen"
  /\ gpu_seen' = seen_ptr
  /\ Goto("Gpu", "Write")
  /\ UNCHANGED <<runVars, callVars, memVars, gpu_write, interrupt, coreVars>>

LoadWrite ==
  /\ pc["Gpu"] = "Write"
  /\ gpu_seen' = 0
  /\ IF write_ptr > gpu_seen THEN gpu_write' = write_ptr /\ Goto("Gpu", "Decode")
     ELSE UNCHANGED gpu_write /\ Goto("Gpu", "End")
  /\ UNCHANGED <<runVars, callVars, memVars, interrupt, coreVars>>

\* The whole commands before gpu_write are decoded.
Decode ==
  /\ pc["Gpu"] = "Decode"
  /\ read_ptr' = boundary[gpu_write]
  /\ seen_ptr' = gpu_write /\ gpu_write' = 0
  /\ Goto("Gpu", "End")
  /\ UNCHANGED <<runVars, callVars, cpVars, syncVars, m_use_deterministic_gpu_thread, write_ptr,
                 pp_read_ptr, boundary, stale_payload, gpu_seen, interrupt, coreVars>>

\* The other mode, lines 348-430: SetCPStatusFromGPU computes the interrupt ...
SetCPStatusFromGPU(here, set, then) ==
  /\ pc["Gpu"] = here
  /\ interrupt' = [interrupt EXCEPT !["Gpu"] = StatusDiffers /\ Interrupt]
  /\ Goto("Gpu", IF StatusDiffers THEN set ELSE then)
  /\ UNCHANGED <<runVars, memVars, callVars, gpu_seen, gpu_write, coreVars>>

\* ... and announces it.
ScheduleInterrupt(set, then) ==
  /\ pc["Gpu"] = set
  /\ UpdateInterruptsFromVideoBackend(interrupt["Gpu"])
  /\ interrupt' = [interrupt EXCEPT !["Gpu"] = FALSE]
  /\ Goto("Gpu", then)
  /\ UNCHANGED <<runVars, distance, bFF_GPReadEnable, GPReadEnable, m_interrupt_set, syncVars,
                 bufferVars, callVars, gpu_seen, gpu_write, coreVars>>

\* The loop's condition, with the test of the ticks.
Runnable ==
  /\ ~m_interrupt_waiting /\ bFF_GPReadEnable /\ distance > 0
  /\ scenario.sync_gpu => m_sync_ticks >= MinTicks

\* Mutant: the GPU also stops at the minimum.
GpuWhileAboveMin ==
  /\ pc["Gpu"] = "While"
  /\ Goto("Gpu", IF Runnable /\ (scenario.sync_gpu => m_sync_ticks > MinTicks)
                 THEN "Execute" ELSE "Tail")
  /\ UNCHANGED <<runVars, memVars, threadVars>>

GpuWhile ==
  /\ pc["Gpu"] = "While"
  /\ Goto("Gpu", IF Runnable THEN "Execute" ELSE "Tail")
  /\ UNCHANGED <<runVars, threadVars, memVars>>

\* ReadDataFromFifo appends the burst, behind what is incomplete at the front of
\* the buffer when the end is reached (lines 247-267), unless that fills the
\* buffer; the whole commands are run.  The mode is not asked for again.  Where
\* the mode never changes nobody else reads the pointers, and they stay as they
\* are.
GpuExecute ==
  /\ pc["Gpu"] = "Execute"
  /\ distance' = (distance - 1) % DistanceLimit
  /\ IF "Movie" \notin scenario.uses \/ (write_ptr = FIFO_SIZE /\ read_ptr = 0)
     THEN UNCHANGED <<write_ptr, read_ptr, boundary>>
     ELSE LET moved == IF write_ptr = FIFO_SIZE THEN read_ptr ELSE 0
              end == write_ptr - moved + 1
          IN  \E read \in {boundary[write_ptr] - moved, end} \cap 0..end :
                /\ end - read < FIFO_SIZE
                /\ write_ptr' = end /\ read_ptr' = read
                /\ boundary' = [i \in 0..FIFO_SIZE |-> read]
  /\ Goto("Gpu", "Executed")
  /\ UNCHANGED <<runVars, threadVars, bFF_GPReadEnable, GPReadEnable, m_interrupt_set,
                 m_interrupt_waiting, cp_event, syncVars, m_use_deterministic_gpu_thread, seen_ptr,
                 pp_read_ptr, stale_payload>>

\* The time that the commands of the burst took, in time slots.
GpuAccount ==
  /\ pc["Gpu"] = "Account"
  /\ \E cyclesExecuted \in Cycles :
       IF scenario.sync_gpu
       THEN /\ m_sync_ticks' = m_sync_ticks - cyclesExecuted
            /\ m_sync_wakeup_event' =
                 (m_sync_wakeup_event \/ (m_sync_ticks >= WaitTicks /\ m_sync_ticks' < WaitTicks))
       ELSE UNCHANGED <<m_sync_ticks, m_sync_wakeup_event>>
  /\ Goto("Gpu", "PullAgain")
  /\ UNCHANGED <<runVars, threadVars, cpVars, m_syncing_suspended, bufferVars>>

\* Mutant: the skipped time does not release the CPU thread.
GpuTailSilent ==
  /\ pc["Gpu"] = "Tail"
  /\ m_sync_ticks' = IF m_sync_ticks > 0 THEN 0 ELSE m_sync_ticks
  /\ Goto("Gpu", "End")
  /\ UNCHANGED <<runVars, cpVars, m_sync_wakeup_event, m_syncing_suspended, bufferVars,
                 threadVars>>

\* Line 413: skip the remaining GPU time.
GpuTail ==
  /\ pc["Gpu"] = "Tail"
  /\ m_sync_ticks' = IF m_sync_ticks > 0 THEN 0 ELSE m_sync_ticks
  /\ m_sync_wakeup_event' = (m_sync_wakeup_event \/ m_sync_ticks >= WaitTicks)
  /\ Goto("Gpu", "End")
  /\ UNCHANGED <<runVars, threadVars, cpVars, m_syncing_suspended, bufferVars>>

\* The end of a payload run.
GpuEnd ==
  /\ pc["Gpu"] = "End"
  /\ loop' = IF loop = "Need" THEN "Last" ELSE "Done"
  /\ Goto("Gpu", IF loop = "Need" THEN "Test" ELSE "Settle")
  /\ UNCHANGED <<scenario, threadVars, m_shutdown, m_gpu_loop_waiters, m_emu_running_state,
                 requests, memVars>>

\* A Wakeup between STATE_DONE and the decrement to STATE_SLEEPING leaves one
\* whole run to do, not two.
GpuSettle ==
  /\ pc["Gpu"] = "Settle"
  /\ \/ UNCHANGED loop
     \/ loop = "Need" /\ loop' = "Last"
  /\ Goto("Gpu", "Test")
  /\ UNCHANGED <<scenario, threadVars, m_shutdown, m_gpu_loop_waiters, m_emu_running_state,
                 requests, memVars>>

-----------------------------------------------------------------------------
GpuStep ==
  \/ GpuTest \/ PullEvents("Pull", "Present") \/ RunPausedPresent \/ Presented \/ StayAwake
  \/ PauseTest \/ ModeTest \/ LoadSeen \/ LoadWrite \/ Decode
  \/ SetCPStatusFromGPU("Status", "StatusSet", "While") \/ ScheduleInterrupt("StatusSet", "While")
  \/ GpuWhile \/ GpuExecute
  \/ SetCPStatusFromGPU("Executed", "ExecutedSet", "Account")
  \/ ScheduleInterrupt("ExecutedSet", "Account")
  \/ GpuAccount \/ PullEvents("PullAgain", "While")
  \/ GpuTail \/ GpuEnd \/ GpuSettle

\* A call under way goes on.
CallStep(t) ==
  CallRunGpu(t) \/ FlushGpu(t) \/ FlushWait(t) \/ SyncWait(t) \/ SyncMove(t) \/ SyncSeen(t)

CpuStep ==
  \/ CallStep("Cpu") \/ Answered("Cpu", "Run")
  \/ SetCPStatusFromCPU \/ Burst \/ SetCpControlRegister
  \/ AddTicks \/ WaitForGpuThread \/ SyncWakeup
  \/ RunGpuOnCpu \/ Preprocess \/ Preprocessed
  \/ Unpark \/ ExitGpuLoop \/ ExitRun \/ ExitStop \/ Join

HostStep ==
  \/ CallStep("Host") \/ Answered("Host", "Locked")
  \/ Paused \/ ResumeWakeup \/ LockCpu \/ LockFifo \/ StopPause \/ StopCpu \/ Stopped

\* What the game does.
GameStep ==
  GatherPipeBursted \/ Idle \/ UpdateInterrupts \/ Request \/ ReadStatus \/ WriteControl
  \/ SyncGPUCallback \/ Break

\* What the user does.
UserStep == Pause \/ Resume \/ Lock \/ UpdateWantDeterminism \/ DoState \/ Unlock \/ Stop

Next == GpuStep \/ CpuStep \/ HostStep \/ GameStep \/ EndSlice \/ UserStep

Safety == Init /\ [][Next]_vars

\* PullEvents finds the queue empty.
Pulled == requests = 0 /\ (PullEvents("Pull", "Present") \/ PullEvents("PullAgain", "While"))

\* The threads go on, the time limit of the GPU loop reruns the payload, a slice
\* of the CPU thread ends, CoreTiming runs the scheduled interrupt, and the CPU
\* thread does not make requests for ever faster than the GPU thread serves them.
Fairness ==
  /\ WF_vars(GpuStep) /\ WF_vars(CpuStep) /\ WF_vars(HostStep)
  /\ SF_vars(EndSlice) /\ SF_vars(UpdateInterrupts) /\ SF_vars(Pulled)

Spec == Safety /\ Fairness

-----------------------------------------------------------------------------
\* Properties.

\* Types of the variables.
CpuPc == {"Run", "RunGpu", "Flush", "FlushWait", "SyncWait", "SyncMove", "SyncSeen", "Answer",
          "BurstStatus", "Burst", "Store", "Ticks", "Poll", "Blocked", "OnCpu", "Preprocess",
          "Preprocessed", "Parked", "Exit", "ExitRun", "ExitStop", "Join", "Ended"}
HostPc == {"Idle", "RunGpu", "Flush", "FlushWait", "SyncWait", "SyncMove", "SyncSeen", "Answer",
           "Pausing", "Wakeup", "Locking", "LockFifo", "Locked", "StopPause", "StopCpu",
           "StopWait", "Stopped"}
GpuPc == {"Test", "Exited", "Pull", "Present", "Presented", "StayAwake", "PauseTest", "Mode",
          "Seen", "Write", "Decode", "Status", "StatusSet", "While", "Execute", "Executed",
          "ExecutedSet", "Account", "PullAgain", "Tail", "End", "Settle"}

TypeOK ==
  /\ scenario \in Scenarios
  /\ DOMAIN pc = {"Cpu", "Gpu", "Host"}
  /\ pc["Cpu"] \in CpuPc /\ pc["Gpu"] \in GpuPc /\ pc["Host"] \in HostPc
  /\ DOMAIN ret = {"Cpu", "Host"}
  /\ ret["Cpu"] \in {"Run", "Answer", "RunGpu", "OnCpu", "Preprocess", "ExitRun"}
  /\ ret["Host"] \in {"Run", "Answer", "LockFifo", "Locked"}
  /\ caller \in {"None", "Status", "Control", "Callback"} /\ old \in Int
  /\ loop \in {"Need", "Last", "Done"} /\ m_shutdown \in BOOLEAN
  /\ m_gpu_loop_waiters \in 0..2 /\ m_emu_running_state \in BOOLEAN /\ requests \in 0..MaxRequests
  /\ distance \in 0..DistanceLimit - 1 /\ bFF_GPReadEnable \in BOOLEAN /\ GPReadEnable \in BOOLEAN
  /\ m_interrupt_set \in BOOLEAN /\ m_interrupt_waiting \in BOOLEAN
  /\ cp_event \in {"None", "Set", "Clear"}
  /\ m_sync_ticks \in Int /\ m_sync_wakeup_event \in BOOLEAN /\ m_syncing_suspended \in BOOLEAN
  /\ m_use_deterministic_gpu_thread \in BOOLEAN
  /\ {write_ptr, seen_ptr, read_ptr, pp_read_ptr, gpu_seen, gpu_write} \subseteq 0..FIFO_SIZE
  /\ boundary \in [0..FIFO_SIZE -> 0..FIFO_SIZE] /\ stale_payload \in BOOLEAN
  /\ interrupt \in [{"Cpu", "Gpu"} -> BOOLEAN]
  /\ m_state \in {"Running", "Stepping", "PowerDown"} /\ stopping \in BOOLEAN
  /\ was_unpaused \in BOOLEAN

\* The payload is decoding commands.
Decodes == pc["Gpu"] = "Execute" \/ (pc["Gpu"] = "Decode" /\ boundary[gpu_write] # read_ptr)

\* Core.cpp:863-872 and CPUThreadGuard: while the host has the emulation locked
\* the GPU thread decodes no commands, although the payload may be running,
\* unless the mode has changed under a payload past its pause test.
LockedGpuIdle == pc["Host"] = "Locked" /\ ~stale_payload => ~Decodes

\* Fifo.cpp:183-211: when SyncGPU moves the buffer of a running emulation, the
\* GPU thread has decoded what the CPU thread has preprocessed and reads none
\* of it, with the same exception.
Drained ==
  \A t \in {"Cpu", "Host"} :
    pc[t] = "SyncMove" /\ m_emu_running_state => read_ptr = pp_read_ptr /\ pc["Gpu"] # "Decode"

SyncGPUDrains == ~stale_payload => Drained

\* Fifo.cpp:206-208: the payload never takes the move of the buffer for new
\* commands, with the same exception.
NoSpuriousDecode ==
  pc["Gpu"] = "Decode" /\ ~stale_payload =>
    gpu_write <= write_ptr /\ read_ptr <= boundary[gpu_write]

\* Fifo.cpp:643: a CPU thread that waits for the GPU is released, unless the
\* emulation is paused.
GpuReleasesCpu ==
  (pc["Cpu"] = "Blocked" /\ m_emu_running_state) ~>
    (pc["Cpu"] # "Blocked" \/ ~m_emu_running_state)

\* Fifo.cpp:327-330: FlushGpu, PauseAndLock, ExitGpuLoop and blocking requests
\* return, although a paused headset keeps the loop awake.
CallsReturn ==
  \A t \in {"Cpu", "Host"} :
    pc[t] \in {"FlushWait", "Answer", "Join"} ~> pc[t] \notin {"FlushWait", "Answer", "Join"}

\* Fifo.cpp:336-411: commands that may run are run, unless the emulation is
\* paused or stopped.
CommandsWait == IF m_use_deterministic_gpu_thread THEN write_ptr > seen_ptr ELSE Runnable

CommandsRun ==
  (CommandsWait /\ m_emu_running_state) ~>
    (pc["Gpu"] \in {"Execute", "Decode"} \/ ~CommandsWait \/ ~m_emu_running_state \/ m_shutdown)

\* CommandProcessor.cpp:504-513: the interrupt follows the distance, although
\* both threads change it.
InterruptFollows ==
  (m_interrupt_set # Interrupt /\ m_emu_running_state /\ ~m_use_deterministic_gpu_thread) ~>
    (m_interrupt_set = Interrupt \/ ~m_emu_running_state \/ m_use_deterministic_gpu_thread)

\* Where the GPU thread is in its BlockingLoop.
GpuPlace ==
  CASE pc["Gpu"] = "Test" -> "Test"
    [] pc["Gpu"] = "End" -> "End"
    [] pc["Gpu"] = "Settle" -> "Settle"
    [] pc["Gpu"] = "Exited" -> "Off"
    [] OTHER -> "Run"

MainLoop == INSTANCE LoopContract WITH place <- GpuPlace

\* Fifo.cpp:317-431: whatever the CPU thread and the host call, and although the
\* payload wakes its own loop, m_gpu_mainloop takes only steps of its contract:
\* it is done only after a run of the payload that nobody has asked for since
\* it began.
UsesContract == [][MainLoop!Next]_<<loop, GpuPlace>>

\* Core.cpp:870-871, "video has to come after CPU, because CPU thread can wait
\* for video thread": Stop and PauseAndLock find the CPU thread idle.
HostReturns ==
  pc["Host"] \in {"Pausing", "Locking", "StopWait"} ~>
    pc["Host"] \notin {"Pausing", "Locking", "StopWait"}

=============================================================================
