----------------------------- MODULE FifoProofs -----------------------------
(***************************************************************************)
(* Proofs about Fifo, for every set of scenarios and all bounds.           *)
(*                                                                         *)
(* LockedGpuIdle rests on the wake-ups: when commands can be decoded and   *)
(* the loop of the GPU thread is done, somebody is about to wake it.  A    *)
(* host that has stopped the CPU thread and seen the loop done therefore   *)
(* knows that the payload, which may be running all the same, finds        *)
(* nothing to decode.  That is lost once the mode changes under a payload  *)
(* past its pause test (stale_payload): it goes on in the part of the old  *)
(* mode.                                                                   *)
(*                                                                         *)
(* NoSpuriousDecode and SyncGPUDrains rest on the same argument for the    *)
(* deterministic mode, and on the FIFO being paused only behind a CPU      *)
(* thread that is idle, which Break does not respect.                      *)
(***************************************************************************)
EXTENDS Fifo, TLAPS

\* Places of the GPU thread: decoding in the deterministic mode, and in the other mode the
\* test of the loop's condition and its body.
DetPc == {"Seen", "Write", "Decode"}
RunPc == {"Execute", "Executed", "ExecutedSet", "Account", "PullAgain"}
TestPc == {"Mode", "Status", "StatusSet", "While"}
LoopPc == RunPc \cup {"Status", "StatusSet", "While", "Tail"}

\* Places of the host between LockCpu and Unlock, and of the CPU thread after Run.
LockPc == {"SyncWait", "SyncMove", "SyncSeen", "LockFifo", "Flush", "FlushWait", "Locked",
           "RunGpu", "Answer"}
ExitPc == {"Exit", "ExitRun", "ExitStop", "Join", "Ended"}

\* TypeOK in parts: places, enumerations, flags, numbers, and positions in the buffer.
PcType ==
  /\ DOMAIN pc = {"Cpu", "Gpu", "Host"}
  /\ pc["Cpu"] \in CpuPc /\ pc["Gpu"] \in GpuPc /\ pc["Host"] \in HostPc
  /\ DOMAIN ret = {"Cpu", "Host"}
  /\ ret["Cpu"] \in {"Run", "Answer", "RunGpu", "OnCpu", "Preprocess", "ExitRun"}
  /\ ret["Host"] \in {"Run", "Answer", "LockFifo", "Locked"}

FlagType ==
  /\ scenario \in Scenarios
  /\ caller \in {"None", "Status", "Control", "Callback"}
  /\ loop \in {"Need", "Last", "Done"} /\ cp_event \in {"None", "Set", "Clear"}
  /\ m_state \in {"Running", "Stepping", "PowerDown"}

BoolType ==
  /\ m_shutdown \in BOOLEAN /\ m_emu_running_state \in BOOLEAN
  /\ bFF_GPReadEnable \in BOOLEAN /\ GPReadEnable \in BOOLEAN
  /\ m_interrupt_set \in BOOLEAN /\ m_interrupt_waiting \in BOOLEAN
  /\ m_sync_wakeup_event \in BOOLEAN /\ m_syncing_suspended \in BOOLEAN
  /\ m_use_deterministic_gpu_thread \in BOOLEAN
  /\ interrupt \in [{"Cpu", "Gpu"} -> BOOLEAN]
  /\ stopping \in BOOLEAN /\ was_unpaused \in BOOLEAN

CountType ==
  /\ old \in Int /\ m_gpu_loop_waiters \in 0..2 /\ requests \in 0..MaxRequests
  /\ distance \in 0..DistanceLimit - 1 /\ m_sync_ticks \in Int

PointerType ==
  /\ write_ptr \in 0..FIFO_SIZE /\ seen_ptr \in 0..FIFO_SIZE /\ read_ptr \in 0..FIFO_SIZE
  /\ pp_read_ptr \in 0..FIFO_SIZE /\ gpu_seen \in 0..FIFO_SIZE /\ gpu_write \in 0..FIFO_SIZE
  /\ boundary \in [0..FIFO_SIZE -> 0..FIFO_SIZE] /\ stale_payload \in BOOLEAN

\* A locking host has parked the CPU thread, and from PauseAndLock's end on paused the FIFO.
HostInv ==
  /\ pc["Host"] \in {"SyncWait", "SyncMove", "SyncSeen"} =>
       ret["Host"] = "LockFifo" /\ m_use_deterministic_gpu_thread
  /\ pc["Host"] \in {"Flush", "FlushWait"} =>
       ret["Host"] = "Locked" /\ ~m_use_deterministic_gpu_thread
  /\ pc["Host"] = "RunGpu" => ret["Host"] = "Answer"
  /\ pc["Host"] \in LockPc => pc["Cpu"] = "Parked"
  /\ pc["Host"] \in LockPc \cup {"Locking", "Pausing"} => m_state = "Stepping" /\ ~stopping
  /\ pc["Host"] \in {"Flush", "FlushWait", "Locked", "RunGpu", "Answer"} => ~m_emu_running_state
  /\ m_state = "PowerDown" => stopping
  /\ pc["Host"] = "Wakeup" => ~stopping
  /\ pc["Host"] \in {"StopPause", "StopCpu", "StopWait", "Stopped"} => stopping

\* The CPU thread moves bursts only in the deterministic mode, and ends only when stopped.
CpuInv ==
  /\ pc["Cpu"] \in ExitPc \/ ret["Cpu"] = "ExitRun" => stopping
  /\ pc["Cpu"] \in {"SyncWait", "SyncMove", "SyncSeen"} => ret["Cpu"] \in {"OnCpu", "Preprocess"}
  /\ pc["Cpu"] \in {"SyncWait", "SyncMove", "SyncSeen", "OnCpu", "Preprocess", "Preprocessed"} =>
       m_use_deterministic_gpu_thread
  /\ pc["Cpu"] \in {"Flush", "FlushWait"} => ret["Cpu"] \in {"Run", "RunGpu", "ExitRun"}
  /\ pc["Cpu"] = "RunGpu" => ret["Cpu"] \in {"Run", "Answer"}

\* m_gpu_loop_waiters counts the threads that wait for the loop.
WaitersInv ==
  m_gpu_loop_waiters = (IF pc["Cpu"] = "FlushWait" THEN 1 ELSE 0)
                         + (IF pc["Host"] = "FlushWait" THEN 1 ELSE 0)

\* Somebody is about to wake the loop.
WakeDue ==
  \/ pc["Cpu"] = "RunGpu"
  \/ pc["Cpu"] = "Poll" /\ old < MinTicks /\ old + 1 >= MinTicks
  \/ pc["Host"] = "Wakeup"

\* The burst that the payload is about to take is there, unless the loop has been woken since.
\* Outside the deterministic mode, what can run is running or about to be announced, and a
\* payload that has loaded the pointers of the other mode is followed by a whole run.
LoopInv ==
  /\ pc["Gpu"] = "Execute" /\ loop # "Need" => distance > 0
  /\ ~stopping /\ ~m_use_deterministic_gpu_thread =>
       /\ loop = "Done" /\ m_emu_running_state /\ Runnable => WakeDue
       /\ loop = "Last" /\ pc["Gpu"] \in {"Tail", "End"} /\ m_emu_running_state /\ Runnable => WakeDue
       /\ pc["Gpu"] \in DetPc => loop = "Need" \/ ~m_emu_running_state \/ pc["Host"] = "Wakeup"
       /\ ~stale_payload /\ loop = "Done" /\ pc["Gpu"] \in RunPc => WakeDue
       /\ ~stale_payload /\ loop = "Done" /\ pc["Gpu"] \in TestPc /\ Runnable => WakeDue

\* The payload decodes nothing, and will find nothing.
Quiet == pc["Gpu"] \notin RunPc /\ (pc["Gpu"] \in TestPc => ~Runnable)

\* Without a stale payload, the payload is in the part of the mode.
StaleInv ==
  ~stale_payload => pc["Gpu"] \notin IF m_use_deterministic_gpu_thread THEN LoopPc ELSE DetPc

\* A host that has waited for the loop faces a quiet payload.
LockInv ==
  ~stale_payload /\ ~m_use_deterministic_gpu_thread /\ pc["Host"] \in {"Locked", "RunGpu", "Answer"}
    => Quiet

\* Without a stale payload: the incomplete command fits in the buffer; outside the
\* deterministic mode, and under a lock, the buffer holds no whole command.
BufferInv ==
  ~stale_payload =>
  /\ m_use_deterministic_gpu_thread => pp_read_ptr <= write_ptr /\ write_ptr - pp_read_ptr < FIFO_SIZE
  /\ ~m_use_deterministic_gpu_thread => read_ptr <= write_ptr /\ write_ptr - read_ptr < FIFO_SIZE
  /\ pc["Cpu"] \in {"SyncSeen", "Preprocess"} => write_ptr < FIFO_SIZE
  /\ pc["Host"] \in {"SyncSeen", "LockFifo", "Locked", "RunGpu", "Answer"}
       /\ m_use_deterministic_gpu_thread => pp_read_ptr = read_ptr
  /\ \/ ~m_use_deterministic_gpu_thread
     \/ pc["Host"] \in {"SyncSeen", "LockFifo", "Flush", "FlushWait", "Locked", "RunGpu", "Answer"}
     => boundary = [i \in 0..FIFO_SIZE |-> read_ptr]

IInv == TypeOK /\ HostInv /\ CpuInv /\ WaitersInv /\ LoopInv /\ StaleInv /\ LockInv /\ BufferInv

-----------------------------------------------------------------------------
LEMMA Types == TypeOK <=> PcType /\ FlagType /\ BoolType /\ CountType /\ PointerType
BY DEF TypeOK, PcType, FlagType, BoolType, CountType, PointerType

\* SyncReturn ends the call of the CPU thread.
LEMMA SyncReturnFrame ==
  ASSUME PcType, NEW idle, NEW suspended, SyncReturn(idle, suspended)
  PROVE  /\ pc' = [pc EXCEPT !["Cpu"] = pc'["Cpu"]]
         /\ pc'["Cpu"] \in {"Run", "Store"} /\ pc'["Gpu"] = pc["Gpu"] /\ pc'["Host"] = pc["Host"]
         /\ caller' = "None"
BY DEF SyncReturn, Goto, PcType

\* WaitForGpuThread wakes the loop when its ticks cross the minimum.
LEMMA WaitFrame ==
  ASSUME TypeOK, WaitForGpuThread
  PROVE  /\ pc["Cpu"] = "Poll" /\ pc' = [pc EXCEPT !["Cpu"] = pc'["Cpu"]]
         /\ pc'["Cpu"] \in {"Run", "Store", "Blocked"}
         /\ loop' \in {loop, "Need"}
         /\ old < MinTicks /\ old + 1 >= MinTicks => loop' = "Need"
         /\ caller' \in {"None", caller} /\ old' = 0
         /\ UNCHANGED <<scenario, ret, m_shutdown, m_gpu_loop_waiters, m_emu_running_state, requests,
                        cpVars, m_sync_ticks, m_sync_wakeup_event, bufferVars, localVars, coreVars>>
<1> USE DEF WaitForGpuThread
<1>0. old \in Int /\ PcType BY Types DEF CountType
<1>1. CASE old >= 0 /\ IsDone
  <2>1. SyncReturn(TRUE, m_syncing_suspended) /\ loop' = loop BY <1>1, Zenon
  <2>2. ~(old < MinTicks) BY <1>0, <1>1, TicksAssumption
  <2>3. /\ pc' = [pc EXCEPT !["Cpu"] = pc'["Cpu"]] /\ pc'["Cpu"] \in {"Run", "Store"}
        /\ caller' = "None"
    BY <1>0, <2>1, SyncReturnFrame, Zenon
  <2> QED BY <2>1, <2>2, <2>3
<1>2. CASE ~(old >= 0 /\ IsDone) /\ old < MinTicks /\ old + 1 >= MinTicks
  <2>0. ~(old + 1 >= WaitTicks) BY <1>0, <1>2, TicksAssumption
  <2>1. SyncReturn(FALSE, FALSE) /\ loop' = "Need" BY <1>2, <2>0, Zenon
  <2>2. /\ pc' = [pc EXCEPT !["Cpu"] = pc'["Cpu"]] /\ pc'["Cpu"] \in {"Run", "Store"}
        /\ caller' = "None"
    BY <1>0, <2>1, SyncReturnFrame, Zenon
  <2> QED BY <2>1, <2>2
<1>3. CASE ~(old >= 0 /\ IsDone) /\ ~(old < MinTicks /\ old + 1 >= MinTicks) /\ old + 1 >= WaitTicks
  BY <1>0, <1>3, TicksAssumption DEF Goto, PcType
<1>4. CASE ~(old >= 0 /\ IsDone) /\ ~(old < MinTicks /\ old + 1 >= MinTicks) /\ ~(old + 1 >= WaitTicks)
  BY <1>0, <1>4, TicksAssumption, SyncReturnFrame
<1> QED BY <1>1, <1>2, <1>3, <1>4

LEMMA WaitSuspended ==
  ASSUME BoolType, WaitForGpuThread
  PROVE  m_syncing_suspended' \in BOOLEAN
<1> USE Zenon DEF WaitForGpuThread, SyncReturn, BoolType
<1>1. CASE old >= 0 /\ IsDone BY <1>1
<1>2. CASE ~(old >= 0 /\ IsDone) /\ old < MinTicks /\ old + 1 >= MinTicks BY <1>2
<1>3. CASE ~(old >= 0 /\ IsDone) /\ ~(old < MinTicks /\ old + 1 >= MinTicks) /\ old + 1 >= WaitTicks
  BY <1>3
<1>4. CASE ~(old >= 0 /\ IsDone) /\ ~(old < MinTicks /\ old + 1 >= MinTicks) /\ ~(old + 1 >= WaitTicks)
  BY <1>4
<1> QED BY <1>1, <1>2, <1>3, <1>4

\* Where RunGpuOnCpu leaves the CPU thread.
LEMMA RunOnCpuFrame ==
  ASSUME PcType, PointerType, RunGpuOnCpu
  PROVE  /\ pc["Cpu"] = "OnCpu" /\ pc'["Gpu"] = pc["Gpu"] /\ pc'["Host"] = pc["Host"]
         /\ pc'["Cpu"] \in {"SyncWait", "Preprocess", "Run", "Store"}
         /\ pc'["Cpu"] = "Preprocess" => write_ptr < FIFO_SIZE
         /\ UNCHANGED <<runVars, old, distance, bFF_GPReadEnable, GPReadEnable, m_interrupt_set,
                        m_sync_wakeup_event, bufferVars, localVars, coreVars>>
<1> USE DEF RunGpuOnCpu, PcType
<1>1. CASE bFF_GPReadEnable /\ distance > 0 /\ m_sync_ticks + 1 >= 0
  BY <1>1, BoundsAssumption DEF PointerType, Call, Goto
<1>2. CASE ~(bFF_GPReadEnable /\ distance > 0 /\ m_sync_ticks + 1 >= 0)
  BY <1>2, SyncReturnFrame
<1> QED BY <1>1, <1>2

\* A move of the buffer keeps the incomplete command.
LEMMA MoveFits ==
  ASSUME NEW w \in 0..FIFO_SIZE, NEW p \in 0..FIFO_SIZE, p <= w
  PROVE  /\ w - p \in 0..FIFO_SIZE /\ 0 <= w - p /\ w - p <= w
         /\ w - p < FIFO_SIZE => (w - p) - 0 < FIFO_SIZE
BY BoundsAssumption

\* GpuExecute leaves the pointers alone, or appends a burst and leaves an incomplete command
\* that fits, or none.
LEMMA ExecuteFrame ==
  ASSUME PcType, PointerType, GpuExecute
  PROVE  /\ pc["Gpu"] = "Execute" /\ pc'["Gpu"] = "Executed"
         /\ pc'["Cpu"] = pc["Cpu"] /\ pc'["Host"] = pc["Host"]
         /\ distance' = (distance - 1) % DistanceLimit
         /\ \/ UNCHANGED <<write_ptr, read_ptr, boundary>>
            \/ /\ write_ptr' \in 0..FIFO_SIZE /\ read_ptr' \in 0..FIFO_SIZE
               /\ read_ptr' <= write_ptr' /\ write_ptr' - read_ptr' < FIFO_SIZE
               /\ boundary' = [i \in 0..FIFO_SIZE |-> read_ptr']
         /\ UNCHANGED <<runVars, threadVars, bFF_GPReadEnable, GPReadEnable, m_interrupt_set,
                        m_interrupt_waiting, cp_event, syncVars, m_use_deterministic_gpu_thread,
                        seen_ptr, pp_read_ptr, stale_payload>>
<1> DEFINE moved == IF write_ptr = FIFO_SIZE THEN read_ptr ELSE 0
           end == write_ptr - moved + 1
<1>1. /\ pc["Gpu"] = "Execute" /\ pc'["Gpu"] = "Executed"
      /\ pc'["Cpu"] = pc["Cpu"] /\ pc'["Host"] = pc["Host"]
  BY DEF GpuExecute, Goto, PcType
<1>2. CASE UNCHANGED <<write_ptr, read_ptr, boundary>> BY <1>1, <1>2 DEF GpuExecute
<1>3. CASE /\ ~(write_ptr = FIFO_SIZE /\ read_ptr = 0)
           /\ \E read \in {boundary[write_ptr] - moved, end} \cap 0..end :
                /\ end - read < FIFO_SIZE
                /\ write_ptr' = end /\ read_ptr' = read
                /\ boundary' = [i \in 0..FIFO_SIZE |-> read]
  <2>1. PICK read \in 0..end : /\ end - read < FIFO_SIZE
                               /\ write_ptr' = end /\ read_ptr' = read
                               /\ boundary' = [i \in 0..FIFO_SIZE |-> read]
    BY <1>3
  <2>2. end \in 0..FIFO_SIZE BY <1>3, BoundsAssumption DEF PointerType
  <2>3. read \in 0..FIFO_SIZE /\ read <= end BY <2>1, <2>2, BoundsAssumption
  <2> HIDE DEF end
  <2> QED BY <1>1, <2>1, <2>2, <2>3 DEF GpuExecute
<1> QED BY <1>2, <1>3 DEF GpuExecute

\* Preprocess appends a burst, at the end of the buffer unless a payload is stale.
LEMMA PreprocessFrame ==
  ASSUME PcType, PointerType, BufferInv, Preprocess
  PROVE  /\ pc["Cpu"] = "Preprocess" /\ pc'["Cpu"] = "Preprocessed"
         /\ pc'["Gpu"] = pc["Gpu"] /\ pc'["Host"] = pc["Host"]
         /\ \E at \in 0..FIFO_SIZE - 1, end \in 0..FIFO_SIZE :
              /\ ~stale_payload => at = write_ptr
              /\ end \in {at + 1, pp_read_ptr} /\ (end = at + 1 \/ at + 1 - end < FIFO_SIZE)
              /\ write_ptr' = at + 1 /\ pp_read_ptr' = end
              /\ boundary' = [boundary EXCEPT ![at + 1] = end]
         /\ UNCHANGED <<runVars, threadVars, cpVars, syncVars, m_use_deterministic_gpu_thread, seen_ptr,
                        read_ptr, stale_payload>>
<1>1. /\ pc["Cpu"] = "Preprocess" /\ pc'["Cpu"] = "Preprocessed"
      /\ pc'["Gpu"] = pc["Gpu"] /\ pc'["Host"] = pc["Host"]
  BY DEF Preprocess, Goto, PcType
<1>2. PICK whole \in BOOLEAN, at \in IF stale_payload THEN 0..FIFO_SIZE - 1 ELSE {write_ptr} :
        LET end == IF whole THEN at + 1 ELSE pp_read_ptr
        IN  /\ whole \/ at + 1 - pp_read_ptr < FIFO_SIZE
            /\ pp_read_ptr' = end
            /\ boundary' = [boundary EXCEPT ![at + 1] = end]
            /\ write_ptr' = at + 1
  BY DEF Preprocess
<1>3. at \in 0..FIFO_SIZE - 1 /\ (~stale_payload => at = write_ptr)
  BY <1>1, <1>2, BoundsAssumption DEF BufferInv, PointerType
<1>4. \E end \in 0..FIFO_SIZE :
        /\ end \in {at + 1, pp_read_ptr} /\ (end = at + 1 \/ at + 1 - end < FIFO_SIZE)
        /\ write_ptr' = at + 1 /\ pp_read_ptr' = end
        /\ boundary' = [boundary EXCEPT ![at + 1] = end]
  <2>1. at + 1 \in 0..FIFO_SIZE /\ pp_read_ptr \in 0..FIFO_SIZE
    BY <1>3, BoundsAssumption DEF PointerType
  <2>2. CASE whole BY <1>2, <2>1, <2>2
  <2>3. CASE ~whole BY <1>2, <2>1, <2>3
  <2> QED BY <2>2, <2>3
<1> QED BY <1>1, <1>3, <1>4 DEF Preprocess

-----------------------------------------------------------------------------
\* Types.
LEMMA PcTypeStep ==
  ASSUME TypeOK, PcType, CpuInv, HostInv, Next
  PROVE  PcType'
<1> USE DEF vars, runVars, memVars, threadVars, loopVars, cpVars, syncVars, bufferVars, coreVars,
        callVars, localVars, Goto, Call, Return, PcType, CpuPc, GpuPc, HostPc, CpuInv, HostInv
<1>1. CASE GpuStep
  <2>1. CASE GpuTest BY <2>1 DEF GpuTest
  <2>2. CASE PullEvents("Pull", "Present") BY <2>2 DEF PullEvents
  <2>3. CASE RunPausedPresent BY <2>3 DEF RunPausedPresent, WantsPausedPresents
  <2>4. CASE Presented BY <2>4 DEF Presented
  <2>5. CASE StayAwake BY <2>5 DEF StayAwake
  <2>6. CASE PauseTest BY <2>6 DEF PauseTest
  <2>7. CASE LoadSeen BY <2>7 DEF LoadSeen
  <2>8. CASE LoadWrite BY <2>8 DEF LoadWrite
  <2>9. CASE Decode BY <2>9 DEF Decode
  <2>10. CASE SetCPStatusFromGPU("Status", "StatusSet", "While") BY <2>10 DEF SetCPStatusFromGPU
  <2>11. CASE ScheduleInterrupt("StatusSet", "While")
    BY <2>11 DEF ScheduleInterrupt, UpdateInterruptsFromVideoBackend
  <2>12. CASE GpuWhile BY <2>12 DEF GpuWhile
  <2>13. CASE GpuExecute BY <2>13 DEF GpuExecute
  <2>14. CASE SetCPStatusFromGPU("Executed", "ExecutedSet", "Account")
    BY <2>14 DEF SetCPStatusFromGPU
  <2>15. CASE ScheduleInterrupt("ExecutedSet", "Account")
    BY <2>15 DEF ScheduleInterrupt, UpdateInterruptsFromVideoBackend
  <2>16. CASE GpuAccount BY <2>16 DEF GpuAccount
  <2>17. CASE PullEvents("PullAgain", "While") BY <2>17 DEF PullEvents
  <2>18. CASE GpuTail BY <2>18 DEF GpuTail
  <2>19. CASE GpuEnd BY <2>19 DEF GpuEnd
  <2>20. CASE GpuSettle BY <2>20 DEF GpuSettle
  <2>21. CASE ModeTest BY <2>21 DEF ModeTest
  <2> QED
    BY <1>1, <2>1, <2>2, <2>3, <2>4, <2>5, <2>6, <2>7, <2>8, <2>9, <2>10, <2>11, <2>12, <2>13,
       <2>14, <2>15, <2>16, <2>17, <2>18, <2>19, <2>20, <2>21 DEF GpuStep
<1>2. CASE CpuStep
  <2>1. CASE CallRunGpu("Cpu") BY <2>1 DEF CallRunGpu, RunGpu
  <2>2. CASE FlushGpu("Cpu") BY <2>2 DEF FlushGpu
  <2>3. CASE FlushWait("Cpu") BY <2>3 DEF FlushWait
  <2>4. CASE SyncWait("Cpu") BY <2>4 DEF SyncWait, IsDone
  <2>5. CASE SyncMove("Cpu") BY <2>5 DEF SyncMove
  <2>6. CASE SyncSeen("Cpu") BY <2>6 DEF SyncSeen
  <2>7. CASE Answered("Cpu", "Run") BY <2>7 DEF Answered
  <2>8. CASE SetCPStatusFromCPU BY <2>8 DEF SetCPStatusFromCPU
  <2>9. CASE Burst BY <2>9 DEF Burst
  <2>10. CASE SetCpControlRegister BY <2>10 DEF SetCpControlRegister
  <2>11. CASE AddTicks BY <2>11 DEF AddTicks
  <2>12. CASE WaitForGpuThread BY <2>12, WaitFrame
  <2>13. CASE SyncWakeup BY <2>13 DEF SyncWakeup, SyncReturn
  <2>14. CASE RunGpuOnCpu BY <2>14 DEF RunGpuOnCpu, SyncReturn, UpdateInterruptsFromVideoBackend
  <2>15. CASE Preprocess BY <2>15 DEF Preprocess
  <2>16. CASE Preprocessed BY <2>16 DEF Preprocessed
  <2>17. CASE Unpark BY <2>17 DEF Unpark
  <2>18. CASE ExitGpuLoop BY <2>18 DEF ExitGpuLoop
  <2>19. CASE ExitRun BY <2>19 DEF ExitRun
  <2>20. CASE ExitStop BY <2>20 DEF ExitStop
  <2>21. CASE Join BY <2>21 DEF Join
  <2> QED
    BY <1>2, <2>1, <2>2, <2>3, <2>4, <2>5, <2>6, <2>7, <2>8, <2>9, <2>10, <2>11, <2>12, <2>13,
       <2>14, <2>15, <2>16, <2>17, <2>18, <2>19, <2>20, <2>21 DEF CpuStep, CallStep
<1>3. CASE HostStep
  <2>1. CASE CallRunGpu("Host") BY <2>1 DEF CallRunGpu, RunGpu
  <2>2. CASE FlushGpu("Host") BY <2>2 DEF FlushGpu
  <2>3. CASE FlushWait("Host") BY <2>3 DEF FlushWait
  <2>4. CASE SyncWait("Host") BY <2>4 DEF SyncWait, IsDone
  <2>5. CASE SyncMove("Host") BY <2>5 DEF SyncMove
  <2>6. CASE SyncSeen("Host") BY <2>6 DEF SyncSeen
  <2>7. CASE Answered("Host", "Locked") BY <2>7 DEF Answered
  <2>8. CASE Paused BY <2>8 DEF Paused, EmulatorPause, CpuIdle
  <2>9. CASE ResumeWakeup BY <2>9 DEF ResumeWakeup
  <2>10. CASE LockCpu BY <2>10 DEF LockCpu, CpuIdle
  <2>11. CASE LockFifo BY <2>11 DEF LockFifo, EmulatorPause
  <2>12. CASE StopPause BY <2>12 DEF StopPause, EmulatorPause
  <2>13. CASE StopCpu BY <2>13 DEF StopCpu
  <2>14. CASE Stopped BY <2>14 DEF Stopped, EmulatorPause
  <2> QED
    BY <1>3, <2>1, <2>2, <2>3, <2>4, <2>5, <2>6, <2>7, <2>8, <2>9, <2>10, <2>11, <2>12, <2>13,
       <2>14 DEF HostStep, CallStep
<1>4. CASE GameStep
  <2>1. CASE GatherPipeBursted BY <2>1 DEF GatherPipeBursted
  <2>2. CASE Idle BY <2>2 DEF Idle
  <2>3. CASE UpdateInterrupts BY <2>3 DEF UpdateInterrupts
  <2>4. CASE Request BY <2>4 DEF Request, Push
  <2>5. CASE ReadStatus BY <2>5 DEF ReadStatus, RegisterAccess
  <2>6. CASE WriteControl BY <2>6 DEF WriteControl, RegisterAccess
  <2>7. CASE SyncGPUCallback BY <2>7 DEF SyncGPUCallback
  <2>8. CASE Break BY <2>8 DEF Break, EmulatorPause
  <2> QED BY <1>4, <2>1, <2>2, <2>3, <2>4, <2>5, <2>6, <2>7, <2>8 DEF GameStep
<1>5. CASE EndSlice BY <1>5 DEF EndSlice
<1>6. CASE UserStep
  <2>1. CASE Pause BY <2>1 DEF Pause
  <2>2. CASE Resume BY <2>2 DEF Resume, ResumeFrom
  <2>3. CASE Lock BY <2>3 DEF Lock
  <2>4. CASE UpdateWantDeterminism BY <2>4 DEF UpdateWantDeterminism
  <2>5. CASE DoState BY <2>5 DEF DoState, Push
  <2>6. CASE Unlock BY <2>6 DEF Unlock, ResumeFrom
  <2>7. CASE Stop BY <2>7 DEF Stop
  <2> QED BY <1>6, <2>1, <2>2, <2>3, <2>4, <2>5, <2>6, <2>7 DEF UserStep
<1> QED BY <1>1, <1>2, <1>3, <1>4, <1>5, <1>6 DEF Next

LEMMA FlagTypeStep ==
  ASSUME TypeOK, PcType, FlagType, Next
  PROVE  FlagType'
<1> USE DEF vars, runVars, memVars, threadVars, loopVars, cpVars, syncVars, bufferVars, coreVars,
        callVars, localVars, Goto, Call, Return, FlagType, PcType
<1>1. CASE GpuStep
  <2>1. CASE GpuTest BY <2>1 DEF GpuTest
  <2>2. CASE PullEvents("Pull", "Present") BY <2>2 DEF PullEvents
  <2>3. CASE RunPausedPresent BY <2>3 DEF RunPausedPresent, WantsPausedPresents
  <2>4. CASE Presented BY <2>4 DEF Presented
  <2>5. CASE StayAwake BY <2>5 DEF StayAwake
  <2>6. CASE PauseTest BY <2>6 DEF PauseTest
  <2>7. CASE LoadSeen BY <2>7 DEF LoadSeen
  <2>8. CASE LoadWrite BY <2>8 DEF LoadWrite
  <2>9. CASE Decode BY <2>9 DEF Decode
  <2>10. CASE SetCPStatusFromGPU("Status", "StatusSet", "While") BY <2>10 DEF SetCPStatusFromGPU
  <2>11. CASE ScheduleInterrupt("StatusSet", "While")
    BY <2>11 DEF ScheduleInterrupt, UpdateInterruptsFromVideoBackend
  <2>12. CASE GpuWhile BY <2>12 DEF GpuWhile
  <2>13. CASE GpuExecute BY <2>13 DEF GpuExecute
  <2>14. CASE SetCPStatusFromGPU("Executed", "ExecutedSet", "Account")
    BY <2>14 DEF SetCPStatusFromGPU
  <2>15. CASE ScheduleInterrupt("ExecutedSet", "Account")
    BY <2>15 DEF ScheduleInterrupt, UpdateInterruptsFromVideoBackend
  <2>16. CASE GpuAccount BY <2>16 DEF GpuAccount
  <2>17. CASE PullEvents("PullAgain", "While") BY <2>17 DEF PullEvents
  <2>18. CASE GpuTail BY <2>18 DEF GpuTail
  <2>19. CASE GpuEnd BY <2>19 DEF GpuEnd
  <2>20. CASE GpuSettle BY <2>20 DEF GpuSettle
  <2>21. CASE ModeTest BY <2>21 DEF ModeTest
  <2> QED
    BY <1>1, <2>1, <2>2, <2>3, <2>4, <2>5, <2>6, <2>7, <2>8, <2>9, <2>10, <2>11, <2>12, <2>13,
       <2>14, <2>15, <2>16, <2>17, <2>18, <2>19, <2>20, <2>21 DEF GpuStep
<1>2. CASE CpuStep
  <2>1. CASE CallRunGpu("Cpu") BY <2>1 DEF CallRunGpu, RunGpu
  <2>2. CASE FlushGpu("Cpu") BY <2>2 DEF FlushGpu
  <2>3. CASE FlushWait("Cpu") BY <2>3 DEF FlushWait
  <2>4. CASE SyncWait("Cpu") BY <2>4 DEF SyncWait, IsDone
  <2>5. CASE SyncMove("Cpu") BY <2>5 DEF SyncMove
  <2>6. CASE SyncSeen("Cpu") BY <2>6 DEF SyncSeen
  <2>7. CASE Answered("Cpu", "Run") BY <2>7 DEF Answered
  <2>8. CASE SetCPStatusFromCPU BY <2>8 DEF SetCPStatusFromCPU
  <2>9. CASE Burst BY <2>9 DEF Burst
  <2>10. CASE SetCpControlRegister BY <2>10 DEF SetCpControlRegister
  <2>11. CASE AddTicks BY <2>11 DEF AddTicks
  <2>12. CASE WaitForGpuThread BY <2>12, WaitFrame
  <2>13. CASE SyncWakeup BY <2>13 DEF SyncWakeup, SyncReturn
  <2>14. CASE RunGpuOnCpu BY <2>14 DEF RunGpuOnCpu, SyncReturn, UpdateInterruptsFromVideoBackend
  <2>15. CASE Preprocess BY <2>15 DEF Preprocess
  <2>16. CASE Preprocessed BY <2>16 DEF Preprocessed
  <2>17. CASE Unpark BY <2>17 DEF Unpark
  <2>18. CASE ExitGpuLoop BY <2>18 DEF ExitGpuLoop
  <2>19. CASE ExitRun BY <2>19 DEF ExitRun
  <2>20. CASE ExitStop BY <2>20 DEF ExitStop
  <2>21. CASE Join BY <2>21 DEF Join
  <2> QED
    BY <1>2, <2>1, <2>2, <2>3, <2>4, <2>5, <2>6, <2>7, <2>8, <2>9, <2>10, <2>11, <2>12, <2>13,
       <2>14, <2>15, <2>16, <2>17, <2>18, <2>19, <2>20, <2>21 DEF CpuStep, CallStep
<1>3. CASE HostStep
  <2>1. CASE CallRunGpu("Host") BY <2>1 DEF CallRunGpu, RunGpu
  <2>2. CASE FlushGpu("Host") BY <2>2 DEF FlushGpu
  <2>3. CASE FlushWait("Host") BY <2>3 DEF FlushWait
  <2>4. CASE SyncWait("Host") BY <2>4 DEF SyncWait, IsDone
  <2>5. CASE SyncMove("Host") BY <2>5 DEF SyncMove
  <2>6. CASE SyncSeen("Host") BY <2>6 DEF SyncSeen
  <2>7. CASE Answered("Host", "Locked") BY <2>7 DEF Answered
  <2>8. CASE Paused BY <2>8 DEF Paused, EmulatorPause, CpuIdle
  <2>9. CASE ResumeWakeup BY <2>9 DEF ResumeWakeup
  <2>10. CASE LockCpu BY <2>10 DEF LockCpu, CpuIdle
  <2>11. CASE LockFifo BY <2>11 DEF LockFifo, EmulatorPause
  <2>12. CASE StopPause BY <2>12 DEF StopPause, EmulatorPause
  <2>13. CASE StopCpu BY <2>13 DEF StopCpu
  <2>14. CASE Stopped BY <2>14 DEF Stopped, EmulatorPause
  <2> QED
    BY <1>3, <2>1, <2>2, <2>3, <2>4, <2>5, <2>6, <2>7, <2>8, <2>9, <2>10, <2>11, <2>12, <2>13,
       <2>14 DEF HostStep, CallStep
<1>4. CASE GameStep
  <2>1. CASE GatherPipeBursted BY <2>1 DEF GatherPipeBursted
  <2>2. CASE Idle BY <2>2 DEF Idle
  <2>3. CASE UpdateInterrupts BY <2>3 DEF UpdateInterrupts
  <2>4. CASE Request BY <2>4 DEF Request, Push
  <2>5. CASE ReadStatus BY <2>5 DEF ReadStatus, RegisterAccess
  <2>6. CASE WriteControl BY <2>6 DEF WriteControl, RegisterAccess
  <2>7. CASE SyncGPUCallback BY <2>7 DEF SyncGPUCallback
  <2>8. CASE Break BY <2>8 DEF Break, EmulatorPause
  <2> QED BY <1>4, <2>1, <2>2, <2>3, <2>4, <2>5, <2>6, <2>7, <2>8 DEF GameStep
<1>5. CASE EndSlice BY <1>5 DEF EndSlice
<1>6. CASE UserStep
  <2>1. CASE Pause BY <2>1 DEF Pause
  <2>2. CASE Resume BY <2>2 DEF Resume, ResumeFrom
  <2>3. CASE Lock BY <2>3 DEF Lock
  <2>4. CASE UpdateWantDeterminism BY <2>4 DEF UpdateWantDeterminism
  <2>5. CASE DoState BY <2>5 DEF DoState, Push
  <2>6. CASE Unlock BY <2>6 DEF Unlock, ResumeFrom
  <2>7. CASE Stop BY <2>7 DEF Stop
  <2> QED BY <1>6, <2>1, <2>2, <2>3, <2>4, <2>5, <2>6, <2>7 DEF UserStep
<1> QED BY <1>1, <1>2, <1>3, <1>4, <1>5, <1>6 DEF Next

LEMMA BoolTypeStep ==
  ASSUME TypeOK, BoolType, Next
  PROVE  BoolType'
<1> USE DEF vars, runVars, memVars, threadVars, loopVars, cpVars, syncVars, bufferVars, coreVars,
        callVars, localVars, Goto, Call, Return, BoolType
<1>1. CASE GpuStep
  <2>1. CASE GpuTest BY <2>1 DEF GpuTest
  <2>2. CASE PullEvents("Pull", "Present") BY <2>2 DEF PullEvents
  <2>3. CASE RunPausedPresent BY <2>3 DEF RunPausedPresent, WantsPausedPresents
  <2>4. CASE Presented BY <2>4 DEF Presented
  <2>5. CASE StayAwake BY <2>5 DEF StayAwake
  <2>6. CASE PauseTest BY <2>6 DEF PauseTest
  <2>7. CASE LoadSeen BY <2>7 DEF LoadSeen
  <2>8. CASE LoadWrite BY <2>8 DEF LoadWrite
  <2>9. CASE Decode BY <2>9 DEF Decode
  <2>10. CASE SetCPStatusFromGPU("Status", "StatusSet", "While") BY <2>10 DEF SetCPStatusFromGPU
  <2>11. CASE ScheduleInterrupt("StatusSet", "While")
    BY <2>11 DEF ScheduleInterrupt, UpdateInterruptsFromVideoBackend
  <2>12. CASE GpuWhile BY <2>12 DEF GpuWhile
  <2>13. CASE GpuExecute BY <2>13 DEF GpuExecute
  <2>14. CASE SetCPStatusFromGPU("Executed", "ExecutedSet", "Account")
    BY <2>14 DEF SetCPStatusFromGPU
  <2>15. CASE ScheduleInterrupt("ExecutedSet", "Account")
    BY <2>15 DEF ScheduleInterrupt, UpdateInterruptsFromVideoBackend
  <2>16. CASE GpuAccount BY <2>16, Zenon DEF GpuAccount
  <2>17. CASE PullEvents("PullAgain", "While") BY <2>17 DEF PullEvents
  <2>18. CASE GpuTail BY <2>18 DEF GpuTail
  <2>19. CASE GpuEnd BY <2>19 DEF GpuEnd
  <2>20. CASE GpuSettle BY <2>20 DEF GpuSettle
  <2>21. CASE ModeTest BY <2>21 DEF ModeTest
  <2> QED
    BY <1>1, <2>1, <2>2, <2>3, <2>4, <2>5, <2>6, <2>7, <2>8, <2>9, <2>10, <2>11, <2>12, <2>13,
       <2>14, <2>15, <2>16, <2>17, <2>18, <2>19, <2>20, <2>21 DEF GpuStep
<1>2. CASE CpuStep
  <2>1. CASE CallRunGpu("Cpu") BY <2>1 DEF CallRunGpu, RunGpu
  <2>2. CASE FlushGpu("Cpu") BY <2>2 DEF FlushGpu
  <2>3. CASE FlushWait("Cpu") BY <2>3 DEF FlushWait
  <2>4. CASE SyncWait("Cpu") BY <2>4 DEF SyncWait, IsDone
  <2>5. CASE SyncMove("Cpu") BY <2>5 DEF SyncMove
  <2>6. CASE SyncSeen("Cpu") BY <2>6 DEF SyncSeen
  <2>7. CASE Answered("Cpu", "Run") BY <2>7 DEF Answered
  <2>8. CASE SetCPStatusFromCPU BY <2>8 DEF SetCPStatusFromCPU
  <2>9. CASE Burst BY <2>9 DEF Burst
  <2>10. CASE SetCpControlRegister BY <2>10 DEF SetCpControlRegister
  <2>11. CASE AddTicks BY <2>11 DEF AddTicks
  <2>12. CASE WaitForGpuThread BY <2>12, WaitFrame, WaitSuspended, Zenon
  <2>13. CASE SyncWakeup BY <2>13, Zenon DEF SyncWakeup, SyncReturn
  <2>14. CASE RunGpuOnCpu
    <3>1. CASE bFF_GPReadEnable /\ distance > 0 /\ m_sync_ticks + 1 >= 0
      BY <2>14, <3>1, Zenon DEF RunGpuOnCpu
    <3>2. CASE ~(bFF_GPReadEnable /\ distance > 0 /\ m_sync_ticks + 1 >= 0)
      <4>1. m_interrupt_waiting' \in BOOLEAN
        BY <2>14, <3>2, Zenon DEF RunGpuOnCpu, UpdateInterruptsFromVideoBackend
      <4>2. m_syncing_suspended' \in BOOLEAN
        <5>1. m_syncing_suspended' =
                IF caller = "Callback" THEN m_sync_ticks + 1 >= 0 ELSE m_syncing_suspended
          BY <2>14, <3>2, Zenon DEF RunGpuOnCpu, SyncReturn
        <5>2. (m_sync_ticks + 1 >= 0) \in BOOLEAN OBVIOUS
        <5> QED BY <5>1, <5>2, Zenon
      <4> QED BY <2>14, <4>1, <4>2, Zenon DEF RunGpuOnCpu
    <3> QED BY <3>1, <3>2
  <2>15. CASE Preprocess BY <2>15 DEF Preprocess
  <2>16. CASE Preprocessed BY <2>16 DEF Preprocessed
  <2>17. CASE Unpark BY <2>17 DEF Unpark
  <2>18. CASE ExitGpuLoop BY <2>18, Zenon DEF ExitGpuLoop
  <2>19. CASE ExitRun BY <2>19 DEF ExitRun
  <2>20. CASE ExitStop BY <2>20 DEF ExitStop
  <2>21. CASE Join BY <2>21 DEF Join
  <2> QED
    BY <1>2, <2>1, <2>2, <2>3, <2>4, <2>5, <2>6, <2>7, <2>8, <2>9, <2>10, <2>11, <2>12, <2>13,
       <2>14, <2>15, <2>16, <2>17, <2>18, <2>19, <2>20, <2>21 DEF CpuStep, CallStep
<1>3. CASE HostStep
  <2>1. CASE CallRunGpu("Host") BY <2>1 DEF CallRunGpu, RunGpu
  <2>2. CASE FlushGpu("Host") BY <2>2 DEF FlushGpu
  <2>3. CASE FlushWait("Host") BY <2>3 DEF FlushWait
  <2>4. CASE SyncWait("Host") BY <2>4 DEF SyncWait, IsDone
  <2>5. CASE SyncMove("Host") BY <2>5 DEF SyncMove
  <2>6. CASE SyncSeen("Host") BY <2>6 DEF SyncSeen
  <2>7. CASE Answered("Host", "Locked") BY <2>7 DEF Answered
  <2>8. CASE Paused BY <2>8, Zenon DEF Paused, EmulatorPause, CpuIdle
  <2>9. CASE ResumeWakeup BY <2>9 DEF ResumeWakeup
  <2>10. CASE LockCpu BY <2>10 DEF LockCpu, CpuIdle
  <2>11. CASE LockFifo BY <2>11, Zenon DEF LockFifo, EmulatorPause
  <2>12. CASE StopPause BY <2>12, Zenon DEF StopPause, EmulatorPause
  <2>13. CASE StopCpu BY <2>13 DEF StopCpu
  <2>14. CASE Stopped BY <2>14, Zenon DEF Stopped, EmulatorPause
  <2> QED
    BY <1>3, <2>1, <2>2, <2>3, <2>4, <2>5, <2>6, <2>7, <2>8, <2>9, <2>10, <2>11, <2>12, <2>13,
       <2>14 DEF HostStep, CallStep
<1>4. CASE GameStep
  <2>1. CASE GatherPipeBursted BY <2>1 DEF GatherPipeBursted
  <2>2. CASE Idle BY <2>2 DEF Idle
  <2>3. CASE UpdateInterrupts BY <2>3, Zenon DEF UpdateInterrupts
  <2>4. CASE Request BY <2>4 DEF Request, Push
  <2>5. CASE ReadStatus BY <2>5 DEF ReadStatus, RegisterAccess
  <2>6. CASE WriteControl BY <2>6 DEF WriteControl, RegisterAccess
  <2>7. CASE SyncGPUCallback BY <2>7, Zenon DEF SyncGPUCallback
  <2>8. CASE Break BY <2>8, Zenon DEF Break, EmulatorPause
  <2> QED BY <1>4, <2>1, <2>2, <2>3, <2>4, <2>5, <2>6, <2>7, <2>8 DEF GameStep
<1>5. CASE EndSlice BY <1>5 DEF EndSlice
<1>6. CASE UserStep
  <2>1. CASE Pause BY <2>1 DEF Pause
  <2>2. CASE Resume BY <2>2, Zenon DEF Resume, ResumeFrom
  <2>3. CASE Lock BY <2>3 DEF Lock
  <2>4. CASE UpdateWantDeterminism BY <2>4 DEF UpdateWantDeterminism
  <2>5. CASE DoState BY <2>5 DEF DoState, Push
  <2>6. CASE Unlock
    <3>1. CASE was_unpaused /\ ResumeFrom("Locked") BY <3>1, Zenon DEF ResumeFrom
    <3>2. CASE ~was_unpaused BY <2>6, <3>2, Zenon DEF Unlock, ResumeFrom
    <3> QED BY <2>6, <3>1, <3>2 DEF Unlock
  <2>7. CASE Stop BY <2>7 DEF Stop
  <2> QED BY <1>6, <2>1, <2>2, <2>3, <2>4, <2>5, <2>6, <2>7 DEF UserStep
<1> QED BY <1>1, <1>2, <1>3, <1>4, <1>5, <1>6 DEF Next

LEMMA CountTypeStep ==
  ASSUME TypeOK, PcType, CountType, WaitersInv, Next
  PROVE  CountType'
<1> USE TicksAssumption, BoundsAssumption DEF vars, runVars, memVars, threadVars, loopVars,
        cpVars, syncVars, bufferVars, coreVars, callVars, localVars, Goto, Call, Return,
        CountType, PcType, WaitersInv
<1>1. CASE GpuStep
  <2>1. CASE GpuTest BY <2>1 DEF GpuTest
  <2>2. CASE PullEvents("Pull", "Present") BY <2>2 DEF PullEvents
  <2>3. CASE RunPausedPresent BY <2>3 DEF RunPausedPresent, WantsPausedPresents
  <2>4. CASE Presented BY <2>4 DEF Presented
  <2>5. CASE StayAwake BY <2>5 DEF StayAwake
  <2>6. CASE PauseTest BY <2>6 DEF PauseTest
  <2>7. CASE LoadSeen BY <2>7 DEF LoadSeen
  <2>8. CASE LoadWrite BY <2>8 DEF LoadWrite
  <2>9. CASE Decode BY <2>9 DEF Decode
  <2>10. CASE SetCPStatusFromGPU("Status", "StatusSet", "While") BY <2>10 DEF SetCPStatusFromGPU
  <2>11. CASE ScheduleInterrupt("StatusSet", "While")
    BY <2>11 DEF ScheduleInterrupt, UpdateInterruptsFromVideoBackend
  <2>12. CASE GpuWhile BY <2>12 DEF GpuWhile
  <2>13. CASE GpuExecute BY <2>13 DEF GpuExecute
  <2>14. CASE SetCPStatusFromGPU("Executed", "ExecutedSet", "Account")
    BY <2>14 DEF SetCPStatusFromGPU
  <2>15. CASE ScheduleInterrupt("ExecutedSet", "Account")
    BY <2>15 DEF ScheduleInterrupt, UpdateInterruptsFromVideoBackend
  <2>16. CASE GpuAccount BY <2>16 DEF GpuAccount
  <2>17. CASE PullEvents("PullAgain", "While") BY <2>17 DEF PullEvents
  <2>18. CASE GpuTail BY <2>18 DEF GpuTail
  <2>19. CASE GpuEnd BY <2>19 DEF GpuEnd
  <2>20. CASE GpuSettle BY <2>20 DEF GpuSettle
  <2>21. CASE ModeTest BY <2>21 DEF ModeTest
  <2> QED
    BY <1>1, <2>1, <2>2, <2>3, <2>4, <2>5, <2>6, <2>7, <2>8, <2>9, <2>10, <2>11, <2>12, <2>13,
       <2>14, <2>15, <2>16, <2>17, <2>18, <2>19, <2>20, <2>21 DEF GpuStep
<1>2. CASE CpuStep
  <2>1. CASE CallRunGpu("Cpu") BY <2>1 DEF CallRunGpu, RunGpu
  <2>2. CASE FlushGpu("Cpu") BY <2>2 DEF FlushGpu
  <2>3. CASE FlushWait("Cpu") BY <2>3 DEF FlushWait
  <2>4. CASE SyncWait("Cpu") BY <2>4 DEF SyncWait, IsDone
  <2>5. CASE SyncMove("Cpu") BY <2>5 DEF SyncMove
  <2>6. CASE SyncSeen("Cpu") BY <2>6 DEF SyncSeen
  <2>7. CASE Answered("Cpu", "Run") BY <2>7 DEF Answered
  <2>8. CASE SetCPStatusFromCPU BY <2>8 DEF SetCPStatusFromCPU
  <2>9. CASE Burst BY <2>9 DEF Burst
  <2>10. CASE SetCpControlRegister BY <2>10 DEF SetCpControlRegister
  <2>11. CASE AddTicks BY <2>11 DEF AddTicks
  <2>12. CASE WaitForGpuThread BY <2>12, WaitFrame
  <2>13. CASE SyncWakeup BY <2>13 DEF SyncWakeup, SyncReturn
  <2>14. CASE RunGpuOnCpu BY <2>14 DEF RunGpuOnCpu, SyncReturn, UpdateInterruptsFromVideoBackend
  <2>15. CASE Preprocess BY <2>15 DEF Preprocess
  <2>16. CASE Preprocessed BY <2>16 DEF Preprocessed
  <2>17. CASE Unpark BY <2>17 DEF Unpark
  <2>18. CASE ExitGpuLoop BY <2>18 DEF ExitGpuLoop
  <2>19. CASE ExitRun BY <2>19 DEF ExitRun
  <2>20. CASE ExitStop BY <2>20 DEF ExitStop
  <2>21. CASE Join BY <2>21 DEF Join
  <2> QED
    BY <1>2, <2>1, <2>2, <2>3, <2>4, <2>5, <2>6, <2>7, <2>8, <2>9, <2>10, <2>11, <2>12, <2>13,
       <2>14, <2>15, <2>16, <2>17, <2>18, <2>19, <2>20, <2>21 DEF CpuStep, CallStep
<1>3. CASE HostStep
  <2>1. CASE CallRunGpu("Host") BY <2>1 DEF CallRunGpu, RunGpu
  <2>2. CASE FlushGpu("Host") BY <2>2 DEF FlushGpu
  <2>3. CASE FlushWait("Host") BY <2>3 DEF FlushWait
  <2>4. CASE SyncWait("Host") BY <2>4 DEF SyncWait, IsDone
  <2>5. CASE SyncMove("Host") BY <2>5 DEF SyncMove
  <2>6. CASE SyncSeen("Host") BY <2>6 DEF SyncSeen
  <2>7. CASE Answered("Host", "Locked") BY <2>7 DEF Answered
  <2>8. CASE Paused BY <2>8 DEF Paused, EmulatorPause, CpuIdle
  <2>9. CASE ResumeWakeup BY <2>9 DEF ResumeWakeup
  <2>10. CASE LockCpu BY <2>10 DEF LockCpu, CpuIdle
  <2>11. CASE LockFifo BY <2>11 DEF LockFifo, EmulatorPause
  <2>12. CASE StopPause BY <2>12 DEF StopPause, EmulatorPause
  <2>13. CASE StopCpu BY <2>13 DEF StopCpu
  <2>14. CASE Stopped BY <2>14 DEF Stopped, EmulatorPause
  <2> QED
    BY <1>3, <2>1, <2>2, <2>3, <2>4, <2>5, <2>6, <2>7, <2>8, <2>9, <2>10, <2>11, <2>12, <2>13,
       <2>14 DEF HostStep, CallStep
<1>4. CASE GameStep
  <2>1. CASE GatherPipeBursted BY <2>1 DEF GatherPipeBursted
  <2>2. CASE Idle BY <2>2 DEF Idle
  <2>3. CASE UpdateInterrupts BY <2>3 DEF UpdateInterrupts
  <2>4. CASE Request BY <2>4 DEF Request, Push
  <2>5. CASE ReadStatus BY <2>5 DEF ReadStatus, RegisterAccess
  <2>6. CASE WriteControl BY <2>6 DEF WriteControl, RegisterAccess
  <2>7. CASE SyncGPUCallback BY <2>7 DEF SyncGPUCallback
  <2>8. CASE Break BY <2>8 DEF Break, EmulatorPause
  <2> QED BY <1>4, <2>1, <2>2, <2>3, <2>4, <2>5, <2>6, <2>7, <2>8 DEF GameStep
<1>5. CASE EndSlice BY <1>5 DEF EndSlice
<1>6. CASE UserStep
  <2>1. CASE Pause BY <2>1 DEF Pause
  <2>2. CASE Resume BY <2>2 DEF Resume, ResumeFrom
  <2>3. CASE Lock BY <2>3 DEF Lock
  <2>4. CASE UpdateWantDeterminism BY <2>4 DEF UpdateWantDeterminism
  <2>5. CASE DoState BY <2>5 DEF DoState, Push
  <2>6. CASE Unlock BY <2>6 DEF Unlock, ResumeFrom
  <2>7. CASE Stop BY <2>7 DEF Stop
  <2> QED BY <1>6, <2>1, <2>2, <2>3, <2>4, <2>5, <2>6, <2>7 DEF UserStep
<1> QED BY <1>1, <1>2, <1>3, <1>4, <1>5, <1>6 DEF Next

LEMMA PointerTypeStep ==
  ASSUME TypeOK, PointerType, PcType, BufferInv, Next
  PROVE  PointerType'
<1> USE BoundsAssumption DEF vars, runVars, memVars, threadVars, loopVars, cpVars, syncVars,
        bufferVars, coreVars, callVars, localVars, Goto, Call, Return, PointerType, PcType,
        BufferInv
<1>1. CASE GpuStep
  <2>1. CASE GpuTest BY <2>1 DEF GpuTest
  <2>2. CASE PullEvents("Pull", "Present") BY <2>2 DEF PullEvents
  <2>3. CASE RunPausedPresent BY <2>3 DEF RunPausedPresent, WantsPausedPresents
  <2>4. CASE Presented BY <2>4 DEF Presented
  <2>5. CASE StayAwake BY <2>5 DEF StayAwake
  <2>6. CASE PauseTest BY <2>6 DEF PauseTest
  <2>7. CASE LoadSeen BY <2>7 DEF LoadSeen
  <2>8. CASE LoadWrite
    <3>1. gpu_write' \in {gpu_write, write_ptr} /\ gpu_seen' = 0 BY <2>8 DEF LoadWrite
    <3>2. 0 \in 0..FIFO_SIZE OBVIOUS
    <3> QED BY <2>8, <3>1, <3>2 DEF LoadWrite
  <2>9. CASE Decode
    <3>1. boundary[gpu_write] \in 0..FIFO_SIZE /\ 0 \in 0..FIFO_SIZE OBVIOUS
    <3> QED BY <2>9, <3>1 DEF Decode
  <2>10. CASE SetCPStatusFromGPU("Status", "StatusSet", "While") BY <2>10 DEF SetCPStatusFromGPU
  <2>11. CASE ScheduleInterrupt("StatusSet", "While")
    BY <2>11 DEF ScheduleInterrupt, UpdateInterruptsFromVideoBackend
  <2>12. CASE GpuWhile BY <2>12 DEF GpuWhile
  <2>13. CASE GpuExecute
    <3>1. CASE UNCHANGED <<write_ptr, read_ptr, boundary>> BY <2>13, <3>1, ExecuteFrame
    <3>2. CASE /\ write_ptr' \in 0..FIFO_SIZE /\ read_ptr' \in 0..FIFO_SIZE
               /\ boundary' = [i \in 0..FIFO_SIZE |-> read_ptr']
      <4>1. boundary' \in [0..FIFO_SIZE -> 0..FIFO_SIZE] BY <3>2
      <4>2. UNCHANGED <<seen_ptr, pp_read_ptr, gpu_seen, gpu_write, stale_payload>>
        BY <2>13, ExecuteFrame
      <4> QED BY <3>2, <4>1, <4>2
    <3> QED BY <2>13, <3>1, <3>2, ExecuteFrame
  <2>14. CASE SetCPStatusFromGPU("Executed", "ExecutedSet", "Account")
    BY <2>14 DEF SetCPStatusFromGPU
  <2>15. CASE ScheduleInterrupt("ExecutedSet", "Account")
    BY <2>15 DEF ScheduleInterrupt, UpdateInterruptsFromVideoBackend
  <2>16. CASE GpuAccount BY <2>16 DEF GpuAccount
  <2>17. CASE PullEvents("PullAgain", "While") BY <2>17 DEF PullEvents
  <2>18. CASE GpuTail BY <2>18 DEF GpuTail
  <2>19. CASE GpuEnd BY <2>19 DEF GpuEnd
  <2>20. CASE GpuSettle BY <2>20 DEF GpuSettle
  <2>21. CASE ModeTest BY <2>21 DEF ModeTest
  <2> QED
    BY <1>1, <2>1, <2>2, <2>3, <2>4, <2>5, <2>6, <2>7, <2>8, <2>9, <2>10, <2>11, <2>12, <2>13,
       <2>14, <2>15, <2>16, <2>17, <2>18, <2>19, <2>20, <2>21 DEF GpuStep
<1>2. CASE CpuStep
  <2>1. CASE CallRunGpu("Cpu") BY <2>1 DEF CallRunGpu, RunGpu
  <2>2. CASE FlushGpu("Cpu") BY <2>2 DEF FlushGpu
  <2>3. CASE FlushWait("Cpu") BY <2>3 DEF FlushWait
  <2>4. CASE SyncWait("Cpu") BY <2>4 DEF SyncWait, IsDone
  <2>5. CASE SyncMove("Cpu")
    <3>1. write_ptr' \in 0..FIFO_SIZE BY <2>5, MoveFits DEF SyncMove
    <3>2. 0 \in 0..FIFO_SIZE OBVIOUS
    <3> QED BY <2>5, <3>1, <3>2 DEF SyncMove
  <2>6. CASE SyncSeen("Cpu") BY <2>6 DEF SyncSeen
  <2>7. CASE Answered("Cpu", "Run") BY <2>7 DEF Answered
  <2>8. CASE SetCPStatusFromCPU BY <2>8 DEF SetCPStatusFromCPU
  <2>9. CASE Burst BY <2>9 DEF Burst
  <2>10. CASE SetCpControlRegister BY <2>10 DEF SetCpControlRegister
  <2>11. CASE AddTicks BY <2>11 DEF AddTicks
  <2>12. CASE WaitForGpuThread BY <2>12, WaitFrame
  <2>13. CASE SyncWakeup BY <2>13 DEF SyncWakeup, SyncReturn
  <2>14. CASE RunGpuOnCpu BY <2>14 DEF RunGpuOnCpu, SyncReturn, UpdateInterruptsFromVideoBackend
  <2>15. CASE Preprocess
    <3>1. PICK at \in 0..FIFO_SIZE - 1, end \in 0..FIFO_SIZE :
            /\ write_ptr' = at + 1 /\ pp_read_ptr' = end
            /\ boundary' = [boundary EXCEPT ![at + 1] = end]
      BY <2>15, PreprocessFrame
    <3>2. write_ptr' \in 0..FIFO_SIZE /\ boundary' \in [0..FIFO_SIZE -> 0..FIFO_SIZE] BY <3>1
    <3>3. UNCHANGED <<seen_ptr, read_ptr, gpu_seen, gpu_write, stale_payload>>
      BY <2>15, PreprocessFrame
    <3> QED BY <3>1, <3>2, <3>3
  <2>16. CASE Preprocessed BY <2>16 DEF Preprocessed
  <2>17. CASE Unpark BY <2>17 DEF Unpark
  <2>18. CASE ExitGpuLoop BY <2>18 DEF ExitGpuLoop
  <2>19. CASE ExitRun BY <2>19 DEF ExitRun
  <2>20. CASE ExitStop BY <2>20 DEF ExitStop
  <2>21. CASE Join BY <2>21 DEF Join
  <2> QED
    BY <1>2, <2>1, <2>2, <2>3, <2>4, <2>5, <2>6, <2>7, <2>8, <2>9, <2>10, <2>11, <2>12, <2>13,
       <2>14, <2>15, <2>16, <2>17, <2>18, <2>19, <2>20, <2>21 DEF CpuStep, CallStep
<1>3. CASE HostStep
  <2>1. CASE CallRunGpu("Host") BY <2>1 DEF CallRunGpu, RunGpu
  <2>2. CASE FlushGpu("Host") BY <2>2 DEF FlushGpu
  <2>3. CASE FlushWait("Host") BY <2>3 DEF FlushWait
  <2>4. CASE SyncWait("Host") BY <2>4 DEF SyncWait, IsDone
  <2>5. CASE SyncMove("Host")
    <3>1. write_ptr' \in 0..FIFO_SIZE BY <2>5, MoveFits DEF SyncMove
    <3>2. 0 \in 0..FIFO_SIZE OBVIOUS
    <3> QED BY <2>5, <3>1, <3>2 DEF SyncMove
  <2>6. CASE SyncSeen("Host") BY <2>6 DEF SyncSeen
  <2>7. CASE Answered("Host", "Locked") BY <2>7 DEF Answered
  <2>8. CASE Paused BY <2>8 DEF Paused, EmulatorPause, CpuIdle
  <2>9. CASE ResumeWakeup BY <2>9 DEF ResumeWakeup
  <2>10. CASE LockCpu BY <2>10 DEF LockCpu, CpuIdle
  <2>11. CASE LockFifo BY <2>11 DEF LockFifo, EmulatorPause
  <2>12. CASE StopPause BY <2>12 DEF StopPause, EmulatorPause
  <2>13. CASE StopCpu BY <2>13 DEF StopCpu
  <2>14. CASE Stopped BY <2>14 DEF Stopped, EmulatorPause
  <2> QED
    BY <1>3, <2>1, <2>2, <2>3, <2>4, <2>5, <2>6, <2>7, <2>8, <2>9, <2>10, <2>11, <2>12, <2>13,
       <2>14 DEF HostStep, CallStep
<1>4. CASE GameStep
  <2>1. CASE GatherPipeBursted BY <2>1 DEF GatherPipeBursted
  <2>2. CASE Idle BY <2>2 DEF Idle
  <2>3. CASE UpdateInterrupts BY <2>3 DEF UpdateInterrupts
  <2>4. CASE Request
    <3>1. CASE Push("Cpu", "Run", "Run") BY <3>1 DEF Push
    <3>2. CASE Push("Cpu", "Run", "Answer") BY <3>2 DEF Push
    <3> QED BY <2>4, <3>1, <3>2 DEF Request
  <2>5. CASE ReadStatus BY <2>5 DEF ReadStatus, RegisterAccess
  <2>6. CASE WriteControl BY <2>6 DEF WriteControl, RegisterAccess
  <2>7. CASE SyncGPUCallback BY <2>7 DEF SyncGPUCallback
  <2>8. CASE Break BY <2>8 DEF Break, EmulatorPause
  <2> QED BY <1>4, <2>1, <2>2, <2>3, <2>4, <2>5, <2>6, <2>7, <2>8 DEF GameStep
<1>5. CASE EndSlice BY <1>5 DEF EndSlice
<1>6. CASE UserStep
  <2>1. CASE Pause BY <2>1 DEF Pause
  <2>2. CASE Resume BY <2>2 DEF Resume, ResumeFrom
  <2>3. CASE Lock BY <2>3 DEF Lock
  <2>4. CASE UpdateWantDeterminism BY <2>4 DEF UpdateWantDeterminism
  <2>5. CASE DoState BY <2>5 DEF DoState, Push
  <2>6. CASE Unlock BY <2>6 DEF Unlock, ResumeFrom
  <2>7. CASE Stop BY <2>7 DEF Stop
  <2> QED BY <1>6, <2>1, <2>2, <2>3, <2>4, <2>5, <2>6, <2>7 DEF UserStep
<1> QED BY <1>1, <1>2, <1>3, <1>4, <1>5, <1>6 DEF Next

\* Places of the host and of the CPU thread.
LEMMA HostInvStep ==
  ASSUME TypeOK, HostInv, CpuInv, Next
  PROVE  HostInv'
<1> USE DEF vars, runVars, memVars, threadVars, loopVars, cpVars, syncVars, bufferVars, coreVars,
        callVars, localVars, Goto, Call, Return, TypeOK, HostInv, CpuInv, LockPc, ExitPc
<1>1. CASE GpuStep
  <2>1. CASE GpuTest BY <2>1 DEF GpuTest
  <2>2. CASE PullEvents("Pull", "Present") BY <2>2 DEF PullEvents
  <2>3. CASE RunPausedPresent BY <2>3 DEF RunPausedPresent, WantsPausedPresents
  <2>4. CASE Presented BY <2>4 DEF Presented
  <2>5. CASE StayAwake BY <2>5 DEF StayAwake
  <2>6. CASE PauseTest BY <2>6 DEF PauseTest
  <2>7. CASE LoadSeen BY <2>7 DEF LoadSeen
  <2>8. CASE LoadWrite BY <2>8 DEF LoadWrite
  <2>9. CASE Decode BY <2>9 DEF Decode
  <2>10. CASE SetCPStatusFromGPU("Status", "StatusSet", "While") BY <2>10 DEF SetCPStatusFromGPU
  <2>11. CASE ScheduleInterrupt("StatusSet", "While")
    BY <2>11 DEF ScheduleInterrupt, UpdateInterruptsFromVideoBackend
  <2>12. CASE GpuWhile BY <2>12 DEF GpuWhile
  <2>13. CASE GpuExecute BY <2>13 DEF GpuExecute
  <2>14. CASE SetCPStatusFromGPU("Executed", "ExecutedSet", "Account")
    BY <2>14 DEF SetCPStatusFromGPU
  <2>15. CASE ScheduleInterrupt("ExecutedSet", "Account")
    BY <2>15 DEF ScheduleInterrupt, UpdateInterruptsFromVideoBackend
  <2>16. CASE GpuAccount BY <2>16 DEF GpuAccount
  <2>17. CASE PullEvents("PullAgain", "While") BY <2>17 DEF PullEvents
  <2>18. CASE GpuTail BY <2>18 DEF GpuTail
  <2>19. CASE GpuEnd BY <2>19 DEF GpuEnd
  <2>20. CASE GpuSettle BY <2>20 DEF GpuSettle
  <2>21. CASE ModeTest BY <2>21 DEF ModeTest
  <2> QED
    BY <1>1, <2>1, <2>2, <2>3, <2>4, <2>5, <2>6, <2>7, <2>8, <2>9, <2>10, <2>11, <2>12, <2>13,
       <2>14, <2>15, <2>16, <2>17, <2>18, <2>19, <2>20, <2>21 DEF GpuStep
<1>2. CASE CpuStep
  <2>1. CASE CallRunGpu("Cpu") BY <2>1 DEF CallRunGpu, RunGpu
  <2>2. CASE FlushGpu("Cpu") BY <2>2 DEF FlushGpu
  <2>3. CASE FlushWait("Cpu") BY <2>3 DEF FlushWait
  <2>4. CASE SyncWait("Cpu") BY <2>4 DEF SyncWait, IsDone
  <2>5. CASE SyncMove("Cpu") BY <2>5 DEF SyncMove
  <2>6. CASE SyncSeen("Cpu") BY <2>6 DEF SyncSeen
  <2>7. CASE Answered("Cpu", "Run") BY <2>7 DEF Answered
  <2>8. CASE SetCPStatusFromCPU BY <2>8 DEF SetCPStatusFromCPU
  <2>9. CASE Burst BY <2>9 DEF Burst
  <2>10. CASE SetCpControlRegister BY <2>10 DEF SetCpControlRegister
  <2>11. CASE AddTicks BY <2>11 DEF AddTicks
  <2>12. CASE WaitForGpuThread BY <2>12, WaitFrame
  <2>13. CASE SyncWakeup BY <2>13 DEF SyncWakeup, SyncReturn
  <2>14. CASE RunGpuOnCpu BY <2>14 DEF RunGpuOnCpu, SyncReturn, UpdateInterruptsFromVideoBackend
  <2>15. CASE Preprocess BY <2>15 DEF Preprocess
  <2>16. CASE Preprocessed BY <2>16 DEF Preprocessed
  <2>17. CASE Unpark BY <2>17 DEF Unpark
  <2>18. CASE ExitGpuLoop BY <2>18 DEF ExitGpuLoop
  <2>19. CASE ExitRun BY <2>19 DEF ExitRun
  <2>20. CASE ExitStop BY <2>20 DEF ExitStop
  <2>21. CASE Join BY <2>21 DEF Join
  <2> QED
    BY <1>2, <2>1, <2>2, <2>3, <2>4, <2>5, <2>6, <2>7, <2>8, <2>9, <2>10, <2>11, <2>12, <2>13,
       <2>14, <2>15, <2>16, <2>17, <2>18, <2>19, <2>20, <2>21 DEF CpuStep, CallStep
<1>3. CASE HostStep
  <2>1. CASE CallRunGpu("Host") BY <2>1 DEF CallRunGpu, RunGpu
  <2>2. CASE FlushGpu("Host") BY <2>2 DEF FlushGpu
  <2>3. CASE FlushWait("Host") BY <2>3 DEF FlushWait
  <2>4. CASE SyncWait("Host") BY <2>4 DEF SyncWait, IsDone
  <2>5. CASE SyncMove("Host") BY <2>5 DEF SyncMove
  <2>6. CASE SyncSeen("Host") BY <2>6 DEF SyncSeen
  <2>7. CASE Answered("Host", "Locked") BY <2>7 DEF Answered
  <2>8. CASE Paused BY <2>8 DEF Paused, EmulatorPause, CpuIdle
  <2>9. CASE ResumeWakeup BY <2>9 DEF ResumeWakeup
  <2>10. CASE LockCpu BY <2>10 DEF LockCpu, CpuIdle
  <2>11. CASE LockFifo BY <2>11 DEF LockFifo, EmulatorPause
  <2>12. CASE StopPause BY <2>12 DEF StopPause, EmulatorPause
  <2>13. CASE StopCpu BY <2>13 DEF StopCpu
  <2>14. CASE Stopped BY <2>14 DEF Stopped, EmulatorPause
  <2> QED
    BY <1>3, <2>1, <2>2, <2>3, <2>4, <2>5, <2>6, <2>7, <2>8, <2>9, <2>10, <2>11, <2>12, <2>13,
       <2>14 DEF HostStep, CallStep
<1>4. CASE GameStep
  <2>1. CASE GatherPipeBursted BY <2>1 DEF GatherPipeBursted
  <2>2. CASE Idle BY <2>2 DEF Idle
  <2>3. CASE UpdateInterrupts BY <2>3 DEF UpdateInterrupts
  <2>4. CASE Request BY <2>4 DEF Request, Push
  <2>5. CASE ReadStatus BY <2>5 DEF ReadStatus, RegisterAccess
  <2>6. CASE WriteControl BY <2>6 DEF WriteControl, RegisterAccess
  <2>7. CASE SyncGPUCallback BY <2>7 DEF SyncGPUCallback
  <2>8. CASE Break BY <2>8 DEF Break, EmulatorPause
  <2> QED BY <1>4, <2>1, <2>2, <2>3, <2>4, <2>5, <2>6, <2>7, <2>8 DEF GameStep
<1>5. CASE EndSlice BY <1>5 DEF EndSlice
<1>6. CASE UserStep
  <2>1. CASE Pause BY <2>1 DEF Pause
  <2>2. CASE Resume BY <2>2 DEF Resume, ResumeFrom
  <2>3. CASE Lock BY <2>3 DEF Lock
  <2>4. CASE UpdateWantDeterminism BY <2>4 DEF UpdateWantDeterminism
  <2>5. CASE DoState BY <2>5 DEF DoState, Push
  <2>6. CASE Unlock BY <2>6 DEF Unlock, ResumeFrom
  <2>7. CASE Stop BY <2>7 DEF Stop
  <2> QED BY <1>6, <2>1, <2>2, <2>3, <2>4, <2>5, <2>6, <2>7 DEF UserStep
<1> QED BY <1>1, <1>2, <1>3, <1>4, <1>5, <1>6 DEF Next

LEMMA CpuInvStep ==
  ASSUME TypeOK, HostInv, CpuInv, Next
  PROVE  CpuInv'
<1> USE DEF vars, runVars, memVars, threadVars, loopVars, cpVars, syncVars, bufferVars, coreVars,
        callVars, localVars, Goto, Call, Return, TypeOK, HostInv, CpuInv, LockPc, ExitPc
<1>1. CASE GpuStep
  <2>1. CASE GpuTest BY <2>1 DEF GpuTest
  <2>2. CASE PullEvents("Pull", "Present") BY <2>2 DEF PullEvents
  <2>3. CASE RunPausedPresent BY <2>3 DEF RunPausedPresent, WantsPausedPresents
  <2>4. CASE Presented BY <2>4 DEF Presented
  <2>5. CASE StayAwake BY <2>5 DEF StayAwake
  <2>6. CASE PauseTest BY <2>6 DEF PauseTest
  <2>7. CASE LoadSeen BY <2>7 DEF LoadSeen
  <2>8. CASE LoadWrite BY <2>8 DEF LoadWrite
  <2>9. CASE Decode BY <2>9 DEF Decode
  <2>10. CASE SetCPStatusFromGPU("Status", "StatusSet", "While") BY <2>10 DEF SetCPStatusFromGPU
  <2>11. CASE ScheduleInterrupt("StatusSet", "While")
    BY <2>11 DEF ScheduleInterrupt, UpdateInterruptsFromVideoBackend
  <2>12. CASE GpuWhile BY <2>12 DEF GpuWhile
  <2>13. CASE GpuExecute BY <2>13 DEF GpuExecute
  <2>14. CASE SetCPStatusFromGPU("Executed", "ExecutedSet", "Account")
    BY <2>14 DEF SetCPStatusFromGPU
  <2>15. CASE ScheduleInterrupt("ExecutedSet", "Account")
    BY <2>15 DEF ScheduleInterrupt, UpdateInterruptsFromVideoBackend
  <2>16. CASE GpuAccount BY <2>16 DEF GpuAccount
  <2>17. CASE PullEvents("PullAgain", "While") BY <2>17 DEF PullEvents
  <2>18. CASE GpuTail BY <2>18 DEF GpuTail
  <2>19. CASE GpuEnd BY <2>19 DEF GpuEnd
  <2>20. CASE GpuSettle BY <2>20 DEF GpuSettle
  <2>21. CASE ModeTest BY <2>21 DEF ModeTest
  <2> QED
    BY <1>1, <2>1, <2>2, <2>3, <2>4, <2>5, <2>6, <2>7, <2>8, <2>9, <2>10, <2>11, <2>12, <2>13,
       <2>14, <2>15, <2>16, <2>17, <2>18, <2>19, <2>20, <2>21 DEF GpuStep
<1>2. CASE CpuStep
  <2>1. CASE CallRunGpu("Cpu") BY <2>1 DEF CallRunGpu, RunGpu
  <2>2. CASE FlushGpu("Cpu") BY <2>2 DEF FlushGpu
  <2>3. CASE FlushWait("Cpu") BY <2>3 DEF FlushWait
  <2>4. CASE SyncWait("Cpu") BY <2>4 DEF SyncWait, IsDone
  <2>5. CASE SyncMove("Cpu") BY <2>5 DEF SyncMove
  <2>6. CASE SyncSeen("Cpu") BY <2>6 DEF SyncSeen
  <2>7. CASE Answered("Cpu", "Run") BY <2>7 DEF Answered
  <2>8. CASE SetCPStatusFromCPU BY <2>8 DEF SetCPStatusFromCPU
  <2>9. CASE Burst BY <2>9 DEF Burst
  <2>10. CASE SetCpControlRegister BY <2>10 DEF SetCpControlRegister
  <2>11. CASE AddTicks BY <2>11 DEF AddTicks
  <2>12. CASE WaitForGpuThread BY <2>12, WaitFrame
  <2>13. CASE SyncWakeup BY <2>13 DEF SyncWakeup, SyncReturn
  <2>14. CASE RunGpuOnCpu BY <2>14 DEF RunGpuOnCpu, SyncReturn, UpdateInterruptsFromVideoBackend
  <2>15. CASE Preprocess BY <2>15 DEF Preprocess
  <2>16. CASE Preprocessed BY <2>16 DEF Preprocessed
  <2>17. CASE Unpark BY <2>17 DEF Unpark
  <2>18. CASE ExitGpuLoop BY <2>18 DEF ExitGpuLoop
  <2>19. CASE ExitRun BY <2>19 DEF ExitRun
  <2>20. CASE ExitStop BY <2>20 DEF ExitStop
  <2>21. CASE Join BY <2>21 DEF Join
  <2> QED
    BY <1>2, <2>1, <2>2, <2>3, <2>4, <2>5, <2>6, <2>7, <2>8, <2>9, <2>10, <2>11, <2>12, <2>13,
       <2>14, <2>15, <2>16, <2>17, <2>18, <2>19, <2>20, <2>21 DEF CpuStep, CallStep
<1>3. CASE HostStep
  <2>1. CASE CallRunGpu("Host") BY <2>1 DEF CallRunGpu, RunGpu
  <2>2. CASE FlushGpu("Host") BY <2>2 DEF FlushGpu
  <2>3. CASE FlushWait("Host") BY <2>3 DEF FlushWait
  <2>4. CASE SyncWait("Host") BY <2>4 DEF SyncWait, IsDone
  <2>5. CASE SyncMove("Host") BY <2>5 DEF SyncMove
  <2>6. CASE SyncSeen("Host") BY <2>6 DEF SyncSeen
  <2>7. CASE Answered("Host", "Locked") BY <2>7 DEF Answered
  <2>8. CASE Paused BY <2>8 DEF Paused, EmulatorPause, CpuIdle
  <2>9. CASE ResumeWakeup BY <2>9 DEF ResumeWakeup
  <2>10. CASE LockCpu BY <2>10 DEF LockCpu, CpuIdle
  <2>11. CASE LockFifo BY <2>11 DEF LockFifo, EmulatorPause
  <2>12. CASE StopPause BY <2>12 DEF StopPause, EmulatorPause
  <2>13. CASE StopCpu BY <2>13 DEF StopCpu
  <2>14. CASE Stopped BY <2>14 DEF Stopped, EmulatorPause
  <2> QED
    BY <1>3, <2>1, <2>2, <2>3, <2>4, <2>5, <2>6, <2>7, <2>8, <2>9, <2>10, <2>11, <2>12, <2>13,
       <2>14 DEF HostStep, CallStep
<1>4. CASE GameStep
  <2>1. CASE GatherPipeBursted BY <2>1 DEF GatherPipeBursted
  <2>2. CASE Idle BY <2>2 DEF Idle
  <2>3. CASE UpdateInterrupts BY <2>3 DEF UpdateInterrupts
  <2>4. CASE Request BY <2>4 DEF Request, Push
  <2>5. CASE ReadStatus BY <2>5 DEF ReadStatus, RegisterAccess
  <2>6. CASE WriteControl BY <2>6 DEF WriteControl, RegisterAccess
  <2>7. CASE SyncGPUCallback BY <2>7 DEF SyncGPUCallback
  <2>8. CASE Break BY <2>8 DEF Break, EmulatorPause
  <2> QED BY <1>4, <2>1, <2>2, <2>3, <2>4, <2>5, <2>6, <2>7, <2>8 DEF GameStep
<1>5. CASE EndSlice BY <1>5 DEF EndSlice
<1>6. CASE UserStep
  <2>1. CASE Pause BY <2>1 DEF Pause
  <2>2. CASE Resume BY <2>2 DEF Resume, ResumeFrom
  <2>3. CASE Lock BY <2>3 DEF Lock
  <2>4. CASE UpdateWantDeterminism BY <2>4 DEF UpdateWantDeterminism
  <2>5. CASE DoState BY <2>5 DEF DoState, Push
  <2>6. CASE Unlock BY <2>6 DEF Unlock, ResumeFrom
  <2>7. CASE Stop BY <2>7 DEF Stop
  <2> QED BY <1>6, <2>1, <2>2, <2>3, <2>4, <2>5, <2>6, <2>7 DEF UserStep
<1> QED BY <1>1, <1>2, <1>3, <1>4, <1>5, <1>6 DEF Next

LEMMA WaitersInvStep ==
  ASSUME TypeOK, WaitersInv, Next
  PROVE  WaitersInv'
<1> USE DEF vars, runVars, memVars, threadVars, loopVars, cpVars, syncVars, bufferVars, coreVars,
        callVars, localVars, Goto, Call, Return, TypeOK, WaitersInv
<1>1. CASE GpuStep
  <2>1. CASE GpuTest BY <2>1 DEF GpuTest
  <2>2. CASE PullEvents("Pull", "Present") BY <2>2 DEF PullEvents
  <2>3. CASE RunPausedPresent BY <2>3 DEF RunPausedPresent, WantsPausedPresents
  <2>4. CASE Presented BY <2>4 DEF Presented
  <2>5. CASE StayAwake BY <2>5 DEF StayAwake
  <2>6. CASE PauseTest BY <2>6 DEF PauseTest
  <2>7. CASE LoadSeen BY <2>7 DEF LoadSeen
  <2>8. CASE LoadWrite BY <2>8 DEF LoadWrite
  <2>9. CASE Decode BY <2>9 DEF Decode
  <2>10. CASE SetCPStatusFromGPU("Status", "StatusSet", "While") BY <2>10 DEF SetCPStatusFromGPU
  <2>11. CASE ScheduleInterrupt("StatusSet", "While")
    BY <2>11 DEF ScheduleInterrupt, UpdateInterruptsFromVideoBackend
  <2>12. CASE GpuWhile BY <2>12 DEF GpuWhile
  <2>13. CASE GpuExecute BY <2>13 DEF GpuExecute
  <2>14. CASE SetCPStatusFromGPU("Executed", "ExecutedSet", "Account")
    BY <2>14 DEF SetCPStatusFromGPU
  <2>15. CASE ScheduleInterrupt("ExecutedSet", "Account")
    BY <2>15 DEF ScheduleInterrupt, UpdateInterruptsFromVideoBackend
  <2>16. CASE GpuAccount BY <2>16 DEF GpuAccount
  <2>17. CASE PullEvents("PullAgain", "While") BY <2>17 DEF PullEvents
  <2>18. CASE GpuTail BY <2>18 DEF GpuTail
  <2>19. CASE GpuEnd BY <2>19 DEF GpuEnd
  <2>20. CASE GpuSettle BY <2>20 DEF GpuSettle
  <2>21. CASE ModeTest BY <2>21 DEF ModeTest
  <2> QED
    BY <1>1, <2>1, <2>2, <2>3, <2>4, <2>5, <2>6, <2>7, <2>8, <2>9, <2>10, <2>11, <2>12, <2>13,
       <2>14, <2>15, <2>16, <2>17, <2>18, <2>19, <2>20, <2>21 DEF GpuStep
<1>2. CASE CpuStep
  <2>1. CASE CallRunGpu("Cpu") BY <2>1 DEF CallRunGpu, RunGpu
  <2>2. CASE FlushGpu("Cpu")
    <3>1. pc["Cpu"] = "Flush" /\ pc'["Cpu"] = "FlushWait" /\ pc'["Host"] = pc["Host"]
      BY <2>2 DEF FlushGpu
    <3>2. m_gpu_loop_waiters' = m_gpu_loop_waiters + 1 BY <2>2 DEF FlushGpu
    <3> QED BY <3>1, <3>2
  <2>3. CASE FlushWait("Cpu")
    <3>1. pc["Cpu"] = "FlushWait" /\ pc'["Cpu"] # "FlushWait" /\ pc'["Host"] = pc["Host"]
      BY <2>3 DEF FlushWait
    <3>2. m_gpu_loop_waiters' = m_gpu_loop_waiters - 1 BY <2>3 DEF FlushWait
    <3> QED BY <3>1, <3>2
  <2>4. CASE SyncWait("Cpu") BY <2>4 DEF SyncWait, IsDone
  <2>5. CASE SyncMove("Cpu") BY <2>5 DEF SyncMove
  <2>6. CASE SyncSeen("Cpu") BY <2>6 DEF SyncSeen
  <2>7. CASE Answered("Cpu", "Run") BY <2>7 DEF Answered
  <2>8. CASE SetCPStatusFromCPU BY <2>8 DEF SetCPStatusFromCPU
  <2>9. CASE Burst BY <2>9 DEF Burst
  <2>10. CASE SetCpControlRegister BY <2>10 DEF SetCpControlRegister
  <2>11. CASE AddTicks BY <2>11 DEF AddTicks
  <2>12. CASE WaitForGpuThread BY <2>12, WaitFrame
  <2>13. CASE SyncWakeup BY <2>13 DEF SyncWakeup, SyncReturn
  <2>14. CASE RunGpuOnCpu BY <2>14 DEF RunGpuOnCpu, SyncReturn, UpdateInterruptsFromVideoBackend
  <2>15. CASE Preprocess BY <2>15 DEF Preprocess
  <2>16. CASE Preprocessed BY <2>16 DEF Preprocessed
  <2>17. CASE Unpark BY <2>17 DEF Unpark
  <2>18. CASE ExitGpuLoop BY <2>18 DEF ExitGpuLoop
  <2>19. CASE ExitRun BY <2>19 DEF ExitRun
  <2>20. CASE ExitStop BY <2>20 DEF ExitStop
  <2>21. CASE Join BY <2>21 DEF Join
  <2> QED
    BY <1>2, <2>1, <2>2, <2>3, <2>4, <2>5, <2>6, <2>7, <2>8, <2>9, <2>10, <2>11, <2>12, <2>13,
       <2>14, <2>15, <2>16, <2>17, <2>18, <2>19, <2>20, <2>21 DEF CpuStep, CallStep
<1>3. CASE HostStep
  <2>1. CASE CallRunGpu("Host") BY <2>1 DEF CallRunGpu, RunGpu
  <2>2. CASE FlushGpu("Host")
    <3>1. pc["Host"] = "Flush" /\ pc'["Host"] = "FlushWait" /\ pc'["Cpu"] = pc["Cpu"]
      BY <2>2 DEF FlushGpu
    <3>2. m_gpu_loop_waiters' = m_gpu_loop_waiters + 1 BY <2>2 DEF FlushGpu
    <3> QED BY <3>1, <3>2
  <2>3. CASE FlushWait("Host")
    <3>1. pc["Host"] = "FlushWait" /\ pc'["Host"] # "FlushWait" /\ pc'["Cpu"] = pc["Cpu"]
      BY <2>3 DEF FlushWait
    <3>2. m_gpu_loop_waiters' = m_gpu_loop_waiters - 1 BY <2>3 DEF FlushWait
    <3> QED BY <3>1, <3>2
  <2>4. CASE SyncWait("Host") BY <2>4 DEF SyncWait, IsDone
  <2>5. CASE SyncMove("Host") BY <2>5 DEF SyncMove
  <2>6. CASE SyncSeen("Host") BY <2>6 DEF SyncSeen
  <2>7. CASE Answered("Host", "Locked") BY <2>7 DEF Answered
  <2>8. CASE Paused BY <2>8 DEF Paused, EmulatorPause, CpuIdle
  <2>9. CASE ResumeWakeup BY <2>9 DEF ResumeWakeup
  <2>10. CASE LockCpu BY <2>10 DEF LockCpu, CpuIdle
  <2>11. CASE LockFifo BY <2>11 DEF LockFifo, EmulatorPause
  <2>12. CASE StopPause BY <2>12 DEF StopPause, EmulatorPause
  <2>13. CASE StopCpu BY <2>13 DEF StopCpu
  <2>14. CASE Stopped BY <2>14 DEF Stopped, EmulatorPause
  <2> QED
    BY <1>3, <2>1, <2>2, <2>3, <2>4, <2>5, <2>6, <2>7, <2>8, <2>9, <2>10, <2>11, <2>12, <2>13,
       <2>14 DEF HostStep, CallStep
<1>4. CASE GameStep
  <2>1. CASE GatherPipeBursted BY <2>1 DEF GatherPipeBursted
  <2>2. CASE Idle BY <2>2 DEF Idle
  <2>3. CASE UpdateInterrupts BY <2>3 DEF UpdateInterrupts
  <2>4. CASE Request BY <2>4 DEF Request, Push
  <2>5. CASE ReadStatus BY <2>5 DEF ReadStatus, RegisterAccess
  <2>6. CASE WriteControl BY <2>6 DEF WriteControl, RegisterAccess
  <2>7. CASE SyncGPUCallback BY <2>7 DEF SyncGPUCallback
  <2>8. CASE Break BY <2>8 DEF Break, EmulatorPause
  <2> QED BY <1>4, <2>1, <2>2, <2>3, <2>4, <2>5, <2>6, <2>7, <2>8 DEF GameStep
<1>5. CASE EndSlice BY <1>5 DEF EndSlice
<1>6. CASE UserStep
  <2>1. CASE Pause BY <2>1 DEF Pause
  <2>2. CASE Resume BY <2>2 DEF Resume, ResumeFrom
  <2>3. CASE Lock BY <2>3 DEF Lock
  <2>4. CASE UpdateWantDeterminism BY <2>4 DEF UpdateWantDeterminism
  <2>5. CASE DoState BY <2>5 DEF DoState, Push
  <2>6. CASE Unlock BY <2>6 DEF Unlock, ResumeFrom
  <2>7. CASE Stop BY <2>7 DEF Stop
  <2> QED BY <1>6, <2>1, <2>2, <2>3, <2>4, <2>5, <2>6, <2>7 DEF UserStep
<1> QED BY <1>1, <1>2, <1>3, <1>4, <1>5, <1>6 DEF Next

\* The buffer.
LEMMA BufferInvStep ==
  ASSUME TypeOK, PcType, PointerType, HostInv, CpuInv, StaleInv, BufferInv, Next
  PROVE  BufferInv'
<1> USE BoundsAssumption DEF vars, runVars, memVars, threadVars, loopVars, cpVars, syncVars,
        bufferVars, coreVars, callVars, localVars, Goto, Call, Return, PcType, PointerType,
        HostInv, CpuInv, LockPc, StaleInv, LoopPc, RunPc, BufferInv
<1>1. CASE GpuStep
  <2>1. CASE GpuTest BY <2>1 DEF GpuTest
  <2>2. CASE PullEvents("Pull", "Present") BY <2>2 DEF PullEvents
  <2>3. CASE RunPausedPresent BY <2>3 DEF RunPausedPresent, WantsPausedPresents
  <2>4. CASE Presented BY <2>4 DEF Presented
  <2>5. CASE StayAwake BY <2>5 DEF StayAwake
  <2>6. CASE PauseTest BY <2>6 DEF PauseTest
  <2>7. CASE LoadSeen BY <2>7 DEF LoadSeen
  <2>8. CASE LoadWrite BY <2>8 DEF LoadWrite
  <2>9. CASE Decode BY <2>9 DEF Decode
  <2>10. CASE SetCPStatusFromGPU("Status", "StatusSet", "While") BY <2>10 DEF SetCPStatusFromGPU
  <2>11. CASE ScheduleInterrupt("StatusSet", "While")
    BY <2>11 DEF ScheduleInterrupt, UpdateInterruptsFromVideoBackend
  <2>12. CASE GpuWhile BY <2>12 DEF GpuWhile
  <2>13. CASE GpuExecute
    <3>1. /\ pc["Gpu"] = "Execute" /\ pc'["Cpu"] = pc["Cpu"] /\ pc'["Host"] = pc["Host"]
          /\ UNCHANGED <<m_use_deterministic_gpu_thread, pp_read_ptr, stale_payload>>
      BY <2>13, ExecuteFrame
    <3>2. CASE UNCHANGED <<write_ptr, read_ptr, boundary>> BY <3>1, <3>2
    <3>3. CASE /\ read_ptr' <= write_ptr' /\ write_ptr' - read_ptr' < FIFO_SIZE
               /\ boundary' = [i \in 0..FIFO_SIZE |-> read_ptr']
      <4>1. stale_payload \/ ~m_use_deterministic_gpu_thread BY <3>1
      <4> QED BY <3>1, <3>3, <4>1
    <3> QED BY <2>13, <3>2, <3>3, ExecuteFrame
  <2>14. CASE SetCPStatusFromGPU("Executed", "ExecutedSet", "Account")
    BY <2>14 DEF SetCPStatusFromGPU
  <2>15. CASE ScheduleInterrupt("ExecutedSet", "Account")
    BY <2>15 DEF ScheduleInterrupt, UpdateInterruptsFromVideoBackend
  <2>16. CASE GpuAccount BY <2>16 DEF GpuAccount
  <2>17. CASE PullEvents("PullAgain", "While") BY <2>17 DEF PullEvents
  <2>18. CASE GpuTail BY <2>18 DEF GpuTail
  <2>19. CASE GpuEnd BY <2>19 DEF GpuEnd
  <2>20. CASE GpuSettle BY <2>20 DEF GpuSettle
  <2>21. CASE ModeTest BY <2>21 DEF ModeTest
  <2> QED
    BY <1>1, <2>1, <2>2, <2>3, <2>4, <2>5, <2>6, <2>7, <2>8, <2>9, <2>10, <2>11, <2>12, <2>13,
       <2>14, <2>15, <2>16, <2>17, <2>18, <2>19, <2>20, <2>21 DEF GpuStep
<1>2. CASE CpuStep
  <2>1. CASE CallRunGpu("Cpu") BY <2>1 DEF CallRunGpu, RunGpu
  <2>2. CASE FlushGpu("Cpu") BY <2>2 DEF FlushGpu
  <2>3. CASE FlushWait("Cpu") BY <2>3 DEF FlushWait
  <2>4. CASE SyncWait("Cpu") BY <2>4 DEF SyncWait, IsDone
  <2>5. CASE SyncMove("Cpu")
    <3>1. pc["Cpu"] = "SyncMove" /\ pc'["Cpu"] = "SyncSeen" /\ pc'["Host"] = pc["Host"]
      BY <2>5 DEF SyncMove
    <3>0. UNCHANGED <<m_use_deterministic_gpu_thread, stale_payload>> /\ pp_read_ptr <= write_ptr
      BY <2>5 DEF SyncMove
    <3>2. write_ptr' = write_ptr - pp_read_ptr /\ pp_read_ptr' = 0 BY <2>5 DEF SyncMove
    <3>3. read_ptr' = 0 /\ boundary' = [i \in 0..FIFO_SIZE |-> 0] BY <2>5 DEF SyncMove
    <3>4. m_use_deterministic_gpu_thread BY <3>1
    <3>5. ~stale_payload => write_ptr - pp_read_ptr < FIFO_SIZE BY <3>4
    <3>6. ~stale_payload =>
            0 <= write_ptr' /\ write_ptr' < FIFO_SIZE /\ write_ptr' - pp_read_ptr' < FIFO_SIZE
      BY <3>0, <3>2, <3>5, MoveFits
    <3> QED BY <3>0, <3>1, <3>2, <3>3, <3>4, <3>6
  <2>6. CASE SyncSeen("Cpu") BY <2>6 DEF SyncSeen
  <2>7. CASE Answered("Cpu", "Run") BY <2>7 DEF Answered
  <2>8. CASE SetCPStatusFromCPU BY <2>8 DEF SetCPStatusFromCPU
  <2>9. CASE Burst BY <2>9 DEF Burst
  <2>10. CASE SetCpControlRegister BY <2>10 DEF SetCpControlRegister
  <2>11. CASE AddTicks BY <2>11 DEF AddTicks
  <2>12. CASE WaitForGpuThread BY <2>12, WaitFrame
  <2>13. CASE SyncWakeup BY <2>13 DEF SyncWakeup, SyncReturn
  <2>14. CASE RunGpuOnCpu BY <2>14, RunOnCpuFrame
  <2>15. CASE Preprocess
    <3>1. m_use_deterministic_gpu_thread /\ pc["Host"] \notin LockPc BY <2>15 DEF Preprocess
    <3>2. pc'["Cpu"] = "Preprocessed" /\ pc'["Host"] = pc["Host"]
          /\ m_use_deterministic_gpu_thread' = m_use_deterministic_gpu_thread
      BY <2>15 DEF Preprocess
    <3>3. stale_payload' = stale_payload BY <2>15 DEF Preprocess
    <3>4. CASE stale_payload BY <3>3, <3>4
    <3>5. CASE ~stale_payload
      <4>1. PICK end \in {write_ptr + 1, pp_read_ptr} :
              /\ end = write_ptr + 1 \/ write_ptr + 1 - end < FIFO_SIZE
              /\ write_ptr' = write_ptr + 1 /\ pp_read_ptr' = end
        BY <2>15, <3>5, PreprocessFrame
      <4>2. pp_read_ptr <= write_ptr BY <3>1, <3>5
      <4>3. pp_read_ptr' <= write_ptr' /\ write_ptr' - pp_read_ptr' < FIFO_SIZE BY <4>1, <4>2
      <4> QED BY <3>1, <3>2, <4>3
    <3> QED BY <3>4, <3>5
  <2>16. CASE Preprocessed BY <2>16 DEF Preprocessed
  <2>17. CASE Unpark BY <2>17 DEF Unpark
  <2>18. CASE ExitGpuLoop BY <2>18 DEF ExitGpuLoop
  <2>19. CASE ExitRun BY <2>19 DEF ExitRun
  <2>20. CASE ExitStop BY <2>20 DEF ExitStop
  <2>21. CASE Join BY <2>21 DEF Join
  <2> QED
    BY <1>2, <2>1, <2>2, <2>3, <2>4, <2>5, <2>6, <2>7, <2>8, <2>9, <2>10, <2>11, <2>12, <2>13,
       <2>14, <2>15, <2>16, <2>17, <2>18, <2>19, <2>20, <2>21 DEF CpuStep, CallStep
<1>3. CASE HostStep
  <2>1. CASE CallRunGpu("Host") BY <2>1 DEF CallRunGpu, RunGpu
  <2>2. CASE FlushGpu("Host") BY <2>2 DEF FlushGpu
  <2>3. CASE FlushWait("Host") BY <2>3 DEF FlushWait
  <2>4. CASE SyncWait("Host") BY <2>4 DEF SyncWait, IsDone
  <2>5. CASE SyncMove("Host")
    <3>1. pc["Host"] = "SyncMove" /\ pc'["Host"] = "SyncSeen" /\ pc'["Cpu"] = pc["Cpu"]
      BY <2>5 DEF SyncMove
    <3>0. UNCHANGED <<m_use_deterministic_gpu_thread, stale_payload>> /\ pp_read_ptr <= write_ptr
      BY <2>5 DEF SyncMove
    <3>2. write_ptr' = write_ptr - pp_read_ptr /\ pp_read_ptr' = 0 BY <2>5 DEF SyncMove
    <3>3. read_ptr' = 0 /\ boundary' = [i \in 0..FIFO_SIZE |-> 0] BY <2>5 DEF SyncMove
    <3>4. m_use_deterministic_gpu_thread BY <3>1
    <3>5. ~stale_payload => write_ptr - pp_read_ptr < FIFO_SIZE BY <3>4
    <3>6. ~stale_payload =>
            0 <= write_ptr' /\ write_ptr' < FIFO_SIZE /\ write_ptr' - pp_read_ptr' < FIFO_SIZE
      BY <3>0, <3>2, <3>5, MoveFits
    <3> QED BY <3>0, <3>1, <3>2, <3>3, <3>4, <3>6
  <2>6. CASE SyncSeen("Host") BY <2>6 DEF SyncSeen
  <2>7. CASE Answered("Host", "Locked") BY <2>7 DEF Answered
  <2>8. CASE Paused BY <2>8 DEF Paused, EmulatorPause, CpuIdle
  <2>9. CASE ResumeWakeup BY <2>9 DEF ResumeWakeup
  <2>10. CASE LockCpu BY <2>10 DEF LockCpu, CpuIdle
  <2>11. CASE LockFifo BY <2>11 DEF LockFifo, EmulatorPause
  <2>12. CASE StopPause BY <2>12 DEF StopPause, EmulatorPause
  <2>13. CASE StopCpu BY <2>13 DEF StopCpu
  <2>14. CASE Stopped BY <2>14 DEF Stopped, EmulatorPause
  <2> QED
    BY <1>3, <2>1, <2>2, <2>3, <2>4, <2>5, <2>6, <2>7, <2>8, <2>9, <2>10, <2>11, <2>12, <2>13,
       <2>14 DEF HostStep, CallStep
<1>4. CASE GameStep
  <2>1. CASE GatherPipeBursted BY <2>1 DEF GatherPipeBursted
  <2>2. CASE Idle BY <2>2 DEF Idle
  <2>3. CASE UpdateInterrupts BY <2>3 DEF UpdateInterrupts
  <2>4. CASE Request
    <3>1. CASE Push("Cpu", "Run", "Run") BY <3>1 DEF Push
    <3>2. CASE Push("Cpu", "Run", "Answer") BY <3>2 DEF Push
    <3> QED BY <2>4, <3>1, <3>2 DEF Request
  <2>5. CASE ReadStatus BY <2>5 DEF ReadStatus, RegisterAccess
  <2>6. CASE WriteControl BY <2>6 DEF WriteControl, RegisterAccess
  <2>7. CASE SyncGPUCallback BY <2>7 DEF SyncGPUCallback
  <2>8. CASE Break BY <2>8 DEF Break, EmulatorPause
  <2> QED BY <1>4, <2>1, <2>2, <2>3, <2>4, <2>5, <2>6, <2>7, <2>8 DEF GameStep
<1>5. CASE EndSlice BY <1>5 DEF EndSlice
<1>6. CASE UserStep
  <2>1. CASE Pause BY <2>1 DEF Pause
  <2>2. CASE Resume BY <2>2 DEF Resume, ResumeFrom
  <2>3. CASE Lock BY <2>3 DEF Lock
  <2>4. CASE UpdateWantDeterminism BY <2>4 DEF UpdateWantDeterminism, PastPauseTest
  <2>5. CASE DoState BY <2>5 DEF DoState, Push
  <2>6. CASE Unlock BY <2>6 DEF Unlock, ResumeFrom
  <2>7. CASE Stop BY <2>7 DEF Stop
  <2> QED BY <1>6, <2>1, <2>2, <2>3, <2>4, <2>5, <2>6, <2>7 DEF UserStep
<1> QED BY <1>1, <1>2, <1>3, <1>4, <1>5, <1>6 DEF Next

\* Wake-ups are not lost.
LEMMA LoopInvStep ==
  ASSUME TypeOK, PcType, FlagType, CountType, HostInv, CpuInv, LoopInv, LockInv, Next
  PROVE  LoopInv'
<1> USE TicksAssumption, BoundsAssumption DEF vars, runVars, memVars, threadVars, loopVars,
        cpVars, syncVars, bufferVars, coreVars, callVars, localVars, Goto, Call, Return, FlagType,
        CountType, PcType, HostInv, CpuInv, LockPc, LockInv, Quiet, RunPc, TestPc, DetPc,
        Runnable, LoopInv, WakeDue
<1>1. CASE GpuStep
  <2>1. CASE GpuTest BY <2>1 DEF GpuTest
  <2>2. CASE PullEvents("Pull", "Present") BY <2>2 DEF PullEvents
  <2>3. CASE RunPausedPresent BY <2>3 DEF RunPausedPresent, WantsPausedPresents
  <2>4. CASE Presented BY <2>4 DEF Presented
  <2>5. CASE StayAwake BY <2>5 DEF StayAwake
  <2>6. CASE PauseTest BY <2>6 DEF PauseTest
  <2>7. CASE LoadSeen BY <2>7 DEF LoadSeen
  <2>8. CASE LoadWrite BY <2>8 DEF LoadWrite
  <2>9. CASE Decode BY <2>9 DEF Decode
  <2>10. CASE SetCPStatusFromGPU("Status", "StatusSet", "While") BY <2>10 DEF SetCPStatusFromGPU
  <2>11. CASE ScheduleInterrupt("StatusSet", "While")
    BY <2>11 DEF ScheduleInterrupt, UpdateInterruptsFromVideoBackend
  <2>12. CASE GpuWhile BY <2>12 DEF GpuWhile
  <2>13. CASE GpuExecute
    <3>1. /\ pc["Gpu"] = "Execute" /\ pc'["Gpu"] = "Executed"
          /\ pc'["Cpu"] = pc["Cpu"] /\ pc'["Host"] = pc["Host"]
          /\ UNCHANGED <<stopping, m_use_deterministic_gpu_thread, loop, m_emu_running_state, old,
                         m_interrupt_waiting, bFF_GPReadEnable, m_sync_ticks, scenario, stale_payload>>
          /\ distance' = (distance - 1) % DistanceLimit
      BY <2>13 DEF GpuExecute
    <3>2. WakeDue' = WakeDue BY <3>1
    <3>3. CASE loop = "Need" BY <3>1, <3>3
    <3>4. CASE loop # "Need"
      <4>1. distance > 0 BY <3>1, <3>4
      <4>2. Runnable' => Runnable BY <3>1, <4>1
      <4> HIDE DEF Runnable, WakeDue
      <4> QED BY <3>1, <3>2, <3>4, <4>2
    <3> QED BY <3>3, <3>4
  <2>14. CASE SetCPStatusFromGPU("Executed", "ExecutedSet", "Account")
    BY <2>14 DEF SetCPStatusFromGPU
  <2>15. CASE ScheduleInterrupt("ExecutedSet", "Account")
    BY <2>15 DEF ScheduleInterrupt, UpdateInterruptsFromVideoBackend
  <2>16. CASE GpuAccount BY <2>16 DEF GpuAccount
  <2>17. CASE PullEvents("PullAgain", "While") BY <2>17 DEF PullEvents
  <2>18. CASE GpuTail
    <3>1. pc["Gpu"] = "Tail" /\ pc'["Gpu"] = "End" /\ pc'["Cpu"] = pc["Cpu"] /\ pc'["Host"] = pc["Host"]
      BY <2>18 DEF GpuTail
    <3>2. UNCHANGED <<stopping, m_use_deterministic_gpu_thread, loop, m_emu_running_state,
                      m_interrupt_waiting, bFF_GPReadEnable, distance, scenario, old>>
      BY <2>18 DEF GpuTail
    <3>3. m_sync_ticks' \in Int /\ m_sync_ticks' <= m_sync_ticks BY <2>18 DEF GpuTail
    <3>4. m_sync_ticks' >= MinTicks => m_sync_ticks >= MinTicks BY <3>3
    <3>5. Runnable' => Runnable BY <3>2, <3>4, Zenon
    <3>6. WakeDue' = WakeDue BY <3>1, <3>2
    <3> HIDE DEF Runnable, WakeDue
    <3> QED BY <3>1, <3>2, <3>5, <3>6
  <2>19. CASE GpuEnd BY <2>19 DEF GpuEnd
  <2>20. CASE GpuSettle BY <2>20 DEF GpuSettle
  <2>21. CASE ModeTest BY <2>21 DEF ModeTest
  <2> QED
    BY <1>1, <2>1, <2>2, <2>3, <2>4, <2>5, <2>6, <2>7, <2>8, <2>9, <2>10, <2>11, <2>12, <2>13,
       <2>14, <2>15, <2>16, <2>17, <2>18, <2>19, <2>20, <2>21 DEF GpuStep
<1>2. CASE CpuStep
  <2>1. CASE CallRunGpu("Cpu") BY <2>1 DEF CallRunGpu, RunGpu
  <2>2. CASE FlushGpu("Cpu") BY <2>2 DEF FlushGpu
  <2>3. CASE FlushWait("Cpu") BY <2>3 DEF FlushWait
  <2>4. CASE SyncWait("Cpu") BY <2>4 DEF SyncWait, IsDone
  <2>5. CASE SyncMove("Cpu") BY <2>5 DEF SyncMove
  <2>6. CASE SyncSeen("Cpu") BY <2>6 DEF SyncSeen
  <2>7. CASE Answered("Cpu", "Run") BY <2>7 DEF Answered
  <2>8. CASE SetCPStatusFromCPU BY <2>8 DEF SetCPStatusFromCPU
  <2>9. CASE Burst BY <2>9 DEF Burst
  <2>10. CASE SetCpControlRegister BY <2>10 DEF SetCpControlRegister
  <2>11. CASE AddTicks
    <3>1. pc["Cpu"] = "Ticks" /\ pc'["Cpu"] = "Poll" /\ pc'["Gpu"] = pc["Gpu"] /\ pc'["Host"] = pc["Host"]
      BY <2>11 DEF AddTicks
    <3>2. old' = m_sync_ticks /\ m_sync_ticks' = m_sync_ticks + 1 BY <2>11 DEF AddTicks
    <3>3. UNCHANGED <<stopping, m_use_deterministic_gpu_thread, loop, m_emu_running_state,
                      m_interrupt_waiting, bFF_GPReadEnable, distance, scenario, stale_payload>>
      BY <2>11 DEF AddTicks
    <3>4. Runnable' => Runnable \/ WakeDue'
      <4>1. CASE m_sync_ticks >= MinTicks BY <4>1, <3>3, Zenon
      <4>2. CASE m_sync_ticks + 1 < MinTicks BY <4>2, <3>2, <3>3
      <4>3. CASE m_sync_ticks < MinTicks /\ m_sync_ticks + 1 >= MinTicks BY <4>3, <3>1, <3>2
      <4> QED BY <4>1, <4>2, <4>3
    <3>5. ~WakeDue \/ pc["Host"] = "Wakeup" BY <3>1
    <3>6. pc["Host"] = "Wakeup" => WakeDue' BY <3>1
    <3> HIDE DEF Runnable, WakeDue
    <3> QED BY <3>1, <3>3, <3>4, <3>5, <3>6
  <2>12. CASE WaitForGpuThread BY <2>12, WaitFrame
  <2>13. CASE SyncWakeup BY <2>13 DEF SyncWakeup, SyncReturn
  <2>14. CASE RunGpuOnCpu BY <2>14 DEF RunGpuOnCpu, SyncReturn, UpdateInterruptsFromVideoBackend
  <2>15. CASE Preprocess BY <2>15 DEF Preprocess
  <2>16. CASE Preprocessed BY <2>16 DEF Preprocessed
  <2>17. CASE Unpark BY <2>17 DEF Unpark
  <2>18. CASE ExitGpuLoop BY <2>18 DEF ExitGpuLoop
  <2>19. CASE ExitRun
    <3>1. stopping /\ stopping' = stopping BY <2>19 DEF ExitRun, ExitPc
    <3>2. pc'["Gpu"] = pc["Gpu"] /\ loop' = loop /\ distance' = distance BY <2>19 DEF ExitRun
    <3> QED BY <3>1, <3>2
  <2>20. CASE ExitStop BY <2>20 DEF ExitStop
  <2>21. CASE Join BY <2>21 DEF Join
  <2> QED
    BY <1>2, <2>1, <2>2, <2>3, <2>4, <2>5, <2>6, <2>7, <2>8, <2>9, <2>10, <2>11, <2>12, <2>13,
       <2>14, <2>15, <2>16, <2>17, <2>18, <2>19, <2>20, <2>21 DEF CpuStep, CallStep
<1>3. CASE HostStep
  <2>1. CASE CallRunGpu("Host") BY <2>1 DEF CallRunGpu, RunGpu
  <2>2. CASE FlushGpu("Host") BY <2>2 DEF FlushGpu
  <2>3. CASE FlushWait("Host") BY <2>3 DEF FlushWait
  <2>4. CASE SyncWait("Host") BY <2>4 DEF SyncWait, IsDone
  <2>5. CASE SyncMove("Host") BY <2>5 DEF SyncMove
  <2>6. CASE SyncSeen("Host") BY <2>6 DEF SyncSeen
  <2>7. CASE Answered("Host", "Locked") BY <2>7 DEF Answered
  <2>8. CASE Paused BY <2>8 DEF Paused, EmulatorPause, CpuIdle
  <2>9. CASE ResumeWakeup BY <2>9 DEF ResumeWakeup
  <2>10. CASE LockCpu BY <2>10 DEF LockCpu, CpuIdle
  <2>11. CASE LockFifo BY <2>11 DEF LockFifo, EmulatorPause
  <2>12. CASE StopPause BY <2>12 DEF StopPause, EmulatorPause
  <2>13. CASE StopCpu BY <2>13 DEF StopCpu
  <2>14. CASE Stopped BY <2>14 DEF Stopped, EmulatorPause
  <2> QED
    BY <1>3, <2>1, <2>2, <2>3, <2>4, <2>5, <2>6, <2>7, <2>8, <2>9, <2>10, <2>11, <2>12, <2>13,
       <2>14 DEF HostStep, CallStep
<1>4. CASE GameStep
  <2>1. CASE GatherPipeBursted BY <2>1 DEF GatherPipeBursted
  <2>2. CASE Idle BY <2>2 DEF Idle
  <2>3. CASE UpdateInterrupts BY <2>3 DEF UpdateInterrupts
  <2>4. CASE Request
    <3>1. CASE Push("Cpu", "Run", "Run") BY <3>1 DEF Push
    <3>2. CASE Push("Cpu", "Run", "Answer") BY <3>2 DEF Push
    <3> QED BY <2>4, <3>1, <3>2 DEF Request
  <2>5. CASE ReadStatus BY <2>5 DEF ReadStatus, RegisterAccess
  <2>6. CASE WriteControl BY <2>6 DEF WriteControl, RegisterAccess
  <2>7. CASE SyncGPUCallback BY <2>7 DEF SyncGPUCallback
  <2>8. CASE Break BY <2>8 DEF Break, EmulatorPause
  <2> QED BY <1>4, <2>1, <2>2, <2>3, <2>4, <2>5, <2>6, <2>7, <2>8 DEF GameStep
<1>5. CASE EndSlice BY <1>5 DEF EndSlice
<1>6. CASE UserStep
  <2>1. CASE Pause BY <2>1 DEF Pause
  <2>2. CASE Resume BY <2>2 DEF Resume, ResumeFrom
  <2>3. CASE Lock BY <2>3 DEF Lock
  <2>4. CASE UpdateWantDeterminism BY <2>4 DEF UpdateWantDeterminism, PastPauseTest
  <2>5. CASE DoState BY <2>5 DEF DoState, Push
  <2>6. CASE Unlock BY <2>6 DEF Unlock, ResumeFrom
  <2>7. CASE Stop BY <2>7 DEF Stop
  <2> QED BY <1>6, <2>1, <2>2, <2>3, <2>4, <2>5, <2>6, <2>7 DEF UserStep
<1> QED BY <1>1, <1>2, <1>3, <1>4, <1>5, <1>6 DEF Next

\* Payloads of the other mode.
LEMMA StaleInvStep ==
  ASSUME TypeOK, PcType, CountType, HostInv, CpuInv, StaleInv, LockInv, Next
  PROVE  StaleInv'
<1> USE TicksAssumption, BoundsAssumption DEF vars, runVars, memVars, threadVars, loopVars,
        cpVars, syncVars, bufferVars, coreVars, callVars, localVars, Goto, Call, Return,
        CountType, PcType, HostInv, CpuInv, LockPc, LockInv, Quiet, RunPc, TestPc, LoopPc, DetPc,
        Runnable, StaleInv
<1>1. CASE GpuStep
  <2>1. CASE GpuTest BY <2>1 DEF GpuTest
  <2>2. CASE PullEvents("Pull", "Present") BY <2>2 DEF PullEvents
  <2>3. CASE RunPausedPresent BY <2>3 DEF RunPausedPresent, WantsPausedPresents
  <2>4. CASE Presented BY <2>4 DEF Presented
  <2>5. CASE StayAwake BY <2>5 DEF StayAwake
  <2>6. CASE PauseTest BY <2>6 DEF PauseTest
  <2>7. CASE LoadSeen BY <2>7 DEF LoadSeen
  <2>8. CASE LoadWrite BY <2>8 DEF LoadWrite
  <2>9. CASE Decode BY <2>9 DEF Decode
  <2>10. CASE SetCPStatusFromGPU("Status", "StatusSet", "While") BY <2>10 DEF SetCPStatusFromGPU
  <2>11. CASE ScheduleInterrupt("StatusSet", "While")
    BY <2>11 DEF ScheduleInterrupt, UpdateInterruptsFromVideoBackend
  <2>12. CASE GpuWhile BY <2>12 DEF GpuWhile
  <2>13. CASE GpuExecute BY <2>13 DEF GpuExecute
  <2>14. CASE SetCPStatusFromGPU("Executed", "ExecutedSet", "Account")
    BY <2>14 DEF SetCPStatusFromGPU
  <2>15. CASE ScheduleInterrupt("ExecutedSet", "Account")
    BY <2>15 DEF ScheduleInterrupt, UpdateInterruptsFromVideoBackend
  <2>16. CASE GpuAccount BY <2>16 DEF GpuAccount
  <2>17. CASE PullEvents("PullAgain", "While") BY <2>17 DEF PullEvents
  <2>18. CASE GpuTail BY <2>18 DEF GpuTail
  <2>19. CASE GpuEnd BY <2>19 DEF GpuEnd
  <2>20. CASE GpuSettle BY <2>20 DEF GpuSettle
  <2>21. CASE ModeTest BY <2>21 DEF ModeTest
  <2> QED
    BY <1>1, <2>1, <2>2, <2>3, <2>4, <2>5, <2>6, <2>7, <2>8, <2>9, <2>10, <2>11, <2>12, <2>13,
       <2>14, <2>15, <2>16, <2>17, <2>18, <2>19, <2>20, <2>21 DEF GpuStep
<1>2. CASE CpuStep
  <2>1. CASE CallRunGpu("Cpu") BY <2>1 DEF CallRunGpu, RunGpu
  <2>2. CASE FlushGpu("Cpu") BY <2>2 DEF FlushGpu
  <2>3. CASE FlushWait("Cpu") BY <2>3 DEF FlushWait
  <2>4. CASE SyncWait("Cpu") BY <2>4 DEF SyncWait, IsDone
  <2>5. CASE SyncMove("Cpu") BY <2>5 DEF SyncMove
  <2>6. CASE SyncSeen("Cpu") BY <2>6 DEF SyncSeen
  <2>7. CASE Answered("Cpu", "Run") BY <2>7 DEF Answered
  <2>8. CASE SetCPStatusFromCPU BY <2>8 DEF SetCPStatusFromCPU
  <2>9. CASE Burst BY <2>9 DEF Burst
  <2>10. CASE SetCpControlRegister BY <2>10 DEF SetCpControlRegister
  <2>11. CASE AddTicks BY <2>11 DEF AddTicks
  <2>12. CASE WaitForGpuThread BY <2>12, WaitFrame
  <2>13. CASE SyncWakeup BY <2>13 DEF SyncWakeup, SyncReturn
  <2>14. CASE RunGpuOnCpu BY <2>14 DEF RunGpuOnCpu, SyncReturn, UpdateInterruptsFromVideoBackend
  <2>15. CASE Preprocess BY <2>15 DEF Preprocess
  <2>16. CASE Preprocessed BY <2>16 DEF Preprocessed
  <2>17. CASE Unpark BY <2>17 DEF Unpark
  <2>18. CASE ExitGpuLoop BY <2>18 DEF ExitGpuLoop
  <2>19. CASE ExitRun BY <2>19 DEF ExitRun
  <2>20. CASE ExitStop BY <2>20 DEF ExitStop
  <2>21. CASE Join BY <2>21 DEF Join
  <2> QED
    BY <1>2, <2>1, <2>2, <2>3, <2>4, <2>5, <2>6, <2>7, <2>8, <2>9, <2>10, <2>11, <2>12, <2>13,
       <2>14, <2>15, <2>16, <2>17, <2>18, <2>19, <2>20, <2>21 DEF CpuStep, CallStep
<1>3. CASE HostStep
  <2>1. CASE CallRunGpu("Host") BY <2>1 DEF CallRunGpu, RunGpu
  <2>2. CASE FlushGpu("Host") BY <2>2 DEF FlushGpu
  <2>3. CASE FlushWait("Host") BY <2>3 DEF FlushWait
  <2>4. CASE SyncWait("Host") BY <2>4 DEF SyncWait, IsDone
  <2>5. CASE SyncMove("Host") BY <2>5 DEF SyncMove
  <2>6. CASE SyncSeen("Host") BY <2>6 DEF SyncSeen
  <2>7. CASE Answered("Host", "Locked") BY <2>7 DEF Answered
  <2>8. CASE Paused BY <2>8 DEF Paused, EmulatorPause, CpuIdle
  <2>9. CASE ResumeWakeup BY <2>9 DEF ResumeWakeup
  <2>10. CASE LockCpu BY <2>10 DEF LockCpu, CpuIdle
  <2>11. CASE LockFifo BY <2>11 DEF LockFifo, EmulatorPause
  <2>12. CASE StopPause BY <2>12 DEF StopPause, EmulatorPause
  <2>13. CASE StopCpu BY <2>13 DEF StopCpu
  <2>14. CASE Stopped BY <2>14 DEF Stopped, EmulatorPause
  <2> QED
    BY <1>3, <2>1, <2>2, <2>3, <2>4, <2>5, <2>6, <2>7, <2>8, <2>9, <2>10, <2>11, <2>12, <2>13,
       <2>14 DEF HostStep, CallStep
<1>4. CASE GameStep
  <2>1. CASE GatherPipeBursted BY <2>1 DEF GatherPipeBursted
  <2>2. CASE Idle BY <2>2 DEF Idle
  <2>3. CASE UpdateInterrupts BY <2>3 DEF UpdateInterrupts
  <2>4. CASE Request
    <3>1. CASE Push("Cpu", "Run", "Run") BY <3>1 DEF Push
    <3>2. CASE Push("Cpu", "Run", "Answer") BY <3>2 DEF Push
    <3> QED BY <2>4, <3>1, <3>2 DEF Request
  <2>5. CASE ReadStatus BY <2>5 DEF ReadStatus, RegisterAccess
  <2>6. CASE WriteControl BY <2>6 DEF WriteControl, RegisterAccess
  <2>7. CASE SyncGPUCallback BY <2>7 DEF SyncGPUCallback
  <2>8. CASE Break BY <2>8 DEF Break, EmulatorPause
  <2> QED BY <1>4, <2>1, <2>2, <2>3, <2>4, <2>5, <2>6, <2>7, <2>8 DEF GameStep
<1>5. CASE EndSlice BY <1>5 DEF EndSlice
<1>6. CASE UserStep
  <2>1. CASE Pause BY <2>1 DEF Pause
  <2>2. CASE Resume BY <2>2 DEF Resume, ResumeFrom
  <2>3. CASE Lock BY <2>3 DEF Lock
  <2>4. CASE UpdateWantDeterminism BY <2>4 DEF UpdateWantDeterminism, PastPauseTest
  <2>5. CASE DoState BY <2>5 DEF DoState, Push
  <2>6. CASE Unlock BY <2>6 DEF Unlock, ResumeFrom
  <2>7. CASE Stop BY <2>7 DEF Stop
  <2> QED BY <1>6, <2>1, <2>2, <2>3, <2>4, <2>5, <2>6, <2>7 DEF UserStep
<1> QED BY <1>1, <1>2, <1>3, <1>4, <1>5, <1>6 DEF Next

\* The lock.
LEMMA LockInvStep ==
  ASSUME TypeOK, PcType, CountType, HostInv, CpuInv, LoopInv, StaleInv, LockInv, Next
  PROVE  LockInv'
<1> USE TicksAssumption, BoundsAssumption DEF vars, runVars, memVars, threadVars, loopVars,
        cpVars, syncVars, bufferVars, coreVars, callVars, localVars, Goto, Call, Return,
        CountType, PcType, HostInv, CpuInv, LockPc, LockInv, Quiet, RunPc, TestPc, LoopPc,
        Runnable, LoopInv, StaleInv, WakeDue, IsDone
<1>1. CASE GpuStep
  <2>1. CASE GpuTest BY <2>1 DEF GpuTest
  <2>2. CASE PullEvents("Pull", "Present") BY <2>2 DEF PullEvents
  <2>3. CASE RunPausedPresent BY <2>3 DEF RunPausedPresent, WantsPausedPresents
  <2>4. CASE Presented BY <2>4 DEF Presented
  <2>5. CASE StayAwake BY <2>5 DEF StayAwake
  <2>6. CASE PauseTest BY <2>6 DEF PauseTest
  <2>7. CASE LoadSeen BY <2>7 DEF LoadSeen
  <2>8. CASE LoadWrite BY <2>8 DEF LoadWrite
  <2>9. CASE Decode BY <2>9 DEF Decode
  <2>10. CASE SetCPStatusFromGPU("Status", "StatusSet", "While") BY <2>10 DEF SetCPStatusFromGPU
  <2>11. CASE ScheduleInterrupt("StatusSet", "While")
    BY <2>11 DEF ScheduleInterrupt, UpdateInterruptsFromVideoBackend
  <2>12. CASE GpuWhile BY <2>12 DEF GpuWhile
  <2>13. CASE GpuExecute BY <2>13 DEF GpuExecute
  <2>14. CASE SetCPStatusFromGPU("Executed", "ExecutedSet", "Account")
    BY <2>14 DEF SetCPStatusFromGPU
  <2>15. CASE ScheduleInterrupt("ExecutedSet", "Account")
    BY <2>15 DEF ScheduleInterrupt, UpdateInterruptsFromVideoBackend
  <2>16. CASE GpuAccount BY <2>16 DEF GpuAccount
  <2>17. CASE PullEvents("PullAgain", "While") BY <2>17 DEF PullEvents
  <2>18. CASE GpuTail BY <2>18 DEF GpuTail
  <2>19. CASE GpuEnd BY <2>19 DEF GpuEnd
  <2>20. CASE GpuSettle BY <2>20 DEF GpuSettle
  <2>21. CASE ModeTest BY <2>21 DEF ModeTest
  <2> QED
    BY <1>1, <2>1, <2>2, <2>3, <2>4, <2>5, <2>6, <2>7, <2>8, <2>9, <2>10, <2>11, <2>12, <2>13,
       <2>14, <2>15, <2>16, <2>17, <2>18, <2>19, <2>20, <2>21 DEF GpuStep
<1>2. CASE CpuStep
  <2>1. CASE CallRunGpu("Cpu") BY <2>1 DEF CallRunGpu, RunGpu
  <2>2. CASE FlushGpu("Cpu") BY <2>2 DEF FlushGpu
  <2>3. CASE FlushWait("Cpu") BY <2>3 DEF FlushWait
  <2>4. CASE SyncWait("Cpu") BY <2>4 DEF SyncWait, IsDone
  <2>5. CASE SyncMove("Cpu") BY <2>5 DEF SyncMove
  <2>6. CASE SyncSeen("Cpu") BY <2>6 DEF SyncSeen
  <2>7. CASE Answered("Cpu", "Run") BY <2>7 DEF Answered
  <2>8. CASE SetCPStatusFromCPU BY <2>8 DEF SetCPStatusFromCPU
  <2>9. CASE Burst BY <2>9 DEF Burst
  <2>10. CASE SetCpControlRegister BY <2>10 DEF SetCpControlRegister
  <2>11. CASE AddTicks BY <2>11 DEF AddTicks
  <2>12. CASE WaitForGpuThread BY <2>12, WaitFrame
  <2>13. CASE SyncWakeup BY <2>13 DEF SyncWakeup, SyncReturn
  <2>14. CASE RunGpuOnCpu BY <2>14 DEF RunGpuOnCpu, SyncReturn, UpdateInterruptsFromVideoBackend
  <2>15. CASE Preprocess BY <2>15 DEF Preprocess
  <2>16. CASE Preprocessed BY <2>16 DEF Preprocessed
  <2>17. CASE Unpark BY <2>17 DEF Unpark
  <2>18. CASE ExitGpuLoop BY <2>18 DEF ExitGpuLoop
  <2>19. CASE ExitRun BY <2>19 DEF ExitRun
  <2>20. CASE ExitStop BY <2>20 DEF ExitStop
  <2>21. CASE Join BY <2>21 DEF Join
  <2> QED
    BY <1>2, <2>1, <2>2, <2>3, <2>4, <2>5, <2>6, <2>7, <2>8, <2>9, <2>10, <2>11, <2>12, <2>13,
       <2>14, <2>15, <2>16, <2>17, <2>18, <2>19, <2>20, <2>21 DEF CpuStep, CallStep
<1>3. CASE HostStep
  <2>1. CASE CallRunGpu("Host") BY <2>1 DEF CallRunGpu, RunGpu
  <2>2. CASE FlushGpu("Host") BY <2>2 DEF FlushGpu
  <2>3. CASE FlushWait("Host") BY <2>3 DEF FlushWait
  <2>4. CASE SyncWait("Host") BY <2>4 DEF SyncWait, IsDone
  <2>5. CASE SyncMove("Host") BY <2>5 DEF SyncMove
  <2>6. CASE SyncSeen("Host") BY <2>6 DEF SyncSeen
  <2>7. CASE Answered("Host", "Locked") BY <2>7 DEF Answered
  <2>8. CASE Paused BY <2>8 DEF Paused, EmulatorPause, CpuIdle
  <2>9. CASE ResumeWakeup BY <2>9 DEF ResumeWakeup
  <2>10. CASE LockCpu BY <2>10 DEF LockCpu, CpuIdle
  <2>11. CASE LockFifo BY <2>11 DEF LockFifo, EmulatorPause
  <2>12. CASE StopPause BY <2>12 DEF StopPause, EmulatorPause
  <2>13. CASE StopCpu BY <2>13 DEF StopCpu
  <2>14. CASE Stopped BY <2>14 DEF Stopped, EmulatorPause
  <2> QED
    BY <1>3, <2>1, <2>2, <2>3, <2>4, <2>5, <2>6, <2>7, <2>8, <2>9, <2>10, <2>11, <2>12, <2>13,
       <2>14 DEF HostStep, CallStep
<1>4. CASE GameStep
  <2>1. CASE GatherPipeBursted BY <2>1 DEF GatherPipeBursted
  <2>2. CASE Idle BY <2>2 DEF Idle
  <2>3. CASE UpdateInterrupts BY <2>3 DEF UpdateInterrupts
  <2>4. CASE Request
    <3>1. CASE Push("Cpu", "Run", "Run") BY <3>1 DEF Push
    <3>2. CASE Push("Cpu", "Run", "Answer") BY <3>2 DEF Push
    <3> QED BY <2>4, <3>1, <3>2 DEF Request
  <2>5. CASE ReadStatus BY <2>5 DEF ReadStatus, RegisterAccess
  <2>6. CASE WriteControl BY <2>6 DEF WriteControl, RegisterAccess
  <2>7. CASE SyncGPUCallback BY <2>7 DEF SyncGPUCallback
  <2>8. CASE Break BY <2>8 DEF Break, EmulatorPause
  <2> QED BY <1>4, <2>1, <2>2, <2>3, <2>4, <2>5, <2>6, <2>7, <2>8 DEF GameStep
<1>5. CASE EndSlice BY <1>5 DEF EndSlice
<1>6. CASE UserStep
  <2>1. CASE Pause BY <2>1 DEF Pause
  <2>2. CASE Resume BY <2>2 DEF Resume, ResumeFrom
  <2>3. CASE Lock BY <2>3 DEF Lock
  <2>4. CASE UpdateWantDeterminism BY <2>4 DEF UpdateWantDeterminism, PastPauseTest
  <2>5. CASE DoState BY <2>5 DEF DoState, Push
  <2>6. CASE Unlock BY <2>6 DEF Unlock, ResumeFrom
  <2>7. CASE Stop BY <2>7 DEF Stop
  <2> QED BY <1>6, <2>1, <2>2, <2>3, <2>4, <2>5, <2>6, <2>7 DEF UserStep
<1> QED BY <1>1, <1>2, <1>3, <1>4, <1>5, <1>6 DEF Next

-----------------------------------------------------------------------------
\* Where the threads are, and what they hold, at the start.
LEMMA InitIInv == Init => IInv
<1> SUFFICES ASSUME Init PROVE IInv OBVIOUS
<1> USE DEF Init
<1>1. PcType BY DEF PcType, CpuPc, GpuPc, HostPc
<1>2. FlagType BY DEF FlagType
<1>3. BoolType
  <2>1. m_use_deterministic_gpu_thread \in BOOLEAN BY ScenariosAssumption
  <2> QED BY <2>1, Zenon DEF BoolType
<1>4. CountType BY BoundsAssumption DEF CountType
<1>5. PointerType
  <2>1. stale_payload \in BOOLEAN BY Zenon
  <2> QED BY <2>1, BoundsAssumption DEF PointerType
<1>6. HostInv /\ CpuInv BY DEF HostInv, CpuInv, LockPc, ExitPc
<1>7. WaitersInv BY DEF WaitersInv
<1>8. LoopInv /\ StaleInv /\ LockInv
  BY DEF LoopInv, StaleInv, LockInv, DetPc, RunPc, TestPc, LoopPc
<1>9. BufferInv BY BoundsAssumption DEF BufferInv
<1>10. TypeOK BY <1>1, <1>2, <1>3, <1>4, <1>5, Types
<1> QED BY <1>6, <1>7, <1>8, <1>9, <1>10 DEF IInv

LEMMA StutterIInv ==
  ASSUME IInv, UNCHANGED vars
  PROVE  IInv'
<1> USE DEF vars, runVars, memVars, threadVars, loopVars, cpVars, syncVars, bufferVars, coreVars,
        callVars, localVars, IInv
<1>1. TypeOK' BY DEF TypeOK
<1>2. HostInv' /\ CpuInv' /\ WaitersInv' BY DEF HostInv, CpuInv, WaitersInv
<1>3. Runnable' = Runnable BY DEF Runnable
<1>4. LoopInv' BY <1>3 DEF LoopInv, WakeDue
<1>5. StaleInv' /\ LockInv' BY <1>3 DEF StaleInv, LockInv, Quiet
<1>6. BufferInv' BY DEF BufferInv
<1> QED BY <1>1, <1>2, <1>4, <1>5, <1>6

LEMMA NextIInv == IInv /\ [Next]_vars => IInv'
<1> SUFFICES ASSUME IInv, Next PROVE IInv' BY StutterIInv
<1>0. TypeOK /\ HostInv /\ CpuInv /\ WaitersInv /\ LoopInv /\ StaleInv /\ LockInv /\ BufferInv
  BY DEF IInv
<1>1. PcType /\ FlagType /\ BoolType /\ CountType /\ PointerType BY <1>0, Types
<1>2. PcType' /\ FlagType' /\ BoolType' /\ CountType' /\ PointerType'
  BY <1>0, <1>1, PcTypeStep, FlagTypeStep, BoolTypeStep, CountTypeStep, PointerTypeStep
<1>3. TypeOK' BY <1>2 DEF TypeOK, PcType, FlagType, BoolType, CountType, PointerType
<1>4. HostInv' /\ CpuInv' /\ WaitersInv' BY <1>0, HostInvStep, CpuInvStep, WaitersInvStep
<1>5. LoopInv' /\ StaleInv' /\ LockInv' BY <1>0, <1>1, LoopInvStep, StaleInvStep, LockInvStep
<1>6. BufferInv' BY <1>0, <1>1, BufferInvStep
<1> QED BY <1>3, <1>4, <1>5, <1>6 DEF IInv

LEMMA Invariance == Safety => []IInv
BY InitIInv, NextIInv, PTL DEF Safety

\* The types of Fifo's variables: the positions stay within the buffer although SyncGPU moves
\* it, CPReadWriteDistance within its width although two threads lower it, and at most two
\* threads wait for the loop.
THEOREM TypeCorrect == Safety => []TypeOK
BY Invariance, PTL DEF IInv

\* While the host has the emulation locked the GPU thread decodes no commands, in either mode
\* and across changes of the mode (Core.cpp:863-872, Fifo.cpp:100-111), as long as no mode
\* has changed under a payload past its pause test.
THEOREM LockedCorrect == Safety => []LockedGpuIdle
<1>1. IInv => LockedGpuIdle
  <2> SUFFICES ASSUME IInv, pc["Host"] = "Locked", ~stale_payload PROVE ~Decodes BY DEF LockedGpuIdle
  <2>1. pc["Gpu"] # "Execute" BY DEF IInv, LockInv, Quiet, StaleInv, LoopPc, RunPc
  <2>2. boundary = [i \in 0..FIFO_SIZE |-> read_ptr] BY DEF IInv, BufferInv
  <2>3. gpu_write \in 0..FIFO_SIZE BY DEF IInv, TypeOK
  <2>4. boundary[gpu_write] = read_ptr BY <2>2, <2>3
  <2> QED BY <2>1, <2>4 DEF Decodes
<1> QED BY <1>1, Invariance, PTL

-----------------------------------------------------------------------------
\* The deterministic mode, without Break and, in what concerns the buffer, without a stale payload.

NoBreak == "Break" \notin scenario.uses

ShutdownInv == m_shutdown \/ pc["Gpu"] = "Exited" => pc["Cpu"] \in {"Join", "Ended"}

ZeroBoundary == boundary = [i \in 0..FIFO_SIZE |-> 0]

\* SyncGPU has moved the buffer and not yet stored seen_ptr.
Moving == pc["Cpu"] = "SyncSeen" \/ pc["Host"] = "SyncSeen"

\* How the positions in the buffer are related.
PositionInv ==
  m_use_deterministic_gpu_thread /\ ~stale_payload =>
  /\ ~Moving => seen_ptr <= write_ptr /\ read_ptr = boundary[seen_ptr]
  /\ Moving => read_ptr = 0 /\ ZeroBoundary
  /\ pp_read_ptr = boundary[write_ptr]
  /\ \A i \in 0..write_ptr : boundary[i] <= pp_read_ptr

\* The FIFO is paused, and woken on resuming, behind a parked CPU thread.
ParkInv ==
  /\ m_state = "Stepping" /\ pc["Host"] \notin {"Locking", "Pausing"} => pc["Cpu"] = "Parked"
  /\ pc["Host"] = "Wakeup" => pc["Cpu"] = "Parked"
  /\ ~m_emu_running_state /\ ~stopping => m_state = "Stepping" /\ pc["Cpu"] = "Parked"

\* Somebody is about to wake the loop, or to stop it.
Due == pc["Cpu"] \in {"Preprocessed", "Exit", "ExitRun", "ExitStop"} \/ pc["Host"] = "Wakeup"

\* While SyncGPU moves the buffer, the payload has seen all of it.
MoveInv ==
  ~stale_payload /\ (pc["Cpu"] \in {"SyncMove", "SyncSeen"} \/ pc["Host"] \in {"SyncMove", "SyncSeen"}) =>
    /\ m_emu_running_state \/ pc["Gpu"] \in {"Mode", "Seen"} => seen_ptr >= write_ptr
    /\ pc["Gpu"] = "Write" => gpu_seen >= write_ptr
    /\ pc["Gpu"] # "Decode"

\* What can be decoded is being decoded or about to be announced.
DueInv ==
  m_use_deterministic_gpu_thread /\ ~stale_payload =>
  /\ loop = "Done" =>
       /\ (m_emu_running_state \/ pc["Gpu"] \in {"Mode", "Seen"}) /\ seen_ptr < write_ptr /\ ~Moving
            => Due
       /\ pc["Gpu"] = "Write" /\ gpu_seen < write_ptr => Due
       /\ pc["Gpu"] = "Decode" => Due
  /\ loop # "Need" /\ m_emu_running_state =>
       /\ pc["Gpu"] = "End" /\ seen_ptr < write_ptr /\ ~Moving => Due
       /\ pc["Gpu"] = "Write" /\ gpu_seen >= write_ptr /\ seen_ptr < write_ptr /\ ~Moving => Due
       /\ pc["Gpu"] = "Decode" /\ gpu_write < write_ptr => Due

DrainInv ==
  /\ NoBreak /\ ShutdownInv /\ PositionInv /\ ParkInv /\ MoveInv /\ DueInv
  /\ NoSpuriousDecode

-----------------------------------------------------------------------------
\* LoadWrite starts a decoding run only for commands it has not seen.
LEMMA LoadWriteFrame ==
  ASSUME PcType, PointerType, LoadWrite
  PROVE  /\ pc["Gpu"] = "Write" /\ pc'["Cpu"] = pc["Cpu"] /\ pc'["Host"] = pc["Host"]
         /\ UNCHANGED <<runVars, callVars, memVars, coreVars>>
         /\ \/ write_ptr > gpu_seen /\ gpu_write' = write_ptr /\ pc'["Gpu"] = "Decode"
            \/ gpu_seen >= write_ptr /\ gpu_write' = gpu_write /\ pc'["Gpu"] = "End"
<1>0. write_ptr \in Int /\ gpu_seen \in Int BY DEF PointerType
<1>1. CASE write_ptr > gpu_seen BY <1>1 DEF LoadWrite, Goto, PcType
<1>2. CASE ~(write_ptr > gpu_seen)
  <2>1. gpu_seen >= write_ptr BY <1>0, <1>2
  <2> QED BY <1>2, <2>1 DEF LoadWrite, Goto, PcType
<1> QED BY <1>1, <1>2

LEMMA SyncMoveFrame ==
  ASSUME PcType, PointerType, NEW t \in {"Cpu", "Host"}, SyncMove(t)
  PROVE  /\ pc[t] = "SyncMove" /\ pc'[t] = "SyncSeen"
         /\ pc'["Gpu"] = pc["Gpu"] /\ \A u \in {"Cpu", "Host"} \ {t} : pc'[u] = pc[u]
         /\ write_ptr' \in 0..FIFO_SIZE /\ write_ptr' <= write_ptr
         /\ pp_read_ptr' = 0 /\ read_ptr' = 0 /\ ZeroBoundary'
         /\ \A i \in 0..write_ptr' : boundary'[i] = 0
         /\ UNCHANGED <<runVars, threadVars, cpVars, syncVars, m_use_deterministic_gpu_thread, seen_ptr,
                        stale_payload>>
<1>1. /\ write_ptr' = write_ptr - pp_read_ptr /\ pp_read_ptr <= write_ptr
      /\ pp_read_ptr' = 0 /\ read_ptr' = 0 /\ ZeroBoundary'
  BY DEF SyncMove, ZeroBoundary
<1>2. write_ptr \in 0..FIFO_SIZE /\ pp_read_ptr \in 0..FIFO_SIZE BY DEF PointerType
<1>3. write_ptr' \in 0..FIFO_SIZE /\ write_ptr' <= write_ptr BY <1>1, <1>2, MoveFits
<1>5. \A i \in 0..FIFO_SIZE : boundary'[i] = 0 BY <1>1 DEF ZeroBoundary
<1>6. \A i \in 0..write_ptr' : i \in 0..FIFO_SIZE BY <1>3, BoundsAssumption
<1>7. /\ pc[t] = "SyncMove" /\ pc'[t] = "SyncSeen"
      /\ pc'["Gpu"] = pc["Gpu"] /\ \A u \in {"Cpu", "Host"} \ {t} : pc'[u] = pc[u]
  BY DEF SyncMove, Goto, PcType
<1>8. UNCHANGED <<runVars, threadVars, cpVars, syncVars, m_use_deterministic_gpu_thread, seen_ptr,
                  stale_payload>>
  BY DEF SyncMove
<1> QED BY <1>1, <1>3, <1>5, <1>6, <1>7, <1>8

LEMMA PositionMove ==
  ASSUME PcType, PointerType, NEW t \in {"Cpu", "Host"}, SyncMove(t)
  PROVE  PositionInv'
<1>1. Moving' BY SyncMoveFrame DEF Moving
<1>2. read_ptr' = 0 /\ pp_read_ptr' = 0 /\ ZeroBoundary' BY SyncMoveFrame
<1>3. write_ptr' \in 0..FIFO_SIZE /\ \A i \in 0..write_ptr' : boundary'[i] = 0 BY SyncMoveFrame
<1>4. write_ptr' \in 0..write_ptr' BY <1>3, BoundsAssumption
<1>5. boundary'[write_ptr'] = 0 BY <1>3, <1>4
<1>6. \A i \in 0..write_ptr' : boundary'[i] <= pp_read_ptr' BY <1>2, <1>3
<1> QED BY <1>1, <1>2, <1>5, <1>6 DEF PositionInv

LEMMA PositionPreprocess ==
  ASSUME PcType, PointerType, BufferInv, HostInv, PositionInv, Preprocess
  PROVE  PositionInv'
<1> SUFFICES ASSUME m_use_deterministic_gpu_thread', ~stale_payload' PROVE PositionInv'
  BY DEF PositionInv
<1>a. m_use_deterministic_gpu_thread /\ ~stale_payload BY DEF Preprocess
<1>0. /\ write_ptr \in 0..FIFO_SIZE /\ pp_read_ptr \in 0..FIFO_SIZE /\ seen_ptr \in 0..FIFO_SIZE
      /\ boundary \in [0..FIFO_SIZE -> 0..FIFO_SIZE] /\ FIFO_SIZE \in Nat
  BY BoundsAssumption DEF PointerType
<1>1. pc["Cpu"] = "Preprocess" /\ pc["Host"] # "SyncSeen" /\ ~Moving
  BY DEF Preprocess, HostInv, LockPc, Moving
<1>2. ~Moving' BY <1>1 DEF Preprocess, Goto, PcType, Moving
<1>3. write_ptr < FIFO_SIZE /\ pp_read_ptr <= write_ptr BY <1>a, <1>1 DEF BufferInv
<1>4. seen_ptr' = seen_ptr /\ read_ptr' = read_ptr BY DEF Preprocess
<1>5. PICK end \in {write_ptr + 1, pp_read_ptr} :
        /\ write_ptr' = write_ptr + 1
        /\ pp_read_ptr' = end /\ boundary' = [boundary EXCEPT ![write_ptr + 1] = end]
  BY <1>a, PreprocessFrame
<1>6. end \in Int /\ pp_read_ptr <= end BY <1>0, <1>3
<1>7. boundary'[write_ptr + 1] = end BY <1>0, <1>3, <1>5
<1>8. \A i \in 0..write_ptr : boundary'[i] = boundary[i] BY <1>0, <1>3, <1>5
<1>9. seen_ptr \in 0..write_ptr /\ read_ptr = boundary[seen_ptr] BY <1>a, <1>0, <1>1 DEF PositionInv
<1>10. seen_ptr' <= write_ptr' BY <1>0, <1>4, <1>5, <1>9
<1>11. read_ptr' = boundary'[seen_ptr'] BY <1>4, <1>8, <1>9
<1>12. ASSUME NEW i \in 0..write_ptr' PROVE boundary'[i] <= pp_read_ptr'
  <2>1. CASE i = write_ptr + 1 BY <2>1, <1>5, <1>6, <1>7
  <2>2. CASE i \in 0..write_ptr
    <3>1. boundary'[i] = boundary[i] BY <2>2, <1>8
    <3>2. boundary[i] <= pp_read_ptr BY <2>2, <1>a DEF PositionInv
    <3>3. boundary[i] \in Int BY <2>2, <1>0
    <3> QED BY <3>1, <3>2, <3>3, <1>0, <1>5, <1>6
  <2> QED BY <2>1, <2>2, <1>0, <1>5
<1> QED BY <1>2, <1>5, <1>7, <1>10, <1>11, <1>12 DEF PositionInv

\* On entering the deterministic mode all of the buffer from read_ptr on is one incomplete
\* command, not yet seen.
LEMMA PositionMode ==
  ASSUME PcType, PointerType, HostInv, BufferInv, UpdateWantDeterminism
  PROVE  PositionInv'
<1> SUFFICES ASSUME m_use_deterministic_gpu_thread', ~stale_payload' PROVE PositionInv'
  BY DEF PositionInv
<1>1. ~m_use_deterministic_gpu_thread /\ ~stale_payload BY DEF UpdateWantDeterminism
<1>2. pc["Host"] = "Locked" /\ pc["Cpu"] = "Parked" /\ pc' = pc
  BY DEF UpdateWantDeterminism, HostInv, LockPc
<1>3. ~Moving' BY <1>2 DEF Moving
<1>4. read_ptr <= write_ptr /\ boundary = [i \in 0..FIFO_SIZE |-> read_ptr] BY <1>1 DEF BufferInv
<1>5. /\ seen_ptr' = read_ptr /\ pp_read_ptr' = read_ptr
      /\ write_ptr' = write_ptr /\ read_ptr' = read_ptr /\ boundary' = boundary
  BY <1>1 DEF UpdateWantDeterminism
<1>6. read_ptr \in 0..FIFO_SIZE /\ write_ptr \in 0..FIFO_SIZE BY DEF PointerType
<1>7. \A i \in 0..FIFO_SIZE : boundary[i] = read_ptr BY <1>4
<1>8. \A i \in 0..write_ptr : i \in 0..FIFO_SIZE BY <1>6, BoundsAssumption
<1>9. \A i \in 0..write_ptr : boundary[i] <= read_ptr BY <1>6, <1>7, <1>8, BoundsAssumption
<1> QED BY <1>3, <1>4, <1>5, <1>6, <1>7, <1>9 DEF PositionInv

LEMMA SpuriousLoad ==
  ASSUME PcType, PointerType, StaleInv, PositionInv, LoadWrite
  PROVE  NoSpuriousDecode'
<1> SUFFICES ASSUME ~stale_payload' PROVE NoSpuriousDecode' BY DEF NoSpuriousDecode
<1>0. /\ write_ptr \in 0..FIFO_SIZE /\ seen_ptr \in 0..FIFO_SIZE /\ FIFO_SIZE \in Nat
      /\ pp_read_ptr \in 0..FIFO_SIZE /\ boundary \in [0..FIFO_SIZE -> 0..FIFO_SIZE]
  BY BoundsAssumption DEF PointerType
<1>a. m_use_deterministic_gpu_thread /\ ~stale_payload
  BY LoadWriteFrame DEF memVars, bufferVars, StaleInv, DetPc
<1>1. read_ptr <= boundary[write_ptr]
  <2>1. CASE Moving
    <3>1. read_ptr = 0 /\ boundary[write_ptr] = 0 BY <1>a, <2>1, <1>0 DEF PositionInv, ZeroBoundary
    <3> QED BY <3>1
  <2>2. CASE ~Moving
    <3>1. seen_ptr \in 0..write_ptr /\ read_ptr = boundary[seen_ptr]
      BY <1>a, <2>2, <1>0 DEF PositionInv
    <3>2. boundary[seen_ptr] <= pp_read_ptr /\ pp_read_ptr = boundary[write_ptr]
      BY <1>a, <3>1 DEF PositionInv
    <3> QED BY <3>1, <3>2
  <2> QED BY <2>1, <2>2
<1>2. write_ptr' = write_ptr /\ read_ptr' = read_ptr /\ boundary' = boundary
  BY DEF LoadWrite, memVars, bufferVars
<1>3. pc'["Gpu"] = "Decode" => gpu_write' = write_ptr BY LoadWriteFrame
<1>4. write_ptr <= write_ptr BY <1>0
<1> QED BY <1>1, <1>2, <1>3, <1>4 DEF NoSpuriousDecode

\* When the loop is done, nothing is left to decode for the thread that moves the buffer.
LEMMA MoveWait ==
  ASSUME PcType, FlagType, PointerType, HostInv, CpuInv, ParkInv, ShutdownInv, DueInv,
         NEW t \in {"Cpu", "Host"}, SyncWait(t)
  PROVE  MoveInv'
<1> SUFFICES ASSUME ~stale_payload' PROVE MoveInv' BY DEF MoveInv
<1>0. write_ptr \in Int /\ seen_ptr \in Int /\ gpu_seen \in Int BY BoundsAssumption DEF PointerType
<1>1. pc[t] = "SyncWait" /\ (t = "Host" => pc["Cpu"] = "Parked")
  BY DEF SyncWait, HostInv, LockPc
<1>2. pc["Cpu"] \in {"SyncWait", "Parked"} /\ pc["Host"] # "Wakeup"
  BY <1>1 DEF ParkInv
<1>3. ~Due BY <1>2 DEF Due
<1>4. pc["Cpu"] # "SyncSeen" /\ pc["Host"] # "SyncSeen"
  BY <1>1, <1>2 DEF HostInv, LockPc
<1>5. ~Moving BY <1>4 DEF Moving
<1>6. loop = "Done" BY <1>2 DEF SyncWait, IsDone, ShutdownInv
<1>7. m_use_deterministic_gpu_thread BY <1>1 DEF CpuInv, HostInv
<1>8. /\ UNCHANGED <<write_ptr, seen_ptr, gpu_seen, stale_payload, m_emu_running_state>>
      /\ pc'["Gpu"] = pc["Gpu"]
  BY DEF SyncWait, Goto, PcType, runVars, memVars, bufferVars, threadVars, localVars, coreVars
<1>9. m_emu_running_state \/ pc["Gpu"] \in {"Mode", "Seen"} => ~(seen_ptr < write_ptr)
  BY <1>3, <1>5, <1>6, <1>7, <1>8 DEF DueInv
<1>10. pc["Gpu"] = "Write" => ~(gpu_seen < write_ptr) BY <1>3, <1>6, <1>7, <1>8 DEF DueInv
<1>11. pc["Gpu"] # "Decode" BY <1>3, <1>6, <1>7, <1>8 DEF DueInv
<1> QED BY <1>0, <1>8, <1>9, <1>10, <1>11 DEF MoveInv

\* The move itself keeps what MoveInv says: the buffer only becomes shorter.
LEMMA MoveKept ==
  ASSUME PcType, PointerType, MoveInv, ~stale_payload, NEW t \in {"Cpu", "Host"}, SyncMove(t)
  PROVE  /\ MoveInv' /\ Moving' /\ pc["Gpu"] # "Decode"
         /\ pc["Gpu"] = "Write" => gpu_seen >= write_ptr'
<1>0. write_ptr \in Int /\ seen_ptr \in Int /\ gpu_seen \in Int BY BoundsAssumption DEF PointerType
<1>1. write_ptr' \in Int /\ write_ptr' <= write_ptr BY SyncMoveFrame, BoundsAssumption
<1>2. UNCHANGED <<seen_ptr, gpu_seen, m_emu_running_state>> /\ pc'["Gpu"] = pc["Gpu"]
  BY SyncMoveFrame DEF runVars, threadVars, localVars
<1>3. pc[t] = "SyncMove" BY SyncMoveFrame
<1>4. /\ m_emu_running_state \/ pc["Gpu"] \in {"Mode", "Seen"} => seen_ptr >= write_ptr
      /\ pc["Gpu"] = "Write" => gpu_seen >= write_ptr
      /\ pc["Gpu"] # "Decode"
  BY <1>3 DEF MoveInv
<1>5. /\ m_emu_running_state \/ pc["Gpu"] \in {"Mode", "Seen"} => seen_ptr >= write_ptr'
      /\ pc["Gpu"] = "Write" => gpu_seen >= write_ptr'
  BY <1>0, <1>1, <1>4
<1>6. Moving' BY SyncMoveFrame DEF Moving
<1> QED BY <1>2, <1>4, <1>5, <1>6 DEF MoveInv

LEMMA DueMove ==
  ASSUME PcType, PointerType, MoveInv, DueInv, NEW t \in {"Cpu", "Host"}, SyncMove(t)
  PROVE  DueInv'
<1> SUFFICES ASSUME ~stale_payload' PROVE DueInv' BY DEF DueInv
<1>0. write_ptr' \in Int /\ gpu_seen \in Int BY SyncMoveFrame, BoundsAssumption DEF PointerType
<1>1. /\ UNCHANGED <<seen_ptr, gpu_seen, gpu_write, m_emu_running_state, loop, stale_payload>>
      /\ pc'["Gpu"] = pc["Gpu"]
  BY SyncMoveFrame DEF runVars, loopVars, threadVars, localVars
<1>2. Moving' /\ pc["Gpu"] # "Decode" BY <1>1, MoveKept
<1>3. pc["Gpu"] = "Write" => ~(gpu_seen < write_ptr') BY <1>0, <1>1, MoveKept
<1> QED BY <1>1, <1>2, <1>3 DEF DueInv

LEMMA LoadFrame ==
  ASSUME PcType, PointerType, LoadWrite
  PROVE  /\ UNCHANGED <<write_ptr, seen_ptr, m_emu_running_state, loop,
                        m_use_deterministic_gpu_thread, stale_payload>>
         /\ Due' = Due /\ Moving' = Moving
<1>1. pc'["Cpu"] = pc["Cpu"] /\ pc'["Host"] = pc["Host"] BY LoadWriteFrame
<1>2. UNCHANGED <<write_ptr, seen_ptr, m_emu_running_state, loop, m_use_deterministic_gpu_thread,
                  stale_payload>>
  BY LoadWriteFrame DEF runVars, loopVars, memVars, bufferVars
<1> QED BY <1>1, <1>2 DEF Due, Moving

LEMMA MoveLoad ==
  ASSUME PcType, PointerType, MoveInv, LoadWrite
  PROVE  MoveInv'
<1>0. write_ptr \in Int /\ gpu_seen \in Int BY DEF PointerType
<1>1. /\ pc["Gpu"] = "Write" /\ pc'["Cpu"] = pc["Cpu"] /\ pc'["Host"] = pc["Host"]
      /\ (pc'["Gpu"] = "Decode" /\ write_ptr > gpu_seen) \/ pc'["Gpu"] = "End"
  BY LoadWriteFrame
<1>2. UNCHANGED <<write_ptr, seen_ptr, m_emu_running_state, stale_payload>> BY LoadFrame
<1>3. write_ptr > gpu_seen => ~(gpu_seen >= write_ptr) BY <1>0
<1> QED BY <1>1, <1>2, <1>3 DEF MoveInv

LEMMA DueLoad ==
  ASSUME PcType, FlagType, PointerType, DueInv, LoadWrite
  PROVE  DueInv'
<1>0. write_ptr \in Int /\ gpu_seen \in Int BY DEF PointerType
<1>1. /\ pc["Gpu"] = "Write"
      /\ \/ pc'["Gpu"] = "Decode" /\ write_ptr > gpu_seen /\ gpu_write' = write_ptr
         \/ pc'["Gpu"] = "End" /\ gpu_seen >= write_ptr
  BY LoadWriteFrame
<1>2. /\ UNCHANGED <<write_ptr, seen_ptr, m_emu_running_state, loop, m_use_deterministic_gpu_thread,
                     stale_payload>>
      /\ Due' = Due /\ Moving' = Moving
  BY LoadFrame
<1>3. (write_ptr > gpu_seen => gpu_seen < write_ptr) /\ ~(write_ptr < write_ptr) BY <1>0
<1>4. CASE pc'["Gpu"] = "Decode" BY <1>1, <1>2, <1>3, <1>4 DEF DueInv
<1>5. CASE pc'["Gpu"] = "End" BY <1>1, <1>2, <1>5 DEF DueInv
<1> QED BY <1>1, <1>4, <1>5

-----------------------------------------------------------------------------
LEMMA ShutdownInvStep ==
  ASSUME TypeOK, PcType, CpuInv, ShutdownInv, Next
  PROVE  ShutdownInv'
<1> USE DEF vars, runVars, memVars, threadVars, loopVars, cpVars, syncVars, bufferVars, coreVars,
        callVars, localVars, Goto, Call, Return, PcType, CpuInv, ExitPc, ShutdownInv
<1>1. CASE GpuStep
  <2>1. CASE GpuTest BY <2>1 DEF GpuTest
  <2>2. CASE PullEvents("Pull", "Present") BY <2>2 DEF PullEvents
  <2>3. CASE RunPausedPresent BY <2>3 DEF RunPausedPresent, WantsPausedPresents
  <2>4. CASE Presented BY <2>4 DEF Presented
  <2>5. CASE StayAwake BY <2>5 DEF StayAwake
  <2>6. CASE PauseTest BY <2>6 DEF PauseTest
  <2>7. CASE LoadSeen BY <2>7 DEF LoadSeen
  <2>8. CASE LoadWrite BY <2>8 DEF LoadWrite
  <2>9. CASE Decode BY <2>9 DEF Decode
  <2>10. CASE SetCPStatusFromGPU("Status", "StatusSet", "While") BY <2>10 DEF SetCPStatusFromGPU
  <2>11. CASE ScheduleInterrupt("StatusSet", "While")
    BY <2>11 DEF ScheduleInterrupt, UpdateInterruptsFromVideoBackend
  <2>12. CASE GpuWhile BY <2>12 DEF GpuWhile
  <2>13. CASE GpuExecute BY <2>13 DEF GpuExecute
  <2>14. CASE SetCPStatusFromGPU("Executed", "ExecutedSet", "Account")
    BY <2>14 DEF SetCPStatusFromGPU
  <2>15. CASE ScheduleInterrupt("ExecutedSet", "Account")
    BY <2>15 DEF ScheduleInterrupt, UpdateInterruptsFromVideoBackend
  <2>16. CASE GpuAccount BY <2>16 DEF GpuAccount
  <2>17. CASE PullEvents("PullAgain", "While") BY <2>17 DEF PullEvents
  <2>18. CASE GpuTail BY <2>18 DEF GpuTail
  <2>19. CASE GpuEnd BY <2>19 DEF GpuEnd
  <2>20. CASE GpuSettle BY <2>20 DEF GpuSettle
  <2>21. CASE ModeTest BY <2>21 DEF ModeTest
  <2> QED
    BY <1>1, <2>1, <2>2, <2>3, <2>4, <2>5, <2>6, <2>7, <2>8, <2>9, <2>10, <2>11, <2>12, <2>13,
       <2>14, <2>15, <2>16, <2>17, <2>18, <2>19, <2>20, <2>21 DEF GpuStep
<1>2. CASE CpuStep
  <2>1. CASE CallRunGpu("Cpu") BY <2>1 DEF CallRunGpu, RunGpu
  <2>2. CASE FlushGpu("Cpu") BY <2>2 DEF FlushGpu
  <2>3. CASE FlushWait("Cpu") BY <2>3 DEF FlushWait
  <2>4. CASE SyncWait("Cpu") BY <2>4 DEF SyncWait, IsDone
  <2>5. CASE SyncMove("Cpu") BY <2>5 DEF SyncMove
  <2>6. CASE SyncSeen("Cpu") BY <2>6 DEF SyncSeen
  <2>7. CASE Answered("Cpu", "Run") BY <2>7 DEF Answered
  <2>8. CASE SetCPStatusFromCPU BY <2>8 DEF SetCPStatusFromCPU
  <2>9. CASE Burst BY <2>9 DEF Burst
  <2>10. CASE SetCpControlRegister BY <2>10 DEF SetCpControlRegister
  <2>11. CASE AddTicks BY <2>11 DEF AddTicks
  <2>12. CASE WaitForGpuThread BY <2>12, WaitFrame
  <2>13. CASE SyncWakeup BY <2>13 DEF SyncWakeup, SyncReturn
  <2>14. CASE RunGpuOnCpu BY <2>14 DEF RunGpuOnCpu, SyncReturn, UpdateInterruptsFromVideoBackend
  <2>15. CASE Preprocess BY <2>15 DEF Preprocess
  <2>16. CASE Preprocessed BY <2>16 DEF Preprocessed
  <2>17. CASE Unpark BY <2>17 DEF Unpark
  <2>18. CASE ExitGpuLoop BY <2>18 DEF ExitGpuLoop
  <2>19. CASE ExitRun BY <2>19 DEF ExitRun
  <2>20. CASE ExitStop BY <2>20 DEF ExitStop
  <2>21. CASE Join BY <2>21 DEF Join
  <2> QED
    BY <1>2, <2>1, <2>2, <2>3, <2>4, <2>5, <2>6, <2>7, <2>8, <2>9, <2>10, <2>11, <2>12, <2>13,
       <2>14, <2>15, <2>16, <2>17, <2>18, <2>19, <2>20, <2>21 DEF CpuStep, CallStep
<1>3. CASE HostStep
  <2>1. CASE CallRunGpu("Host") BY <2>1 DEF CallRunGpu, RunGpu
  <2>2. CASE FlushGpu("Host") BY <2>2 DEF FlushGpu
  <2>3. CASE FlushWait("Host") BY <2>3 DEF FlushWait
  <2>4. CASE SyncWait("Host") BY <2>4 DEF SyncWait, IsDone
  <2>5. CASE SyncMove("Host") BY <2>5 DEF SyncMove
  <2>6. CASE SyncSeen("Host") BY <2>6 DEF SyncSeen
  <2>7. CASE Answered("Host", "Locked") BY <2>7 DEF Answered
  <2>8. CASE Paused BY <2>8 DEF Paused, EmulatorPause, CpuIdle
  <2>9. CASE ResumeWakeup BY <2>9 DEF ResumeWakeup
  <2>10. CASE LockCpu BY <2>10 DEF LockCpu, CpuIdle
  <2>11. CASE LockFifo BY <2>11 DEF LockFifo, EmulatorPause
  <2>12. CASE StopPause BY <2>12 DEF StopPause, EmulatorPause
  <2>13. CASE StopCpu BY <2>13 DEF StopCpu
  <2>14. CASE Stopped BY <2>14 DEF Stopped, EmulatorPause
  <2> QED
    BY <1>3, <2>1, <2>2, <2>3, <2>4, <2>5, <2>6, <2>7, <2>8, <2>9, <2>10, <2>11, <2>12, <2>13,
       <2>14 DEF HostStep, CallStep
<1>4. CASE GameStep
  <2>1. CASE GatherPipeBursted BY <2>1 DEF GatherPipeBursted
  <2>2. CASE Idle BY <2>2 DEF Idle
  <2>3. CASE UpdateInterrupts BY <2>3 DEF UpdateInterrupts
  <2>4. CASE Request BY <2>4 DEF Request, Push
  <2>5. CASE ReadStatus BY <2>5 DEF ReadStatus, RegisterAccess
  <2>6. CASE WriteControl BY <2>6 DEF WriteControl, RegisterAccess
  <2>7. CASE SyncGPUCallback BY <2>7 DEF SyncGPUCallback
  <2>8. CASE Break BY <2>8 DEF Break, EmulatorPause
  <2> QED BY <1>4, <2>1, <2>2, <2>3, <2>4, <2>5, <2>6, <2>7, <2>8 DEF GameStep
<1>5. CASE EndSlice BY <1>5 DEF EndSlice
<1>6. CASE UserStep
  <2>1. CASE Pause BY <2>1 DEF Pause
  <2>2. CASE Resume BY <2>2 DEF Resume, ResumeFrom
  <2>3. CASE Lock BY <2>3 DEF Lock
  <2>4. CASE UpdateWantDeterminism BY <2>4 DEF UpdateWantDeterminism
  <2>5. CASE DoState BY <2>5 DEF DoState, Push
  <2>6. CASE Unlock BY <2>6 DEF Unlock, ResumeFrom
  <2>7. CASE Stop BY <2>7 DEF Stop
  <2> QED BY <1>6, <2>1, <2>2, <2>3, <2>4, <2>5, <2>6, <2>7 DEF UserStep
<1> QED BY <1>1, <1>2, <1>3, <1>4, <1>5, <1>6 DEF Next

LEMMA ParkInvStep ==
  ASSUME NoBreak, TypeOK, PcType, FlagType, CpuInv, HostInv, ParkInv, Next
  PROVE  ParkInv'
<1> USE DEF vars, runVars, memVars, threadVars, loopVars, cpVars, syncVars, bufferVars, coreVars,
        callVars, localVars, Goto, Call, Return, NoBreak, PcType, FlagType, CpuInv, HostInv,
        LockPc, ExitPc, ParkInv
<1>1. CASE GpuStep
  <2>1. CASE GpuTest BY <2>1 DEF GpuTest
  <2>2. CASE PullEvents("Pull", "Present") BY <2>2 DEF PullEvents
  <2>3. CASE RunPausedPresent BY <2>3 DEF RunPausedPresent, WantsPausedPresents
  <2>4. CASE Presented BY <2>4 DEF Presented
  <2>5. CASE StayAwake BY <2>5 DEF StayAwake
  <2>6. CASE PauseTest BY <2>6 DEF PauseTest
  <2>7. CASE LoadSeen BY <2>7 DEF LoadSeen
  <2>8. CASE LoadWrite BY <2>8 DEF LoadWrite
  <2>9. CASE Decode BY <2>9 DEF Decode
  <2>10. CASE SetCPStatusFromGPU("Status", "StatusSet", "While") BY <2>10 DEF SetCPStatusFromGPU
  <2>11. CASE ScheduleInterrupt("StatusSet", "While")
    BY <2>11 DEF ScheduleInterrupt, UpdateInterruptsFromVideoBackend
  <2>12. CASE GpuWhile BY <2>12 DEF GpuWhile
  <2>13. CASE GpuExecute BY <2>13 DEF GpuExecute
  <2>14. CASE SetCPStatusFromGPU("Executed", "ExecutedSet", "Account")
    BY <2>14 DEF SetCPStatusFromGPU
  <2>15. CASE ScheduleInterrupt("ExecutedSet", "Account")
    BY <2>15 DEF ScheduleInterrupt, UpdateInterruptsFromVideoBackend
  <2>16. CASE GpuAccount BY <2>16 DEF GpuAccount
  <2>17. CASE PullEvents("PullAgain", "While") BY <2>17 DEF PullEvents
  <2>18. CASE GpuTail BY <2>18 DEF GpuTail
  <2>19. CASE GpuEnd BY <2>19 DEF GpuEnd
  <2>20. CASE GpuSettle BY <2>20 DEF GpuSettle
  <2>21. CASE ModeTest BY <2>21 DEF ModeTest
  <2> QED
    BY <1>1, <2>1, <2>2, <2>3, <2>4, <2>5, <2>6, <2>7, <2>8, <2>9, <2>10, <2>11, <2>12, <2>13,
       <2>14, <2>15, <2>16, <2>17, <2>18, <2>19, <2>20, <2>21 DEF GpuStep
<1>2. CASE CpuStep
  <2>1. CASE CallRunGpu("Cpu") BY <2>1 DEF CallRunGpu, RunGpu
  <2>2. CASE FlushGpu("Cpu") BY <2>2 DEF FlushGpu
  <2>3. CASE FlushWait("Cpu") BY <2>3 DEF FlushWait
  <2>4. CASE SyncWait("Cpu") BY <2>4 DEF SyncWait, IsDone
  <2>5. CASE SyncMove("Cpu") BY <2>5 DEF SyncMove
  <2>6. CASE SyncSeen("Cpu") BY <2>6 DEF SyncSeen
  <2>7. CASE Answered("Cpu", "Run") BY <2>7 DEF Answered
  <2>8. CASE SetCPStatusFromCPU BY <2>8 DEF SetCPStatusFromCPU
  <2>9. CASE Burst BY <2>9 DEF Burst
  <2>10. CASE SetCpControlRegister BY <2>10 DEF SetCpControlRegister
  <2>11. CASE AddTicks BY <2>11 DEF AddTicks
  <2>12. CASE WaitForGpuThread BY <2>12, WaitFrame
  <2>13. CASE SyncWakeup BY <2>13 DEF SyncWakeup, SyncReturn
  <2>14. CASE RunGpuOnCpu BY <2>14 DEF RunGpuOnCpu, SyncReturn, UpdateInterruptsFromVideoBackend
  <2>15. CASE Preprocess BY <2>15 DEF Preprocess
  <2>16. CASE Preprocessed BY <2>16 DEF Preprocessed
  <2>17. CASE Unpark BY <2>17 DEF Unpark
  <2>18. CASE ExitGpuLoop BY <2>18 DEF ExitGpuLoop
  <2>19. CASE ExitRun BY <2>19 DEF ExitRun
  <2>20. CASE ExitStop BY <2>20 DEF ExitStop
  <2>21. CASE Join BY <2>21 DEF Join
  <2> QED
    BY <1>2, <2>1, <2>2, <2>3, <2>4, <2>5, <2>6, <2>7, <2>8, <2>9, <2>10, <2>11, <2>12, <2>13,
       <2>14, <2>15, <2>16, <2>17, <2>18, <2>19, <2>20, <2>21 DEF CpuStep, CallStep
<1>3. CASE HostStep
  <2>1. CASE CallRunGpu("Host") BY <2>1 DEF CallRunGpu, RunGpu
  <2>2. CASE FlushGpu("Host") BY <2>2 DEF FlushGpu
  <2>3. CASE FlushWait("Host") BY <2>3 DEF FlushWait
  <2>4. CASE SyncWait("Host") BY <2>4 DEF SyncWait, IsDone
  <2>5. CASE SyncMove("Host") BY <2>5 DEF SyncMove
  <2>6. CASE SyncSeen("Host") BY <2>6 DEF SyncSeen
  <2>7. CASE Answered("Host", "Locked") BY <2>7 DEF Answered
  <2>8. CASE Paused BY <2>8 DEF Paused, EmulatorPause, CpuIdle
  <2>9. CASE ResumeWakeup BY <2>9 DEF ResumeWakeup
  <2>10. CASE LockCpu BY <2>10 DEF LockCpu, CpuIdle
  <2>11. CASE LockFifo BY <2>11 DEF LockFifo, EmulatorPause
  <2>12. CASE StopPause BY <2>12 DEF StopPause, EmulatorPause
  <2>13. CASE StopCpu BY <2>13 DEF StopCpu
  <2>14. CASE Stopped BY <2>14 DEF Stopped, EmulatorPause
  <2> QED
    BY <1>3, <2>1, <2>2, <2>3, <2>4, <2>5, <2>6, <2>7, <2>8, <2>9, <2>10, <2>11, <2>12, <2>13,
       <2>14 DEF HostStep, CallStep
<1>4. CASE GameStep
  <2>1. CASE GatherPipeBursted BY <2>1 DEF GatherPipeBursted
  <2>2. CASE Idle BY <2>2 DEF Idle
  <2>3. CASE UpdateInterrupts BY <2>3 DEF UpdateInterrupts
  <2>4. CASE Request
    <3>1. CASE Push("Cpu", "Run", "Run") BY <3>1 DEF Push
    <3>2. CASE Push("Cpu", "Run", "Answer") BY <3>2 DEF Push
    <3> QED BY <2>4, <3>1, <3>2 DEF Request
  <2>5. CASE ReadStatus BY <2>5 DEF ReadStatus, RegisterAccess
  <2>6. CASE WriteControl BY <2>6 DEF WriteControl, RegisterAccess
  <2>7. CASE SyncGPUCallback BY <2>7 DEF SyncGPUCallback
  <2>8. CASE Break BY <2>8 DEF Break, EmulatorPause
  <2> QED BY <1>4, <2>1, <2>2, <2>3, <2>4, <2>5, <2>6, <2>7, <2>8 DEF GameStep
<1>5. CASE EndSlice BY <1>5 DEF EndSlice
<1>6. CASE UserStep
  <2>1. CASE Pause BY <2>1 DEF Pause
  <2>2. CASE Resume BY <2>2 DEF Resume, ResumeFrom
  <2>3. CASE Lock BY <2>3 DEF Lock
  <2>4. CASE UpdateWantDeterminism BY <2>4 DEF UpdateWantDeterminism
  <2>5. CASE DoState BY <2>5 DEF DoState, Push
  <2>6. CASE Unlock BY <2>6 DEF Unlock, ResumeFrom
  <2>7. CASE Stop BY <2>7 DEF Stop
  <2> QED BY <1>6, <2>1, <2>2, <2>3, <2>4, <2>5, <2>6, <2>7 DEF UserStep
<1> QED BY <1>1, <1>2, <1>3, <1>4, <1>5, <1>6 DEF Next

LEMMA PositionInvStep ==
  ASSUME TypeOK, PcType, FlagType, PointerType, CpuInv, HostInv, StaleInv, BufferInv,
         PositionInv, NoSpuriousDecode, Next
  PROVE  PositionInv'
<1> USE BoundsAssumption DEF vars, runVars, memVars, threadVars, loopVars, cpVars, syncVars,
        bufferVars, coreVars, callVars, localVars, Goto, Call, Return, PcType, FlagType,
        PointerType, CpuInv, HostInv, LockPc, BufferInv, PositionInv, Moving, ZeroBoundary,
        StaleInv, DetPc, LoopPc, RunPc, NoSpuriousDecode
<1>1. CASE GpuStep
  <2>1. CASE GpuTest BY <2>1 DEF GpuTest
  <2>2. CASE PullEvents("Pull", "Present") BY <2>2 DEF PullEvents
  <2>3. CASE RunPausedPresent BY <2>3 DEF RunPausedPresent, WantsPausedPresents
  <2>4. CASE Presented BY <2>4 DEF Presented
  <2>5. CASE StayAwake BY <2>5 DEF StayAwake
  <2>6. CASE PauseTest BY <2>6 DEF PauseTest
  <2>7. CASE LoadSeen BY <2>7 DEF LoadSeen
  <2>8. CASE LoadWrite BY <2>8, LoadWriteFrame
  <2>9. CASE Decode BY <2>9 DEF Decode
  <2>10. CASE SetCPStatusFromGPU("Status", "StatusSet", "While") BY <2>10 DEF SetCPStatusFromGPU
  <2>11. CASE ScheduleInterrupt("StatusSet", "While")
    BY <2>11 DEF ScheduleInterrupt, UpdateInterruptsFromVideoBackend
  <2>12. CASE GpuWhile BY <2>12 DEF GpuWhile
  <2>13. CASE GpuExecute BY <2>13, ExecuteFrame
  <2>14. CASE SetCPStatusFromGPU("Executed", "ExecutedSet", "Account")
    BY <2>14 DEF SetCPStatusFromGPU
  <2>15. CASE ScheduleInterrupt("ExecutedSet", "Account")
    BY <2>15 DEF ScheduleInterrupt, UpdateInterruptsFromVideoBackend
  <2>16. CASE GpuAccount BY <2>16 DEF GpuAccount
  <2>17. CASE PullEvents("PullAgain", "While") BY <2>17 DEF PullEvents
  <2>18. CASE GpuTail BY <2>18 DEF GpuTail
  <2>19. CASE GpuEnd BY <2>19 DEF GpuEnd
  <2>20. CASE GpuSettle BY <2>20 DEF GpuSettle
  <2>21. CASE ModeTest BY <2>21 DEF ModeTest
  <2> QED
    BY <1>1, <2>1, <2>2, <2>3, <2>4, <2>5, <2>6, <2>7, <2>8, <2>9, <2>10, <2>11, <2>12, <2>13,
       <2>14, <2>15, <2>16, <2>17, <2>18, <2>19, <2>20, <2>21 DEF GpuStep
<1>2. CASE CpuStep
  <2>1. CASE CallRunGpu("Cpu") BY <2>1 DEF CallRunGpu, RunGpu
  <2>2. CASE FlushGpu("Cpu") BY <2>2 DEF FlushGpu
  <2>3. CASE FlushWait("Cpu") BY <2>3 DEF FlushWait
  <2>4. CASE SyncWait("Cpu") BY <2>4 DEF SyncWait, IsDone
  <2>5. CASE SyncMove("Cpu") BY <2>5, PositionMove
  <2>6. CASE SyncSeen("Cpu") BY <2>6 DEF SyncSeen
  <2>7. CASE Answered("Cpu", "Run") BY <2>7 DEF Answered
  <2>8. CASE SetCPStatusFromCPU BY <2>8 DEF SetCPStatusFromCPU
  <2>9. CASE Burst BY <2>9 DEF Burst
  <2>10. CASE SetCpControlRegister BY <2>10 DEF SetCpControlRegister
  <2>11. CASE AddTicks BY <2>11 DEF AddTicks
  <2>12. CASE WaitForGpuThread
    <3>1. UNCHANGED bufferVars BY <2>12, WaitFrame
    <3>2. Moving' = Moving BY <2>12, WaitFrame
    <3> HIDE DEF Moving
    <3> QED BY <3>1, <3>2
  <2>13. CASE SyncWakeup BY <2>13 DEF SyncWakeup, SyncReturn
  <2>14. CASE RunGpuOnCpu BY <2>14, RunOnCpuFrame
  <2>15. CASE Preprocess BY <2>15, PositionPreprocess
  <2>16. CASE Preprocessed BY <2>16 DEF Preprocessed
  <2>17. CASE Unpark BY <2>17 DEF Unpark
  <2>18. CASE ExitGpuLoop BY <2>18 DEF ExitGpuLoop
  <2>19. CASE ExitRun BY <2>19 DEF ExitRun
  <2>20. CASE ExitStop BY <2>20 DEF ExitStop
  <2>21. CASE Join BY <2>21 DEF Join
  <2> QED
    BY <1>2, <2>1, <2>2, <2>3, <2>4, <2>5, <2>6, <2>7, <2>8, <2>9, <2>10, <2>11, <2>12, <2>13,
       <2>14, <2>15, <2>16, <2>17, <2>18, <2>19, <2>20, <2>21 DEF CpuStep, CallStep
<1>3. CASE HostStep
  <2>1. CASE CallRunGpu("Host") BY <2>1 DEF CallRunGpu, RunGpu
  <2>2. CASE FlushGpu("Host") BY <2>2 DEF FlushGpu
  <2>3. CASE FlushWait("Host") BY <2>3 DEF FlushWait
  <2>4. CASE SyncWait("Host") BY <2>4 DEF SyncWait, IsDone
  <2>5. CASE SyncMove("Host") BY <2>5, PositionMove
  <2>6. CASE SyncSeen("Host") BY <2>6 DEF SyncSeen
  <2>7. CASE Answered("Host", "Locked") BY <2>7 DEF Answered
  <2>8. CASE Paused BY <2>8 DEF Paused, EmulatorPause, CpuIdle
  <2>9. CASE ResumeWakeup BY <2>9 DEF ResumeWakeup
  <2>10. CASE LockCpu BY <2>10 DEF LockCpu, CpuIdle
  <2>11. CASE LockFifo BY <2>11 DEF LockFifo, EmulatorPause
  <2>12. CASE StopPause BY <2>12 DEF StopPause, EmulatorPause
  <2>13. CASE StopCpu BY <2>13 DEF StopCpu
  <2>14. CASE Stopped BY <2>14 DEF Stopped, EmulatorPause
  <2> QED
    BY <1>3, <2>1, <2>2, <2>3, <2>4, <2>5, <2>6, <2>7, <2>8, <2>9, <2>10, <2>11, <2>12, <2>13,
       <2>14 DEF HostStep, CallStep
<1>4. CASE GameStep
  <2>1. CASE GatherPipeBursted BY <2>1 DEF GatherPipeBursted
  <2>2. CASE Idle BY <2>2 DEF Idle
  <2>3. CASE UpdateInterrupts BY <2>3 DEF UpdateInterrupts
  <2>4. CASE Request
    <3>1. CASE Push("Cpu", "Run", "Run") BY <3>1 DEF Push
    <3>2. CASE Push("Cpu", "Run", "Answer") BY <3>2 DEF Push
    <3> QED BY <2>4, <3>1, <3>2 DEF Request
  <2>5. CASE ReadStatus BY <2>5 DEF ReadStatus, RegisterAccess
  <2>6. CASE WriteControl BY <2>6 DEF WriteControl, RegisterAccess
  <2>7. CASE SyncGPUCallback BY <2>7 DEF SyncGPUCallback
  <2>8. CASE Break BY <2>8 DEF Break, EmulatorPause
  <2> QED BY <1>4, <2>1, <2>2, <2>3, <2>4, <2>5, <2>6, <2>7, <2>8 DEF GameStep
<1>5. CASE EndSlice BY <1>5 DEF EndSlice
<1>6. CASE UserStep
  <2>1. CASE Pause BY <2>1 DEF Pause
  <2>2. CASE Resume BY <2>2 DEF Resume, ResumeFrom
  <2>3. CASE Lock BY <2>3 DEF Lock
  <2>4. CASE UpdateWantDeterminism BY <2>4, PositionMode
  <2>5. CASE DoState BY <2>5 DEF DoState, Push
  <2>6. CASE Unlock
    <3>1. UNCHANGED bufferVars BY <2>6 DEF Unlock, ResumeFrom
    <3>2. Moving' = Moving BY <2>6 DEF Unlock, ResumeFrom
    <3> HIDE DEF Moving
    <3> QED BY <3>1, <3>2
  <2>7. CASE Stop BY <2>7 DEF Stop
  <2> QED BY <1>6, <2>1, <2>2, <2>3, <2>4, <2>5, <2>6, <2>7 DEF UserStep
<1> QED BY <1>1, <1>2, <1>3, <1>4, <1>5, <1>6 DEF Next

LEMMA SpuriousStep ==
  ASSUME TypeOK, PcType, FlagType, PointerType, CpuInv, HostInv, StaleInv, BufferInv,
         PositionInv, MoveInv, NoSpuriousDecode, Next
  PROVE  NoSpuriousDecode'
<1> USE BoundsAssumption DEF vars, runVars, memVars, threadVars, loopVars, cpVars, syncVars,
        bufferVars, coreVars, callVars, localVars, Goto, Call, Return, PcType, FlagType,
        PointerType, CpuInv, HostInv, LockPc, BufferInv, PositionInv, Moving, ZeroBoundary,
        MoveInv, StaleInv, DetPc, LoopPc, RunPc, NoSpuriousDecode
<1>1. CASE GpuStep
  <2>1. CASE GpuTest BY <2>1 DEF GpuTest
  <2>2. CASE PullEvents("Pull", "Present") BY <2>2 DEF PullEvents
  <2>3. CASE RunPausedPresent BY <2>3 DEF RunPausedPresent, WantsPausedPresents
  <2>4. CASE Presented BY <2>4 DEF Presented
  <2>5. CASE StayAwake BY <2>5 DEF StayAwake
  <2>6. CASE PauseTest BY <2>6 DEF PauseTest
  <2>7. CASE LoadSeen BY <2>7 DEF LoadSeen
  <2>8. CASE LoadWrite BY <2>8, SpuriousLoad
  <2>9. CASE Decode BY <2>9 DEF Decode
  <2>10. CASE SetCPStatusFromGPU("Status", "StatusSet", "While") BY <2>10 DEF SetCPStatusFromGPU
  <2>11. CASE ScheduleInterrupt("StatusSet", "While")
    BY <2>11 DEF ScheduleInterrupt, UpdateInterruptsFromVideoBackend
  <2>12. CASE GpuWhile BY <2>12 DEF GpuWhile
  <2>13. CASE GpuExecute BY <2>13, ExecuteFrame
  <2>14. CASE SetCPStatusFromGPU("Executed", "ExecutedSet", "Account")
    BY <2>14 DEF SetCPStatusFromGPU
  <2>15. CASE ScheduleInterrupt("ExecutedSet", "Account")
    BY <2>15 DEF ScheduleInterrupt, UpdateInterruptsFromVideoBackend
  <2>16. CASE GpuAccount BY <2>16 DEF GpuAccount
  <2>17. CASE PullEvents("PullAgain", "While") BY <2>17 DEF PullEvents
  <2>18. CASE GpuTail BY <2>18 DEF GpuTail
  <2>19. CASE GpuEnd BY <2>19 DEF GpuEnd
  <2>20. CASE GpuSettle BY <2>20 DEF GpuSettle
  <2>21. CASE ModeTest BY <2>21 DEF ModeTest
  <2> QED
    BY <1>1, <2>1, <2>2, <2>3, <2>4, <2>5, <2>6, <2>7, <2>8, <2>9, <2>10, <2>11, <2>12, <2>13,
       <2>14, <2>15, <2>16, <2>17, <2>18, <2>19, <2>20, <2>21 DEF GpuStep
<1>2. CASE CpuStep
  <2>1. CASE CallRunGpu("Cpu") BY <2>1 DEF CallRunGpu, RunGpu
  <2>2. CASE FlushGpu("Cpu") BY <2>2 DEF FlushGpu
  <2>3. CASE FlushWait("Cpu") BY <2>3 DEF FlushWait
  <2>4. CASE SyncWait("Cpu") BY <2>4 DEF SyncWait, IsDone
  <2>5. CASE SyncMove("Cpu") BY <2>5 DEF SyncMove
  <2>6. CASE SyncSeen("Cpu") BY <2>6 DEF SyncSeen
  <2>7. CASE Answered("Cpu", "Run") BY <2>7 DEF Answered
  <2>8. CASE SetCPStatusFromCPU BY <2>8 DEF SetCPStatusFromCPU
  <2>9. CASE Burst BY <2>9 DEF Burst
  <2>10. CASE SetCpControlRegister BY <2>10 DEF SetCpControlRegister
  <2>11. CASE AddTicks BY <2>11 DEF AddTicks
  <2>12. CASE WaitForGpuThread BY <2>12, WaitFrame
  <2>13. CASE SyncWakeup BY <2>13 DEF SyncWakeup, SyncReturn
  <2>14. CASE RunGpuOnCpu BY <2>14, RunOnCpuFrame
  <2>15. CASE Preprocess
    <3> SUFFICES ASSUME ~stale_payload, pc["Gpu"] = "Decode" PROVE NoSpuriousDecode'
      BY <2>15 DEF Preprocess
    <3>1. PICK end \in {write_ptr + 1, pp_read_ptr} :
            /\ write_ptr' = write_ptr + 1
            /\ boundary' = [boundary EXCEPT ![write_ptr + 1] = end]
      BY <2>15, PreprocessFrame
    <3>2. gpu_write <= write_ptr /\ read_ptr <= boundary[gpu_write] OBVIOUS
    <3>3. gpu_write <= write_ptr' /\ boundary'[gpu_write] = boundary[gpu_write] BY <3>1, <3>2
    <3>4. gpu_write' = gpu_write /\ read_ptr' = read_ptr BY <2>15 DEF Preprocess
    <3> QED BY <3>2, <3>3, <3>4
  <2>16. CASE Preprocessed BY <2>16 DEF Preprocessed
  <2>17. CASE Unpark BY <2>17 DEF Unpark
  <2>18. CASE ExitGpuLoop BY <2>18 DEF ExitGpuLoop
  <2>19. CASE ExitRun BY <2>19 DEF ExitRun
  <2>20. CASE ExitStop BY <2>20 DEF ExitStop
  <2>21. CASE Join BY <2>21 DEF Join
  <2> QED
    BY <1>2, <2>1, <2>2, <2>3, <2>4, <2>5, <2>6, <2>7, <2>8, <2>9, <2>10, <2>11, <2>12, <2>13,
       <2>14, <2>15, <2>16, <2>17, <2>18, <2>19, <2>20, <2>21 DEF CpuStep, CallStep
<1>3. CASE HostStep
  <2>1. CASE CallRunGpu("Host") BY <2>1 DEF CallRunGpu, RunGpu
  <2>2. CASE FlushGpu("Host") BY <2>2 DEF FlushGpu
  <2>3. CASE FlushWait("Host") BY <2>3 DEF FlushWait
  <2>4. CASE SyncWait("Host") BY <2>4 DEF SyncWait, IsDone
  <2>5. CASE SyncMove("Host") BY <2>5 DEF SyncMove
  <2>6. CASE SyncSeen("Host") BY <2>6 DEF SyncSeen
  <2>7. CASE Answered("Host", "Locked") BY <2>7 DEF Answered
  <2>8. CASE Paused BY <2>8 DEF Paused, EmulatorPause, CpuIdle
  <2>9. CASE ResumeWakeup BY <2>9 DEF ResumeWakeup
  <2>10. CASE LockCpu BY <2>10 DEF LockCpu, CpuIdle
  <2>11. CASE LockFifo BY <2>11 DEF LockFifo, EmulatorPause
  <2>12. CASE StopPause BY <2>12 DEF StopPause, EmulatorPause
  <2>13. CASE StopCpu BY <2>13 DEF StopCpu
  <2>14. CASE Stopped BY <2>14 DEF Stopped, EmulatorPause
  <2> QED
    BY <1>3, <2>1, <2>2, <2>3, <2>4, <2>5, <2>6, <2>7, <2>8, <2>9, <2>10, <2>11, <2>12, <2>13,
       <2>14 DEF HostStep, CallStep
<1>4. CASE GameStep
  <2>1. CASE GatherPipeBursted BY <2>1 DEF GatherPipeBursted
  <2>2. CASE Idle BY <2>2 DEF Idle
  <2>3. CASE UpdateInterrupts BY <2>3 DEF UpdateInterrupts
  <2>4. CASE Request
    <3>1. CASE Push("Cpu", "Run", "Run") BY <3>1 DEF Push
    <3>2. CASE Push("Cpu", "Run", "Answer") BY <3>2 DEF Push
    <3> QED BY <2>4, <3>1, <3>2 DEF Request
  <2>5. CASE ReadStatus BY <2>5 DEF ReadStatus, RegisterAccess
  <2>6. CASE WriteControl BY <2>6 DEF WriteControl, RegisterAccess
  <2>7. CASE SyncGPUCallback BY <2>7 DEF SyncGPUCallback
  <2>8. CASE Break BY <2>8 DEF Break, EmulatorPause
  <2> QED BY <1>4, <2>1, <2>2, <2>3, <2>4, <2>5, <2>6, <2>7, <2>8 DEF GameStep
<1>5. CASE EndSlice BY <1>5 DEF EndSlice
<1>6. CASE UserStep
  <2>1. CASE Pause BY <2>1 DEF Pause
  <2>2. CASE Resume BY <2>2 DEF Resume, ResumeFrom
  <2>3. CASE Lock BY <2>3 DEF Lock
  <2>4. CASE UpdateWantDeterminism BY <2>4 DEF UpdateWantDeterminism, PastPauseTest
  <2>5. CASE DoState BY <2>5 DEF DoState, Push
  <2>6. CASE Unlock BY <2>6 DEF Unlock, ResumeFrom
  <2>7. CASE Stop BY <2>7 DEF Stop
  <2> QED BY <1>6, <2>1, <2>2, <2>3, <2>4, <2>5, <2>6, <2>7 DEF UserStep
<1> QED BY <1>1, <1>2, <1>3, <1>4, <1>5, <1>6 DEF Next

LEMMA MoveInvStep ==
  ASSUME TypeOK, PcType, FlagType, PointerType, CpuInv, HostInv, StaleInv, BufferInv,
         PositionInv, ParkInv, ShutdownInv, DueInv, MoveInv, Next
  PROVE  MoveInv'
<1> USE BoundsAssumption DEF vars, runVars, memVars, threadVars, loopVars, cpVars, syncVars,
        bufferVars, coreVars, callVars, localVars, Goto, Call, Return, PcType, FlagType,
        PointerType, CpuInv, HostInv, LockPc, BufferInv, PositionInv, Moving, ZeroBoundary,
        ExitPc, ParkInv, ShutdownInv, MoveInv, StaleInv, DetPc, LoopPc,
        RunPc, Due, DueInv
<1>1. CASE GpuStep
  <2>1. CASE GpuTest BY <2>1 DEF GpuTest
  <2>2. CASE PullEvents("Pull", "Present") BY <2>2 DEF PullEvents
  <2>3. CASE RunPausedPresent BY <2>3 DEF RunPausedPresent, WantsPausedPresents
  <2>4. CASE Presented BY <2>4 DEF Presented
  <2>5. CASE StayAwake BY <2>5 DEF StayAwake
  <2>6. CASE PauseTest BY <2>6 DEF PauseTest
  <2>7. CASE LoadSeen BY <2>7 DEF LoadSeen
  <2>8. CASE LoadWrite BY <2>8, MoveLoad
  <2>9. CASE Decode BY <2>9 DEF Decode
  <2>10. CASE SetCPStatusFromGPU("Status", "StatusSet", "While") BY <2>10 DEF SetCPStatusFromGPU
  <2>11. CASE ScheduleInterrupt("StatusSet", "While")
    BY <2>11 DEF ScheduleInterrupt, UpdateInterruptsFromVideoBackend
  <2>12. CASE GpuWhile BY <2>12 DEF GpuWhile
  <2>13. CASE GpuExecute BY <2>13, ExecuteFrame
  <2>14. CASE SetCPStatusFromGPU("Executed", "ExecutedSet", "Account")
    BY <2>14 DEF SetCPStatusFromGPU
  <2>15. CASE ScheduleInterrupt("ExecutedSet", "Account")
    BY <2>15 DEF ScheduleInterrupt, UpdateInterruptsFromVideoBackend
  <2>16. CASE GpuAccount BY <2>16 DEF GpuAccount
  <2>17. CASE PullEvents("PullAgain", "While") BY <2>17 DEF PullEvents
  <2>18. CASE GpuTail BY <2>18 DEF GpuTail
  <2>19. CASE GpuEnd BY <2>19 DEF GpuEnd
  <2>20. CASE GpuSettle BY <2>20 DEF GpuSettle
  <2>21. CASE ModeTest BY <2>21 DEF ModeTest
  <2> QED
    BY <1>1, <2>1, <2>2, <2>3, <2>4, <2>5, <2>6, <2>7, <2>8, <2>9, <2>10, <2>11, <2>12, <2>13,
       <2>14, <2>15, <2>16, <2>17, <2>18, <2>19, <2>20, <2>21 DEF GpuStep
<1>2. CASE CpuStep
  <2>1. CASE CallRunGpu("Cpu") BY <2>1 DEF CallRunGpu, RunGpu
  <2>2. CASE FlushGpu("Cpu") BY <2>2 DEF FlushGpu
  <2>3. CASE FlushWait("Cpu") BY <2>3 DEF FlushWait
  <2>4. CASE SyncWait("Cpu") BY <2>4, MoveWait
  <2>5. CASE SyncMove("Cpu")
    <3>1. CASE stale_payload BY <2>5, <3>1, SyncMoveFrame
    <3>2. CASE ~stale_payload BY <2>5, <3>2, MoveKept
    <3> QED BY <3>1, <3>2
  <2>6. CASE SyncSeen("Cpu") BY <2>6 DEF SyncSeen
  <2>7. CASE Answered("Cpu", "Run") BY <2>7 DEF Answered
  <2>8. CASE SetCPStatusFromCPU BY <2>8 DEF SetCPStatusFromCPU
  <2>9. CASE Burst BY <2>9 DEF Burst
  <2>10. CASE SetCpControlRegister BY <2>10 DEF SetCpControlRegister
  <2>11. CASE AddTicks BY <2>11 DEF AddTicks
  <2>12. CASE WaitForGpuThread BY <2>12, WaitFrame
  <2>13. CASE SyncWakeup BY <2>13 DEF SyncWakeup, SyncReturn
  <2>14. CASE RunGpuOnCpu BY <2>14, RunOnCpuFrame
  <2>15. CASE Preprocess BY <2>15, PreprocessFrame
  <2>16. CASE Preprocessed BY <2>16 DEF Preprocessed
  <2>17. CASE Unpark BY <2>17 DEF Unpark
  <2>18. CASE ExitGpuLoop BY <2>18 DEF ExitGpuLoop
  <2>19. CASE ExitRun BY <2>19 DEF ExitRun
  <2>20. CASE ExitStop BY <2>20 DEF ExitStop
  <2>21. CASE Join BY <2>21 DEF Join
  <2> QED
    BY <1>2, <2>1, <2>2, <2>3, <2>4, <2>5, <2>6, <2>7, <2>8, <2>9, <2>10, <2>11, <2>12, <2>13,
       <2>14, <2>15, <2>16, <2>17, <2>18, <2>19, <2>20, <2>21 DEF CpuStep, CallStep
<1>3. CASE HostStep
  <2>1. CASE CallRunGpu("Host") BY <2>1 DEF CallRunGpu, RunGpu
  <2>2. CASE FlushGpu("Host") BY <2>2 DEF FlushGpu
  <2>3. CASE FlushWait("Host") BY <2>3 DEF FlushWait
  <2>4. CASE SyncWait("Host") BY <2>4, MoveWait
  <2>5. CASE SyncMove("Host")
    <3>1. CASE stale_payload BY <2>5, <3>1, SyncMoveFrame
    <3>2. CASE ~stale_payload BY <2>5, <3>2, MoveKept
    <3> QED BY <3>1, <3>2
  <2>6. CASE SyncSeen("Host") BY <2>6 DEF SyncSeen
  <2>7. CASE Answered("Host", "Locked") BY <2>7 DEF Answered
  <2>8. CASE Paused BY <2>8 DEF Paused, EmulatorPause, CpuIdle
  <2>9. CASE ResumeWakeup BY <2>9 DEF ResumeWakeup
  <2>10. CASE LockCpu BY <2>10 DEF LockCpu, CpuIdle
  <2>11. CASE LockFifo BY <2>11 DEF LockFifo, EmulatorPause
  <2>12. CASE StopPause BY <2>12 DEF StopPause, EmulatorPause
  <2>13. CASE StopCpu BY <2>13 DEF StopCpu
  <2>14. CASE Stopped BY <2>14 DEF Stopped, EmulatorPause
  <2> QED
    BY <1>3, <2>1, <2>2, <2>3, <2>4, <2>5, <2>6, <2>7, <2>8, <2>9, <2>10, <2>11, <2>12, <2>13,
       <2>14 DEF HostStep, CallStep
<1>4. CASE GameStep
  <2>1. CASE GatherPipeBursted BY <2>1 DEF GatherPipeBursted
  <2>2. CASE Idle BY <2>2 DEF Idle
  <2>3. CASE UpdateInterrupts BY <2>3 DEF UpdateInterrupts
  <2>4. CASE Request
    <3>1. CASE Push("Cpu", "Run", "Run") BY <3>1 DEF Push
    <3>2. CASE Push("Cpu", "Run", "Answer") BY <3>2 DEF Push
    <3> QED BY <2>4, <3>1, <3>2 DEF Request
  <2>5. CASE ReadStatus BY <2>5 DEF ReadStatus, RegisterAccess
  <2>6. CASE WriteControl BY <2>6 DEF WriteControl, RegisterAccess
  <2>7. CASE SyncGPUCallback BY <2>7 DEF SyncGPUCallback
  <2>8. CASE Break BY <2>8 DEF Break, EmulatorPause
  <2> QED BY <1>4, <2>1, <2>2, <2>3, <2>4, <2>5, <2>6, <2>7, <2>8 DEF GameStep
<1>5. CASE EndSlice BY <1>5 DEF EndSlice
<1>6. CASE UserStep
  <2>1. CASE Pause BY <2>1 DEF Pause
  <2>2. CASE Resume BY <2>2 DEF Resume, ResumeFrom
  <2>3. CASE Lock BY <2>3 DEF Lock
  <2>4. CASE UpdateWantDeterminism BY <2>4 DEF UpdateWantDeterminism, PastPauseTest
  <2>5. CASE DoState BY <2>5 DEF DoState, Push
  <2>6. CASE Unlock BY <2>6 DEF Unlock, ResumeFrom
  <2>7. CASE Stop BY <2>7 DEF Stop
  <2> QED BY <1>6, <2>1, <2>2, <2>3, <2>4, <2>5, <2>6, <2>7 DEF UserStep
<1> QED BY <1>1, <1>2, <1>3, <1>4, <1>5, <1>6 DEF Next

LEMMA DueInvStep ==
  ASSUME TypeOK, PcType, FlagType, PointerType, CpuInv, HostInv, StaleInv, BufferInv,
         PositionInv, ParkInv, MoveInv, DueInv, NoSpuriousDecode, Next
  PROVE  DueInv'
<1> USE BoundsAssumption DEF vars, runVars, memVars, threadVars, loopVars, cpVars, syncVars,
        bufferVars, coreVars, callVars, localVars, Goto, Call, Return, PcType, FlagType,
        PointerType, CpuInv, HostInv, LockPc, BufferInv, PositionInv, Moving, ZeroBoundary,
        ParkInv, MoveInv, StaleInv, DetPc, LoopPc, RunPc, Due, DueInv,
        NoSpuriousDecode
<1>1. CASE GpuStep
  <2>1. CASE GpuTest BY <2>1 DEF GpuTest
  <2>2. CASE PullEvents("Pull", "Present") BY <2>2 DEF PullEvents
  <2>3. CASE RunPausedPresent BY <2>3 DEF RunPausedPresent, WantsPausedPresents
  <2>4. CASE Presented BY <2>4 DEF Presented
  <2>5. CASE StayAwake BY <2>5 DEF StayAwake
  <2>6. CASE PauseTest BY <2>6 DEF PauseTest
  <2>7. CASE LoadSeen
    <3>1. /\ pc["Gpu"] = "Seen" /\ pc'["Gpu"] = "Write" /\ gpu_seen' = seen_ptr
          /\ pc'["Cpu"] = pc["Cpu"] /\ pc'["Host"] = pc["Host"]
          /\ UNCHANGED <<m_use_deterministic_gpu_thread, stale_payload, loop, m_emu_running_state,
                         seen_ptr, write_ptr>>
      BY <2>7 DEF LoadSeen
    <3>2. Moving' = Moving /\ Due' = Due BY <3>1
    <3>3. Moving /\ ~stale_payload => seen_ptr >= write_ptr BY <3>1
    <3>4. seen_ptr >= write_ptr => ~(seen_ptr < write_ptr) OBVIOUS
    <3> HIDE DEF Moving, Due
    <3> QED BY <3>1, <3>2, <3>3, <3>4
  <2>8. CASE LoadWrite BY <2>8, DueLoad
  <2>9. CASE Decode BY <2>9 DEF Decode
  <2>10. CASE SetCPStatusFromGPU("Status", "StatusSet", "While") BY <2>10 DEF SetCPStatusFromGPU
  <2>11. CASE ScheduleInterrupt("StatusSet", "While")
    BY <2>11 DEF ScheduleInterrupt, UpdateInterruptsFromVideoBackend
  <2>12. CASE GpuWhile BY <2>12 DEF GpuWhile
  <2>13. CASE GpuExecute BY <2>13, ExecuteFrame
  <2>14. CASE SetCPStatusFromGPU("Executed", "ExecutedSet", "Account")
    BY <2>14 DEF SetCPStatusFromGPU
  <2>15. CASE ScheduleInterrupt("ExecutedSet", "Account")
    BY <2>15 DEF ScheduleInterrupt, UpdateInterruptsFromVideoBackend
  <2>16. CASE GpuAccount BY <2>16 DEF GpuAccount
  <2>17. CASE PullEvents("PullAgain", "While") BY <2>17 DEF PullEvents
  <2>18. CASE GpuTail BY <2>18 DEF GpuTail
  <2>19. CASE GpuEnd BY <2>19 DEF GpuEnd
  <2>20. CASE GpuSettle BY <2>20 DEF GpuSettle
  <2>21. CASE ModeTest BY <2>21 DEF ModeTest
  <2> QED
    BY <1>1, <2>1, <2>2, <2>3, <2>4, <2>5, <2>6, <2>7, <2>8, <2>9, <2>10, <2>11, <2>12, <2>13,
       <2>14, <2>15, <2>16, <2>17, <2>18, <2>19, <2>20, <2>21 DEF GpuStep
<1>2. CASE CpuStep
  <2>1. CASE CallRunGpu("Cpu") BY <2>1 DEF CallRunGpu, RunGpu
  <2>2. CASE FlushGpu("Cpu") BY <2>2 DEF FlushGpu
  <2>3. CASE FlushWait("Cpu") BY <2>3 DEF FlushWait
  <2>4. CASE SyncWait("Cpu") BY <2>4 DEF SyncWait, IsDone
  <2>5. CASE SyncMove("Cpu") BY <2>5, DueMove
  <2>6. CASE SyncSeen("Cpu") BY <2>6 DEF SyncSeen
  <2>7. CASE Answered("Cpu", "Run") BY <2>7 DEF Answered
  <2>8. CASE SetCPStatusFromCPU BY <2>8 DEF SetCPStatusFromCPU
  <2>9. CASE Burst BY <2>9 DEF Burst
  <2>10. CASE SetCpControlRegister BY <2>10 DEF SetCpControlRegister
  <2>11. CASE AddTicks BY <2>11 DEF AddTicks
  <2>12. CASE WaitForGpuThread BY <2>12, WaitFrame
  <2>13. CASE SyncWakeup BY <2>13 DEF SyncWakeup, SyncReturn
  <2>14. CASE RunGpuOnCpu BY <2>14, RunOnCpuFrame
  <2>15. CASE Preprocess BY <2>15, PreprocessFrame
  <2>16. CASE Preprocessed BY <2>16 DEF Preprocessed
  <2>17. CASE Unpark BY <2>17 DEF Unpark
  <2>18. CASE ExitGpuLoop BY <2>18 DEF ExitGpuLoop
  <2>19. CASE ExitRun BY <2>19 DEF ExitRun
  <2>20. CASE ExitStop BY <2>20 DEF ExitStop
  <2>21. CASE Join BY <2>21 DEF Join
  <2> QED
    BY <1>2, <2>1, <2>2, <2>3, <2>4, <2>5, <2>6, <2>7, <2>8, <2>9, <2>10, <2>11, <2>12, <2>13,
       <2>14, <2>15, <2>16, <2>17, <2>18, <2>19, <2>20, <2>21 DEF CpuStep, CallStep
<1>3. CASE HostStep
  <2>1. CASE CallRunGpu("Host") BY <2>1 DEF CallRunGpu, RunGpu
  <2>2. CASE FlushGpu("Host") BY <2>2 DEF FlushGpu
  <2>3. CASE FlushWait("Host") BY <2>3 DEF FlushWait
  <2>4. CASE SyncWait("Host") BY <2>4 DEF SyncWait, IsDone
  <2>5. CASE SyncMove("Host") BY <2>5, DueMove
  <2>6. CASE SyncSeen("Host") BY <2>6 DEF SyncSeen
  <2>7. CASE Answered("Host", "Locked") BY <2>7 DEF Answered
  <2>8. CASE Paused BY <2>8 DEF Paused, EmulatorPause, CpuIdle
  <2>9. CASE ResumeWakeup BY <2>9 DEF ResumeWakeup
  <2>10. CASE LockCpu BY <2>10 DEF LockCpu, CpuIdle
  <2>11. CASE LockFifo BY <2>11 DEF LockFifo, EmulatorPause
  <2>12. CASE StopPause BY <2>12 DEF StopPause, EmulatorPause
  <2>13. CASE StopCpu BY <2>13 DEF StopCpu
  <2>14. CASE Stopped BY <2>14 DEF Stopped, EmulatorPause
  <2> QED
    BY <1>3, <2>1, <2>2, <2>3, <2>4, <2>5, <2>6, <2>7, <2>8, <2>9, <2>10, <2>11, <2>12, <2>13,
       <2>14 DEF HostStep, CallStep
<1>4. CASE GameStep
  <2>1. CASE GatherPipeBursted BY <2>1 DEF GatherPipeBursted
  <2>2. CASE Idle BY <2>2 DEF Idle
  <2>3. CASE UpdateInterrupts BY <2>3 DEF UpdateInterrupts
  <2>4. CASE Request
    <3>1. CASE Push("Cpu", "Run", "Run") BY <3>1 DEF Push
    <3>2. CASE Push("Cpu", "Run", "Answer") BY <3>2 DEF Push
    <3> QED BY <2>4, <3>1, <3>2 DEF Request
  <2>5. CASE ReadStatus BY <2>5 DEF ReadStatus, RegisterAccess
  <2>6. CASE WriteControl BY <2>6 DEF WriteControl, RegisterAccess
  <2>7. CASE SyncGPUCallback BY <2>7 DEF SyncGPUCallback
  <2>8. CASE Break BY <2>8 DEF Break, EmulatorPause
  <2> QED BY <1>4, <2>1, <2>2, <2>3, <2>4, <2>5, <2>6, <2>7, <2>8 DEF GameStep
<1>5. CASE EndSlice BY <1>5 DEF EndSlice
<1>6. CASE UserStep
  <2>1. CASE Pause BY <2>1 DEF Pause
  <2>2. CASE Resume BY <2>2 DEF Resume, ResumeFrom
  <2>3. CASE Lock BY <2>3 DEF Lock
  <2>4. CASE UpdateWantDeterminism BY <2>4 DEF UpdateWantDeterminism, PastPauseTest
  <2>5. CASE DoState BY <2>5 DEF DoState, Push
  <2>6. CASE Unlock BY <2>6 DEF Unlock, ResumeFrom
  <2>7. CASE Stop BY <2>7 DEF Stop
  <2> QED BY <1>6, <2>1, <2>2, <2>3, <2>4, <2>5, <2>6, <2>7 DEF UserStep
<1> QED BY <1>1, <1>2, <1>3, <1>4, <1>5, <1>6 DEF Next

-----------------------------------------------------------------------------
LEMMA InitDrain == Init /\ NoBreak => DrainInv
<1> SUFFICES ASSUME Init, NoBreak PROVE DrainInv OBVIOUS
<1> USE DEF Init
<1>1. ShutdownInv /\ ParkInv /\ MoveInv BY DEF ShutdownInv, ParkInv, MoveInv
<1>2. boundary[0] = 0 /\ \A i \in 0..0 : boundary[i] = 0 BY BoundsAssumption
<1>3. PositionInv BY <1>2, BoundsAssumption DEF PositionInv, Moving
<1>4. DueInv BY DEF DueInv
<1>5. NoSpuriousDecode BY DEF NoSpuriousDecode
<1> QED BY <1>1, <1>3, <1>4, <1>5 DEF DrainInv

LEMMA StutterDrain ==
  ASSUME DrainInv, UNCHANGED vars
  PROVE  DrainInv'
<1> USE DEF vars, runVars, memVars, threadVars, loopVars, cpVars, syncVars, bufferVars, coreVars,
        callVars, localVars, DrainInv
<1>1. NoBreak' /\ ShutdownInv' /\ ParkInv' BY DEF NoBreak, ShutdownInv, ParkInv
<1>2. Moving' = Moving /\ Due' = Due BY DEF Moving, Due
<1>3. PositionInv' BY <1>2 DEF PositionInv, ZeroBoundary
<1>4. MoveInv' /\ DueInv' BY <1>2 DEF MoveInv, DueInv
<1>5. NoSpuriousDecode' BY DEF NoSpuriousDecode
<1> QED BY <1>1, <1>3, <1>4, <1>5

LEMMA ScenarioKept ==
  ASSUME TypeOK, PcType, Next
  PROVE  scenario' = scenario
<1> USE DEF vars, runVars, memVars, threadVars, Goto, Call, Return
<1>1. CASE GpuStep
  <2>1. CASE GpuTest BY <2>1 DEF GpuTest
  <2>2. CASE PullEvents("Pull", "Present") BY <2>2 DEF PullEvents
  <2>3. CASE RunPausedPresent BY <2>3 DEF RunPausedPresent, WantsPausedPresents
  <2>4. CASE Presented BY <2>4 DEF Presented
  <2>5. CASE StayAwake BY <2>5 DEF StayAwake
  <2>6. CASE PauseTest BY <2>6 DEF PauseTest
  <2>7. CASE LoadSeen BY <2>7 DEF LoadSeen
  <2>8. CASE LoadWrite BY <2>8 DEF LoadWrite
  <2>9. CASE Decode BY <2>9 DEF Decode
  <2>10. CASE SetCPStatusFromGPU("Status", "StatusSet", "While") BY <2>10 DEF SetCPStatusFromGPU
  <2>11. CASE ScheduleInterrupt("StatusSet", "While")
    BY <2>11 DEF ScheduleInterrupt, UpdateInterruptsFromVideoBackend
  <2>12. CASE GpuWhile BY <2>12 DEF GpuWhile
  <2>13. CASE GpuExecute BY <2>13 DEF GpuExecute
  <2>14. CASE SetCPStatusFromGPU("Executed", "ExecutedSet", "Account")
    BY <2>14 DEF SetCPStatusFromGPU
  <2>15. CASE ScheduleInterrupt("ExecutedSet", "Account")
    BY <2>15 DEF ScheduleInterrupt, UpdateInterruptsFromVideoBackend
  <2>16. CASE GpuAccount BY <2>16 DEF GpuAccount
  <2>17. CASE PullEvents("PullAgain", "While") BY <2>17 DEF PullEvents
  <2>18. CASE GpuTail BY <2>18 DEF GpuTail
  <2>19. CASE GpuEnd BY <2>19 DEF GpuEnd
  <2>20. CASE GpuSettle BY <2>20 DEF GpuSettle
  <2>21. CASE ModeTest BY <2>21 DEF ModeTest
  <2> QED
    BY <1>1, <2>1, <2>2, <2>3, <2>4, <2>5, <2>6, <2>7, <2>8, <2>9, <2>10, <2>11, <2>12, <2>13,
       <2>14, <2>15, <2>16, <2>17, <2>18, <2>19, <2>20, <2>21 DEF GpuStep
<1>2. CASE CpuStep
  <2>1. CASE CallRunGpu("Cpu") BY <2>1 DEF CallRunGpu, RunGpu
  <2>2. CASE FlushGpu("Cpu") BY <2>2 DEF FlushGpu
  <2>3. CASE FlushWait("Cpu") BY <2>3 DEF FlushWait
  <2>4. CASE SyncWait("Cpu") BY <2>4 DEF SyncWait, IsDone
  <2>5. CASE SyncMove("Cpu") BY <2>5 DEF SyncMove
  <2>6. CASE SyncSeen("Cpu") BY <2>6 DEF SyncSeen
  <2>7. CASE Answered("Cpu", "Run") BY <2>7 DEF Answered
  <2>8. CASE SetCPStatusFromCPU BY <2>8 DEF SetCPStatusFromCPU
  <2>9. CASE Burst BY <2>9 DEF Burst
  <2>10. CASE SetCpControlRegister BY <2>10 DEF SetCpControlRegister
  <2>11. CASE AddTicks BY <2>11 DEF AddTicks
  <2>12. CASE WaitForGpuThread BY <2>12, WaitFrame
  <2>13. CASE SyncWakeup BY <2>13 DEF SyncWakeup, SyncReturn
  <2>14. CASE RunGpuOnCpu BY <2>14 DEF RunGpuOnCpu, SyncReturn, UpdateInterruptsFromVideoBackend
  <2>15. CASE Preprocess BY <2>15 DEF Preprocess
  <2>16. CASE Preprocessed BY <2>16 DEF Preprocessed
  <2>17. CASE Unpark BY <2>17 DEF Unpark
  <2>18. CASE ExitGpuLoop BY <2>18 DEF ExitGpuLoop
  <2>19. CASE ExitRun BY <2>19 DEF ExitRun
  <2>20. CASE ExitStop BY <2>20 DEF ExitStop
  <2>21. CASE Join BY <2>21 DEF Join
  <2> QED
    BY <1>2, <2>1, <2>2, <2>3, <2>4, <2>5, <2>6, <2>7, <2>8, <2>9, <2>10, <2>11, <2>12, <2>13,
       <2>14, <2>15, <2>16, <2>17, <2>18, <2>19, <2>20, <2>21 DEF CpuStep, CallStep
<1>3. CASE HostStep
  <2>1. CASE CallRunGpu("Host") BY <2>1 DEF CallRunGpu, RunGpu
  <2>2. CASE FlushGpu("Host") BY <2>2 DEF FlushGpu
  <2>3. CASE FlushWait("Host") BY <2>3 DEF FlushWait
  <2>4. CASE SyncWait("Host") BY <2>4 DEF SyncWait, IsDone
  <2>5. CASE SyncMove("Host") BY <2>5 DEF SyncMove
  <2>6. CASE SyncSeen("Host") BY <2>6 DEF SyncSeen
  <2>7. CASE Answered("Host", "Locked") BY <2>7 DEF Answered
  <2>8. CASE Paused BY <2>8 DEF Paused, EmulatorPause, CpuIdle
  <2>9. CASE ResumeWakeup BY <2>9 DEF ResumeWakeup
  <2>10. CASE LockCpu BY <2>10 DEF LockCpu, CpuIdle
  <2>11. CASE LockFifo BY <2>11 DEF LockFifo, EmulatorPause
  <2>12. CASE StopPause BY <2>12 DEF StopPause, EmulatorPause
  <2>13. CASE StopCpu BY <2>13 DEF StopCpu
  <2>14. CASE Stopped BY <2>14 DEF Stopped, EmulatorPause
  <2> QED
    BY <1>3, <2>1, <2>2, <2>3, <2>4, <2>5, <2>6, <2>7, <2>8, <2>9, <2>10, <2>11, <2>12, <2>13,
       <2>14 DEF HostStep, CallStep
<1>4. CASE GameStep
  <2>1. CASE GatherPipeBursted BY <2>1 DEF GatherPipeBursted
  <2>2. CASE Idle BY <2>2 DEF Idle
  <2>3. CASE UpdateInterrupts BY <2>3 DEF UpdateInterrupts
  <2>4. CASE Request BY <2>4 DEF Request, Push
  <2>5. CASE ReadStatus BY <2>5 DEF ReadStatus, RegisterAccess
  <2>6. CASE WriteControl BY <2>6 DEF WriteControl, RegisterAccess
  <2>7. CASE SyncGPUCallback BY <2>7 DEF SyncGPUCallback
  <2>8. CASE Break BY <2>8 DEF Break, EmulatorPause
  <2> QED BY <1>4, <2>1, <2>2, <2>3, <2>4, <2>5, <2>6, <2>7, <2>8 DEF GameStep
<1>5. CASE EndSlice BY <1>5 DEF EndSlice
<1>6. CASE UserStep
  <2>1. CASE Pause BY <2>1 DEF Pause
  <2>2. CASE Resume BY <2>2 DEF Resume, ResumeFrom
  <2>3. CASE Lock BY <2>3 DEF Lock
  <2>4. CASE UpdateWantDeterminism BY <2>4 DEF UpdateWantDeterminism
  <2>5. CASE DoState BY <2>5 DEF DoState, Push
  <2>6. CASE Unlock BY <2>6 DEF Unlock, ResumeFrom
  <2>7. CASE Stop BY <2>7 DEF Stop
  <2> QED BY <1>6, <2>1, <2>2, <2>3, <2>4, <2>5, <2>6, <2>7 DEF UserStep
<1> QED BY <1>1, <1>2, <1>3, <1>4, <1>5, <1>6 DEF Next

LEMMA NextDrain == IInv /\ DrainInv /\ [Next]_vars => DrainInv'
<1> SUFFICES ASSUME IInv, DrainInv, Next PROVE DrainInv' BY StutterDrain
<1>0. TypeOK /\ HostInv /\ CpuInv /\ StaleInv /\ BufferInv BY DEF IInv
<1>1. PcType /\ FlagType /\ PointerType BY <1>0, Types
<1>2. NoBreak /\ ShutdownInv /\ PositionInv /\ ParkInv /\ MoveInv /\ DueInv
      /\ NoSpuriousDecode
  BY DEF DrainInv
<1>3. NoBreak' BY <1>0, <1>1, <1>2, ScenarioKept DEF NoBreak
<1>4. ShutdownInv' BY <1>0, <1>1, <1>2, ShutdownInvStep
<1>5. ParkInv' BY <1>0, <1>1, <1>2, ParkInvStep
<1>6. PositionInv' BY <1>0, <1>1, <1>2, PositionInvStep
<1>7. NoSpuriousDecode' BY <1>0, <1>1, <1>2, SpuriousStep
<1>8. MoveInv' BY <1>0, <1>1, <1>2, MoveInvStep
<1>9. DueInv' BY <1>0, <1>1, <1>2, DueInvStep
<1> QED BY <1>3, <1>4, <1>5, <1>6, <1>7, <1>8, <1>9 DEF DrainInv

LEMMA DrainInvariance == Safety /\ NoBreak => []DrainInv
BY Invariance, InitDrain, NextDrain, PTL DEF Safety

\* Without Break, the payload never takes the move of the buffer for new commands
\* (Fifo.cpp:206-208), in spite of runs that nobody asked for and of changes of the mode that
\* no payload past its pause test outlives.
THEOREM DecodeCorrect == Safety /\ NoBreak => []NoSpuriousDecode
BY DrainInvariance, PTL DEF DrainInv

\* Without Break, SyncGPU moves the buffer of a running emulation only when the GPU thread has
\* decoded what the CPU thread has preprocessed and reads none of it (Fifo.cpp:183-211), with
\* the same exception, which is needed: GpuExecute moves read_ptr past pp_read_ptr then.
THEOREM DrainCorrect == Safety /\ NoBreak => []SyncGPUDrains
<1>1. IInv /\ DrainInv => SyncGPUDrains
  <2> SUFFICES ASSUME IInv, DrainInv, ~stale_payload, NEW t \in {"Cpu", "Host"}, pc[t] = "SyncMove",
                      m_emu_running_state
               PROVE  read_ptr = pp_read_ptr /\ pc["Gpu"] # "Decode"
    BY DEF SyncGPUDrains, Drained
  <2>1. TypeOK /\ HostInv /\ CpuInv /\ MoveInv /\ PositionInv BY DEF IInv, DrainInv
  <2>2. seen_ptr >= write_ptr /\ pc["Gpu"] # "Decode" BY <2>1 DEF MoveInv
  <2>3. m_use_deterministic_gpu_thread BY <2>1 DEF HostInv, CpuInv
  <2>4. ~Moving BY <2>1 DEF HostInv, LockPc, Moving
  <2>5. seen_ptr <= write_ptr /\ read_ptr = boundary[seen_ptr] /\ pp_read_ptr = boundary[write_ptr]
    BY <2>1, <2>3, <2>4 DEF PositionInv
  <2>6. seen_ptr \in Int /\ write_ptr \in Int BY <2>1, Types, BoundsAssumption DEF PointerType
  <2>7. seen_ptr = write_ptr BY <2>2, <2>5, <2>6
  <2> QED BY <2>2, <2>5, <2>7
<1> QED BY <1>1, Invariance, DrainInvariance, PTL

-----------------------------------------------------------------------------
\* Commands that wait do not depend on the time limit of the loop: while the emulation runs,
\* a loop that is done over them is about to be woken (Fifo.cpp:336-365, 502-521, 560).
CommandsAnnounced ==
  CommandsWait /\ m_emu_running_state /\ ~stopping /\ loop = "Done" =>
    IF m_use_deterministic_gpu_thread THEN Due ELSE WakeDue

\* Outside the deterministic mode no command is left to the 100 ms after which the loop looks
\* again (Fifo.cpp:432): not with a Break, and not when SyncGPU holds commands back until
\* the ticks reach the minimum.
THEOREM AnnouncedCorrect == Safety => [](m_use_deterministic_gpu_thread \/ CommandsAnnounced)
<1>1. IInv => m_use_deterministic_gpu_thread \/ CommandsAnnounced
  BY DEF IInv, LoopInv, CommandsAnnounced, CommandsWait
<1> QED BY <1>1, Invariance, PTL

\* Nor, without Break and without a stale payload, in the deterministic mode, while SyncGPU
\* moves the buffer included.  A stale payload appends to a buffer whose reader may be asleep.
THEOREM PreprocessedAnnounced == Safety /\ NoBreak => [](stale_payload \/ CommandsAnnounced)
<1>1. IInv /\ DrainInv => stale_payload \/ CommandsAnnounced
  <2> SUFFICES ASSUME IInv, DrainInv, ~stale_payload, m_use_deterministic_gpu_thread, write_ptr > seen_ptr,
                      m_emu_running_state, loop = "Done"
               PROVE  Due
    BY DEF IInv, LoopInv, CommandsAnnounced, CommandsWait
  <2>1. MoveInv /\ DueInv BY DEF DrainInv
  <2>2. seen_ptr \in Int /\ write_ptr \in Int BY Types, BoundsAssumption DEF IInv, PointerType
  <2>3. ~Moving BY <2>1, <2>2 DEF Moving, MoveInv
  <2>4. seen_ptr < write_ptr BY <2>2
  <2> QED BY <2>1, <2>3, <2>4 DEF DueInv
<1> QED BY <1>1, Invariance, DrainInvariance, PTL

-----------------------------------------------------------------------------
\* Requests.

\* A thread that waits for the answer to its request, outside the deterministic mode, waits
\* for a run of the payload that has not pulled the request yet (Fifo.cpp:325, 502-510;
\* AsyncRequests.cpp): it depends neither on the time limit of the loop nor on commands.
RequestAnnounced ==
  ~m_use_deterministic_gpu_thread =>
    \A t \in {"Cpu", "Host"} :
      pc[t] = "Answer" /\ requests > 0 =>
        loop = "Need" \/ (loop = "Last" /\ pc["Gpu"] \in {"Test", "Pull"})

\* Only the waiting thread could add requests, and Pull takes all of them.
LEMMA RequestStep ==
  ASSUME TypeOK, HostInv, CpuInv, ShutdownInv, RequestAnnounced, Next
  PROVE  RequestAnnounced'
<1> USE DEF vars, runVars, memVars, threadVars, loopVars, cpVars, syncVars, bufferVars, coreVars,
        callVars, localVars, Goto, Call, Return, TypeOK, HostInv, CpuInv, LockPc, ExitPc, ShutdownInv,
        RequestAnnounced
<1>1. CASE GpuStep
  <2>1. CASE GpuTest BY <2>1 DEF GpuTest
  <2>2. CASE PullEvents("Pull", "Present") BY <2>2 DEF PullEvents
  <2>3. CASE RunPausedPresent BY <2>3 DEF RunPausedPresent, WantsPausedPresents
  <2>4. CASE Presented BY <2>4 DEF Presented
  <2>5. CASE StayAwake BY <2>5 DEF StayAwake
  <2>6. CASE PauseTest BY <2>6 DEF PauseTest
  <2>7. CASE LoadSeen BY <2>7 DEF LoadSeen
  <2>8. CASE LoadWrite BY <2>8 DEF LoadWrite
  <2>9. CASE Decode BY <2>9 DEF Decode
  <2>10. CASE SetCPStatusFromGPU("Status", "StatusSet", "While") BY <2>10 DEF SetCPStatusFromGPU
  <2>11. CASE ScheduleInterrupt("StatusSet", "While")
    BY <2>11 DEF ScheduleInterrupt, UpdateInterruptsFromVideoBackend
  <2>12. CASE GpuWhile BY <2>12 DEF GpuWhile
  <2>13. CASE GpuExecute BY <2>13 DEF GpuExecute
  <2>14. CASE SetCPStatusFromGPU("Executed", "ExecutedSet", "Account")
    BY <2>14 DEF SetCPStatusFromGPU
  <2>15. CASE ScheduleInterrupt("ExecutedSet", "Account")
    BY <2>15 DEF ScheduleInterrupt, UpdateInterruptsFromVideoBackend
  <2>16. CASE GpuAccount BY <2>16 DEF GpuAccount
  <2>17. CASE PullEvents("PullAgain", "While") BY <2>17 DEF PullEvents
  <2>18. CASE GpuTail BY <2>18 DEF GpuTail
  <2>19. CASE GpuEnd BY <2>19 DEF GpuEnd
  <2>20. CASE GpuSettle BY <2>20 DEF GpuSettle
  <2>21. CASE ModeTest BY <2>21 DEF ModeTest
  <2> QED
    BY <1>1, <2>1, <2>2, <2>3, <2>4, <2>5, <2>6, <2>7, <2>8, <2>9, <2>10, <2>11, <2>12, <2>13,
       <2>14, <2>15, <2>16, <2>17, <2>18, <2>19, <2>20, <2>21 DEF GpuStep
<1>2. CASE CpuStep
  <2>1. CASE CallRunGpu("Cpu") BY <2>1 DEF CallRunGpu, RunGpu
  <2>2. CASE FlushGpu("Cpu") BY <2>2 DEF FlushGpu
  <2>3. CASE FlushWait("Cpu") BY <2>3 DEF FlushWait
  <2>4. CASE SyncWait("Cpu") BY <2>4 DEF SyncWait, IsDone
  <2>5. CASE SyncMove("Cpu") BY <2>5 DEF SyncMove
  <2>6. CASE SyncSeen("Cpu") BY <2>6 DEF SyncSeen
  <2>7. CASE Answered("Cpu", "Run") BY <2>7 DEF Answered
  <2>8. CASE SetCPStatusFromCPU BY <2>8 DEF SetCPStatusFromCPU
  <2>9. CASE Burst BY <2>9 DEF Burst
  <2>10. CASE SetCpControlRegister BY <2>10 DEF SetCpControlRegister
  <2>11. CASE AddTicks BY <2>11 DEF AddTicks
  <2>12. CASE WaitForGpuThread BY <2>12, WaitFrame
  <2>13. CASE SyncWakeup BY <2>13 DEF SyncWakeup, SyncReturn
  <2>14. CASE RunGpuOnCpu BY <2>14 DEF RunGpuOnCpu, SyncReturn, UpdateInterruptsFromVideoBackend
  <2>15. CASE Preprocess BY <2>15 DEF Preprocess
  <2>16. CASE Preprocessed BY <2>16 DEF Preprocessed
  <2>17. CASE Unpark BY <2>17 DEF Unpark
  <2>18. CASE ExitGpuLoop BY <2>18 DEF ExitGpuLoop
  <2>19. CASE ExitRun BY <2>19 DEF ExitRun
  <2>20. CASE ExitStop BY <2>20 DEF ExitStop
  <2>21. CASE Join BY <2>21 DEF Join
  <2> QED
    BY <1>2, <2>1, <2>2, <2>3, <2>4, <2>5, <2>6, <2>7, <2>8, <2>9, <2>10, <2>11, <2>12, <2>13,
       <2>14, <2>15, <2>16, <2>17, <2>18, <2>19, <2>20, <2>21 DEF CpuStep, CallStep
<1>3. CASE HostStep
  <2>1. CASE CallRunGpu("Host") BY <2>1 DEF CallRunGpu, RunGpu
  <2>2. CASE FlushGpu("Host") BY <2>2 DEF FlushGpu
  <2>3. CASE FlushWait("Host") BY <2>3 DEF FlushWait
  <2>4. CASE SyncWait("Host") BY <2>4 DEF SyncWait, IsDone
  <2>5. CASE SyncMove("Host") BY <2>5 DEF SyncMove
  <2>6. CASE SyncSeen("Host") BY <2>6 DEF SyncSeen
  <2>7. CASE Answered("Host", "Locked") BY <2>7 DEF Answered
  <2>8. CASE Paused BY <2>8 DEF Paused, EmulatorPause, CpuIdle
  <2>9. CASE ResumeWakeup BY <2>9 DEF ResumeWakeup
  <2>10. CASE LockCpu BY <2>10 DEF LockCpu, CpuIdle
  <2>11. CASE LockFifo BY <2>11 DEF LockFifo, EmulatorPause
  <2>12. CASE StopPause BY <2>12 DEF StopPause, EmulatorPause
  <2>13. CASE StopCpu BY <2>13 DEF StopCpu
  <2>14. CASE Stopped BY <2>14 DEF Stopped, EmulatorPause
  <2> QED
    BY <1>3, <2>1, <2>2, <2>3, <2>4, <2>5, <2>6, <2>7, <2>8, <2>9, <2>10, <2>11, <2>12, <2>13,
       <2>14 DEF HostStep, CallStep
<1>4. CASE GameStep
  <2>1. CASE GatherPipeBursted BY <2>1 DEF GatherPipeBursted
  <2>2. CASE Idle BY <2>2 DEF Idle
  <2>3. CASE UpdateInterrupts BY <2>3 DEF UpdateInterrupts
  <2>4. CASE Request BY <2>4 DEF Request, Push
  <2>5. CASE ReadStatus BY <2>5 DEF ReadStatus, RegisterAccess
  <2>6. CASE WriteControl BY <2>6 DEF WriteControl, RegisterAccess
  <2>7. CASE SyncGPUCallback BY <2>7 DEF SyncGPUCallback
  <2>8. CASE Break BY <2>8 DEF Break, EmulatorPause
  <2> QED BY <1>4, <2>1, <2>2, <2>3, <2>4, <2>5, <2>6, <2>7, <2>8 DEF GameStep
<1>5. CASE EndSlice BY <1>5 DEF EndSlice
<1>6. CASE UserStep
  <2>1. CASE Pause BY <2>1 DEF Pause
  <2>2. CASE Resume BY <2>2 DEF Resume, ResumeFrom
  <2>3. CASE Lock BY <2>3 DEF Lock
  <2>4. CASE UpdateWantDeterminism BY <2>4 DEF UpdateWantDeterminism
  <2>5. CASE DoState BY <2>5 DEF DoState, Push
  <2>6. CASE Unlock BY <2>6 DEF Unlock, ResumeFrom
  <2>7. CASE Stop BY <2>7 DEF Stop
  <2> QED BY <1>6, <2>1, <2>2, <2>3, <2>4, <2>5, <2>6, <2>7 DEF UserStep
<1> QED BY <1>1, <1>2, <1>3, <1>4, <1>5, <1>6 DEF Next

\* Outside the deterministic mode a blocking request of the CPU thread, or of a host that saves
\* a state under the lock, is answered by a run of the payload that its Wakeup has asked for,
\* although the emulation may be paused then.
THEOREM RequestsAnnounced == Safety => []RequestAnnounced
<1>1. Init => RequestAnnounced /\ ShutdownInv
  BY DEF Init, RequestAnnounced, ShutdownInv
<1>2. IInv /\ ShutdownInv /\ RequestAnnounced /\ [Next]_vars => (RequestAnnounced /\ ShutdownInv)'
  <2> SUFFICES ASSUME IInv, ShutdownInv, RequestAnnounced, [Next]_vars
               PROVE  (RequestAnnounced /\ ShutdownInv)'
    OBVIOUS
  <2>1. CASE Next
    BY <2>1, RequestStep, ShutdownInvStep, Types DEF IInv
  <2>2. CASE UNCHANGED vars
    BY <2>2 DEF vars, runVars, memVars, bufferVars, loopVars, RequestAnnounced, ShutdownInv
  <2> QED BY <2>1, <2>2
<1> QED BY <1>1, <1>2, Invariance, PTL DEF Safety

-----------------------------------------------------------------------------
\* The contract of the loop.

\* The GPU thread goes through its loop, and its payload may wake it again (Fifo.cpp:329).
LEMMA GpuContract ==
  ASSUME TypeOK, GpuStep
  PROVE  MainLoop!Next \/ UNCHANGED <<loop, GpuPlace>>
<1> USE DEF runVars, memVars, threadVars, loopVars, cpVars, syncVars, bufferVars, coreVars, callVars,
        localVars, Goto, TypeOK, GpuPlace, MainLoop!Next
<1>1. CASE GpuTest BY <1>1 DEF GpuTest, MainLoop!Begin, MainLoop!Quit
<1>2. CASE PullEvents("Pull", "Present") BY <1>2 DEF PullEvents
<1>3. CASE RunPausedPresent BY <1>3 DEF RunPausedPresent, WantsPausedPresents
<1>4. CASE Presented BY <1>4 DEF Presented
<1>5. CASE StayAwake BY <1>5 DEF StayAwake, MainLoop!Wakeup
<1>6. CASE PauseTest BY <1>6 DEF PauseTest, MainLoop!Finish
<1>7. CASE LoadSeen BY <1>7 DEF LoadSeen
<1>8. CASE LoadWrite BY <1>8 DEF LoadWrite, MainLoop!Finish
<1>9. CASE Decode BY <1>9 DEF Decode, MainLoop!Finish
<1>10. CASE SetCPStatusFromGPU("Status", "StatusSet", "While") BY <1>10 DEF SetCPStatusFromGPU
<1>11. CASE ScheduleInterrupt("StatusSet", "While")
  BY <1>11 DEF ScheduleInterrupt, UpdateInterruptsFromVideoBackend
<1>12. CASE GpuWhile BY <1>12 DEF GpuWhile
<1>13. CASE GpuExecute BY <1>13 DEF GpuExecute
<1>14. CASE SetCPStatusFromGPU("Executed", "ExecutedSet", "Account")
  BY <1>14 DEF SetCPStatusFromGPU
<1>15. CASE ScheduleInterrupt("ExecutedSet", "Account")
  BY <1>15 DEF ScheduleInterrupt, UpdateInterruptsFromVideoBackend
<1>16. CASE GpuAccount BY <1>16 DEF GpuAccount
<1>17. CASE PullEvents("PullAgain", "While") BY <1>17 DEF PullEvents
<1>18. CASE GpuTail BY <1>18 DEF GpuTail, MainLoop!Finish
<1>19. CASE GpuEnd BY <1>19 DEF GpuEnd, MainLoop!End
<1>20. CASE GpuSettle BY <1>20 DEF GpuSettle, MainLoop!Settle
<1>21. CASE ModeTest BY <1>21 DEF ModeTest
<1> QED
  BY <1>1, <1>2, <1>3, <1>4, <1>5, <1>6, <1>7, <1>8, <1>9, <1>10, <1>11, <1>12, <1>13,
     <1>14, <1>15, <1>16, <1>17, <1>18, <1>19, <1>20, <1>21 DEF GpuStep

\* The other threads only wake the loop.
LEMMA CallerContract ==
  ASSUME TypeOK, CpuStep \/ HostStep \/ GameStep \/ EndSlice \/ UserStep
  PROVE  loop' \in {loop, "Need"} /\ pc'["Gpu"] = pc["Gpu"]
<1> USE DEF vars, runVars, memVars, threadVars, loopVars, cpVars, syncVars, bufferVars, coreVars,
        callVars, localVars, Goto, Call, Return, TypeOK
<1>1. CASE CpuStep
  <2>1. CASE CallRunGpu("Cpu") BY <2>1 DEF CallRunGpu, RunGpu
  <2>2. CASE FlushGpu("Cpu") BY <2>2 DEF FlushGpu
  <2>3. CASE FlushWait("Cpu") BY <2>3 DEF FlushWait
  <2>4. CASE SyncWait("Cpu") BY <2>4 DEF SyncWait, IsDone
  <2>5. CASE SyncMove("Cpu") BY <2>5 DEF SyncMove
  <2>6. CASE SyncSeen("Cpu") BY <2>6 DEF SyncSeen
  <2>7. CASE Answered("Cpu", "Run") BY <2>7 DEF Answered
  <2>8. CASE SetCPStatusFromCPU BY <2>8 DEF SetCPStatusFromCPU
  <2>9. CASE Burst BY <2>9 DEF Burst
  <2>10. CASE SetCpControlRegister BY <2>10 DEF SetCpControlRegister
  <2>11. CASE AddTicks BY <2>11 DEF AddTicks
  <2>12. CASE WaitForGpuThread BY <2>12, WaitFrame
  <2>13. CASE SyncWakeup BY <2>13 DEF SyncWakeup, SyncReturn
  <2>14. CASE RunGpuOnCpu BY <2>14 DEF RunGpuOnCpu, SyncReturn, UpdateInterruptsFromVideoBackend
  <2>15. CASE Preprocess BY <2>15 DEF Preprocess
  <2>16. CASE Preprocessed BY <2>16 DEF Preprocessed
  <2>17. CASE Unpark BY <2>17 DEF Unpark
  <2>18. CASE ExitGpuLoop BY <2>18 DEF ExitGpuLoop
  <2>19. CASE ExitRun BY <2>19 DEF ExitRun
  <2>20. CASE ExitStop BY <2>20 DEF ExitStop
  <2>21. CASE Join BY <2>21 DEF Join
  <2> QED
    BY <1>1, <2>1, <2>2, <2>3, <2>4, <2>5, <2>6, <2>7, <2>8, <2>9, <2>10, <2>11, <2>12, <2>13,
       <2>14, <2>15, <2>16, <2>17, <2>18, <2>19, <2>20, <2>21 DEF CpuStep, CallStep
<1>2. CASE HostStep
  <2>1. CASE CallRunGpu("Host") BY <2>1 DEF CallRunGpu, RunGpu
  <2>2. CASE FlushGpu("Host") BY <2>2 DEF FlushGpu
  <2>3. CASE FlushWait("Host") BY <2>3 DEF FlushWait
  <2>4. CASE SyncWait("Host") BY <2>4 DEF SyncWait, IsDone
  <2>5. CASE SyncMove("Host") BY <2>5 DEF SyncMove
  <2>6. CASE SyncSeen("Host") BY <2>6 DEF SyncSeen
  <2>7. CASE Answered("Host", "Locked") BY <2>7 DEF Answered
  <2>8. CASE Paused BY <2>8 DEF Paused, EmulatorPause, CpuIdle
  <2>9. CASE ResumeWakeup BY <2>9 DEF ResumeWakeup
  <2>10. CASE LockCpu BY <2>10 DEF LockCpu, CpuIdle
  <2>11. CASE LockFifo BY <2>11 DEF LockFifo, EmulatorPause
  <2>12. CASE StopPause BY <2>12 DEF StopPause, EmulatorPause
  <2>13. CASE StopCpu BY <2>13 DEF StopCpu
  <2>14. CASE Stopped BY <2>14 DEF Stopped, EmulatorPause
  <2> QED
    BY <1>2, <2>1, <2>2, <2>3, <2>4, <2>5, <2>6, <2>7, <2>8, <2>9, <2>10, <2>11, <2>12, <2>13,
       <2>14 DEF HostStep, CallStep
<1>3. CASE GameStep
  <2>1. CASE GatherPipeBursted BY <2>1 DEF GatherPipeBursted
  <2>2. CASE Idle BY <2>2 DEF Idle
  <2>3. CASE UpdateInterrupts BY <2>3 DEF UpdateInterrupts
  <2>4. CASE Request BY <2>4 DEF Request, Push
  <2>5. CASE ReadStatus BY <2>5 DEF ReadStatus, RegisterAccess
  <2>6. CASE WriteControl BY <2>6 DEF WriteControl, RegisterAccess
  <2>7. CASE SyncGPUCallback BY <2>7 DEF SyncGPUCallback
  <2>8. CASE Break BY <2>8 DEF Break, EmulatorPause
  <2> QED BY <1>3, <2>1, <2>2, <2>3, <2>4, <2>5, <2>6, <2>7, <2>8 DEF GameStep
<1>4. CASE EndSlice BY <1>4 DEF EndSlice
<1>5. CASE UserStep
  <2>1. CASE Pause BY <2>1 DEF Pause
  <2>2. CASE Resume BY <2>2 DEF Resume, ResumeFrom
  <2>3. CASE Lock BY <2>3 DEF Lock
  <2>4. CASE UpdateWantDeterminism BY <2>4 DEF UpdateWantDeterminism
  <2>5. CASE DoState BY <2>5 DEF DoState, Push
  <2>6. CASE Unlock BY <2>6 DEF Unlock, ResumeFrom
  <2>7. CASE Stop BY <2>7 DEF Stop
  <2> QED BY <1>5, <2>1, <2>2, <2>3, <2>4, <2>5, <2>6, <2>7 DEF UserStep
<1> QED BY <1>1, <1>2, <1>3, <1>4, <1>5

LEMMA ContractStep == TypeOK /\ [Next]_vars => [MainLoop!Next]_<<loop, GpuPlace>>
<1> SUFFICES ASSUME TypeOK, [Next]_vars PROVE [MainLoop!Next]_<<loop, GpuPlace>>
  OBVIOUS
<1>1. CASE GpuStep BY <1>1, GpuContract
<1>2. CASE CpuStep \/ HostStep \/ GameStep \/ EndSlice \/ UserStep
  <2>1. loop' \in {loop, "Need"} /\ GpuPlace' = GpuPlace
    BY <1>2, CallerContract DEF GpuPlace
  <2> QED BY <2>1 DEF MainLoop!Next, MainLoop!Wakeup
<1>3. CASE UNCHANGED vars BY <1>3 DEF vars, runVars, loopVars, GpuPlace
<1> QED BY <1>1, <1>2, <1>3 DEF Next

\* The FIFO's use of its loop is a use of LoopContract, which BlockingLoop implements
\* (ContractCorrect of BlockingLoopProofs): FlushGpu, SyncGPU and PauseAndLock never see the
\* loop done before BlockingLoop would let them (Fifo.cpp:183, 441).
THEOREM LoopUsedCorrectly == Safety => UsesContract
<1> QED BY TypeCorrect, ContractStep, PTL DEF Safety, UsesContract

=============================================================================
