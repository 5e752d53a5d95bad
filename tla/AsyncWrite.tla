----------------------------- MODULE AsyncWrite -----------------------------
(***************************************************************************)
(* The asynchronous whole-file writer of the guest's save files            *)
(* (host_vita_async_write.c) as the CRT uses it: the guest thread keeps a  *)
(* "wb" save as a memory image in one lane of a fixed arena; fclose queues *)
(* the image for one worker thread; every operation on a path first waits  *)
(* for the jobs on that path.                                              *)
(*                                                                         *)
(* Two threads, "guest" and "worker".  A critical section of s_lock is one *)
(* action; native open and native write are steps of their own.  Time is   *)
(* counted in the 2 s windows of a wait.                                   *)
(***************************************************************************)
EXTENDS Integers, FiniteSets

CONSTANTS
  Paths,          \* save files below the Documents root
  Files,          \* slots of the CRT's FILE token table
  LaneCount,      \* ISAAC_VITA_ASYNC_WRITE_LANE_COUNT
  QueueCapacity,  \* ISAAC_VITA_ASYNC_WRITE_QUEUE_CAPACITY
  TimeoutsMax,    \* ASYNC_WRITE_WAIT_TIMEOUTS_MAX
  SequenceMod,    \* 2^32: job sequence numbers wrap
  WakeMax,        \* maximum count of the wake semaphore (1024)
  MaxOpens,       \* bound: number of saves the guest starts
  MayTimeOut,     \* TRUE: a wait window may pass before the worker answers
  IoMayFail,      \* TRUE: native open and write may fail
  StartMayFail,   \* TRUE: the arena or the worker may fail to start
  NoPath, AllPaths, NoFile, Absent, Empty, Torn

ASSUME AsyncWriteAssumption ==
  /\ LaneCount \in Nat \ {0} /\ QueueCapacity \in Nat \ {0}
  /\ TimeoutsMax \in Nat /\ MaxOpens \in Nat /\ WakeMax \in Nat \ {0}
  /\ SequenceMod \in Nat /\ SequenceMod > 2 * (QueueCapacity - 1)
  /\ NoPath \notin Paths /\ AllPaths \notin Paths /\ NoFile \notin Files

Lanes    == 0 .. LaneCount - 1
Slots    == 1 .. QueueCapacity
Contents == 1 .. MaxOpens            \* the n-th save writes content n
Threads  == {"guest", "worker"}
NoSlot   == 0

VARIABLES
  jobs,         \* s_jobs
  laneBusy,     \* s_lane_busy, as the set of busy lanes
  arena,        \* what each lane of the arena holds
  arenaState,   \* s_arena, s_arena_failed: "unreserved", "ready" or "failed"
  file,         \* the CRT's FILE tokens: closed, image, native, closing
  disk,         \* the files on the card; Torn is neither old nor new
  workerState,  \* s_stats.worker_state
  shutdown,     \* s_shutdown
  stop,         \* s_stop
  sequence,     \* s_sequence
  wake,         \* count of s_wake_sema
  doneFlag,     \* bit of s_done_flag
  at,           \* where each thread is
  run,          \* the job slot each thread performs; NoSlot: the guest's own image
  op,           \* the guest's operation, continued when its wait returns
  elapsed,      \* 2 s windows since async_wait's begin
  opens,        \* number of saves started
  acked         \* history: content the guest was told each path has

jobVars    == <<jobs, laneBusy, arena, arenaState>>
workerVars == <<workerState, shutdown, stop, sequence, wake, doneFlag>>
vars == <<jobs, laneBusy, arena, arenaState, file, disk, workerState, shutdown,
          stop, sequence, wake, doneFlag, at, run, op, elapsed, opens, acked>>

-----------------------------------------------------------------------------
EmptyJob   == [state |-> "EMPTY", path |-> NoPath, lane |-> 0, size |-> 0, seq |-> 0]
ClosedFile == [kind |-> "closed", path |-> NoPath, lane |-> 0, size |-> 0,
               id |-> 0, error |-> 0]
NoOp       == [kind |-> "none", file |-> NoFile, path |-> NoPath]

Unfinished(s) == jobs[s].state \in {"PENDING", "RUNNING"}

(* Mutants.  A definition whose name ends in the fault it plants is the    *)
(* definition after it with a plausible bug; no specification uses it.     *)
Busy_IgnoresRunning(path) ==
  \E s \in Slots : jobs[s].state = "PENDING" /\ path \in {AllPaths, jobs[s].path}

(* async_busy_locked: a queued or running job on the path (AllPaths: NULL) *)
Busy(path) == \E s \in Slots : Unfinished(s) /\ path \in {AllPaths, jobs[s].path}

(* (int32_t)(a - b) < 0: sequence a was issued before b                    *)
Before(a, b) == a # b /\ 2 * ((a - b) % SequenceMod) >= SequenceMod

OldestPending_ForgetsWrap(s) ==
  /\ jobs[s].state = "PENDING"
  /\ \A r \in Slots : jobs[r].state = "PENDING" => jobs[s].seq <= jobs[r].seq

OldestPending_TakesRunning(s) ==
  Unfinished(s) /\ \A r \in Slots : Unfinished(r) => ~Before(jobs[r].seq, jobs[s].seq)

(* async_take_pending_locked chooses the oldest PENDING job                *)
OldestPending(s) ==
  /\ jobs[s].state = "PENDING"
  /\ \A r \in Slots : jobs[r].state = "PENDING" => ~Before(jobs[r].seq, jobs[s].seq)

(* async_reclaim_locked frees the lanes and the slots of DONE jobs         *)
LanesAfterReclaim_FreesRunning ==
  laneBusy \ {jobs[s].lane : s \in {r \in Slots : jobs[r].state \in {"RUNNING", "DONE"}}}

Reclaimed  == [s \in Slots |-> IF jobs[s].state = "DONE" THEN EmptyJob ELSE jobs[s]]
LanesAfterReclaim == laneBusy \ {jobs[s].lane : s \in {r \in Slots : jobs[r].state = "DONE"}}

Lowest(S, x)  == x \in S /\ \A y \in S : x <= y

(* The path, lane and size that thread t performs a native write for:      *)
(* those of its job, or of the image the guest is closing itself.          *)
Job(t) == IF run[t] = NoSlot THEN file[op.file] ELSE jobs[run[t]]

(* After the join the semaphore and the event flag are deleted; a wait on  *)
(* them returns at once and a signal is lost.                              *)
Deleted == shutdown = 1 /\ at["guest"] # "join"

Goto(t, l) == at' = [at EXCEPT ![t] = l]

Init ==
  /\ jobs = [s \in Slots |-> EmptyJob]
  /\ laneBusy = {} /\ arena = [l \in Lanes |-> 0] /\ arenaState = "unreserved"
  /\ file = [f \in Files |-> ClosedFile]
  /\ disk = [p \in Paths |-> Absent] /\ acked = [p \in Paths |-> Absent]
  /\ workerState = "COLD" /\ shutdown = 0 /\ stop = 0
  /\ sequence = 0 /\ wake = 0 /\ doneFlag = 0
  /\ at = [t \in Threads |-> IF t = "guest" THEN "idle" ELSE "cold"]
  /\ run = [t \in Threads |-> NoSlot] /\ op = NoOp /\ elapsed = 0 /\ opens = 0

-----------------------------------------------------------------------------
(* Operations of the guest.                                                *)

StartWait_Skipped(o) == op' = o /\ elapsed' = 0 /\ Goto("guest", "resume")

(* sync_path and drain: nothing to wait for while the worker is COLD       *)
StartWait(o) ==
  /\ op' = o /\ elapsed' = 0
  /\ Goto("guest", IF workerState = "COLD" THEN "resume" ELSE "poll")

(* The guest opens a save only while no other handle of it is open.        *)
Fopen(f, p) ==
  /\ at["guest"] = "idle" /\ opens < MaxOpens
  /\ file[f].kind = "closed" /\ \A g \in Files : file[g].path # p
  /\ StartWait([kind |-> "fopen", file |-> f, path |-> p])
  /\ opens' = opens + 1
  /\ UNCHANGED <<jobVars, workerVars, file, disk, run, acked>>

Read(p) ==         \* fopen for reading, _access, GetFileAttributesA
  /\ at["guest"] = "idle"
  /\ StartWait([kind |-> "read", file |-> NoFile, path |-> p])
  /\ UNCHANGED <<jobVars, workerVars, file, disk, run, opens, acked>>

Remove(p) ==
  /\ at["guest"] = "idle" /\ \A g \in Files : file[g].path # p
  /\ StartWait([kind |-> "remove", file |-> NoFile, path |-> p])
  /\ UNCHANGED <<jobVars, workerVars, file, disk, run, opens, acked>>

Scan ==            \* FindFirstFileW drains the queue
  /\ at["guest"] = "idle"
  /\ StartWait([kind |-> "scan", file |-> NoFile, path |-> AllPaths])
  /\ UNCHANGED <<jobVars, workerVars, file, disk, run, opens, acked>>

Shutdown ==
  /\ at["guest"] = "idle" /\ shutdown = 0
  /\ StartWait([kind |-> "shutdown", file |-> NoFile, path |-> AllPaths])
  /\ UNCHANGED <<jobVars, workerVars, file, disk, run, opens, acked>>

Fwrite(f) ==
  /\ at["guest"] = "idle" /\ file[f].kind \in {"image", "native"} /\ file[f].size = 0
  /\ file' = [file EXCEPT ![f].size = 1]
  /\ arena' = IF file[f].kind = "image"
                THEN [arena EXCEPT ![file[f].lane] = file[f].id] ELSE arena
  /\ UNCHANGED <<jobs, laneBusy, arenaState, workerVars, disk, at, run, op, elapsed, opens, acked>>

(* A write past the lane's capacity, or a read of the "wb" stream          *)
FwriteError(f) ==
  /\ at["guest"] = "idle" /\ file[f].kind = "image" /\ file[f].error = 0
  /\ file' = [file EXCEPT ![f].error = 1]
  /\ UNCHANGED <<jobVars, workerVars, disk, at, run, op, elapsed, opens, acked>>

-----------------------------------------------------------------------------
(* fclose                                                                  *)

FcloseError(f) ==
  /\ at["guest"] = "idle" /\ file[f].kind = "image" /\ file[f].error = 1
  /\ laneBusy' = laneBusy \ {file[f].lane}
  /\ file' = [file EXCEPT ![f] = ClosedFile]
  /\ UNCHANGED <<jobs, arena, arenaState, workerVars, disk, at, run, op, elapsed, opens, acked>>

FcloseNative(f) ==
  /\ at["guest"] = "idle" /\ file[f].kind = "native"
  /\ LET c == IF file[f].size = 0 THEN Empty ELSE file[f].id IN
       /\ disk'  = [disk EXCEPT ![file[f].path] = c]
       /\ acked' = [acked EXCEPT ![file[f].path] = c]
  /\ file' = [file EXCEPT ![f] = ClosedFile]
  /\ UNCHANGED <<jobVars, workerVars, at, run, op, elapsed, opens>>

(* async_worker_ready: the first close starts the worker, once             *)
WorkerStarted(r) ==
  \/ workerState # "COLD" /\ r = workerState
  \/ workerState = "COLD" /\ shutdown = 1 /\ r = "COLD"
  \/ workerState = "COLD" /\ shutdown = 0 /\ r = "READY"
  \/ workerState = "COLD" /\ shutdown = 0 /\ StartMayFail /\ r = "FAILED"

EmptySlots == {s \in Slots : Reclaimed[s].state = "EMPTY"}

(* The image goes to the first EMPTY slot; the semaphore is signalled after *)
FcloseQueue(f) ==
  /\ at["guest"] = "idle" /\ file[f].kind = "image" /\ file[f].error = 0
  /\ WorkerStarted("READY") /\ workerState' = "READY"
  /\ \E s \in Slots :
       /\ Lowest(EmptySlots, s)
       /\ jobs' = [Reclaimed EXCEPT ![s] =
            [state |-> "PENDING", path |-> file[f].path, lane |-> file[f].lane,
             size |-> file[f].size, seq |-> (sequence + 1) % SequenceMod]]
  /\ sequence' = (sequence + 1) % SequenceMod
  /\ laneBusy' = LanesAfterReclaim
  /\ acked' = [acked EXCEPT ![file[f].path] = IF file[f].size = 0 THEN Empty ELSE file[f].id]
  /\ file' = [file EXCEPT ![f] = ClosedFile]
  /\ at' = [at EXCEPT !["guest"] = "signal",
                      !["worker"] = IF workerState = "COLD" THEN "sema" ELSE @]
  /\ UNCHANGED <<arena, arenaState, shutdown, stop, wake, doneFlag, disk, run, op, elapsed, opens>>

SignalWake_Forgotten ==
  /\ at["guest"] = "signal" /\ Goto("guest", "idle")
  /\ UNCHANGED <<jobVars, workerVars, file, disk, run, op, elapsed, opens, acked>>

SignalWake ==
  /\ at["guest"] = "signal"
  /\ wake' = IF wake < WakeMax THEN wake + 1 ELSE wake
  /\ Goto("guest", "idle")
  /\ UNCHANGED <<jobVars, workerState, shutdown, stop, sequence, doneFlag, file, disk,
                 run, op, elapsed, opens, acked>>

(* No worker, or no EMPTY slot: async_synchronous waits for the path and   *)
(* then writes the image on the guest thread.                              *)
FcloseSynchronous(f) ==
  /\ at["guest"] = "idle" /\ file[f].kind = "image" /\ file[f].error = 0
  /\ \/ \E r \in {"COLD", "FAILED", "STOPPED"} :
          WorkerStarted(r) /\ workerState' = r /\ UNCHANGED <<jobs, laneBusy>>
     \/ /\ workerState = "READY" /\ EmptySlots = {} /\ UNCHANGED workerState
        /\ jobs' = Reclaimed /\ laneBusy' = LanesAfterReclaim
  /\ file' = [file EXCEPT ![f].kind = "closing"]
  /\ op' = [kind |-> "fclose", file |-> f, path |-> file[f].path]
  /\ elapsed' = 0 /\ Goto("guest", "poll")
  /\ UNCHANGED <<arena, arenaState, shutdown, stop, sequence, wake, doneFlag, disk, run,
                 opens, acked>>

-----------------------------------------------------------------------------
(* async_wait                                                              *)

Poll ==
  /\ at["guest"] = "poll"
  /\ jobs' = Reclaimed /\ laneBusy' = LanesAfterReclaim
  /\ Goto("guest", IF ~Busy(op.path) THEN "resume"
                   ELSE IF workerState = "FAILED" THEN "rescue" ELSE "step")
  /\ UNCHANGED <<arena, arenaState, workerVars, file, disk, run, op, elapsed, opens, acked>>

(* async_wait_step: the flag is set (and cleared) sooner or later in the   *)
(* window, or the window passes in silence                                 *)
StepAnswered ==
  /\ at["guest"] = "step" /\ doneFlag = 1
  /\ doneFlag' = 0 /\ Goto("guest", "poll")
  /\ \/ UNCHANGED elapsed
     \/ MayTimeOut /\ elapsed < TimeoutsMax /\ elapsed' = elapsed + 1
  /\ UNCHANGED <<jobVars, workerState, shutdown, stop, sequence, wake, file, disk, run, op,
                 opens, acked>>

StepTimedOut ==
  /\ at["guest"] = "step" /\ MayTimeOut /\ doneFlag = 0
  /\ elapsed' = elapsed + 1 /\ Goto("guest", "rescue")
  /\ UNCHANGED <<jobVars, workerVars, file, disk, run, op, opens, acked>>

RescuePending ==
  /\ at["guest"] = "rescue"
  /\ \E s \in Slots : /\ OldestPending(s)
                      /\ jobs' = [jobs EXCEPT ![s].state = "RUNNING"]
                      /\ run' = [run EXCEPT !["guest"] = s]
  /\ elapsed' = IF workerState = "FAILED" THEN elapsed ELSE 0
  /\ Goto("guest", "open")
  /\ UNCHANGED <<laneBusy, arena, arenaState, workerVars, file, disk, op, opens, acked>>

RescueNothing_RenewsBudget ==
  /\ at["guest"] = "rescue" /\ \A s \in Slots : jobs[s].state # "PENDING"
  /\ elapsed' = 0 /\ Goto("guest", IF workerState = "FAILED" THEN "resume" ELSE "poll")
  /\ UNCHANGED <<jobVars, workerVars, file, disk, run, op, opens, acked>>

(* Nothing to rescue: a FAILED worker is not waited for; a silent one is    *)
(* declared FAILED once the budget is spent.                               *)
RescueNothing ==
  /\ at["guest"] = "rescue" /\ \A s \in Slots : jobs[s].state # "PENDING"
  /\ LET spent == workerState = "FAILED" \/ elapsed >= TimeoutsMax IN
       /\ workerState' = IF spent THEN "FAILED" ELSE workerState
       /\ Goto("guest", IF spent THEN "resume" ELSE "poll")
  /\ UNCHANGED <<jobVars, shutdown, stop, sequence, wake, doneFlag, file, disk, run, op,
                 elapsed, opens, acked>>

-----------------------------------------------------------------------------
(* The wait is over: the rest of the operation.                            *)

Done == Goto("guest", "idle") /\ op' = NoOp /\ elapsed' = 0

(* image_open: reclaim, reserve the arena once, take the lowest free lane  *)
ResumeFopenImage ==
  /\ at["guest"] = "resume" /\ op.kind = "fopen" /\ arenaState # "failed"
  /\ arenaState' = "ready" /\ jobs' = Reclaimed
  /\ \E l \in Lanes :
       /\ Lowest(Lanes \ LanesAfterReclaim, l)
       /\ laneBusy' = LanesAfterReclaim \cup {l}
       /\ file' = [file EXCEPT ![op.file] = [kind |-> "image", path |-> op.path, lane |-> l,
                                             size |-> 0, id |-> opens, error |-> 0]]
  /\ Done
  /\ UNCHANGED <<arena, workerVars, disk, run, opens, acked>>

(* No lane or no arena: the native stream, which truncates the file        *)
ResumeFopenNative ==
  /\ at["guest"] = "resume" /\ op.kind = "fopen"
  /\ jobs' = Reclaimed /\ laneBusy' = LanesAfterReclaim
  /\ \/ arenaState' = "failed" /\ (arenaState = "failed" \/ (arenaState = "unreserved" /\ StartMayFail))
     \/ arenaState' = arenaState /\ arenaState = "ready" /\ Lanes \subseteq LanesAfterReclaim
  /\ file' = [file EXCEPT ![op.file] = [kind |-> "native", path |-> op.path, lane |-> 0,
                                        size |-> 0, id |-> opens, error |-> 0]]
  /\ disk' = [disk EXCEPT ![op.path] = Empty] /\ acked' = [acked EXCEPT ![op.path] = Empty]
  /\ Done
  /\ UNCHANGED <<arena, workerVars, run, opens>>

ResumeRead ==
  /\ at["guest"] = "resume" /\ op.kind \in {"read", "scan"}
  /\ Done
  /\ UNCHANGED <<jobVars, workerVars, file, disk, run, opens, acked>>

ResumeRemove ==
  /\ at["guest"] = "resume" /\ op.kind = "remove"
  /\ disk' = [disk EXCEPT ![op.path] = Absent] /\ acked' = [acked EXCEPT ![op.path] = Absent]
  /\ Done
  /\ UNCHANGED <<jobVars, workerVars, file, run, opens>>

ResumeSynchronous ==
  /\ at["guest"] = "resume" /\ op.kind = "fclose"
  /\ Goto("guest", "open")
  /\ UNCHANGED <<jobVars, workerVars, file, disk, run, op, elapsed, opens, acked>>

(* shutdown after its drain: stop the worker if one was started            *)
ResumeShutdown ==
  /\ at["guest"] = "resume" /\ op.kind = "shutdown"
  /\ shutdown' = 1
  /\ IF at["worker"] = "cold" THEN UNCHANGED <<stop, wake>>
                              ELSE stop' = 1 /\ wake' = IF wake < WakeMax THEN wake + 1 ELSE wake
  /\ Goto("guest", "join")
  /\ UNCHANGED <<jobVars, workerState, sequence, doneFlag, file, disk, run, op, elapsed, opens, acked>>

(* sceKernelWaitThreadEnd with a timeout, then the objects are deleted     *)
Join ==
  /\ at["guest"] = "join"
  /\ at["worker"] \in {"cold", "exited"} \/ MayTimeOut
  /\ jobs' = Reclaimed /\ laneBusy' = LanesAfterReclaim
  /\ workerState' = IF workerState = "READY" THEN "STOPPED" ELSE workerState
  /\ wake' = 0 /\ doneFlag' = 0
  /\ Done
  /\ UNCHANGED <<arena, arenaState, shutdown, stop, sequence, file, disk, run, opens, acked>>

-----------------------------------------------------------------------------
(* async_write_perform and async_run_job, on either thread                 *)

NativeOpen(t) ==       \* O_TRUNC
  /\ at[t] = "open"
  /\ \/ /\ disk' = [disk EXCEPT ![Job(t).path] = IF Job(t).size = 0 THEN Empty ELSE Torn]
        /\ Goto(t, IF Job(t).size = 0 THEN "publish" ELSE "write")
     \/ IoMayFail /\ UNCHANGED disk /\ Goto(t, "publish")
  /\ UNCHANGED <<jobVars, workerVars, file, run, op, elapsed, opens, acked>>

NativeWrite(t) ==      \* the whole write loop, and the close
  /\ at[t] = "write"
  /\ \/ disk' = [disk EXCEPT ![Job(t).path] = arena[Job(t).lane]]
     \/ IoMayFail /\ disk' = [disk EXCEPT ![Job(t).path] = Torn]
  /\ Goto(t, "publish")
  /\ UNCHANGED <<jobVars, workerVars, file, run, op, elapsed, opens, acked>>

PublishJob(t) ==
  /\ at[t] = "publish" /\ run[t] # NoSlot
  /\ jobs' = [jobs EXCEPT ![run[t]].state = "DONE"]
  /\ run' = [run EXCEPT ![t] = NoSlot]
  /\ Goto(t, IF t = "guest" THEN "poll" ELSE "signal")
  /\ UNCHANGED <<laneBusy, arena, arenaState, workerVars, file, disk, op, elapsed, opens, acked>>

PublishSynchronous_LeaksLane ==
  /\ at["guest"] = "publish" /\ run["guest"] = NoSlot
  /\ acked' = [acked EXCEPT ![op.path] =
                 IF file[op.file].size = 0 THEN Empty ELSE file[op.file].id]
  /\ file' = [file EXCEPT ![op.file] = ClosedFile]
  /\ Done
  /\ UNCHANGED <<jobVars, workerVars, disk, run, opens>>

PublishSynchronous ==  \* the image written by the guest itself: fclose returns 0
  /\ at["guest"] = "publish" /\ run["guest"] = NoSlot
  /\ laneBusy' = laneBusy \ {file[op.file].lane}
  /\ acked' = [acked EXCEPT ![op.path] =
                 IF file[op.file].size = 0 THEN Empty ELSE file[op.file].id]
  /\ file' = [file EXCEPT ![op.file] = ClosedFile]
  /\ Done
  /\ UNCHANGED <<jobs, arena, arenaState, workerVars, disk, run, opens>>

-----------------------------------------------------------------------------
(* The worker: async_write_worker                                          *)

WorkerWait ==
  /\ at["worker"] = "sema" /\ (wake > 0 \/ Deleted)
  /\ wake' = IF wake > 0 THEN wake - 1 ELSE 0
  /\ Goto("worker", IF stop = 1 THEN "exited" ELSE "take")
  /\ UNCHANGED <<jobVars, workerState, shutdown, stop, sequence, doneFlag, file, disk, run, op,
                 elapsed, opens, acked>>

WorkerTake ==
  /\ at["worker"] = "take"
  /\ \E s \in Slots : /\ OldestPending(s)
                      /\ jobs' = [jobs EXCEPT ![s].state = "RUNNING"]
                      /\ run' = [run EXCEPT !["worker"] = s]
  /\ Goto("worker", "open")
  /\ UNCHANGED <<laneBusy, arena, arenaState, workerVars, file, disk, op, elapsed, opens, acked>>

WorkerIdle ==
  /\ at["worker"] = "take" /\ \A s \in Slots : jobs[s].state # "PENDING"
  /\ Goto("worker", "sema")
  /\ UNCHANGED <<jobVars, workerVars, file, disk, run, op, elapsed, opens, acked>>

WorkerSignal ==
  /\ at["worker"] = "signal"
  /\ doneFlag' = IF Deleted THEN 0 ELSE 1
  /\ Goto("worker", "take")
  /\ UNCHANGED <<jobVars, workerState, shutdown, stop, sequence, wake, file, disk, run, op,
                 elapsed, opens, acked>>

-----------------------------------------------------------------------------
(* The guest program chooses its next call ...                             *)
GuestCalls ==
  \/ \E f \in Files, p \in Paths : Fopen(f, p)
  \/ \E p \in Paths : Read(p) \/ Remove(p)
  \/ Scan \/ Shutdown
  \/ \E f \in Files : \/ Fwrite(f) \/ FwriteError(f)
                      \/ FcloseError(f) \/ FcloseNative(f)
                      \/ FcloseQueue(f) \/ FcloseSynchronous(f)

(* ... and then runs until the call returns.                               *)
GuestContinues ==
  \/ SignalWake \/ Poll \/ StepAnswered \/ StepTimedOut \/ RescuePending \/ RescueNothing
  \/ ResumeFopenImage \/ ResumeFopenNative \/ ResumeRead \/ ResumeRemove
  \/ ResumeSynchronous \/ ResumeShutdown \/ Join
  \/ NativeOpen("guest") \/ NativeWrite("guest") \/ PublishJob("guest") \/ PublishSynchronous

Worker ==
  \/ WorkerWait \/ WorkerTake \/ WorkerIdle \/ WorkerSignal
  \/ NativeOpen("worker") \/ NativeWrite("worker") \/ PublishJob("worker")

Next == GuestCalls \/ GuestContinues \/ Worker

Spec == Init /\ [][Next]_vars

(* The guest thread is always scheduled; the worker answers, too, unless a *)
(* native write wedges it.                                                 *)
GuestFairSpec == Spec /\ WF_vars(GuestContinues)
FairSpec      == GuestFairSpec /\ WF_vars(Worker)

-----------------------------------------------------------------------------
(* Properties                                                              *)

JobType  == [state : {"EMPTY", "PENDING", "RUNNING", "DONE"}, path : Paths \cup {NoPath},
             lane : Lanes, size : 0 .. 1, seq : 0 .. SequenceMod - 1]
FileType == [kind : {"closed", "image", "native", "closing"}, path : Paths \cup {NoPath},
             lane : Lanes, size : 0 .. 1, id : 0 .. MaxOpens, error : 0 .. 1]
OpType   == [kind : {"none", "fopen", "read", "remove", "scan", "shutdown", "fclose"},
             file : Files \cup {NoFile}, path : Paths \cup {NoPath, AllPaths}]
GuestAt  == {"idle", "signal", "poll", "step", "rescue", "resume", "open", "write",
             "publish", "join"}
WorkerAt == {"cold", "sema", "take", "open", "write", "publish", "signal", "exited"}
OnDisk   == 0 .. MaxOpens \cup {Absent, Empty, Torn}

TypeOK ==
  /\ jobs \in [Slots -> JobType]
  /\ laneBusy \subseteq Lanes /\ arena \in [Lanes -> 0 .. MaxOpens]
  /\ arenaState \in {"unreserved", "ready", "failed"}
  /\ file \in [Files -> FileType]
  /\ disk \in [Paths -> OnDisk] /\ acked \in [Paths -> OnDisk]
  /\ workerState \in {"COLD", "READY", "FAILED", "STOPPED"}
  /\ shutdown \in 0 .. 1 /\ stop \in 0 .. 1 /\ doneFlag \in 0 .. 1
  /\ sequence \in 0 .. SequenceMod - 1 /\ wake \in 0 .. WakeMax
  /\ at \in [Threads -> GuestAt \cup WorkerAt]
  /\ at["guest"] \in GuestAt /\ at["worker"] \in WorkerAt
  /\ run \in [Threads -> Slots \cup {NoSlot}]
  /\ op \in OpType /\ elapsed \in Nat /\ opens \in 0 .. MaxOpens

(* Every busy lane has exactly one owner, an open image or a live job, and *)
(* every owner's lane is busy: no lane leaks over error closes, reclaims,  *)
(* rescues and the fallback, and none is handed out twice.                 *)
ImageFiles == {f \in Files : file[f].kind \in {"image", "closing"}}
LiveJobs   == {s \in Slots : jobs[s].state # "EMPTY"}
LaneOwnership ==
  /\ \A f, g \in ImageFiles : f # g => file[f].lane # file[g].lane
  /\ \A s, r \in LiveJobs : s # r => jobs[s].lane # jobs[r].lane
  /\ \A f \in ImageFiles, s \in LiveJobs : file[f].lane # jobs[s].lane
  /\ laneBusy = {file[f].lane : f \in ImageFiles} \cup {jobs[s].lane : s \in LiveJobs}

(* A job is performed by one thread at a time: the guest's rescue never    *)
(* takes what the worker runs, and a RUNNING job has a thread behind it.   *)
OneRunner ==
  /\ run["guest"] # NoSlot => run["guest"] # run["worker"]
  /\ \A s \in Slots : jobs[s].state = "RUNNING" <=> \E t \in Threads : run[t] = s

(* The image of a queued or running job never changes before it is DONE:   *)
(* the worker reads the lane without the lock.                             *)
ImageFrozen ==
  [][\A s \in Slots : Unfinished(s) => arena'[jobs[s].lane] = arena[jobs[s].lane]]_vars

(* "a later read always observes the completed file": when the wait of a   *)
(* read or a directory scan returns, the card holds what fclose (or fopen, *)
(* or remove) last told the guest.                                         *)
ReadYourWrites ==
  at["guest"] = "resume" /\ op.kind \in {"read", "scan", "shutdown"}
    => \A p \in Paths : op.path \in {p, AllPaths} => disk[p] = acked[p]

(* The writer finishes the jobs in the order the guest closed them, across *)
(* paths: whenever the process dies, the files on the card are those of a  *)
(* prefix of the guest's saves.                                            *)
FinishInOrder ==
  [][\A s, r \in Slots : jobs[s].state = "RUNNING" /\ jobs'[s].state = "DONE" /\ Unfinished(r)
                           => ~Before(jobs[r].seq, jobs[s].seq)]_vars

(* A worker is declared FAILED only once nothing is queued, so what is     *)
(* left is at most the one job it never returned from.                     *)
FailedHasNoPending ==
  workerState = "FAILED" => \A s \in Slots : jobs[s].state # "PENDING"

(* "the previous on-disk file stays intact": a read whose wait abandoned   *)
(* the worker finds the previous file or the new one, never half of it.    *)
AbandonKeepsPrevious ==
  workerState = "FAILED" /\ at["guest"] = "resume" /\ op.kind = "read" => disk[op.path] # Torn

(* "Keep same-path ordering even on the fallback lane", and an fclose that *)
(* returned 0 has written its image: with every write finished, a file     *)
(* holds the image that was closed last.                                   *)
LastCloseWins ==
  at["guest"] = "idle" /\ at["worker"] \in {"cold", "sema", "exited"} /\ ~Busy(AllPaths)
    => \A p \in Paths : acked[p] \in Contents => disk[p] = acked[p]

(* Every call of the guest returns, whatever the worker does.              *)
GuestReturns == []<>(at["guest"] = "idle")

(* A queued save reaches the card without any further call of the guest.   *)
QueuedIsWritten == \A s \in Slots : jobs[s].state = "PENDING" ~> jobs[s].state # "PENDING"

-----------------------------------------------------------------------------
(* Refinement.  A path's file is the image of its unfinished job, or else  *)
(* what is on the card; a file being replaced by the guest itself already  *)
(* counts as the new one.                                                  *)

GuestWriting(f) == /\ op.kind = "fclose" /\ op.file = f /\ run["guest"] = NoSlot
                   /\ at["guest"] \in {"write", "publish"}
Whole(r, c)     == IF r.size = 0 THEN Empty ELSE c

Saved(p) ==
  IF \E s \in Slots : Unfinished(s) /\ jobs[s].path = p
  THEN LET s == CHOOSE s \in Slots : Unfinished(s) /\ jobs[s].path = p
       IN  Whole(jobs[s], arena[jobs[s].lane])
  ELSE IF \E f \in Files : GuestWriting(f) /\ file[f].path = p
  THEN LET f == op.file IN Whole(file[f], arena[file[f].lane])
  ELSE disk[p]

OpenHandles ==
  {<<f, file[f].path, Whole(file[f], IF file[f].kind = "native" THEN file[f].id
                                                      ELSE arena[file[f].lane])>> :
     f \in {g \in Files : file[g].kind # "closed" /\ ~GuestWriting(g)}}

Store == INSTANCE SaveStore WITH
  store  <- [p \in Paths |-> Saved(p)],
  handle <- OpenHandles

SaveStoreSpec == Store!Spec
=============================================================================
