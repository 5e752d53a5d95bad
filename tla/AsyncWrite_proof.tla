-------------------------- MODULE AsyncWrite_proof --------------------------
(***************************************************************************)
(* For every number of lanes, slots, paths and handles, with a worker that *)
(* may be slow and native calls that may fail: no lane has two owners, no  *)
(* job has two threads, and no image changes while its job is unfinished.  *)
(* While the worker answers within its window and the card does not fail,  *)
(* the writer is a plain store of files, a read sees what was closed last, *)
(* and saves finish in the order in which they were closed.  The arena and *)
(* the worker may fail to start.                                           *)
(***************************************************************************)
EXTENDS AsyncWrite, FiniteSetTheorems, TLAPS

-----------------------------------------------------------------------------
(* The inductive invariant adds what the guest's operation in progress     *)
(* says about its FILE token and its thread.                               *)
OpInv ==
  /\ at["guest"] \in {"idle", "signal"} => op.kind = "none"
  /\ op.kind = "fopen"  => op.file \in Files /\ op.path \in Paths /\ file[op.file].kind = "closed"
  /\ op.kind = "fclose" => op.file \in Files /\ file[op.file].kind = "closing"
  /\ workerState = "COLD" => at["worker"] = "cold"

RunInv ==
  /\ at["worker"] \in {"open", "write", "publish"} <=> run["worker"] # NoSlot
  /\ run["guest"] # NoSlot => at["guest"] \in {"open", "write", "publish"}
  /\ at["guest"] \in {"open", "write", "publish"} /\ run["guest"] = NoSlot
       => op.kind = "fclose"

IInv == TypeOK /\ LaneOwnership /\ OneRunner /\ OpInv /\ RunInv

-----------------------------------------------------------------------------
(* Types.                                                                  *)

LEMMA ClosedType == TypeOK => ClosedFile \in FileType /\ NoOp \in OpType /\ EmptyJob \in JobType
  BY AsyncWriteAssumption DEF TypeOK, ClosedFile, FileType, NoOp, OpType, EmptyJob, JobType, Lanes

LEMMA DiskType ==
  /\ {Absent, Empty, Torn} \subseteq OnDisk
  /\ \A i \in 0 .. MaxOpens : i \in OnDisk
  BY DEF OnDisk

LEMMA ReclaimType ==
  TypeOK => Reclaimed \in [Slots -> JobType] /\ LanesAfterReclaim \subseteq Lanes
  BY ClosedType DEF TypeOK, Reclaimed, LanesAfterReclaim

(* The lane a thread writes from is a lane of the arena.                   *)
LEMMA JobLane ==
  ASSUME IInv, NEW t \in Threads, at[t] = "write" PROVE Job(t).lane \in Lanes
  <1>1. run[t] \in Slots \/ (t = "guest" /\ run[t] = NoSlot)
    BY DEF IInv, TypeOK, RunInv, Threads
  <1>2. CASE run[t] \in Slots
    BY <1>2, AsyncWriteAssumption DEF IInv, TypeOK, Job, JobType, NoSlot, Slots
  <1>3. CASE t = "guest" /\ run[t] = NoSlot
    BY <1>3 DEF IInv, TypeOK, RunInv, OpInv, Job, FileType
  <1> QED BY <1>1, <1>2, <1>3

LEMMA TypeStep == ASSUME IInv, [Next]_vars PROVE TypeOK'
  <1> USE AsyncWriteAssumption DEF IInv, TypeOK, GuestAt, WorkerAt, Threads, Goto, Done, jobVars, workerVars
  <1>1. ASSUME NEW f \in Files, NEW p \in Paths, Fopen(f, p) PROVE TypeOK'
    BY <1>1 DEF Fopen, StartWait, OpType
  <1>2. ASSUME NEW p \in Paths, Read(p) PROVE TypeOK'
    BY <1>2 DEF Read, StartWait, OpType
  <1>3. ASSUME NEW p \in Paths, Remove(p) PROVE TypeOK'
    BY <1>3 DEF Remove, StartWait, OpType
  <1>4. ASSUME Scan PROVE TypeOK'
    BY <1>4 DEF Scan, StartWait, OpType
  <1>5. ASSUME Shutdown PROVE TypeOK'
    BY <1>5 DEF Shutdown, StartWait, OpType
  <1>6. ASSUME NEW f \in Files, Fwrite(f) PROVE TypeOK'
    <2>1. file' \in [Files -> FileType]
      BY <1>6 DEF Fwrite, FileType
    <2>2. arena' \in [Lanes -> 0 .. MaxOpens]
      BY <1>6 DEF Fwrite, FileType
    <2> QED BY <1>6, <2>1, <2>2 DEF Fwrite
  <1>7. ASSUME NEW f \in Files, FwriteError(f) PROVE TypeOK'
    BY <1>7 DEF FwriteError, FileType
  <1>8. ASSUME NEW f \in Files, FcloseError(f) PROVE TypeOK'
    BY <1>8, ClosedType DEF FcloseError
  <1>9. ASSUME NEW f \in Files, FcloseNative(f) PROVE TypeOK'
    <2>1. file[f].id \in OnDisk /\ Empty \in OnDisk
      BY DiskType DEF FileType
    <2>2. disk' \in [Paths -> OnDisk] /\ acked' \in [Paths -> OnDisk]
      BY <1>9, <2>1 DEF FcloseNative
    <2> QED BY <1>9, <2>2, ClosedType DEF FcloseNative
  <1>10. ASSUME NEW f \in Files, FcloseQueue(f) PROVE TypeOK'
    <2>1. (sequence + 1) % SequenceMod \in 0 .. SequenceMod - 1
      BY DEF Slots
    <2>2. jobs' \in [Slots -> JobType]
      BY <1>10, <2>1, ReclaimType DEF FcloseQueue, JobType, FileType
    <2>3. acked' \in [Paths -> OnDisk]
      BY <1>10, DiskType DEF FcloseQueue, FileType
    <2>4. file' \in [Files -> FileType] /\ laneBusy' \subseteq Lanes
      BY <1>10, ClosedType, ReclaimType DEF FcloseQueue
    <2> QED BY <1>10, <2>1, <2>2, <2>3, <2>4 DEF FcloseQueue
  <1>11. ASSUME NEW f \in Files, FcloseSynchronous(f) PROVE TypeOK'
    BY <1>11, ReclaimType DEF FcloseSynchronous, FileType, OpType, WorkerStarted
  <1>12. ASSUME SignalWake PROVE TypeOK'
    BY <1>12 DEF SignalWake
  <1>13. ASSUME Poll PROVE TypeOK'
    BY <1>13, ReclaimType DEF Poll
  <1>14. ASSUME StepAnswered PROVE TypeOK'
    BY <1>14 DEF StepAnswered
  <1>15. ASSUME StepTimedOut PROVE TypeOK'
    BY <1>15 DEF StepTimedOut
  <1>16. ASSUME RescuePending PROVE TypeOK'
    BY <1>16 DEF RescuePending, JobType, OldestPending
  <1>17. ASSUME RescueNothing PROVE TypeOK'
    BY <1>17 DEF RescueNothing
  <1>18. ASSUME ResumeFopenImage PROVE TypeOK'
    <2>1. file' \in [Files -> FileType] /\ laneBusy' \subseteq Lanes
      BY <1>18, ReclaimType DEF ResumeFopenImage, FileType, OpInv, Lowest, OpType
    <2> QED BY <1>18, <2>1, ReclaimType, ClosedType DEF ResumeFopenImage
  <1>19. ASSUME ResumeFopenNative PROVE TypeOK'
    <2>1. file' \in [Files -> FileType]
      BY <1>19 DEF ResumeFopenNative, FileType, OpInv, OpType, Lanes
    <2>2. disk' \in [Paths -> OnDisk] /\ acked' \in [Paths -> OnDisk]
      BY <1>19, DiskType DEF ResumeFopenNative
    <2> QED BY <1>19, <2>1, <2>2, ReclaimType, ClosedType DEF ResumeFopenNative
  <1>20. ASSUME ResumeRead PROVE TypeOK'
    BY <1>20, ClosedType DEF ResumeRead
  <1>21. ASSUME ResumeRemove PROVE TypeOK'
    <2>1. disk' \in [Paths -> OnDisk] /\ acked' \in [Paths -> OnDisk]
      BY <1>21, DiskType DEF ResumeRemove
    <2> QED BY <1>21, <2>1, ClosedType DEF ResumeRemove
  <1>22. ASSUME ResumeSynchronous PROVE TypeOK'
    BY <1>22 DEF ResumeSynchronous
  <1>23. ASSUME ResumeShutdown PROVE TypeOK'
    BY <1>23 DEF ResumeShutdown
  <1>24. ASSUME Join PROVE TypeOK'
    BY <1>24, ReclaimType, ClosedType DEF Join
  <1>25. ASSUME NEW t \in Threads, NativeOpen(t) PROVE TypeOK'
    BY <1>25, DiskType DEF NativeOpen
  <1>26. ASSUME NEW t \in Threads, NativeWrite(t) PROVE TypeOK'
    <2>1. arena[Job(t).lane] \in OnDisk
      BY <1>26, JobLane, DiskType DEF NativeWrite
    <2>2. disk' \in [Paths -> OnDisk]
      BY <1>26, <2>1, DiskType DEF NativeWrite
    <2> QED BY <1>26, <2>2 DEF NativeWrite
  <1>27. ASSUME NEW t \in Threads, PublishJob(t) PROVE TypeOK'
    BY <1>27 DEF PublishJob, JobType, NoSlot
  <1>28. ASSUME PublishSynchronous PROVE TypeOK'
    <2>1. op.file \in Files
      BY <1>28 DEF PublishSynchronous, RunInv, OpInv
    <2>2. acked' \in [Paths -> OnDisk]
      BY <1>28, <2>1, DiskType DEF PublishSynchronous, FileType
    <2> QED BY <1>28, <2>2, ClosedType DEF PublishSynchronous
  <1>29. ASSUME WorkerWait PROVE TypeOK'
    BY <1>29 DEF WorkerWait
  <1>30. ASSUME WorkerTake PROVE TypeOK'
    BY <1>30 DEF WorkerTake, JobType, OldestPending
  <1>31. ASSUME WorkerIdle PROVE TypeOK'
    BY <1>31 DEF WorkerIdle
  <1>32. ASSUME WorkerSignal PROVE TypeOK'
    BY <1>32 DEF WorkerSignal
  <1>33. CASE UNCHANGED vars BY <1>33 DEF vars
  <1>34. CASE GuestCalls
    BY <1>34, <1>1, <1>2, <1>3, <1>4, <1>5, <1>6, <1>7, <1>8, <1>9, <1>10, <1>11 DEF GuestCalls
  <1>35. CASE GuestContinues
    BY <1>35, <1>12, <1>13, <1>14, <1>15, <1>16, <1>17, <1>18, <1>19, <1>20, <1>21, <1>22, <1>23, <1>24, <1>25, <1>26, <1>27, <1>28 DEF GuestContinues, Threads
  <1>36. CASE Worker
    BY <1>36, <1>25, <1>26, <1>27, <1>29, <1>30, <1>31, <1>32 DEF Worker, Threads
  <1> QED BY <1>33, <1>34, <1>35, <1>36 DEF Next

-----------------------------------------------------------------------------
(* Lanes.                                                                  *)

(* Ownership depends only on which images and jobs are live and on their   *)
(* lanes.                                                                  *)
LEMMA SameOwners ==
  ASSUME LaneOwnership, laneBusy' = laneBusy,
         ImageFiles' = ImageFiles, \A f \in ImageFiles : file'[f].lane = file[f].lane,
         LiveJobs' = LiveJobs, \A s \in LiveJobs : jobs'[s].lane = jobs[s].lane
  PROVE  LaneOwnership'
  BY DEF LaneOwnership

(* What async_reclaim_locked leaves: the unfinished jobs and their lanes.  *)
LEMMA ReclaimFact ==
  ASSUME TypeOK, LaneOwnership
  PROVE  /\ \A s \in Slots : Reclaimed[s].state # "EMPTY" <=> Unfinished(s)
         /\ \A s \in Slots : Unfinished(s) => Reclaimed[s] = jobs[s]
         /\ {s \in Slots : Unfinished(s)} \subseteq LiveJobs
         /\ LanesAfterReclaim = {file[f].lane : f \in ImageFiles}
                                  \cup {jobs[s].lane : s \in {r \in Slots : Unfinished(r)}}
  <1>1. \A s \in Slots : jobs[s].state \in {"EMPTY", "PENDING", "RUNNING", "DONE"}
    BY DEF TypeOK, JobType
  <1>2. \A s \in Slots : Reclaimed[s].state # "EMPTY" <=> Unfinished(s)
    BY <1>1 DEF Reclaimed, Unfinished, EmptyJob
  <1>3. \A s \in Slots : Unfinished(s) => Reclaimed[s] = jobs[s] /\ s \in LiveJobs
    BY DEF Reclaimed, Unfinished, LiveJobs
  <1>4. LiveJobs = {s \in Slots : Unfinished(s)} \cup {s \in Slots : jobs[s].state = "DONE"}
    BY <1>1 DEF LiveJobs, Unfinished
  <1>5. LanesAfterReclaim = {file[f].lane : f \in ImageFiles}
                              \cup {jobs[s].lane : s \in {r \in Slots : Unfinished(r)}}
    <2>1. \A s, r \in Slots : Unfinished(s) /\ jobs[r].state = "DONE" => jobs[s].lane # jobs[r].lane
      BY <1>4 DEF LaneOwnership, Unfinished
    <2>2. \A f \in ImageFiles, r \in Slots : jobs[r].state = "DONE" => file[f].lane # jobs[r].lane
      BY <1>4 DEF LaneOwnership
    <2> QED BY <1>4, <2>1, <2>2 DEF LaneOwnership, LanesAfterReclaim
  <1> QED BY <1>2, <1>3, <1>5

LEMMA ReclaimKeepsOwnership ==
  ASSUME TypeOK, LaneOwnership, jobs' = Reclaimed, laneBusy' = LanesAfterReclaim,
         ImageFiles' = ImageFiles, \A f \in ImageFiles : file'[f].lane = file[f].lane
  PROVE  LaneOwnership'
  <1>1. LiveJobs' = {s \in Slots : Unfinished(s)}
    BY ReclaimFact DEF LiveJobs
  <1>2. \A s \in LiveJobs' : jobs'[s].lane = jobs[s].lane /\ s \in LiveJobs
    BY <1>1, ReclaimFact
  <1>3. {jobs'[s].lane : s \in LiveJobs'} = {jobs[s].lane : s \in {r \in Slots : Unfinished(r)}}
    BY <1>1, <1>2
  <1>4. {file'[f].lane : f \in ImageFiles'} = {file[f].lane : f \in ImageFiles}
    OBVIOUS
  <1>5. laneBusy' = {file'[f].lane : f \in ImageFiles'} \cup {jobs'[s].lane : s \in LiveJobs'}
    BY <1>3, <1>4, ReclaimFact
  <1> QED BY <1>2, <1>5 DEF LaneOwnership

(* A call that leaves the tokens and the jobs alone.                       *)
LEMMA FrameOwnership ==
  ASSUME LaneOwnership, UNCHANGED <<file, jobs, laneBusy>> PROVE LaneOwnership'
  BY DEF LaneOwnership, ImageFiles, LiveJobs

LEMMA LaneStep == ASSUME IInv, [Next]_vars PROVE LaneOwnership'
  <1> USE DEF IInv, jobVars, workerVars
  <1>1. ASSUME NEW f \in Files, NEW p \in Paths, Fopen(f, p) PROVE LaneOwnership'
    BY <1>1, FrameOwnership DEF Fopen
  <1>2. ASSUME NEW p \in Paths, Read(p) PROVE LaneOwnership'
    BY <1>2, FrameOwnership DEF Read
  <1>3. ASSUME NEW p \in Paths, Remove(p) PROVE LaneOwnership'
    BY <1>3, FrameOwnership DEF Remove
  <1>4. ASSUME Scan PROVE LaneOwnership'
    BY <1>4, FrameOwnership DEF Scan
  <1>5. ASSUME Shutdown PROVE LaneOwnership'
    BY <1>5, FrameOwnership DEF Shutdown
  <1>6. ASSUME NEW f \in Files, Fwrite(f) PROVE LaneOwnership'
    <2>1. ImageFiles' = ImageFiles /\ \A g \in ImageFiles : file'[g].lane = file[g].lane
      BY <1>6 DEF Fwrite, ImageFiles, TypeOK, FileType
    <2>2. LiveJobs' = LiveJobs /\ \A s \in LiveJobs : jobs'[s].lane = jobs[s].lane
      BY <1>6 DEF Fwrite, LiveJobs, TypeOK, FileType
    <2> QED BY <1>6, <2>1, <2>2, SameOwners DEF Fwrite
  <1>7. ASSUME NEW f \in Files, FwriteError(f) PROVE LaneOwnership'
    <2>1. ImageFiles' = ImageFiles /\ \A g \in ImageFiles : file'[g].lane = file[g].lane
      BY <1>7 DEF FwriteError, ImageFiles, TypeOK, FileType
    <2>2. LiveJobs' = LiveJobs /\ \A s \in LiveJobs : jobs'[s].lane = jobs[s].lane
      BY <1>7 DEF FwriteError, LiveJobs, TypeOK, FileType
    <2> QED BY <1>7, <2>1, <2>2, SameOwners DEF FwriteError
  <1>8. ASSUME NEW f \in Files, FcloseError(f) PROVE LaneOwnership'
    <2>1. ImageFiles' = ImageFiles \ {f} /\ f \in ImageFiles
      BY <1>8 DEF FcloseError, ImageFiles, ClosedFile, TypeOK
    <2>2. \A g \in ImageFiles' : file'[g].lane = file[g].lane
      BY <1>8, <2>1 DEF FcloseError, TypeOK
    <2>3. LiveJobs' = LiveJobs /\ jobs' = jobs /\ laneBusy' = laneBusy \ {file[f].lane}
      BY <1>8 DEF FcloseError, LiveJobs
    <2> QED BY <2>1, <2>2, <2>3 DEF LaneOwnership
  <1>9. ASSUME NEW f \in Files, FcloseNative(f) PROVE LaneOwnership'
    <2>1. ImageFiles' = ImageFiles /\ \A g \in ImageFiles : file'[g].lane = file[g].lane
      BY <1>9 DEF FcloseNative, ImageFiles, TypeOK, FileType, ClosedFile
    <2>2. LiveJobs' = LiveJobs /\ \A s \in LiveJobs : jobs'[s].lane = jobs[s].lane
      BY <1>9 DEF FcloseNative, LiveJobs, TypeOK, FileType, ClosedFile
    <2> QED BY <1>9, <2>1, <2>2, SameOwners DEF FcloseNative
  <1>10. ASSUME NEW f \in Files, FcloseQueue(f) PROVE LaneOwnership'
    <2>1. PICK s \in Slots :
            /\ Lowest(EmptySlots, s)
            /\ jobs' = [Reclaimed EXCEPT ![s] =
                 [state |-> "PENDING", path |-> file[f].path, lane |-> file[f].lane,
                  size |-> file[f].size, seq |-> (sequence + 1) % SequenceMod]]
      BY <1>10 DEF FcloseQueue
    <2> DEFINE U == {r \in Slots : Unfinished(r)}
    <2>2. s \notin U
      BY <2>1, ReclaimFact DEF Lowest, EmptySlots
    <2>3. Reclaimed \in [Slots -> JobType]
      BY ReclaimType
    <2>4. LiveJobs' = U \cup {s}
      BY <2>1, <2>3, ReclaimFact DEF LiveJobs
    <2>5. jobs'[s].lane = file[f].lane /\ \A r \in U : jobs'[r].lane = jobs[r].lane /\ r \in LiveJobs
      BY <2>1, <2>2, <2>3, ReclaimFact
    <2>6. ImageFiles' = ImageFiles \ {f} /\ f \in ImageFiles
      BY <1>10 DEF FcloseQueue, ImageFiles, ClosedFile, TypeOK
    <2>7. \A g \in ImageFiles' : file'[g].lane = file[g].lane
      BY <1>10, <2>6 DEF FcloseQueue, TypeOK
    <2>8. laneBusy' = {file[g].lane : g \in ImageFiles} \cup {jobs[r].lane : r \in U}
      BY <1>10, ReclaimFact DEF FcloseQueue
    <2>9. {jobs'[r].lane : r \in LiveJobs'} = {jobs[r].lane : r \in U} \cup {file[f].lane}
      BY <2>4, <2>5
    <2>10. laneBusy' = {file'[g].lane : g \in ImageFiles'} \cup {jobs'[r].lane : r \in LiveJobs'}
      BY <2>6, <2>7, <2>8, <2>9
    <2>11. \A r, q \in LiveJobs' : r # q => jobs'[r].lane # jobs'[q].lane
      BY <2>4, <2>5, <2>6 DEF LaneOwnership
    <2>12. \A g \in ImageFiles', r \in LiveJobs' : file'[g].lane # jobs'[r].lane
      BY <2>4, <2>5, <2>6, <2>7 DEF LaneOwnership
    <2> QED BY <2>6, <2>7, <2>10, <2>11, <2>12 DEF LaneOwnership
  <1>11. ASSUME NEW f \in Files, FcloseSynchronous(f) PROVE LaneOwnership'
    <2>1. ImageFiles' = ImageFiles /\ \A g \in ImageFiles : file'[g].lane = file[g].lane
      BY <1>11 DEF FcloseSynchronous, ImageFiles, TypeOK, FileType
    <2>2. CASE UNCHANGED <<jobs, laneBusy>>
      BY <2>1, <2>2, SameOwners DEF LiveJobs
    <2>3. CASE jobs' = Reclaimed /\ laneBusy' = LanesAfterReclaim
      BY <2>1, <2>3, ReclaimKeepsOwnership
    <2> QED BY <1>11, <2>2, <2>3 DEF FcloseSynchronous
  <1>12. ASSUME SignalWake PROVE LaneOwnership'
    BY <1>12, FrameOwnership DEF SignalWake
  <1>13. ASSUME Poll PROVE LaneOwnership'
    <2>1. ImageFiles' = ImageFiles /\ \A g \in ImageFiles : file'[g].lane = file[g].lane
      BY <1>13 DEF Poll, ImageFiles
    <2> QED BY <1>13, <2>1, ReclaimKeepsOwnership DEF Poll
  <1>14. ASSUME StepAnswered PROVE LaneOwnership'
    BY <1>14, FrameOwnership DEF StepAnswered
  <1>15. ASSUME StepTimedOut PROVE LaneOwnership'
    BY <1>15, FrameOwnership DEF StepTimedOut
  <1>16. ASSUME RescuePending PROVE LaneOwnership'
    <2>1. ImageFiles' = ImageFiles /\ \A g \in ImageFiles : file'[g].lane = file[g].lane
      BY <1>16 DEF RescuePending, ImageFiles, TypeOK, JobType, OldestPending
    <2>2. LiveJobs' = LiveJobs /\ \A s \in LiveJobs : jobs'[s].lane = jobs[s].lane
      BY <1>16 DEF RescuePending, LiveJobs, TypeOK, JobType, OldestPending
    <2> QED BY <1>16, <2>1, <2>2, SameOwners DEF RescuePending
  <1>17. ASSUME RescueNothing PROVE LaneOwnership'
    BY <1>17, FrameOwnership DEF RescueNothing
  <1>18. ASSUME ResumeFopenImage PROVE LaneOwnership'
    <2> DEFINE f == op.file
               U == {r \in Slots : Unfinished(r)}
    <2>1. f \in Files /\ f \notin ImageFiles
      BY <1>18 DEF ResumeFopenImage, OpInv, ImageFiles
    <2>2. PICK l \in Lanes :
            /\ l \notin LanesAfterReclaim /\ laneBusy' = LanesAfterReclaim \cup {l}
            /\ file' = [file EXCEPT ![f] = [kind |-> "image", path |-> op.path, lane |-> l,
                                            size |-> 0, id |-> opens, error |-> 0]]
      BY <1>18 DEF ResumeFopenImage, Lowest
    <2>3. ImageFiles' = ImageFiles \cup {f}
      BY <2>1, <2>2 DEF ImageFiles, TypeOK
    <2>4. file'[f].lane = l /\ \A g \in ImageFiles : file'[g].lane = file[g].lane
      BY <2>1, <2>2 DEF TypeOK, ImageFiles
    <2>5. LiveJobs' = U
      BY <1>18, ReclaimFact DEF ResumeFopenImage, LiveJobs
    <2>6. \A r \in U : jobs'[r].lane = jobs[r].lane /\ r \in LiveJobs
      BY <1>18, ReclaimFact DEF ResumeFopenImage
    <2>7. LanesAfterReclaim = {file[g].lane : g \in ImageFiles} \cup {jobs[r].lane : r \in U}
      BY ReclaimFact
    <2>8. laneBusy' = {file'[g].lane : g \in ImageFiles'} \cup {jobs'[r].lane : r \in LiveJobs'}
      BY <2>2, <2>3, <2>4, <2>5, <2>6, <2>7
    <2>9. \A g \in ImageFiles : file[g].lane # l
      BY <2>2, <2>7
    <2>10. \A r \in U : jobs[r].lane # l
      BY <2>2, <2>7
    <2>11. \A g, h \in ImageFiles' : g # h => file'[g].lane # file'[h].lane
      BY <2>1, <2>3, <2>4, <2>9 DEF LaneOwnership
    <2>12. \A g \in ImageFiles', r \in LiveJobs' : file'[g].lane # jobs'[r].lane
      BY <2>3, <2>4, <2>5, <2>6, <2>10 DEF LaneOwnership
    <2>13. \A r, q \in LiveJobs' : r # q => jobs'[r].lane # jobs'[q].lane
      BY <2>5, <2>6 DEF LaneOwnership
    <2> QED BY <2>8, <2>11, <2>12, <2>13 DEF LaneOwnership
  <1>19. ASSUME ResumeFopenNative PROVE LaneOwnership'
    <2>1. ImageFiles' = ImageFiles /\ \A g \in ImageFiles : file'[g].lane = file[g].lane
      BY <1>19 DEF ResumeFopenNative, ImageFiles, OpInv, TypeOK, FileType
    <2> QED BY <1>19, <2>1, ReclaimKeepsOwnership DEF ResumeFopenNative
  <1>20. ASSUME ResumeRead PROVE LaneOwnership'
    BY <1>20, FrameOwnership DEF ResumeRead
  <1>21. ASSUME ResumeRemove PROVE LaneOwnership'
    BY <1>21, FrameOwnership DEF ResumeRemove
  <1>22. ASSUME ResumeSynchronous PROVE LaneOwnership'
    BY <1>22, FrameOwnership DEF ResumeSynchronous
  <1>23. ASSUME ResumeShutdown PROVE LaneOwnership'
    BY <1>23, FrameOwnership DEF ResumeShutdown
  <1>24. ASSUME Join PROVE LaneOwnership'
    <2>1. ImageFiles' = ImageFiles /\ \A g \in ImageFiles : file'[g].lane = file[g].lane
      BY <1>24 DEF Join, ImageFiles
    <2> QED BY <1>24, <2>1, ReclaimKeepsOwnership DEF Join
  <1>25. ASSUME NEW t \in Threads, NativeOpen(t) PROVE LaneOwnership'
    BY <1>25, FrameOwnership DEF NativeOpen
  <1>26. ASSUME NEW t \in Threads, NativeWrite(t) PROVE LaneOwnership'
    BY <1>26, FrameOwnership DEF NativeWrite
  <1>27. ASSUME NEW t \in Threads, PublishJob(t) PROVE LaneOwnership'
    <2>1. ImageFiles' = ImageFiles /\ \A g \in ImageFiles : file'[g].lane = file[g].lane
      BY <1>27 DEF PublishJob, ImageFiles, TypeOK, JobType, RunInv, OneRunner, NoSlot
    <2>2. LiveJobs' = LiveJobs /\ \A s \in LiveJobs : jobs'[s].lane = jobs[s].lane
      BY <1>27 DEF PublishJob, LiveJobs, TypeOK, JobType, RunInv, OneRunner, NoSlot
    <2> QED BY <1>27, <2>1, <2>2, SameOwners DEF PublishJob
  <1>28. ASSUME PublishSynchronous PROVE LaneOwnership'
    <2> DEFINE f == op.file
    <2>1. f \in Files /\ file[f].kind = "closing"
      BY <1>28 DEF PublishSynchronous, RunInv, OpInv
    <2>2. ImageFiles' = ImageFiles \ {f} /\ f \in ImageFiles
      BY <1>28, <2>1 DEF PublishSynchronous, ImageFiles, ClosedFile, TypeOK
    <2>3. \A g \in ImageFiles' : file'[g].lane = file[g].lane
      BY <1>28, <2>2 DEF PublishSynchronous, TypeOK
    <2>4. LiveJobs' = LiveJobs /\ jobs' = jobs /\ laneBusy' = laneBusy \ {file[f].lane}
      BY <1>28 DEF PublishSynchronous, LiveJobs
    <2> QED BY <2>2, <2>3, <2>4 DEF LaneOwnership
  <1>29. ASSUME WorkerWait PROVE LaneOwnership'
    BY <1>29, FrameOwnership DEF WorkerWait
  <1>30. ASSUME WorkerTake PROVE LaneOwnership'
    <2>1. ImageFiles' = ImageFiles /\ \A g \in ImageFiles : file'[g].lane = file[g].lane
      BY <1>30 DEF WorkerTake, ImageFiles, TypeOK, JobType, OldestPending
    <2>2. LiveJobs' = LiveJobs /\ \A s \in LiveJobs : jobs'[s].lane = jobs[s].lane
      BY <1>30 DEF WorkerTake, LiveJobs, TypeOK, JobType, OldestPending
    <2> QED BY <1>30, <2>1, <2>2, SameOwners DEF WorkerTake
  <1>31. ASSUME WorkerIdle PROVE LaneOwnership'
    BY <1>31, FrameOwnership DEF WorkerIdle
  <1>32. ASSUME WorkerSignal PROVE LaneOwnership'
    BY <1>32, FrameOwnership DEF WorkerSignal
  <1>33. CASE UNCHANGED vars BY <1>33, FrameOwnership DEF vars
  <1>34. CASE GuestCalls
    BY <1>34, <1>1, <1>2, <1>3, <1>4, <1>5, <1>6, <1>7, <1>8, <1>9, <1>10, <1>11 DEF GuestCalls
  <1>35. CASE GuestContinues
    BY <1>35, <1>12, <1>13, <1>14, <1>15, <1>16, <1>17, <1>18, <1>19, <1>20, <1>21, <1>22, <1>23, <1>24, <1>25, <1>26, <1>27, <1>28 DEF GuestContinues, Threads
  <1>36. CASE Worker
    BY <1>36, <1>25, <1>26, <1>27, <1>29, <1>30, <1>31, <1>32 DEF Worker, Threads
  <1> QED BY <1>33, <1>34, <1>35, <1>36 DEF Next

-----------------------------------------------------------------------------
(* Jobs and the threads that perform them; the guest's operation.          *)

(* A step that moves no job and no thread between "performing" and not.    *)
LEMMA FrameRunner ==
  ASSUME OneRunner, RunInv, UNCHANGED run,
         \A s \in Slots : jobs'[s].state = "RUNNING" <=> jobs[s].state = "RUNNING",
         \A t \in Threads : at'[t] \in {"open", "write", "publish"}
                              <=> at[t] \in {"open", "write", "publish"},
         at["guest"] \in {"open", "write", "publish"} /\ run["guest"] = NoSlot => op' = op
  PROVE  OneRunner' /\ RunInv'
  BY DEF OneRunner, RunInv, Threads

LEMMA RunnerStep == ASSUME IInv, [Next]_vars PROVE OneRunner' /\ RunInv'
  <1> USE DEF IInv, jobVars, workerVars, Goto, Done
  <1>1. ASSUME NEW f \in Files, NEW p \in Paths, Fopen(f, p) PROVE OneRunner' /\ RunInv'
    BY <1>1, FrameRunner DEF Fopen, StartWait, TypeOK, Threads, GuestAt, WorkerAt
  <1>2. ASSUME NEW p \in Paths, Read(p) PROVE OneRunner' /\ RunInv'
    BY <1>2, FrameRunner DEF Read, StartWait, TypeOK, Threads, GuestAt, WorkerAt
  <1>3. ASSUME NEW p \in Paths, Remove(p) PROVE OneRunner' /\ RunInv'
    BY <1>3, FrameRunner DEF Remove, StartWait, TypeOK, Threads, GuestAt, WorkerAt
  <1>4. ASSUME Scan PROVE OneRunner' /\ RunInv'
    BY <1>4, FrameRunner DEF Scan, StartWait, TypeOK, Threads, GuestAt, WorkerAt
  <1>5. ASSUME Shutdown PROVE OneRunner' /\ RunInv'
    BY <1>5, FrameRunner DEF Shutdown, StartWait, TypeOK, Threads, GuestAt, WorkerAt
  <1>6. ASSUME NEW f \in Files, Fwrite(f) PROVE OneRunner' /\ RunInv'
    BY <1>6, FrameRunner DEF Fwrite, TypeOK, Threads, GuestAt, WorkerAt
  <1>7. ASSUME NEW f \in Files, FwriteError(f) PROVE OneRunner' /\ RunInv'
    BY <1>7, FrameRunner DEF FwriteError, TypeOK, Threads, GuestAt, WorkerAt
  <1>8. ASSUME NEW f \in Files, FcloseError(f) PROVE OneRunner' /\ RunInv'
    BY <1>8, FrameRunner DEF FcloseError, TypeOK, Threads, GuestAt, WorkerAt
  <1>9. ASSUME NEW f \in Files, FcloseNative(f) PROVE OneRunner' /\ RunInv'
    BY <1>9, FrameRunner DEF FcloseNative, TypeOK, Threads, GuestAt, WorkerAt
  <1>10. ASSUME NEW f \in Files, FcloseQueue(f) PROVE OneRunner' /\ RunInv'
    <2>1. PICK r \in Slots : /\ Lowest(EmptySlots, r)
                             /\ \A s \in Slots : s # r => jobs'[s] = Reclaimed[s]
                             /\ jobs'[r].state = "PENDING"
      BY <1>10, ReclaimType DEF FcloseQueue
    <2>2. jobs[r].state # "RUNNING"
      BY <2>1 DEF Lowest, EmptySlots, Reclaimed
    <2>3. \A s \in Slots : jobs'[s].state = "RUNNING" <=> jobs[s].state = "RUNNING"
      <3>1. \A s \in Slots : Reclaimed[s].state = "RUNNING" <=> jobs[s].state = "RUNNING"
        BY DEF Reclaimed, EmptyJob
      <3>2. ASSUME NEW s \in Slots, s # r
            PROVE  jobs'[s].state = "RUNNING" <=> jobs[s].state = "RUNNING"
        BY <2>1, <3>1, <3>2
      <3>3. jobs'[r].state # "RUNNING"
        BY <2>1
      <3> QED BY <2>2, <3>2, <3>3
    <2>4. /\ at["guest"] = "idle" /\ at'["guest"] = "signal" /\ UNCHANGED <<run, op>>
          /\ at'["worker"] = IF workerState = "COLD" THEN "sema" ELSE at["worker"]
      BY <1>10 DEF FcloseQueue, TypeOK, Threads
    <2>5. at'["worker"] \in {"open", "write", "publish"}
            <=> at["worker"] \in {"open", "write", "publish"}
      BY <2>4 DEF OpInv
    <2> QED BY <2>3, <2>4, <2>5, FrameRunner DEF Threads
  <1>11. ASSUME NEW f \in Files, FcloseSynchronous(f) PROVE OneRunner' /\ RunInv'
    <2>1. \A s \in Slots : jobs'[s].state = "RUNNING" <=> jobs[s].state = "RUNNING"
      BY <1>11 DEF FcloseSynchronous, Reclaimed, EmptyJob
    <2> QED BY <1>11, <2>1, FrameRunner DEF FcloseSynchronous, TypeOK, Threads, GuestAt, WorkerAt
  <1>12. ASSUME SignalWake PROVE OneRunner' /\ RunInv'
    BY <1>12, FrameRunner DEF SignalWake, TypeOK, Threads, GuestAt, WorkerAt
  <1>13. ASSUME Poll PROVE OneRunner' /\ RunInv'
    <2>1. \A s \in Slots : jobs'[s].state = "RUNNING" <=> jobs[s].state = "RUNNING"
      BY <1>13 DEF Poll, Reclaimed, EmptyJob
    <2> QED BY <1>13, <2>1, FrameRunner DEF Poll, TypeOK, Threads, GuestAt, WorkerAt
  <1>14. ASSUME StepAnswered PROVE OneRunner' /\ RunInv'
    BY <1>14, FrameRunner DEF StepAnswered, TypeOK, Threads, GuestAt, WorkerAt
  <1>15. ASSUME StepTimedOut PROVE OneRunner' /\ RunInv'
    BY <1>15, FrameRunner DEF StepTimedOut, TypeOK, Threads, GuestAt, WorkerAt
  <1>16. ASSUME RescuePending PROVE OneRunner' /\ RunInv'
    <2>1. PICK s \in Slots : /\ jobs[s].state = "PENDING"
                             /\ jobs' = [jobs EXCEPT ![s].state = "RUNNING"]
                             /\ run' = [run EXCEPT !["guest"] = s]
      BY <1>16 DEF RescuePending, OldestPending
    <2>2. at["guest"] = "rescue" /\ at' = [at EXCEPT !["guest"] = "open"] /\ UNCHANGED op
      BY <1>16 DEF RescuePending
    <2>3. run["guest"] = NoSlot /\ \A t \in Threads : run[t] # s
      BY <2>1, <2>2 DEF OneRunner, RunInv, Threads
    <2>4. \A r \in Slots : jobs'[r].state = IF r = s THEN "RUNNING" ELSE jobs[r].state
      BY <2>1 DEF TypeOK, JobType
    <2>5. OneRunner'
      <3>1. \A t \in Threads : run'[t] = IF t = "guest" THEN s ELSE run[t]
        BY <2>1 DEF TypeOK
      <3>2. NoSlot \notin Slots
        BY DEF NoSlot, Slots
      <3>3. \A r \in Slots : (\E t \in Threads : run'[t] = r) <=> r = s \/ \E t \in Threads : run[t] = r
        BY <2>3, <3>1, <3>2 DEF Threads
      <3> QED BY <2>3, <2>4, <3>1, <3>3 DEF OneRunner, Threads
    <2>6. RunInv'
      BY <2>1, <2>2, <2>3, AsyncWriteAssumption DEF RunInv, TypeOK, Threads, NoSlot, Slots
    <2> QED BY <2>5, <2>6
  <1>17. ASSUME RescueNothing PROVE OneRunner' /\ RunInv'
    BY <1>17, FrameRunner DEF RescueNothing, TypeOK, Threads, GuestAt, WorkerAt
  <1>18. ASSUME ResumeFopenImage PROVE OneRunner' /\ RunInv'
    <2>1. \A s \in Slots : jobs'[s].state = "RUNNING" <=> jobs[s].state = "RUNNING"
      BY <1>18 DEF ResumeFopenImage, Reclaimed, EmptyJob
    <2> QED BY <1>18, <2>1, FrameRunner DEF ResumeFopenImage, TypeOK, Threads, GuestAt, WorkerAt
  <1>19. ASSUME ResumeFopenNative PROVE OneRunner' /\ RunInv'
    <2>1. \A s \in Slots : jobs'[s].state = "RUNNING" <=> jobs[s].state = "RUNNING"
      BY <1>19 DEF ResumeFopenNative, Reclaimed, EmptyJob
    <2> QED BY <1>19, <2>1, FrameRunner DEF ResumeFopenNative, TypeOK, Threads, GuestAt, WorkerAt
  <1>20. ASSUME ResumeRead PROVE OneRunner' /\ RunInv'
    BY <1>20, FrameRunner DEF ResumeRead, TypeOK, Threads, GuestAt, WorkerAt
  <1>21. ASSUME ResumeRemove PROVE OneRunner' /\ RunInv'
    BY <1>21, FrameRunner DEF ResumeRemove, TypeOK, Threads, GuestAt, WorkerAt
  <1>22. ASSUME ResumeSynchronous PROVE OneRunner' /\ RunInv'
    BY <1>22 DEF ResumeSynchronous, OneRunner, RunInv, TypeOK, Threads, GuestAt, WorkerAt
  <1>23. ASSUME ResumeShutdown PROVE OneRunner' /\ RunInv'
    BY <1>23, FrameRunner DEF ResumeShutdown, TypeOK, Threads, GuestAt, WorkerAt
  <1>24. ASSUME Join PROVE OneRunner' /\ RunInv'
    <2>1. \A s \in Slots : jobs'[s].state = "RUNNING" <=> jobs[s].state = "RUNNING"
      BY <1>24 DEF Join, Reclaimed, EmptyJob
    <2> QED BY <1>24, <2>1, FrameRunner DEF Join, TypeOK, Threads, GuestAt, WorkerAt
  <1>25. ASSUME NEW t \in Threads, NativeOpen(t) PROVE OneRunner' /\ RunInv'
    BY <1>25, FrameRunner DEF NativeOpen, TypeOK, Threads, GuestAt, WorkerAt
  <1>26. ASSUME NEW t \in Threads, NativeWrite(t) PROVE OneRunner' /\ RunInv'
    BY <1>26, FrameRunner DEF NativeWrite, TypeOK, Threads, GuestAt, WorkerAt
  <1>27. ASSUME NEW t \in Threads, PublishJob(t) PROVE OneRunner' /\ RunInv'
    <2> DEFINE s == run[t]
    <2>1. s \in Slots /\ jobs[s].state = "RUNNING"
      BY <1>27 DEF PublishJob, OneRunner, TypeOK
    <2>2. \A r \in Slots : jobs'[r].state = IF r = s THEN "DONE" ELSE jobs[r].state
      BY <1>27, <2>1 DEF PublishJob, TypeOK, JobType
    <2>3. \A u \in Threads : u # t => run[u] # s /\ run'[u] = run[u]
      BY <1>27, <2>1 DEF PublishJob, OneRunner, Threads, TypeOK
    <2>4. run'[t] = NoSlot /\ NoSlot \notin Slots
      BY <1>27 DEF PublishJob, TypeOK, NoSlot, Slots
    <2>5. OneRunner'
      BY <2>1, <2>2, <2>3, <2>4 DEF OneRunner, Threads
    <2>6. RunInv'
      BY <1>27, <2>3, <2>4 DEF PublishJob, RunInv, TypeOK, Threads
    <2> QED BY <2>5, <2>6
  <1>28. ASSUME PublishSynchronous PROVE OneRunner' /\ RunInv'
    BY <1>28 DEF PublishSynchronous, OneRunner, RunInv, TypeOK, Threads, GuestAt, WorkerAt
  <1>29. ASSUME WorkerWait PROVE OneRunner' /\ RunInv'
    BY <1>29, FrameRunner DEF WorkerWait, TypeOK, Threads, GuestAt, WorkerAt
  <1>30. ASSUME WorkerTake PROVE OneRunner' /\ RunInv'
    <2>1. PICK s \in Slots : /\ jobs[s].state = "PENDING"
                             /\ jobs' = [jobs EXCEPT ![s].state = "RUNNING"]
                             /\ run' = [run EXCEPT !["worker"] = s]
      BY <1>30 DEF WorkerTake, OldestPending
    <2>2. at["worker"] = "take" /\ at' = [at EXCEPT !["worker"] = "open"] /\ UNCHANGED op
      BY <1>30 DEF WorkerTake
    <2>3. run["worker"] = NoSlot /\ \A t \in Threads : run[t] # s
      BY <2>1, <2>2 DEF OneRunner, RunInv, Threads
    <2>4. \A r \in Slots : jobs'[r].state = IF r = s THEN "RUNNING" ELSE jobs[r].state
      BY <2>1 DEF TypeOK, JobType
    <2>5. OneRunner'
      <3>1. \A t \in Threads : run'[t] = IF t = "worker" THEN s ELSE run[t]
        BY <2>1 DEF TypeOK
      <3>2. NoSlot \notin Slots
        BY DEF NoSlot, Slots
      <3>3. \A r \in Slots : (\E t \in Threads : run'[t] = r) <=> r = s \/ \E t \in Threads : run[t] = r
        BY <2>3, <3>1, <3>2 DEF Threads
      <3> QED BY <2>3, <2>4, <3>1, <3>3 DEF OneRunner, Threads
    <2>6. RunInv'
      BY <2>1, <2>2, <2>3, AsyncWriteAssumption DEF RunInv, TypeOK, Threads, NoSlot, Slots
    <2> QED BY <2>5, <2>6
  <1>31. ASSUME WorkerIdle PROVE OneRunner' /\ RunInv'
    BY <1>31, FrameRunner DEF WorkerIdle, TypeOK, Threads, GuestAt, WorkerAt
  <1>32. ASSUME WorkerSignal PROVE OneRunner' /\ RunInv'
    BY <1>32, FrameRunner DEF WorkerSignal, TypeOK, Threads, GuestAt, WorkerAt
  <1>33. CASE UNCHANGED vars BY <1>33, FrameRunner DEF vars
  <1>34. CASE GuestCalls
    BY <1>34, <1>1, <1>2, <1>3, <1>4, <1>5, <1>6, <1>7, <1>8, <1>9, <1>10, <1>11 DEF GuestCalls
  <1>35. CASE GuestContinues
    BY <1>35, <1>12, <1>13, <1>14, <1>15, <1>16, <1>17, <1>18, <1>19, <1>20, <1>21, <1>22, <1>23, <1>24, <1>25, <1>26, <1>27, <1>28 DEF GuestContinues, Threads
  <1>36. CASE Worker
    BY <1>36, <1>25, <1>26, <1>27, <1>29, <1>30, <1>31, <1>32 DEF Worker, Threads
  <1> QED BY <1>33, <1>34, <1>35, <1>36 DEF Next

LEMMA OpStep == ASSUME IInv, [Next]_vars PROVE OpInv'
  <1> USE DEF IInv, TypeOK, jobVars, workerVars, Goto, Done, NoOp, OpInv, Threads
  <1>1. ASSUME NEW f \in Files, NEW p \in Paths, Fopen(f, p) PROVE OpInv'
    BY <1>1 DEF Fopen, StartWait
  <1>2. ASSUME NEW p \in Paths, Read(p) PROVE OpInv'
    BY <1>2 DEF Read, StartWait
  <1>3. ASSUME NEW p \in Paths, Remove(p) PROVE OpInv'
    BY <1>3 DEF Remove, StartWait
  <1>4. ASSUME Scan PROVE OpInv'
    BY <1>4 DEF Scan, StartWait
  <1>5. ASSUME Shutdown PROVE OpInv'
    BY <1>5 DEF Shutdown, StartWait
  <1>6. ASSUME NEW f \in Files, Fwrite(f) PROVE OpInv'
    BY <1>6 DEF Fwrite, FileType
  <1>7. ASSUME NEW f \in Files, FwriteError(f) PROVE OpInv'
    BY <1>7 DEF FwriteError, FileType
  <1>8. ASSUME NEW f \in Files, FcloseError(f) PROVE OpInv'
    BY <1>8 DEF FcloseError
  <1>9. ASSUME NEW f \in Files, FcloseNative(f) PROVE OpInv'
    BY <1>9 DEF FcloseNative
  <1>10. ASSUME NEW f \in Files, FcloseQueue(f) PROVE OpInv'
    BY <1>10 DEF FcloseQueue
  <1>11. ASSUME NEW f \in Files, FcloseSynchronous(f) PROVE OpInv'
    BY <1>11 DEF FcloseSynchronous, FileType, WorkerStarted
  <1>12. ASSUME SignalWake PROVE OpInv'
    BY <1>12 DEF SignalWake
  <1>13. ASSUME Poll PROVE OpInv'
    BY <1>13 DEF Poll
  <1>14. ASSUME StepAnswered PROVE OpInv'
    BY <1>14 DEF StepAnswered
  <1>15. ASSUME StepTimedOut PROVE OpInv'
    BY <1>15 DEF StepTimedOut
  <1>16. ASSUME RescuePending PROVE OpInv'
    BY <1>16 DEF RescuePending
  <1>17. ASSUME RescueNothing PROVE OpInv'
    BY <1>17 DEF RescueNothing
  <1>18. ASSUME ResumeFopenImage PROVE OpInv'
    BY <1>18 DEF ResumeFopenImage
  <1>19. ASSUME ResumeFopenNative PROVE OpInv'
    BY <1>19 DEF ResumeFopenNative
  <1>20. ASSUME ResumeRead PROVE OpInv'
    BY <1>20 DEF ResumeRead
  <1>21. ASSUME ResumeRemove PROVE OpInv'
    BY <1>21 DEF ResumeRemove
  <1>22. ASSUME ResumeSynchronous PROVE OpInv'
    BY <1>22 DEF ResumeSynchronous
  <1>23. ASSUME ResumeShutdown PROVE OpInv'
    BY <1>23 DEF ResumeShutdown
  <1>24. ASSUME Join PROVE OpInv'
    BY <1>24 DEF Join
  <1>25. ASSUME NEW t \in Threads, NativeOpen(t) PROVE OpInv'
    BY <1>25 DEF NativeOpen
  <1>26. ASSUME NEW t \in Threads, NativeWrite(t) PROVE OpInv'
    BY <1>26 DEF NativeWrite
  <1>27. ASSUME NEW t \in Threads, PublishJob(t) PROVE OpInv'
    BY <1>27 DEF PublishJob
  <1>28. ASSUME PublishSynchronous PROVE OpInv'
    BY <1>28 DEF PublishSynchronous
  <1>29. ASSUME WorkerWait PROVE OpInv'
    BY <1>29 DEF WorkerWait
  <1>30. ASSUME WorkerTake PROVE OpInv'
    BY <1>30 DEF WorkerTake
  <1>31. ASSUME WorkerIdle PROVE OpInv'
    BY <1>31 DEF WorkerIdle
  <1>32. ASSUME WorkerSignal PROVE OpInv'
    BY <1>32 DEF WorkerSignal
  <1>33. CASE UNCHANGED vars BY <1>33 DEF vars
  <1>34. CASE GuestCalls
    BY <1>34, <1>1, <1>2, <1>3, <1>4, <1>5, <1>6, <1>7, <1>8, <1>9, <1>10, <1>11 DEF GuestCalls
  <1>35. CASE GuestContinues
    BY <1>35, <1>12, <1>13, <1>14, <1>15, <1>16, <1>17, <1>18, <1>19, <1>20, <1>21, <1>22, <1>23, <1>24, <1>25, <1>26, <1>27, <1>28 DEF GuestContinues, Threads
  <1>36. CASE Worker
    BY <1>36, <1>25, <1>26, <1>27, <1>29, <1>30, <1>31, <1>32 DEF Worker, Threads
  <1> QED BY <1>33, <1>34, <1>35, <1>36 DEF Next

-----------------------------------------------------------------------------
LEMMA InitInv == Init => IInv
  <1> SUFFICES ASSUME Init PROVE IInv OBVIOUS
  <1> USE AsyncWriteAssumption DEF Init, EmptyJob, ClosedFile, NoOp, NoSlot, Slots, Lanes, Threads
  <1>1. TypeOK
    BY DEF TypeOK, JobType, FileType, OpType, GuestAt, WorkerAt, OnDisk
  <1>2. LaneOwnership
    BY DEF LaneOwnership, ImageFiles, LiveJobs
  <1>3. OneRunner /\ OpInv /\ RunInv
    BY DEF OneRunner, OpInv, RunInv
  <1> QED BY <1>1, <1>2, <1>3 DEF IInv

(* The inductive invariant holds of every behaviour.                       *)
THEOREM Invariant == Spec => []IInv
  <1>1. IInv /\ [Next]_vars => IInv'
    BY TypeStep, LaneStep, RunnerStep, OpStep DEF IInv
  <1> QED BY InitInv, <1>1, PTL DEF Spec

(* Type correctness: every variable of the writer keeps its range.         *)
THEOREM TypeCorrect == Spec => []TypeOK
  BY Invariant, PTL DEF IInv

(* No lane of the arena is handed out twice and none leaks: at every       *)
(* moment the busy lanes are exactly those of open images and live jobs.   *)
THEOREM LanesAreOwned == Spec => []LaneOwnership
  BY Invariant, PTL DEF IInv

(* The guest's rescue and the worker never perform the same job.           *)
THEOREM JobsHaveOneRunner == Spec => []OneRunner
  BY Invariant, PTL DEF IInv

(* An image handed to the writer is not changed until it is written.       *)
THEOREM ImagesAreFrozen == Spec => ImageFrozen
  <1> DEFINE A == \A s \in Slots : Unfinished(s) => arena'[jobs[s].lane] = arena[jobs[s].lane]
  <1>1. IInv /\ [Next]_vars => [A]_vars
    <2> SUFFICES ASSUME IInv, [Next]_vars PROVE UNCHANGED arena \/ A
      BY DEF vars
    <2>1. ASSUME NEW f \in Files, Fwrite(f) PROVE A
      <3>1. CASE file[f].kind # "image"
        BY <2>1, <3>1 DEF Fwrite
      <3>2. CASE file[f].kind = "image"
        <4>1. f \in ImageFiles /\ \A s \in Slots : Unfinished(s) => s \in LiveJobs
          BY <3>2 DEF ImageFiles, LiveJobs, Unfinished
        <4>2. \A s \in Slots : Unfinished(s) => file[f].lane # jobs[s].lane
          BY <4>1 DEF IInv, LaneOwnership
        <4> QED BY <2>1, <3>2, <4>2 DEF Fwrite, IInv, TypeOK
      <3> QED BY <3>1, <3>2
    <2>2. CASE \E f \in Files : Fwrite(f)
      BY <2>1, <2>2
    <2>3. CASE GuestCalls /\ ~\E f \in Files : Fwrite(f)
      BY <2>3 DEF GuestCalls, Fopen, Read, Remove, Scan, Shutdown, FwriteError, FcloseError,
                  FcloseNative, FcloseQueue, FcloseSynchronous, jobVars
    <2>4. CASE GuestContinues
      BY <2>4 DEF GuestContinues, SignalWake, Poll, StepAnswered, StepTimedOut, RescuePending,
                  RescueNothing, ResumeFopenImage, ResumeFopenNative, ResumeRead, ResumeRemove,
                  ResumeSynchronous, ResumeShutdown, Join, NativeOpen, NativeWrite, PublishJob,
                  PublishSynchronous, jobVars
    <2>5. CASE Worker
      BY <2>5 DEF Worker, WorkerWait, WorkerTake, WorkerIdle, WorkerSignal, NativeOpen,
                  NativeWrite, PublishJob, jobVars
    <2>6. CASE UNCHANGED vars
      BY <2>6 DEF vars
    <2> QED BY <2>2, <2>3, <2>4, <2>5, <2>6 DEF Next
  <1> QED BY Invariant, <1>1, PTL DEF Spec, ImageFrozen

-----------------------------------------------------------------------------
(* Only a READY worker has jobs queued for it.                             *)
NoneQueued == \A s \in Slots : jobs[s].state # "PENDING"
QueueInv   == workerState \in {"COLD", "FAILED"} => NoneQueued

LEMMA FrameQueue ==
  ASSUME QueueInv, workerState' \in {workerState, "READY", "STOPPED"},
         \A s \in Slots : jobs'[s].state = "PENDING" => jobs[s].state = "PENDING"
  PROVE  QueueInv'
  BY DEF QueueInv, NoneQueued

LEMMA QueueStep == ASSUME IInv, QueueInv, [Next]_vars PROVE QueueInv'
  <1> USE DEF jobVars, workerVars
  <1>1. ASSUME NEW f \in Files, NEW p \in Paths, Fopen(f, p) PROVE QueueInv'
    BY <1>1, FrameQueue DEF Fopen
  <1>2. ASSUME NEW p \in Paths, Read(p) PROVE QueueInv'
    BY <1>2, FrameQueue DEF Read
  <1>3. ASSUME NEW p \in Paths, Remove(p) PROVE QueueInv'
    BY <1>3, FrameQueue DEF Remove
  <1>4. ASSUME Scan PROVE QueueInv'
    BY <1>4, FrameQueue DEF Scan
  <1>5. ASSUME Shutdown PROVE QueueInv'
    BY <1>5, FrameQueue DEF Shutdown
  <1>6. ASSUME NEW f \in Files, Fwrite(f) PROVE QueueInv'
    BY <1>6, FrameQueue DEF Fwrite
  <1>7. ASSUME NEW f \in Files, FwriteError(f) PROVE QueueInv'
    BY <1>7, FrameQueue DEF FwriteError
  <1>8. ASSUME NEW f \in Files, FcloseError(f) PROVE QueueInv'
    BY <1>8, FrameQueue DEF FcloseError
  <1>9. ASSUME NEW f \in Files, FcloseNative(f) PROVE QueueInv'
    BY <1>9, FrameQueue DEF FcloseNative
  <1>10. ASSUME NEW f \in Files, FcloseQueue(f) PROVE QueueInv'
    BY <1>10 DEF FcloseQueue, QueueInv
  <1>11. ASSUME NEW f \in Files, FcloseSynchronous(f) PROVE QueueInv'
    <2>1. \A s \in Slots : jobs'[s].state = "PENDING" => jobs[s].state = "PENDING"
      BY <1>11 DEF FcloseSynchronous, Reclaimed, EmptyJob
    <2> QED BY <1>11, <2>1 DEF FcloseSynchronous, WorkerStarted, QueueInv, NoneQueued
  <1>12. ASSUME SignalWake PROVE QueueInv'
    BY <1>12, FrameQueue DEF SignalWake
  <1>13. ASSUME Poll PROVE QueueInv'
    <2>1. \A s \in Slots : jobs'[s].state = "PENDING" => jobs[s].state = "PENDING"
      BY <1>13 DEF Poll, Reclaimed, EmptyJob
    <2> QED BY <1>13, <2>1, FrameQueue DEF Poll
  <1>14. ASSUME StepAnswered PROVE QueueInv'
    BY <1>14, FrameQueue DEF StepAnswered
  <1>15. ASSUME StepTimedOut PROVE QueueInv'
    BY <1>15, FrameQueue DEF StepTimedOut
  <1>16. ASSUME RescuePending PROVE QueueInv'
    BY <1>16, FrameQueue DEF RescuePending, OldestPending, IInv, TypeOK, JobType
  <1>17. ASSUME RescueNothing PROVE QueueInv'
    BY <1>17 DEF RescueNothing, QueueInv, NoneQueued
  <1>18. ASSUME ResumeFopenImage PROVE QueueInv'
    <2>1. \A s \in Slots : jobs'[s].state = "PENDING" => jobs[s].state = "PENDING"
      BY <1>18 DEF ResumeFopenImage, Reclaimed, EmptyJob
    <2> QED BY <1>18, <2>1, FrameQueue DEF ResumeFopenImage
  <1>19. ASSUME ResumeFopenNative PROVE QueueInv'
    <2>1. \A s \in Slots : jobs'[s].state = "PENDING" => jobs[s].state = "PENDING"
      BY <1>19 DEF ResumeFopenNative, Reclaimed, EmptyJob
    <2> QED BY <1>19, <2>1, FrameQueue DEF ResumeFopenNative
  <1>20. ASSUME ResumeRead PROVE QueueInv'
    BY <1>20, FrameQueue DEF ResumeRead
  <1>21. ASSUME ResumeRemove PROVE QueueInv'
    BY <1>21, FrameQueue DEF ResumeRemove
  <1>22. ASSUME ResumeSynchronous PROVE QueueInv'
    BY <1>22, FrameQueue DEF ResumeSynchronous
  <1>23. ASSUME ResumeShutdown PROVE QueueInv'
    BY <1>23, FrameQueue DEF ResumeShutdown
  <1>24. ASSUME Join PROVE QueueInv'
    <2>1. \A s \in Slots : jobs'[s].state = "PENDING" => jobs[s].state = "PENDING"
      BY <1>24 DEF Join, Reclaimed, EmptyJob
    <2> QED BY <1>24, <2>1, FrameQueue DEF Join
  <1>25. ASSUME NEW t \in Threads, NativeOpen(t) PROVE QueueInv'
    BY <1>25, FrameQueue DEF NativeOpen
  <1>26. ASSUME NEW t \in Threads, NativeWrite(t) PROVE QueueInv'
    BY <1>26, FrameQueue DEF NativeWrite
  <1>27. ASSUME NEW t \in Threads, PublishJob(t) PROVE QueueInv'
    BY <1>27, FrameQueue DEF PublishJob, OldestPending, IInv, TypeOK, JobType
  <1>28. ASSUME PublishSynchronous PROVE QueueInv'
    BY <1>28, FrameQueue DEF PublishSynchronous
  <1>29. ASSUME WorkerWait PROVE QueueInv'
    BY <1>29, FrameQueue DEF WorkerWait
  <1>30. ASSUME WorkerTake PROVE QueueInv'
    BY <1>30, FrameQueue DEF WorkerTake, OldestPending, IInv, TypeOK, JobType
  <1>31. ASSUME WorkerIdle PROVE QueueInv'
    BY <1>31, FrameQueue DEF WorkerIdle
  <1>32. ASSUME WorkerSignal PROVE QueueInv'
    BY <1>32, FrameQueue DEF WorkerSignal
  <1>33. CASE UNCHANGED vars BY <1>33, FrameQueue DEF vars
  <1>34. CASE GuestCalls
    BY <1>34, <1>1, <1>2, <1>3, <1>4, <1>5, <1>6, <1>7, <1>8, <1>9, <1>10, <1>11 DEF GuestCalls
  <1>35. CASE GuestContinues
    BY <1>35, <1>12, <1>13, <1>14, <1>15, <1>16, <1>17, <1>18, <1>19, <1>20, <1>21, <1>22, <1>23, <1>24, <1>25, <1>26, <1>27, <1>28 DEF GuestContinues, Threads
  <1>36. CASE Worker
    BY <1>36, <1>25, <1>26, <1>27, <1>29, <1>30, <1>31, <1>32 DEF Worker, Threads
  <1> QED BY <1>33, <1>34, <1>35, <1>36 DEF Next

(* A worker is given up only when nothing is queued: later calls find at   *)
(* most the jobs it was already running, so they return at once.           *)
THEOREM FailedLeavesNothingQueued == Spec => []FailedHasNoPending
  <1>1. Init => QueueInv
    BY DEF Init, QueueInv, NoneQueued, EmptyJob
  <1>2. IInv /\ QueueInv /\ [Next]_vars => QueueInv'
    BY QueueStep
  <1>3. QueueInv => FailedHasNoPending
    BY DEF QueueInv, NoneQueued, FailedHasNoPending
  <1> QED BY Invariant, <1>1, <1>2, <1>3, PTL DEF Spec

-----------------------------------------------------------------------------
(* A worker that answers in time, and a card that does not fail.           *)

(* What the theorems below assume; without it the code keeps neither       *)
(* promise, as the runs async_abandon and async_reorder show.              *)
Prompt == ~MayTimeOut /\ ~IoMayFail

-----------------------------------------------------------------------------
(* The inductive invariant, beyond IInv.                                   *)

Waited == {"resume", "open", "write", "publish", "join"}
Open   == {f \in Files : file[f].kind # "closed"}

(* No call is given up, and one that has waited for a path has waited for  *)
(* all of its jobs.  Only a READY worker has jobs.                         *)
WaitInv ==
  /\ at["guest"] # "rescue" /\ run["guest"] = NoSlot
  /\ workerState # "READY" => ~Busy(AllPaths)
  /\ at["guest"] \in Waited => ~Busy(op.path)
  /\ op.kind = "shutdown" => op.path = AllPaths
  /\ op.kind = "remove" => op.path \in Paths
  /\ at["guest"] = "join" => op.kind = "shutdown"
  /\ at["guest"] \notin {"idle", "signal"} => op.kind # "none"

(* A path has one writer: an open handle, an unfinished job, or the fopen  *)
(* or fclose in progress.                                                  *)
HandlePaths ==
  /\ \A f \in Files : file[f].kind = "closed" => file[f].path = NoPath
  /\ \A f \in Open : file[f].path \in Paths /\ file[f].id \in Contents
  /\ \A f, g \in Open : f # g => file[f].path # file[g].path
JobPaths ==
  /\ \A s \in Slots : Unfinished(s) => jobs[s].path \in Paths
  /\ \A s, r \in Slots : Unfinished(s) /\ Unfinished(r) /\ s # r => jobs[s].path # jobs[r].path
  /\ \A f \in Open, s \in Slots : Unfinished(s) => jobs[s].path # file[f].path
OpPaths ==
  /\ op.kind = "fopen"  => opens \in Contents /\ \A g \in Files : file[g].path # op.path
  /\ op.kind = "fclose" => op.path = file[op.file].path

(* What a job or an open image would write.                                *)
Image(r) == Whole(r, arena[r.lane])

ImageInv ==
  \A f \in ImageFiles : file[f].size # 0 => arena[file[f].lane] = file[f].id

(* The path the guest is writing itself.                                   *)
Rewritten(p) == at["guest"] \in {"write", "publish"} /\ op.path = p

(* The guest was told the image of a path's unfinished job, or else what   *)
(* the card holds.                                                         *)
ToldInv ==
  /\ \A s \in Slots : Unfinished(s) => acked[jobs[s].path] = Image(jobs[s])
  /\ \A p \in Paths : ~Busy(p) /\ ~Rewritten(p) => disk[p] = acked[p]

(* A write ends with the whole image on the card.                          *)
WriteOK(t) == /\ at[t] = "write"   => Job(t).size # 0
              /\ at[t] = "publish" => disk[Job(t).path] = Image(Job(t))
WriteInv   == WriteOK("guest") /\ WriteOK("worker")

PInv == IInv /\ WaitInv /\ HandlePaths /\ JobPaths /\ OpPaths /\ ImageInv /\ ToldInv /\ WriteInv

-----------------------------------------------------------------------------
(* What a step leaves of the queue and of the handles.                     *)

Kept(s)     == /\ jobs'[s].path = jobs[s].path /\ jobs'[s].lane = jobs[s].lane
               /\ jobs'[s].size = jobs[s].size /\ jobs'[s].seq = jobs[s].seq
SameQueue   == \A s \in Slots : Unfinished(s)' = Unfinished(s) /\ (Unfinished(s) => Kept(s))
SameHandles == \A f \in Files : /\ file'[f].path = file[f].path /\ file'[f].lane = file[f].lane
                                /\ file'[f].size = file[f].size /\ file'[f].id = file[f].id
                                /\ (file'[f].kind = "closed" <=> file[f].kind = "closed")
                                /\ (file'[f].kind = "native" <=> file[f].kind = "native")

(* Reclaiming the finished jobs leaves the queue.                          *)
LEMMA ReclaimQueue == ASSUME TypeOK, jobs' = Reclaimed PROVE SameQueue
  BY DEF TypeOK, JobType, Reclaimed, SameQueue, Unfinished, Kept, EmptyJob

(* The worker takes a job without leaving the queue.                       *)
LEMMA TakeQueue ==
  ASSUME TypeOK, NEW s \in Slots, OldestPending(s), jobs' = [jobs EXCEPT ![s].state = "RUNNING"]
  PROVE  SameQueue
  BY DEF TypeOK, JobType, OldestPending, SameQueue, Unfinished, Kept

(* ... and so does a step without a job.                                   *)
LEMMA StillQueue == ASSUME jobs' = jobs PROVE SameQueue
  BY DEF SameQueue, Unfinished, Kept

(* A step without a handle leaves the handles.                             *)
LEMMA StillHandles == ASSUME file' = file PROVE SameHandles
  BY DEF SameHandles

(* A path is busy for as long as the queue stays.                          *)
LEMMA SameBusy == ASSUME SameQueue, NEW p PROVE Busy(p)' <=> Busy(p)
  BY DEF SameQueue, Busy, Kept

(* A quiet step: nothing the guest was told, no image and no file changes, *)
(* and no thread enters or leaves a write.                                 *)
Quiet ==
  /\ SameQueue /\ SameHandles /\ UNCHANGED <<disk, acked, arena, sequence>>
  /\ UNCHANGED run["guest"]
  /\ at["guest"] \in {"write", "publish"} => UNCHANGED <<at["guest"], op>>
  /\ at'["guest"] \in {"write", "publish"} => UNCHANGED <<at["guest"], op>>
  /\ at'["worker"] \in {"write", "publish"} => UNCHANGED <<at["worker"], run["worker"]>>
  /\ op'.kind = "fopen" => \A g \in Files : file[g].path # op'.path
  /\ op'.kind = "fopen" => opens' \in Contents
  /\ op'.kind = "fclose" => op'.path = file[op'.file].path

(* Every other step the guest or the worker can take.                      *)
Loud ==
  \/ \E f \in Files : Fwrite(f) \/ FcloseError(f) \/ FcloseNative(f) \/ FcloseQueue(f)
  \/ ResumeFopenImage \/ ResumeFopenNative \/ ResumeRemove
  \/ \E t \in Threads : NativeOpen(t) \/ NativeWrite(t)
  \/ PublishJob("worker") \/ PublishSynchronous

(* No window passes in silence and no call is rescued; what is neither of  *)
(* the loud steps is quiet.                                                *)
LEMMA StepKinds == ASSUME Prompt, PInv, [Next]_vars PROVE Quiet \/ Loud
  <1> USE DEF Quiet, PInv, IInv, TypeOK, OpInv, OpPaths, Threads, Goto, Done, NoOp, jobVars,
      workerVars, Contents
  <1>1. ASSUME NEW f \in Files, NEW p \in Paths, Fopen(f, p) PROVE Quiet \/ Loud
    BY <1>1, StillQueue, StillHandles, AsyncWriteAssumption DEF Fopen, StartWait
  <1>2. ASSUME NEW p \in Paths, Read(p) PROVE Quiet \/ Loud
    BY <1>2, StillQueue, StillHandles DEF Read, StartWait
  <1>3. ASSUME NEW p \in Paths, Remove(p) PROVE Quiet \/ Loud
    BY <1>3, StillQueue, StillHandles DEF Remove, StartWait
  <1>4. ASSUME Scan PROVE Quiet \/ Loud
    BY <1>4, StillQueue, StillHandles DEF Scan, StartWait
  <1>5. ASSUME Shutdown PROVE Quiet \/ Loud
    BY <1>5, StillQueue, StillHandles DEF Shutdown, StartWait
  <1>6. ASSUME NEW f \in Files, Fwrite(f) PROVE Quiet \/ Loud
    BY <1>6 DEF Loud
  <1>7. ASSUME NEW f \in Files, FwriteError(f) PROVE Quiet \/ Loud
    <2>1. SameHandles
      BY <1>7 DEF FwriteError, SameHandles, FileType
    <2> QED BY <1>7, <2>1, StillQueue DEF FwriteError
  <1>8. ASSUME NEW f \in Files, FcloseError(f) PROVE Quiet \/ Loud
    BY <1>8 DEF Loud
  <1>9. ASSUME NEW f \in Files, FcloseNative(f) PROVE Quiet \/ Loud
    BY <1>9 DEF Loud
  <1>10. ASSUME NEW f \in Files, FcloseQueue(f) PROVE Quiet \/ Loud
    BY <1>10 DEF Loud
  <1>11. ASSUME NEW f \in Files, FcloseSynchronous(f) PROVE Quiet \/ Loud
    <2>1. SameHandles
      BY <1>11 DEF FcloseSynchronous, SameHandles, FileType
    <2>2. SameQueue
      BY <1>11, StillQueue, ReclaimQueue DEF FcloseSynchronous
    <2> QED BY <1>11, <2>1, <2>2 DEF FcloseSynchronous
  <1>12. ASSUME SignalWake PROVE Quiet \/ Loud
    BY <1>12, StillQueue, StillHandles DEF SignalWake
  <1>13. ASSUME Poll PROVE Quiet \/ Loud
    BY <1>13, ReclaimQueue, StillHandles DEF Poll
  <1>14. ASSUME StepAnswered PROVE Quiet \/ Loud
    BY <1>14, StillQueue, StillHandles DEF StepAnswered
  <1>15. ASSUME StepTimedOut PROVE Quiet \/ Loud
    BY <1>15 DEF StepTimedOut, Prompt
  <1>16. ASSUME RescuePending PROVE Quiet \/ Loud
    BY <1>16 DEF RescuePending, WaitInv
  <1>17. ASSUME RescueNothing PROVE Quiet \/ Loud
    BY <1>17 DEF RescueNothing, WaitInv
  <1>18. ASSUME ResumeFopenImage PROVE Quiet \/ Loud
    BY <1>18 DEF Loud
  <1>19. ASSUME ResumeFopenNative PROVE Quiet \/ Loud
    BY <1>19 DEF Loud
  <1>20. ASSUME ResumeRead PROVE Quiet \/ Loud
    BY <1>20, StillQueue, StillHandles DEF ResumeRead
  <1>21. ASSUME ResumeRemove PROVE Quiet \/ Loud
    BY <1>21 DEF Loud
  <1>22. ASSUME ResumeSynchronous PROVE Quiet \/ Loud
    BY <1>22, StillQueue, StillHandles DEF ResumeSynchronous
  <1>23. ASSUME ResumeShutdown PROVE Quiet \/ Loud
    BY <1>23, StillQueue, StillHandles DEF ResumeShutdown
  <1>24. ASSUME Join PROVE Quiet \/ Loud
    BY <1>24, ReclaimQueue, StillHandles DEF Join
  <1>25. ASSUME NEW t \in Threads, NativeOpen(t) PROVE Quiet \/ Loud
    BY <1>25 DEF Loud
  <1>26. ASSUME NEW t \in Threads, NativeWrite(t) PROVE Quiet \/ Loud
    BY <1>26 DEF Loud
  <1>27. ASSUME NEW t \in Threads, PublishJob(t) PROVE Quiet \/ Loud
    <2>1. t # "guest"
      BY <1>27 DEF PublishJob, WaitInv
    <2> QED BY <1>27, <2>1 DEF Loud, Threads
  <1>28. ASSUME PublishSynchronous PROVE Quiet \/ Loud
    BY <1>28 DEF Loud
  <1>29. ASSUME WorkerWait PROVE Quiet \/ Loud
    BY <1>29, StillQueue, StillHandles DEF WorkerWait
  <1>30. ASSUME WorkerTake PROVE Quiet \/ Loud
    <2>1. SameQueue
      BY <1>30, TakeQueue DEF WorkerTake
    <2> QED BY <1>30, <2>1, StillHandles DEF WorkerTake
  <1>31. ASSUME WorkerIdle PROVE Quiet \/ Loud
    BY <1>31, StillQueue, StillHandles DEF WorkerIdle
  <1>32. ASSUME WorkerSignal PROVE Quiet \/ Loud
    BY <1>32, StillQueue, StillHandles DEF WorkerSignal
  <1>33. CASE UNCHANGED vars
    BY <1>33, StillQueue, StillHandles DEF vars
  <1>34. CASE GuestCalls
    BY <1>34, <1>1, <1>2, <1>3, <1>4, <1>5, <1>6, <1>7, <1>8, <1>9, <1>10, <1>11 DEF GuestCalls
  <1>35. CASE GuestContinues
    BY <1>35, <1>12, <1>13, <1>14, <1>15, <1>16, <1>17, <1>18, <1>19, <1>20, <1>21, <1>22, <1>23,
       <1>24, <1>25, <1>26, <1>27, <1>28 DEF GuestContinues, Threads
  <1>36. CASE Worker
    BY <1>36, <1>25, <1>26, <1>27, <1>29, <1>30, <1>31, <1>32 DEF Worker, Threads
  <1> QED BY <1>33, <1>34, <1>35, <1>36 DEF Next

(* No call is given up, and every call waits for what it needs.            *)
LEMMA WaitStep == ASSUME Prompt, PInv, [Next]_vars PROVE WaitInv'
  <1> USE DEF WaitInv, PInv, IInv, TypeOK, OpInv, Waited, Threads, Goto, Done, NoOp, jobVars,
      workerVars
  <1>1. ASSUME NEW f \in Files, NEW p \in Paths, Fopen(f, p) PROVE WaitInv'
    BY <1>1 DEF Fopen, StartWait, Busy, Unfinished
  <1>2. ASSUME NEW p \in Paths, Read(p) PROVE WaitInv'
    BY <1>2 DEF Read, StartWait, Busy, Unfinished
  <1>3. ASSUME NEW p \in Paths, Remove(p) PROVE WaitInv'
    BY <1>3 DEF Remove, StartWait, Busy, Unfinished
  <1>4. ASSUME Scan PROVE WaitInv'
    BY <1>4 DEF Scan, StartWait, Busy, Unfinished
  <1>5. ASSUME Shutdown PROVE WaitInv'
    BY <1>5 DEF Shutdown, StartWait, Busy, Unfinished
  <1>6. ASSUME NEW f \in Files, Fwrite(f) PROVE WaitInv'
    BY <1>6 DEF Fwrite, Busy, Unfinished
  <1>7. ASSUME NEW f \in Files, FwriteError(f) PROVE WaitInv'
    BY <1>7 DEF FwriteError, Busy, Unfinished
  <1>8. ASSUME NEW f \in Files, FcloseError(f) PROVE WaitInv'
    BY <1>8 DEF FcloseError, Busy, Unfinished
  <1>9. ASSUME NEW f \in Files, FcloseNative(f) PROVE WaitInv'
    BY <1>9 DEF FcloseNative, Busy, Unfinished
  <1>10. ASSUME NEW f \in Files, FcloseQueue(f) PROVE WaitInv'
    BY <1>10 DEF FcloseQueue, OpInv
  <1>11. ASSUME NEW f \in Files, FcloseSynchronous(f) PROVE WaitInv'
    <2>1. SameQueue
      BY <1>11, StillQueue, ReclaimQueue DEF FcloseSynchronous
    <2> QED BY <1>11, <2>1 DEF FcloseSynchronous, WorkerStarted, Busy, SameQueue, Kept
  <1>12. ASSUME SignalWake PROVE WaitInv'
    BY <1>12 DEF SignalWake, Busy, Unfinished
  <1>13. ASSUME Poll PROVE WaitInv'
    <2>1. SameQueue
      BY <1>13, ReclaimQueue DEF Poll
    <2> QED BY <1>13, <2>1 DEF Poll, Busy, SameQueue, Kept
  <1>14. ASSUME StepAnswered PROVE WaitInv'
    BY <1>14 DEF StepAnswered, Busy, Unfinished
  <1>15. ASSUME StepTimedOut PROVE WaitInv'
    BY <1>15 DEF StepTimedOut, Prompt
  <1>16. ASSUME RescuePending PROVE WaitInv'
    BY <1>16 DEF RescuePending
  <1>17. ASSUME RescueNothing PROVE WaitInv'
    BY <1>17 DEF RescueNothing
  <1>18. ASSUME ResumeFopenImage PROVE WaitInv'
    <2>1. SameQueue
      BY <1>18, ReclaimQueue DEF ResumeFopenImage
    <2> QED BY <1>18, <2>1 DEF ResumeFopenImage, Busy, SameQueue, Kept
  <1>19. ASSUME ResumeFopenNative PROVE WaitInv'
    <2>1. SameQueue
      BY <1>19, ReclaimQueue DEF ResumeFopenNative
    <2> QED BY <1>19, <2>1 DEF ResumeFopenNative, Busy, SameQueue, Kept
  <1>20. ASSUME ResumeRead PROVE WaitInv'
    BY <1>20 DEF ResumeRead, Busy, Unfinished
  <1>21. ASSUME ResumeRemove PROVE WaitInv'
    BY <1>21 DEF ResumeRemove, Busy, Unfinished
  <1>22. ASSUME ResumeSynchronous PROVE WaitInv'
    BY <1>22 DEF ResumeSynchronous, Busy, Unfinished
  <1>23. ASSUME ResumeShutdown PROVE WaitInv'
    BY <1>23 DEF ResumeShutdown, Busy, Unfinished
  <1>24. ASSUME Join PROVE WaitInv'
    <2>1. SameQueue
      BY <1>24, ReclaimQueue DEF Join
    <2> QED BY <1>24, <2>1 DEF Join, Busy, SameQueue, Kept
  <1>25. ASSUME NEW t \in Threads, NativeOpen(t) PROVE WaitInv'
    BY <1>25 DEF NativeOpen, Busy, Unfinished
  <1>26. ASSUME NEW t \in Threads, NativeWrite(t) PROVE WaitInv'
    BY <1>26 DEF NativeWrite, Busy, Unfinished
  <1>27. ASSUME NEW t \in Threads, PublishJob(t) PROVE WaitInv'
    <2>1. t = "worker"
      BY <1>27 DEF PublishJob
    <2>2. \A s \in Slots : Unfinished(s)' => Unfinished(s) /\ Kept(s)
      BY <1>27, <2>1 DEF PublishJob, Unfinished, Kept, JobType
    <2> QED BY <1>27, <2>1, <2>2 DEF PublishJob, Busy, Kept
  <1>28. ASSUME PublishSynchronous PROVE WaitInv'
    BY <1>28 DEF PublishSynchronous, Busy, Unfinished
  <1>29. ASSUME WorkerWait PROVE WaitInv'
    BY <1>29 DEF WorkerWait, Busy, Unfinished
  <1>30. ASSUME WorkerTake PROVE WaitInv'
    <2>1. SameQueue
      BY <1>30, TakeQueue DEF WorkerTake
    <2> QED BY <1>30, <2>1 DEF WorkerTake, Busy, SameQueue, Kept
  <1>31. ASSUME WorkerIdle PROVE WaitInv'
    BY <1>31 DEF WorkerIdle, Busy, Unfinished
  <1>32. ASSUME WorkerSignal PROVE WaitInv'
    BY <1>32 DEF WorkerSignal, Busy, Unfinished
  <1>33. CASE UNCHANGED vars
    BY <1>33 DEF vars, Busy, Unfinished
  <1>34. CASE GuestCalls
    BY <1>34, <1>1, <1>2, <1>3, <1>4, <1>5, <1>6, <1>7, <1>8, <1>9, <1>10, <1>11 DEF GuestCalls
  <1>35. CASE GuestContinues
    BY <1>35, <1>12, <1>13, <1>14, <1>15, <1>16, <1>17, <1>18, <1>19, <1>20, <1>21, <1>22, <1>23,
       <1>24, <1>25, <1>26, <1>27, <1>28 DEF GuestContinues, Threads
  <1>36. CASE Worker
    BY <1>36, <1>25, <1>26, <1>27, <1>29, <1>30, <1>31, <1>32 DEF Worker, Threads
  <1> QED BY <1>33, <1>34, <1>35, <1>36 DEF Next

(* A step that leaves the queue and the handles leaves their paths.        *)
LEMMA FramePaths ==
  ASSUME HandlePaths, JobPaths, SameHandles, SameQueue PROVE HandlePaths' /\ JobPaths'
  <1>1. Open' = Open /\ Open \subseteq Files
    BY DEF Open, SameHandles
  <1>2. HandlePaths'
    BY <1>1 DEF HandlePaths, SameHandles
  <1>3. JobPaths'
    BY <1>1 DEF JobPaths, SameHandles, SameQueue, Kept
  <1> QED BY <1>2, <1>3

(* A path keeps its one writer.                                            *)
LEMMA PathStep ==
  ASSUME Prompt, PInv, IInv', [Next]_vars PROVE HandlePaths' /\ JobPaths' /\ OpPaths'
  <1> USE DEF HandlePaths, JobPaths, OpPaths, Open, PInv, IInv, TypeOK, Done, Goto, jobVars,
      workerVars
  <1>1. ASSUME Quiet PROVE HandlePaths' /\ JobPaths' /\ OpPaths'
    <2>1. HandlePaths' /\ JobPaths'
      BY <1>1, FramePaths DEF Quiet
    <2>2. OpPaths'
      BY <1>1 DEF Quiet, SameHandles, OpInv
    <2> QED BY <2>1, <2>2
  <1>2. ASSUME NEW f \in Files, Fwrite(f) PROVE HandlePaths' /\ JobPaths' /\ OpPaths'
    BY <1>2 DEF Fwrite, FileType, Unfinished, OpInv
  <1>3. ASSUME NEW f \in Files, FcloseError(f) PROVE HandlePaths' /\ JobPaths' /\ OpPaths'
    BY <1>3 DEF FcloseError, ClosedFile, Unfinished, OpInv
  <1>4. ASSUME NEW f \in Files, FcloseNative(f) PROVE HandlePaths' /\ JobPaths' /\ OpPaths'
    BY <1>4 DEF FcloseNative, ClosedFile, Unfinished, OpInv
  <1>5. ASSUME NEW f \in Files, FcloseQueue(f) PROVE HandlePaths' /\ JobPaths' /\ OpPaths'
    <2>1. PICK s \in Slots :
            /\ ~Unfinished(s)
            /\ jobs' = [Reclaimed EXCEPT ![s] =
                 [state |-> "PENDING", path |-> file[f].path, lane |-> file[f].lane,
                  size |-> file[f].size, seq |-> (sequence + 1) % SequenceMod]]
      BY <1>5, ReclaimFact DEF FcloseQueue, Lowest, EmptySlots
    <2>2. \A r \in Slots : r # s => (Unfinished(r)' <=> Unfinished(r)) /\ (Unfinished(r) => Kept(r))
      BY <2>1, ReclaimFact, ReclaimType DEF Unfinished, Kept, JobType, Reclaimed, EmptyJob
    <2>3. Unfinished(s)' /\ jobs'[s].path = file[f].path
      BY <2>1, ReclaimType DEF Unfinished
    <2>4. f \in Open /\ file' = [file EXCEPT ![f] = ClosedFile] /\ op' = op /\ op.kind = "none"
      BY <1>5 DEF FcloseQueue, OpInv
    <2>5. HandlePaths'
      BY <2>4 DEF ClosedFile
    <2>6. JobPaths'
      BY <2>1, <2>2, <2>3, <2>4 DEF ClosedFile, Kept
    <2>7. OpPaths'
      BY <2>4
    <2> QED BY <2>5, <2>6, <2>7
  <1>6. ASSUME ResumeFopenImage PROVE HandlePaths' /\ JobPaths' /\ OpPaths'
    <2>1. op.file \in Files /\ op.path \in Paths /\ ~Busy(op.path) /\ op.kind = "fopen"
      BY <1>6 DEF ResumeFopenImage, OpInv, WaitInv, Waited
    <2>2. PICK l \in Lanes :
            file' = [file EXCEPT ![op.file] = [kind |-> "image", path |-> op.path, lane |-> l,
                                               size |-> 0, id |-> opens, error |-> 0]]
      BY <1>6, AsyncWriteAssumption DEF ResumeFopenImage, Lowest, Lanes
    <2>3. SameQueue
      BY <1>6, ReclaimQueue DEF ResumeFopenImage
    <2>4. \A s \in Slots : Unfinished(s) => jobs[s].path # op.path
      BY <2>1 DEF Busy
    <2>5. HandlePaths'
      BY <2>1, <2>2
    <2>6. JobPaths'
      BY <2>1, <2>2, <2>3, <2>4 DEF SameQueue, Kept
    <2>7. OpPaths'
      BY <1>6 DEF ResumeFopenImage, NoOp
    <2> QED BY <2>5, <2>6, <2>7
  <1>7. ASSUME ResumeFopenNative PROVE HandlePaths' /\ JobPaths' /\ OpPaths'
    <2>1. op.file \in Files /\ op.path \in Paths /\ ~Busy(op.path) /\ op.kind = "fopen"
      BY <1>7 DEF ResumeFopenNative, OpInv, WaitInv, Waited
    <2>2. file' = [file EXCEPT ![op.file] = [kind |-> "native", path |-> op.path, lane |-> 0,
                                               size |-> 0, id |-> opens, error |-> 0]]
      BY <1>7, AsyncWriteAssumption DEF ResumeFopenNative, Lanes
    <2>3. SameQueue
      BY <1>7, ReclaimQueue DEF ResumeFopenNative
    <2>4. \A s \in Slots : Unfinished(s) => jobs[s].path # op.path
      BY <2>1 DEF Busy
    <2>5. HandlePaths'
      BY <2>1, <2>2
    <2>6. JobPaths'
      BY <2>1, <2>2, <2>3, <2>4 DEF SameQueue, Kept
    <2>7. OpPaths'
      BY <1>7 DEF ResumeFopenNative, NoOp
    <2> QED BY <2>5, <2>6, <2>7
  <1>8. ASSUME ResumeRemove PROVE HandlePaths' /\ JobPaths' /\ OpPaths'
    BY <1>8 DEF ResumeRemove, NoOp, Unfinished
  <1>9. ASSUME NEW t \in Threads, NativeOpen(t) PROVE HandlePaths' /\ JobPaths' /\ OpPaths'
    BY <1>9 DEF NativeOpen, Unfinished
  <1>10. ASSUME NEW t \in Threads, NativeWrite(t) PROVE HandlePaths' /\ JobPaths' /\ OpPaths'
    BY <1>10 DEF NativeWrite, Unfinished
  <1>11. ASSUME PublishJob("worker") PROVE HandlePaths' /\ JobPaths' /\ OpPaths'
    <2>1. \A s \in Slots : Unfinished(s)' => Unfinished(s) /\ Kept(s)
      BY <1>11 DEF PublishJob, Unfinished, Kept, JobType
    <2> QED BY <1>11, <2>1 DEF PublishJob, Kept
  <1>12. ASSUME PublishSynchronous PROVE HandlePaths' /\ JobPaths' /\ OpPaths'
    BY <1>12 DEF PublishSynchronous, ClosedFile, Unfinished, NoOp
  <1> QED BY StepKinds, <1>1, <1>2, <1>3, <1>4, <1>5, <1>6, <1>7, <1>8, <1>9, <1>10, <1>11,
             <1>12 DEF Loud

(* What an open image holds, it keeps.                                     *)
LEMMA ImageStep == ASSUME Prompt, PInv, IInv', [Next]_vars PROVE ImageInv'
  <1> USE DEF PInv, IInv, TypeOK, jobVars, workerVars
  <1>1. ASSUME Quiet PROVE ImageInv'
    BY <1>1 DEF Quiet, SameHandles, ImageInv, ImageFiles, FileType
  <1>2. ASSUME NEW f \in Files, Fwrite(f) PROVE ImageInv'
    <2>1. CASE file[f].kind = "image"
      <3>1. f \in ImageFiles /\ \A g \in ImageFiles : g # f => file[g].lane # file[f].lane
        BY <2>1 DEF ImageFiles, LaneOwnership
      <3>2. /\ arena'[file[f].lane] = file[f].id
            /\ \A l \in Lanes : l # file[f].lane => arena'[l] = arena[l]
        BY <1>2, <2>1 DEF Fwrite, FileType
      <3>3. \A g \in Files : /\ file'[g].kind = file[g].kind /\ file'[g].lane = file[g].lane
                              /\ file'[g].id = file[g].id /\ (g # f => file'[g].size = file[g].size)
        BY <1>2 DEF Fwrite, FileType
      <3> QED BY <3>1, <3>2, <3>3 DEF ImageInv, ImageFiles, FileType
    <2>2. CASE file[f].kind # "image"
      BY <1>2, <2>2 DEF Fwrite, FileType, ImageInv, ImageFiles
    <2> QED BY <2>1, <2>2
  <1>3. ASSUME NEW f \in Files, FcloseError(f) PROVE ImageInv'
    BY <1>3 DEF FcloseError, ClosedFile, ImageInv, ImageFiles, OpInv, RunInv
  <1>4. ASSUME NEW f \in Files, FcloseNative(f) PROVE ImageInv'
    BY <1>4 DEF FcloseNative, ClosedFile, ImageInv, ImageFiles, OpInv, RunInv
  <1>5. ASSUME NEW f \in Files, FcloseQueue(f) PROVE ImageInv'
    BY <1>5 DEF FcloseQueue, ClosedFile, ImageInv, ImageFiles, OpInv, RunInv
  <1>6. ASSUME ResumeFopenImage PROVE ImageInv'
    BY <1>6 DEF ResumeFopenImage, ImageInv, ImageFiles, OpInv
  <1>7. ASSUME ResumeFopenNative PROVE ImageInv'
    BY <1>7 DEF ResumeFopenNative, ImageInv, ImageFiles, OpInv
  <1>8. ASSUME ResumeRemove PROVE ImageInv'
    BY <1>8 DEF ResumeRemove, ImageInv, ImageFiles
  <1>9. ASSUME NEW t \in Threads, NativeOpen(t) PROVE ImageInv'
    BY <1>9 DEF NativeOpen, ImageInv, ImageFiles
  <1>10. ASSUME NEW t \in Threads, NativeWrite(t) PROVE ImageInv'
    BY <1>10 DEF NativeWrite, ImageInv, ImageFiles
  <1>11. ASSUME PublishJob("worker") PROVE ImageInv'
    BY <1>11 DEF PublishJob, ImageInv, ImageFiles
  <1>12. ASSUME PublishSynchronous PROVE ImageInv'
    BY <1>12 DEF PublishSynchronous, ClosedFile, ImageInv, ImageFiles, OpInv, RunInv
  <1> QED BY StepKinds, <1>1, <1>2, <1>3, <1>4, <1>5, <1>6, <1>7, <1>8, <1>9, <1>10, <1>11,
             <1>12 DEF Loud

(* The worker performs an unfinished job ...                               *)
LEMMA WorkerJob ==
  ASSUME PInv, at["worker"] \in {"open", "write", "publish"}
  PROVE  /\ run["worker"] \in Slots /\ Unfinished(run["worker"])
         /\ Job("worker") = jobs[run["worker"]] /\ jobs[run["worker"]].path \in Paths
         /\ jobs[run["worker"]] \in JobType
  <1>1. run["worker"] \in Slots
    BY DEF PInv, IInv, RunInv, TypeOK, Threads
  <1>2. Unfinished(run["worker"])
    BY <1>1 DEF PInv, IInv, OneRunner, Threads, Unfinished
  <1>3. Job("worker") = jobs[run["worker"]]
    BY <1>1 DEF Job, NoSlot, Slots
  <1> QED BY <1>1, <1>2, <1>3 DEF PInv, JobPaths, IInv, TypeOK

(* ... and the guest the image it is closing, on a path without jobs.      *)
LEMMA GuestJob ==
  ASSUME PInv, at["guest"] \in {"open", "write", "publish"}
  PROVE  /\ op.kind = "fclose" /\ op.file \in Files /\ op.file \in Open /\ op.file \in ImageFiles
         /\ Job("guest") = file[op.file] /\ file[op.file].path = op.path /\ op.path \in Paths
         /\ \A s \in Slots : Unfinished(s) => jobs[s].path # op.path
  <1>1. run["guest"] = NoSlot /\ op.kind = "fclose" /\ op.file \in Files
    BY DEF PInv, IInv, RunInv, OpInv, WaitInv
  <1>2. op.file \in Open /\ op.file \in ImageFiles
    BY <1>1 DEF PInv, IInv, OpInv, Open, ImageFiles
  <1> QED BY <1>1, <1>2 DEF PInv, OpPaths, HandlePaths, JobPaths, Job

(* A worker that goes on with its job still has its write ahead, or done.  *)
LEMMA FrameWorker ==
  ASSUME PInv, UNCHANGED <<at["worker"], run["worker"]>>,
         at["worker"] \in {"write", "publish"} =>
           LET w == run["worker"] IN
             /\ Kept(w) /\ arena'[jobs[w].lane] = arena[jobs[w].lane]
             /\ disk'[jobs[w].path] = disk[jobs[w].path]
  PROVE  WriteOK("worker")'
  <1>1. SUFFICES ASSUME at["worker"] \in {"write", "publish"} PROVE WriteOK("worker")'
    BY DEF WriteOK
  <1> DEFINE w == run["worker"]
  <1>2. Job("worker") = jobs[w] /\ w # NoSlot
    BY <1>1, WorkerJob DEF NoSlot, Slots
  <1>3. Job("worker")' = jobs'[w]
    BY <1>2 DEF Job
  <1>4. /\ Kept(w) /\ arena'[jobs[w].lane] = arena[jobs[w].lane]
        /\ disk'[jobs[w].path] = disk[jobs[w].path]
    BY <1>1
  <1>5. Image(jobs[w])' = Image(jobs[w])
    BY <1>4 DEF Image, Whole, Kept
  <1> QED BY <1>2, <1>3, <1>4, <1>5 DEF PInv, WriteInv, WriteOK, Kept

(* What the guest was told stays true ...                                  *)
(* Writing one image leaves those of the unfinished jobs.                  *)
LEMMA ImagesStay ==
  ASSUME PInv, NEW f \in Files, Fwrite(f), NEW s \in Slots, Unfinished(s)
  PROVE  arena'[jobs[s].lane] = arena[jobs[s].lane]
  <1>1. CASE file[f].kind = "image"
    <2>1. f \in ImageFiles /\ s \in LiveJobs
      BY <1>1 DEF ImageFiles, LiveJobs, Unfinished
    <2> QED BY <1>1, <2>1 DEF Fwrite, PInv, IInv, LaneOwnership, TypeOK
  <1>2. CASE file[f].kind # "image"
    BY <1>2 DEF Fwrite
  <1> QED BY <1>1, <1>2

(* Queueing one file leaves the unfinished jobs.                           *)
LEMMA OthersKept ==
  ASSUME PInv, NEW f \in Files, FcloseQueue(f), NEW r \in Slots, Unfinished(r)
  PROVE  Kept(r)
  <1>1. PICK s \in Slots :
          /\ ~Unfinished(s)
          /\ jobs' = [Reclaimed EXCEPT ![s] =
               [state |-> "PENDING", path |-> file[f].path, lane |-> file[f].lane,
                size |-> file[f].size, seq |-> (sequence + 1) % SequenceMod]]
    BY ReclaimFact DEF FcloseQueue, Lowest, EmptySlots, PInv, IInv
  <1> QED BY <1>1, ReclaimFact DEF Kept, PInv, IInv, Reclaimed

(* The card and what the guest was told change together, at a path nobody  *)
(* has a job for.                                                          *)
LEMMA BothTold ==
  ASSUME PInv, SameQueue, UNCHANGED arena, NEW q \in Paths, NEW c,
         \A s \in Slots : Unfinished(s) => jobs[s].path # q,
         at["guest"] \notin {"write", "publish"}, at'["guest"] \notin {"write", "publish"},
         disk' = [disk EXCEPT ![q] = c], acked' = [acked EXCEPT ![q] = c]
  PROVE  ToldInv'
  <1>1. \A r \in Paths : Busy(r)' <=> Busy(r)
    BY SameBusy
  <1>2. \A r \in Paths : disk'[r] = IF r = q THEN c ELSE disk[r]
    BY DEF PInv, IInv, TypeOK
  <1>3. \A r \in Paths : acked'[r] = IF r = q THEN c ELSE acked[r]
    BY DEF PInv, IInv, TypeOK
  <1>4. \A r \in Paths : ~Busy(r)' /\ ~Rewritten(r)' => disk'[r] = acked'[r]
    BY <1>1, <1>2, <1>3 DEF PInv, ToldInv, Rewritten
  <1>5. \A s \in Slots : Unfinished(s)' => acked'[jobs'[s].path] = Image(jobs[s])'
    BY <1>3 DEF PInv, ToldInv, Image, Whole, SameQueue, Kept, JobPaths
  <1> QED BY <1>4, <1>5 DEF ToldInv

(* Every step keeps what the guest was told true.                          *)
LEMMA ToldStep == ASSUME Prompt, PInv, IInv', [Next]_vars PROVE ToldInv'
  <1> USE DEF PInv, IInv
  <1>1. ASSUME Quiet PROVE ToldInv'
    <2>1. \A q \in Paths : Busy(q)' <=> Busy(q)
      BY <1>1, SameBusy DEF Quiet
    <2>2. \A q \in Paths : Rewritten(q)' <=> Rewritten(q)
      BY <1>1 DEF Quiet, Rewritten
    <2>3. \A s \in Slots : Unfinished(s)' => Unfinished(s) /\ Kept(s)
      BY <1>1 DEF Quiet, SameQueue
    <2>4. UNCHANGED <<disk, acked, arena>>
      BY <1>1 DEF Quiet
    <2> QED BY <2>1, <2>2, <2>3, <2>4 DEF ToldInv, Image, Whole, Kept
  <1>2. ASSUME NEW f \in Files, Fwrite(f) PROVE ToldInv'
    <2>1. \A s \in Slots : Unfinished(s) => arena'[jobs[s].lane] = arena[jobs[s].lane]
      <3>1. CASE file[f].kind = "image"
        <4>1. f \in ImageFiles /\ \A s \in Slots : Unfinished(s) => s \in LiveJobs
          BY <3>1 DEF ImageFiles, LiveJobs, Unfinished
        <4> QED BY <1>2, <3>1, <4>1 DEF Fwrite, LaneOwnership, TypeOK
      <3>2. CASE file[f].kind # "image"
        BY <1>2, <3>2 DEF Fwrite
      <3> QED BY <3>1, <3>2
    <2> QED BY <1>2, <2>1 DEF Fwrite, ToldInv, Rewritten, Image, Whole, Busy, Unfinished
  <1>3. ASSUME NEW f \in Files, FcloseError(f) PROVE ToldInv'
    BY <1>3 DEF FcloseError, ToldInv, Rewritten, Image, Whole, Busy, Unfinished
  <1>4. ASSUME NEW f \in Files, FcloseNative(f) PROVE ToldInv'
    <2>1. f \in Open
      BY <1>4 DEF FcloseNative, Open
    <2> DEFINE q == file[f].path
               c == IF file[f].size = 0 THEN Empty ELSE file[f].id
    <2>2. disk' = [disk EXCEPT ![q] = c] /\ acked' = [acked EXCEPT ![q] = c]
      BY <1>4 DEF FcloseNative
    <2>3. SameQueue
      BY <1>4, StillQueue DEF FcloseNative, jobVars
    <2>4. UNCHANGED arena /\ at["guest"] \notin {"write",
        "publish"} /\ at'["guest"] \notin {"write", "publish"}
      BY <1>4 DEF FcloseNative, jobVars
    <2>5. q \in Paths /\ \A s \in Slots : Unfinished(s) => jobs[s].path # q
      BY <2>1 DEF JobPaths, HandlePaths
    <2> HIDE DEF c
    <2> QED BY <2>2, <2>3, <2>4, <2>5, BothTold
  <1>5. ASSUME NEW f \in Files, FcloseQueue(f) PROVE ToldInv'
    <2>1. PICK s \in Slots :
            /\ ~Unfinished(s)
            /\ jobs' = [Reclaimed EXCEPT ![s] =
                 [state |-> "PENDING", path |-> file[f].path, lane |-> file[f].lane,
                  size |-> file[f].size, seq |-> (sequence + 1) % SequenceMod]]
      BY <1>5, ReclaimFact DEF FcloseQueue, Lowest, EmptySlots
    <2>2. \A r \in Slots : r # s => (Unfinished(r)' <=> Unfinished(r)) /\ (Unfinished(r) => Kept(r))
      BY <2>1, ReclaimFact, ReclaimType DEF Unfinished, Kept, JobType, Reclaimed, EmptyJob
    <2>3. Unfinished(s)' /\ jobs'[s] = [state |-> "PENDING", path |-> file[f].path,
        lane |-> file[f].lane,
                                         size |-> file[f].size,
                                             seq |-> (sequence + 1) % SequenceMod]
      BY <2>1, ReclaimType DEF Unfinished
    <2>4. f \in Open /\ f \in ImageFiles /\ file[f].path \in Paths
      BY <1>5 DEF FcloseQueue, Open, ImageFiles, HandlePaths
    <2>5. /\ UNCHANGED <<arena, disk>> /\ at["guest"] = "idle" /\ at'["guest"] = "signal"
          /\ acked' = [acked EXCEPT ![file[f].path] = Image(file[f])]
      BY <1>5, <2>4 DEF FcloseQueue, ImageInv, Image, Whole, TypeOK, Threads
    <2>6. \A r \in Slots : Unfinished(r)' => acked'[jobs'[r].path] = Image(jobs[r])'
      <3>1. SUFFICES ASSUME NEW r \in Slots,
          Unfinished(r)' PROVE acked'[jobs'[r].path] = Image(jobs[r])'
        OBVIOUS
      <3>2. CASE r = s
        BY <3>2, <2>3, <2>4, <2>5 DEF Image, Whole, TypeOK
      <3>3. CASE r # s
        <4>1. Unfinished(r) /\ Kept(r) /\ jobs[r].path # file[f].path /\ jobs[r].path \in Paths
          BY <3>1, <3>3, <2>2, <2>4 DEF JobPaths
        <4>2. acked'[jobs[r].path] = acked[jobs[r].path]
          BY <4>1, <2>5 DEF TypeOK
        <4> QED BY <4>1, <4>2, <2>5 DEF ToldInv, Image, Whole, Kept
      <3> QED BY <3>2, <3>3
    <2>7. ASSUME NEW q \in Paths, ~Busy(q)' PROVE disk'[q] = acked'[q]
      <3>1. q # file[f].path
        BY <2>3, <2>7 DEF Busy
      <3>2. ~Busy(q)
        BY <2>1, <2>2, <2>7 DEF Busy, Kept
      <3> QED BY <3>1, <3>2, <2>5 DEF ToldInv, Rewritten, TypeOK
    <2> QED BY <2>6, <2>7 DEF ToldInv
  <1>6. ASSUME ResumeFopenImage PROVE ToldInv'
    <2>1. SameQueue
      BY <1>6, ReclaimQueue DEF ResumeFopenImage, TypeOK
    <2>2. UNCHANGED <<disk, acked, arena>> /\ at["guest"] \notin {"write", "publish"}
            /\ at'["guest"] \notin {"write", "publish"}
      BY <1>6 DEF ResumeFopenImage, Done, Goto, TypeOK, Threads
    <2> QED BY <2>1, <2>2, SameBusy DEF ToldInv, Rewritten, Image, Whole, SameQueue, Kept
  <1>7. ASSUME ResumeFopenNative PROVE ToldInv'
    <2>1. op.path \in Paths /\ \A s \in Slots : Unfinished(s) => jobs[s].path # op.path
      BY <1>7 DEF ResumeFopenNative, OpInv, WaitInv, Waited, Busy
    <2>2. SameQueue
      BY <1>7, ReclaimQueue DEF ResumeFopenNative
    <2>3. disk' = [disk EXCEPT ![op.path] = Empty] /\ acked' = [acked EXCEPT ![op.path] = Empty]
      BY <1>7 DEF ResumeFopenNative
    <2>4. UNCHANGED arena /\ at["guest"] \notin {"write",
        "publish"} /\ at'["guest"] \notin {"write", "publish"}
      BY <1>7 DEF ResumeFopenNative, Done, Goto, TypeOK, Threads
    <2> QED BY <2>1, <2>2, <2>3, <2>4, BothTold
  <1>8. ASSUME ResumeRemove PROVE ToldInv'
    <2>1. op.path \in Paths /\ \A s \in Slots : Unfinished(s) => jobs[s].path # op.path
      BY <1>8 DEF ResumeRemove, OpInv, WaitInv, Waited, Busy
    <2>2. SameQueue
      BY <1>8, StillQueue DEF ResumeRemove, jobVars
    <2>3. disk' = [disk EXCEPT ![op.path] = Absent] /\ acked' = [acked EXCEPT ![op.path] = Absent]
      BY <1>8 DEF ResumeRemove
    <2>4. UNCHANGED arena /\ at["guest"] \notin {"write",
        "publish"} /\ at'["guest"] \notin {"write", "publish"}
      BY <1>8 DEF ResumeRemove, jobVars, Done, Goto, TypeOK, Threads
    <2> QED BY <2>1, <2>2, <2>3, <2>4, BothTold
  <1>9. ASSUME NEW t \in Threads, NativeOpen(t) PROVE ToldInv'
    <2> DEFINE q == Job(t).path
    <2>1. q \in Paths /\ (t = "worker" => Busy(q)) /\ (t = "guest" => op.path = q)
      BY <1>9, WorkerJob, GuestJob DEF NativeOpen, Busy, Threads
    <2>2. UNCHANGED <<jobs, arena, acked, op>> /\ \A r \in Paths : r # q => disk'[r] = disk[r]
      BY <1>9 DEF NativeOpen, jobVars, TypeOK
    <2>3. at'["guest"] = IF t = "guest" THEN at'[t] ELSE at["guest"]
      BY <1>9 DEF NativeOpen, Goto, TypeOK, Threads
    <2>4. at'[t] \in {"write", "publish"} /\ at[t] \in {"open", "write"}
      BY <1>9 DEF NativeOpen, Goto, TypeOK, Threads
    <2>5. \A r \in Paths : Busy(r)' <=> Busy(r)
      BY <2>2 DEF Busy, Unfinished
    <2>6. \A r \in Paths : ~Busy(r) /\ ~Rewritten(r)' => r # q /\ ~Rewritten(r)
      BY <2>1, <2>2, <2>3, <2>4 DEF Rewritten, Threads
    <2>7. \A r \in Paths : ~Busy(r)' /\ ~Rewritten(r)' => disk'[r] = acked'[r]
      BY <2>2, <2>5, <2>6 DEF ToldInv
    <2>8. \A s \in Slots : Unfinished(s)' => acked'[jobs'[s].path] = Image(jobs[s])'
      BY <2>2 DEF ToldInv, Image, Whole, Unfinished
    <2> QED BY <2>7, <2>8 DEF ToldInv
  <1>10. ASSUME NEW t \in Threads, NativeWrite(t) PROVE ToldInv'
    <2> DEFINE q == Job(t).path
    <2>1. q \in Paths /\ (t = "worker" => Busy(q)) /\ (t = "guest" => op.path = q)
      BY <1>10, WorkerJob, GuestJob DEF NativeWrite, Busy, Threads
    <2>2. UNCHANGED <<jobs, arena, acked, op>> /\ \A r \in Paths : r # q => disk'[r] = disk[r]
      BY <1>10 DEF NativeWrite, jobVars, TypeOK
    <2>3. at'["guest"] = IF t = "guest" THEN at'[t] ELSE at["guest"]
      BY <1>10 DEF NativeWrite, Goto, TypeOK, Threads
    <2>4. at'[t] \in {"write", "publish"} /\ at[t] \in {"open", "write"}
      BY <1>10 DEF NativeWrite, Goto, TypeOK, Threads
    <2>5. \A r \in Paths : Busy(r)' <=> Busy(r)
      BY <2>2 DEF Busy, Unfinished
    <2>6. \A r \in Paths : ~Busy(r) /\ ~Rewritten(r)' => r # q /\ ~Rewritten(r)
      BY <2>1, <2>2, <2>3, <2>4 DEF Rewritten, Threads
    <2>7. \A r \in Paths : ~Busy(r)' /\ ~Rewritten(r)' => disk'[r] = acked'[r]
      BY <2>2, <2>5, <2>6 DEF ToldInv
    <2>8. \A s \in Slots : Unfinished(s)' => acked'[jobs'[s].path] = Image(jobs[s])'
      BY <2>2 DEF ToldInv, Image, Whole, Unfinished
    <2> QED BY <2>7, <2>8 DEF ToldInv
  <1>11. ASSUME PublishJob("worker") PROVE ToldInv'
    <2> DEFINE w == run["worker"]
               q == jobs[w].path
    <2>1. w \in Slots /\ Unfinished(w) /\ Job("worker") = jobs[w] /\ q \in Paths
      BY <1>11, WorkerJob DEF PublishJob
    <2>2. disk[q] = acked[q]
      BY <1>11, <2>1 DEF PublishJob, ToldInv, WriteInv, WriteOK
    <2>3. UNCHANGED <<arena, disk, acked, op,
        at["guest"]>> /\ jobs' = [jobs EXCEPT ![w].state = "DONE"]
      BY <1>11 DEF PublishJob, Goto, TypeOK, Threads
    <2>4. \A s \in Slots : IF s = w THEN ~Unfinished(s)'
                                     ELSE (Unfinished(s)' <=> Unfinished(s)) /\ Kept(s)
      BY <2>3 DEF TypeOK, JobType, Unfinished, Kept
    <2>5. ASSUME NEW r \in Paths, ~Busy(r)', ~Rewritten(r)' PROVE disk'[r] = acked'[r]
      <3>1. CASE r = q
        BY <3>1, <2>2, <2>3
      <3>2. CASE r # q
        <4>1. ~Busy(r)
          BY <3>2, <2>4, <2>5, AsyncWriteAssumption DEF Busy, Kept
        <4> QED BY <4>1, <2>3, <2>5 DEF ToldInv, Rewritten
      <3> QED BY <3>1, <3>2
    <2>6. \A s \in Slots : Unfinished(s)' => acked'[jobs'[s].path] = Image(jobs[s])'
      BY <2>3, <2>4 DEF ToldInv, Image, Whole, Kept
    <2> QED BY <2>5, <2>6 DEF ToldInv
  <1>12. ASSUME PublishSynchronous PROVE ToldInv'
    <2>1. at["guest"] = "publish" /\ at'["guest"] = "idle" /\ UNCHANGED <<jobs, arena, disk>>
      BY <1>12 DEF PublishSynchronous, Done, Goto, TypeOK, Threads
    <2>2. /\ op.path \in Paths /\ file[op.file].path = op.path /\ op.file \in ImageFiles
          /\ Job("guest") = file[op.file]
          /\ \A s \in Slots : Unfinished(s) => jobs[s].path # op.path
      BY <2>1, GuestJob
    <2>3. disk[op.path] = Image(file[op.file])
      BY <2>1, <2>2 DEF WriteInv, WriteOK
    <2>4. acked' = [acked EXCEPT ![op.path] = disk[op.path]]
      BY <1>12, <2>2, <2>3 DEF PublishSynchronous, Image, Whole, ImageInv
    <2>5. \A r \in Paths : ~Busy(r)' /\ ~Rewritten(r)' => disk'[r] = acked'[r]
      BY <2>1, <2>2, <2>4 DEF ToldInv, Rewritten, Busy, Unfinished, TypeOK
    <2>6. \A s \in Slots : Unfinished(s)' => acked'[jobs'[s].path] = Image(jobs[s])'
      BY <2>1, <2>2, <2>4 DEF ToldInv, Image, Whole, Unfinished, TypeOK, JobPaths
    <2> QED BY <2>5, <2>6 DEF ToldInv
  <1> QED BY StepKinds, <1>1, <1>2, <1>3, <1>4, <1>5, <1>6, <1>7, <1>8, <1>9, <1>10, <1>11,
             <1>12 DEF Loud

(* ... and every write ends as it should.                                  *)
(* Two threads never write one path.                                       *)
LEMMA OtherWriter ==
  ASSUME PInv, NEW t \in Threads, at[t] \in {"open", "write"}, NEW c, NEW a,
         disk' = [disk EXCEPT ![Job(t).path] = c], at' = [at EXCEPT ![t] = a],
         UNCHANGED <<jobs, file, op, run, arena>>, NEW u \in Threads, u # t
  PROVE  WriteOK(u)'
  <1>1. SUFFICES ASSUME at[u] \in {"write", "publish"} PROVE WriteOK(u)'
    BY DEF WriteOK, PInv, IInv, TypeOK
  <1>2. Job(u).path # Job(t).path /\ Job(u).path \in Paths
    BY <1>1, WorkerJob, GuestJob DEF Threads
  <1>3. Job(u)' = Job(u) /\ at'[u] = at[u]
    BY DEF Job, PInv, IInv, TypeOK
  <1>4. disk'[Job(u).path] = disk[Job(u).path]
    BY <1>2 DEF PInv, IInv, TypeOK
  <1>5. WriteOK(u)
    BY DEF PInv, WriteInv, Threads
  <1> QED BY <1>3, <1>4, <1>5 DEF WriteOK, Image, Whole

(* Every step keeps the writes in progress.                                *)
LEMMA WriteStep == ASSUME Prompt, PInv, IInv', [Next]_vars PROVE WriteInv'
  <1>1. ASSUME Quiet PROVE WriteInv'
    <2>1. WriteOK("worker")'
      <3>1. CASE at'["worker"] \in {"write", "publish"}
        BY <1>1, <3>1, FrameWorker, WorkerJob DEF Quiet, SameQueue
      <3> QED BY <3>1 DEF WriteOK
    <2>2. WriteOK("guest")'
      <3>1. SUFFICES ASSUME at'["guest"] \in {"write", "publish"} PROVE WriteOK("guest")'
        BY DEF WriteOK
      <3>2. UNCHANGED <<at["guest"], op, run["guest"], disk, arena>> /\ SameHandles
        BY <1>1, <3>1 DEF Quiet
      <3>3. Job("guest") = file[op.file] /\ op.file \in Files /\ run["guest"] = NoSlot
        BY <3>1, <3>2, GuestJob DEF PInv, WaitInv
      <3>4. Job("guest")' = file'[op.file]
        BY <3>2, <3>3 DEF Job
      <3> QED BY <3>2, <3>3, <3>4 DEF PInv, WriteInv, WriteOK, Image, Whole, SameHandles
    <2> QED BY <2>1, <2>2 DEF WriteInv
  <1>2. ASSUME NEW f \in Files, Fwrite(f) PROVE WriteInv'
    <2>1. WriteOK("worker")'
      <3>1. \A s \in Slots : Unfinished(s) => arena'[jobs[s].lane] = arena[jobs[s].lane]
        BY <1>2, ImagesStay
      <3> QED BY <1>2, <3>1, FrameWorker, WorkerJob DEF Fwrite, Kept
    <2>2. WriteOK("guest")'
      BY <1>2 DEF Fwrite, WriteOK, Done, Goto, PInv, IInv, TypeOK, Threads
    <2> QED BY <2>1, <2>2 DEF WriteInv
  <1>3. ASSUME NEW f \in Files, FcloseError(f) PROVE WriteInv'
    <2>1. WriteOK("worker")'
      BY <1>3, FrameWorker, WorkerJob DEF FcloseError, Kept
    <2>2. WriteOK("guest")'
      BY <1>3 DEF FcloseError, WriteOK, Done, Goto, PInv, IInv, TypeOK, Threads
    <2> QED BY <2>1, <2>2 DEF WriteInv
  <1>4. ASSUME NEW f \in Files, FcloseNative(f) PROVE WriteInv'
    <2>1. WriteOK("worker")'
      <3>1. f \in Open
        BY <1>4 DEF FcloseNative, Open
      <3>2. at["worker"] \in {"write",
          "publish"} => disk'[jobs[run["worker"]].path] = disk[jobs[run["worker"]].path]
        BY <1>4, <3>1, WorkerJob DEF FcloseNative, PInv, JobPaths, IInv, TypeOK
      <3> QED BY <1>4, <3>2, FrameWorker DEF FcloseNative, Kept, jobVars
    <2>2. WriteOK("guest")'
      BY <1>4 DEF FcloseNative, WriteOK, Done, Goto, PInv, IInv, TypeOK, Threads
    <2> QED BY <2>1, <2>2 DEF WriteInv
  <1>5. ASSUME NEW f \in Files, FcloseQueue(f) PROVE WriteInv'
    <2>1. WriteOK("worker")'
      <3>1. \A r \in Slots : Unfinished(r) => Kept(r)
        BY <1>5, OthersKept
      <3>2. run' = run /\ (at["worker"] \in {"write", "publish"} => UNCHANGED at["worker"])
        BY <1>5 DEF FcloseQueue, PInv, IInv, TypeOK, OpInv, Threads
      <3>3. UNCHANGED <<arena, disk>>
        BY <1>5 DEF FcloseQueue
      <3>4. CASE at["worker"] \in {"write", "publish"}
        BY <3>1, <3>2, <3>3, <3>4, FrameWorker, WorkerJob
      <3>5. CASE at["worker"] \notin {"write", "publish"}
        BY <1>5, <3>5 DEF FcloseQueue, WriteOK, PInv, IInv, TypeOK, Threads
      <3> QED BY <3>4, <3>5
    <2>2. WriteOK("guest")'
      BY <1>5 DEF FcloseQueue, WriteOK, Done, Goto, PInv, IInv, TypeOK, Threads
    <2> QED BY <2>1, <2>2 DEF WriteInv
  <1>6. ASSUME ResumeFopenImage PROVE WriteInv'
    <2>1. WriteOK("worker")'
      <3>2. SameQueue
        BY <1>6, ReclaimQueue DEF ResumeFopenImage, PInv, IInv
      <3>3. at["worker"] \in {"write",
          "publish"} => disk'[jobs[run["worker"]].path] = disk[jobs[run["worker"]].path]
        BY <1>6 DEF ResumeFopenImage, PInv, IInv, TypeOK
      <3>4. UNCHANGED <<arena, at["worker"], run["worker"]>>
        BY <1>6 DEF ResumeFopenImage, Done, Goto, PInv, IInv, TypeOK, Threads
      <3> QED BY <3>2, <3>3, <3>4, FrameWorker, WorkerJob DEF SameQueue
    <2>2. WriteOK("guest")'
      BY <1>6 DEF ResumeFopenImage, WriteOK, Done, Goto, PInv, IInv, TypeOK, Threads
    <2> QED BY <2>1, <2>2 DEF WriteInv
  <1>7. ASSUME ResumeFopenNative PROVE WriteInv'
    <2>1. WriteOK("worker")'
      <3>1. op.path \in Paths /\ \A s \in Slots : Unfinished(s) => jobs[s].path # op.path
        BY <1>7 DEF ResumeFopenNative, PInv, IInv, OpInv, WaitInv, Waited, Busy
      <3>2. SameQueue
        BY <1>7, ReclaimQueue DEF ResumeFopenNative, PInv, IInv
      <3>3. at["worker"] \in {"write",
          "publish"} => disk'[jobs[run["worker"]].path] = disk[jobs[run["worker"]].path]
        BY <1>7, <3>1, WorkerJob DEF ResumeFopenNative, PInv, IInv, TypeOK
      <3>4. UNCHANGED <<arena, at["worker"], run["worker"]>>
        BY <1>7 DEF ResumeFopenNative, Done, Goto, PInv, IInv, TypeOK, Threads
      <3> QED BY <3>2, <3>3, <3>4, FrameWorker, WorkerJob DEF SameQueue
    <2>2. WriteOK("guest")'
      BY <1>7 DEF ResumeFopenNative, WriteOK, Done, Goto, PInv, IInv, TypeOK, Threads
    <2> QED BY <2>1, <2>2 DEF WriteInv
  <1>8. ASSUME ResumeRemove PROVE WriteInv'
    <2>1. WriteOK("worker")'
      <3>1. op.path \in Paths /\ \A s \in Slots : Unfinished(s) => jobs[s].path # op.path
        BY <1>8 DEF ResumeRemove, PInv, IInv, OpInv, WaitInv, Waited, Busy
      <3>2. SameQueue
        BY <1>8, StillQueue DEF ResumeRemove, jobVars
      <3>3. at["worker"] \in {"write",
          "publish"} => disk'[jobs[run["worker"]].path] = disk[jobs[run["worker"]].path]
        BY <1>8, <3>1, WorkerJob DEF ResumeRemove, PInv, IInv, TypeOK
      <3>4. UNCHANGED <<arena, at["worker"], run["worker"]>>
        BY <1>8 DEF ResumeRemove, jobVars, Done, Goto, PInv, IInv, TypeOK, Threads
      <3> QED BY <3>2, <3>3, <3>4, FrameWorker, WorkerJob DEF SameQueue
    <2>2. WriteOK("guest")'
      BY <1>8 DEF ResumeRemove, WriteOK, Done, Goto, PInv, IInv, TypeOK, Threads
    <2> QED BY <2>1, <2>2 DEF WriteInv
  <1>9. ASSUME NEW t \in Threads, NativeOpen(t) PROVE WriteInv'
    <2> DEFINE q == Job(t).path
    <2>1. q \in Paths /\ disk' = [disk EXCEPT ![q] = IF Job(t).size = 0 THEN Empty ELSE Torn]
      BY <1>9, WorkerJob, GuestJob DEF NativeOpen, Prompt, Threads
    <2>2. UNCHANGED <<jobs, file, op, run,
        arena>> /\ at' = [at EXCEPT ![t] = IF Job(t).size = 0 THEN "publish" ELSE "write"]
      BY <1>9 DEF NativeOpen, Prompt, Goto, jobVars
    <2>3. WriteOK(t)'
      BY <2>1, <2>2 DEF WriteOK, Job, Image, Whole, PInv, IInv, TypeOK
    <2>4. \A u \in Threads : u # t => WriteOK(u)'
      BY <1>9, <2>1, <2>2, OtherWriter DEF NativeOpen
    <2> QED BY <2>3, <2>4 DEF WriteInv, Threads
  <1>10. ASSUME NEW t \in Threads, NativeWrite(t) PROVE WriteInv'
    <2> DEFINE q == Job(t).path
    <2>1. q \in Paths /\ disk' = [disk EXCEPT ![q] = Image(Job(t))]
      BY <1>10, WorkerJob, GuestJob DEF NativeWrite, Prompt, Threads, Image, Whole, PInv,
         WriteInv, WriteOK
    <2>2. UNCHANGED <<jobs, file, op, run, arena>> /\ at' = [at EXCEPT ![t] = "publish"]
      BY <1>10 DEF NativeWrite, Prompt, Goto, jobVars
    <2>3. WriteOK(t)'
      BY <2>1, <2>2 DEF WriteOK, Job, Image, Whole, PInv, IInv, TypeOK
    <2>4. \A u \in Threads : u # t => WriteOK(u)'
      BY <1>10, <2>1, <2>2, OtherWriter DEF NativeWrite
    <2> QED BY <2>3, <2>4 DEF WriteInv, Threads
  <1>11. ASSUME PublishJob("worker") PROVE WriteInv'
    <2>1. WriteOK("worker")'
      BY <1>11 DEF PublishJob, WriteOK, Goto, PInv, IInv, TypeOK, Threads
    <2>2. WriteOK("guest")'
      <3>1. UNCHANGED <<at["guest"], op, file, disk, arena, run["guest"]>>
        BY <1>11 DEF PublishJob, Goto, PInv, IInv, TypeOK, Threads
      <3> QED BY <3>1 DEF WriteOK, Job, Image, Whole, PInv, WaitInv, WriteInv
    <2> QED BY <2>1, <2>2 DEF WriteInv
  <1>12. ASSUME PublishSynchronous PROVE WriteInv'
    <2>1. WriteOK("worker")'
      BY <1>12, FrameWorker, WorkerJob DEF PublishSynchronous, Kept, Done, Goto, PInv, IInv,
         TypeOK, Threads
    <2>2. WriteOK("guest")'
      BY <1>12 DEF PublishSynchronous, WriteOK, Done, Goto, PInv, IInv, TypeOK, Threads
    <2> QED BY <2>1, <2>2 DEF WriteInv
  <1> QED BY StepKinds, <1>1, <1>2, <1>3, <1>4, <1>5, <1>6, <1>7, <1>8, <1>9, <1>10, <1>11,
             <1>12 DEF Loud

-----------------------------------------------------------------------------
(* The invariant of the prompt writer holds at first ...                   *)
LEMMA PInit == Init => PInv
  <1> SUFFICES ASSUME Init PROVE PInv OBVIOUS
  <1>1. \A s \in Slots : ~Unfinished(s)
    BY DEF Init, Unfinished, EmptyJob
  <1>2. IInv
    BY InitInv
  <1>3. WaitInv /\ HandlePaths /\ JobPaths /\ OpPaths /\ ImageInv
    BY <1>1 DEF Init, WaitInv, Waited, Busy, NoOp, Threads, HandlePaths, JobPaths, OpPaths, Open,
                ClosedFile, ImageInv, ImageFiles
  <1>4. ToldInv /\ WriteInv
    BY <1>1 DEF Init, ToldInv, WriteInv, WriteOK, Threads
  <1> QED BY <1>2, <1>3, <1>4 DEF PInv

(* ... and every step keeps it.                                            *)
LEMMA PNext == ASSUME Prompt, PInv, [Next]_vars PROVE PInv'
  <1>1. IInv'
    BY TypeStep, LaneStep, RunnerStep, OpStep DEF IInv, PInv
  <1> QED BY <1>1, WaitStep, PathStep, ImageStep, ToldStep, WriteStep DEF PInv

(* As long as the worker is prompt and the card sound, every queued image  *)
(* is the one its fclose acknowledged, on a path that has no other writer. *)
THEOREM PromptInvariant == ASSUME Prompt PROVE Spec => []PInv
  <1>1. PInv /\ [Next]_vars => PInv'
    BY PNext
  <1> QED BY PInit, <1>1, PTL DEF Spec

(* When the wait of a read, of a directory scan or of the shutdown         *)
(* returns, the card holds what the guest was told last.                   *)
THEOREM ReadsSeeTheLastClose == ASSUME Prompt PROVE Spec => []ReadYourWrites
  <1>1. PInv => ReadYourWrites
    BY AsyncWriteAssumption DEF PInv, WaitInv, Waited, ToldInv, Rewritten, Busy, ReadYourWrites
  <1> QED BY PromptInvariant, <1>1, PTL

-----------------------------------------------------------------------------
(* The refinement of SaveStore.  A path's file is what the guest was told, *)
(* or the image the guest is writing itself.                               *)
Shown(p)  == IF Rewritten(p) THEN Image(file[op.file]) ELSE acked[p]
Held(f)   == IF file[f].kind = "native" THEN file[f].id ELSE arena[file[f].lane]
Handle(f) == <<f, file[f].path, Whole(file[f], Held(f))>>
Live      == {f \in Files : file[f].kind # "closed" /\ ~GuestWriting(f)}

(* The guest writes a file itself between the two halves of an fclose.     *)
LEMMA WritingIs ==
  ASSUME PInv, NEW f \in Files
  PROVE  GuestWriting(f) <=> at["guest"] \in {"write", "publish"} /\ op.file = f
  BY GuestJob DEF GuestWriting, PInv, WaitInv

(* The file that the store shows at a path, without looking at the queue.  *)
LEMMA SavedIs == ASSUME PInv, NEW p \in Paths PROVE Saved(p) = Shown(p)
  <1>1. CASE \E s \in Slots : Unfinished(s) /\ jobs[s].path = p
    <2> DEFINE s == CHOOSE s \in Slots : Unfinished(s) /\ jobs[s].path = p
    <2>1. s \in Slots /\ Unfinished(s) /\ jobs[s].path = p
      BY <1>1
    <2>2. Saved(p) = Image(jobs[s])
      BY <1>1 DEF Saved, Image
    <2>3. ~Rewritten(p)
      BY <2>1, GuestJob DEF Rewritten
    <2> HIDE DEF s
    <2> QED BY <2>1, <2>2, <2>3 DEF Shown, PInv, ToldInv
  <1>2. CASE ~\E s \in Slots : Unfinished(s) /\ jobs[s].path = p
    <2>1. (\E f \in Files : GuestWriting(f) /\ file[f].path = p) <=> Rewritten(p)
      BY WritingIs, GuestJob DEF Rewritten
    <2>2. CASE Rewritten(p)
      BY <1>2, <2>1, <2>2 DEF Saved, Shown, Image
    <2>3. CASE ~Rewritten(p)
      <3>1. ~Busy(p)
        BY <1>2, AsyncWriteAssumption DEF Busy
      <3> QED BY <1>2, <2>1, <2>3, <3>1 DEF Saved, Shown, PInv, ToldInv
    <2> QED BY <2>2, <2>3
  <1> QED BY <1>1, <1>2

Stored == [p \in Paths |-> Saved(p)]

(* The same for all paths, before a step ...                               *)
LEMMA StoredIs == PInv => Stored = [p \in Paths |-> Shown(p)]
  BY SavedIs DEF Stored

(* ... and after it.                                                       *)
LEMMA StoredIsNext == PInv' => Stored' = [p \in Paths |-> Shown(p)']
  <1>1. (PInv => Stored = [p \in Paths |-> Shown(p)])'
    BY StoredIs, PTL
  <1> QED BY <1>1

(* The open handles of the store are those of the live files.              *)
LEMMA HandlesAre ==
  OpenHandles = {Handle(f) : f \in Live} /\ OpenHandles' = {Handle(f)' : f \in Live'}
  BY DEF OpenHandles, Handle, Held, Live

(* How a step that opens, writes or closes one handle changes their set.   *)
LEMMA HandlesStay ==
  ASSUME Live' = Live, \A f \in Live : Handle(f)' = Handle(f) PROVE OpenHandles' = OpenHandles
  BY HandlesAre

(* ... a step that opens one,                                              *)
LEMMA HandlesGrow ==
  ASSUME NEW g, Live' = Live \cup {g}, \A f \in Live : Handle(f)' = Handle(f)
  PROVE  OpenHandles' = OpenHandles \cup {Handle(g)'}
  BY HandlesAre

(* ... that closes one,                                                    *)
LEMMA HandlesShrink ==
  ASSUME NEW g, g \in Live, Live' = Live \ {g}, \A f \in Live : f # g => Handle(f)' = Handle(f)
  PROVE  OpenHandles' = OpenHandles \ {Handle(g)}
  <1>1. \A f \in Live : f # g => Handle(f) # Handle(g)
    BY DEF Handle
  <1> QED BY <1>1, HandlesAre

(* ... and that writes to one.                                             *)
LEMMA HandlesSwap ==
  ASSUME NEW g, g \in Live, Live' = Live, \A f \in Live : f # g => Handle(f)' = Handle(f)
  PROVE  OpenHandles' = (OpenHandles \ {Handle(g)}) \cup {Handle(g)'}
  <1>1. \A f \in Live : f # g => Handle(f) # Handle(g)
    BY DEF Handle
  <1> QED BY <1>1, HandlesAre

(* What the steps of the store are, in these terms.                        *)
Stays   == UNCHANGED <<Stored, OpenHandles>>
Opens   == \E f \in Files, p \in Paths :
             /\ \A h \in OpenHandles : h[1] # f /\ h[2] # p
             /\ OpenHandles' = OpenHandles \cup {<<f, p, Empty>>}
             /\ Stored' \in {Stored, [Stored EXCEPT ![p] = Empty]}
Writes  == \E h \in OpenHandles, c \in Contents :
             OpenHandles' = (OpenHandles \ {h}) \cup {<<h[1], h[2], c>>} /\ UNCHANGED Stored
Closes  == \E h \in OpenHandles :
             /\ OpenHandles' = OpenHandles \ {h}
             /\ Stored' \in {Stored, [Stored EXCEPT ![h[2]] = h[3]]}
Removes == \E p \in Paths : Stored' = [Stored EXCEPT ![p] = Absent] /\ UNCHANGED OpenHandles

(* Each of them is a step of the store, or a stutter.                      *)
LEMMA StoreMoves ==
  ASSUME Stays \/ Opens \/ Writes \/ Closes \/ Removes PROVE [Store!Next]_(Store!vars)
  <1> USE DEF Stored
  <1>1. ASSUME Stays PROVE UNCHANGED Store!vars
    BY <1>1 DEF Stays, Store!vars
  <1>2. ASSUME Opens PROVE Store!Next
    BY <1>2 DEF Opens, Store!Next, Store!Open
  <1>3. ASSUME Writes PROVE Store!Next
    BY <1>3 DEF Writes, Store!Next, Store!Write
  <1>4. ASSUME Closes PROVE Store!Next
    BY <1>4 DEF Closes, Store!Next, Store!Close, Store!CloseFailed
  <1>5. ASSUME Removes PROVE Store!Next
    BY <1>5 DEF Removes, Store!Next, Store!Remove
  <1> QED BY <1>1, <1>2, <1>3, <1>4, <1>5

(* The writer starts as the store does.                                    *)
LEMMA StoreInit == ASSUME Init PROVE Store!Init
  <1>1. Stored = [p \in Paths |-> Absent]
    BY PInit, StoredIs DEF Init, Shown, Rewritten, Threads
  <1>2. OpenHandles = {}
    BY DEF Init, OpenHandles, ClosedFile
  <1> QED BY <1>1, <1>2 DEF Stored, Store!Init

(* A step that shows the same files leaves the store's.                    *)
LEMMA ShownStays == ASSUME PInv, PInv',
    \A p \in Paths : Shown(p)' = Shown(p) PROVE UNCHANGED Stored
  BY StoredIs, StoredIsNext

(* A step that shows another file at one path sets that of the store.      *)
LEMMA ShownSet ==
  ASSUME PInv, PInv', NEW q \in Paths, NEW c,
      \A p \in Paths : Shown(p)' = IF p = q THEN c ELSE Shown(p)
  PROVE  Stored' = [Stored EXCEPT ![q] = c]
  BY StoredIs, StoredIsNext

(* Every step of the writer is one step of the store, or none.             *)
(* There is a first lane.                                                  *)
LEMMA ZeroLane == 0 \in Lanes
  BY AsyncWriteAssumption DEF Lanes

(* Every step of the prompt writer is a step of the store, or a stutter.   *)
LEMMA StoreStep ==
  ASSUME Prompt, PInv, PInv', [Next]_vars
  PROVE  Stays \/ Opens \/ Writes \/ Closes \/ Removes
  <1> USE DEF PInv, IInv
  <1>1. ASSUME Quiet PROVE Stays \/ Opens \/ Writes \/ Closes \/ Removes
    <2>1. \A q \in Paths : Shown(q)' = Shown(q)
      <3>1. CASE at["guest"] \in {"write", "publish"}
        <4>1. op.file \in Files /\ at["guest"] \in {"open", "write", "publish"}
          BY <3>1, GuestJob
        <4> QED BY <1>1, <3>1, <4>1 DEF Quiet, SameHandles, Shown, Rewritten, Image, Whole
      <3>2. CASE at["guest"] \notin {"write", "publish"}
        BY <1>1, <3>2 DEF Quiet, Shown, Rewritten
      <3> QED BY <3>1, <3>2
    <2>2. Live' = Live
      BY <1>1 DEF Quiet, SameHandles, Live, GuestWriting
    <2>3. \A f \in Live : Handle(f)' = Handle(f)
      BY <1>1 DEF Quiet, SameHandles, Live, Handle, Held, Whole
    <2> QED BY <2>1, <2>2, <2>3, ShownStays, HandlesStay DEF Stays
  <1>2. ASSUME NEW f \in Files, Fwrite(f) PROVE Stays \/ Opens \/ Writes \/ Closes \/ Removes
    <2>1. at["guest"] = "idle" /\ at'["guest"] \notin {"write", "publish"}
      BY <1>2 DEF Fwrite, TypeOK, Threads, jobVars
    <2>2. \A g \in Files : ~GuestWriting(g) /\ ~GuestWriting(g)'
      BY <2>1 DEF GuestWriting
    <2>3. f \in Live
      BY <1>2, <2>2 DEF Fwrite, Live
    <2>4. Live' = Live
      BY <1>2, <2>2 DEF Fwrite, Live, FileType, TypeOK
    <2>5. \A g \in Files : /\ file'[g].path = file[g].path /\ file'[g].kind = file[g].kind
                            /\ file'[g].id = file[g].id /\ file'[g].lane = file[g].lane
                            /\ file'[g].size = IF g = f THEN 1 ELSE file[g].size
      BY <1>2 DEF Fwrite, TypeOK, FileType
    <2>6. \A g \in Live : g # f /\ file[g].kind # "native" =>
                          arena'[file[g].lane] = arena[file[g].lane]
      <3>1. CASE file[f].kind = "image"
        <4>1. f \in ImageFiles /\ \A g \in Live : file[g].kind # "native" => g \in ImageFiles
          BY <3>1 DEF ImageFiles, Live, TypeOK, FileType
        <4> QED BY <1>2, <3>1, <4>1 DEF Fwrite, LaneOwnership, TypeOK
      <3>2. CASE file[f].kind # "image"
        BY <1>2, <3>2 DEF Fwrite
      <3> QED BY <3>1, <3>2
    <2>7. \A g \in Live : g # f => Handle(g)' = Handle(g)
      BY <2>5, <2>6 DEF Live, Handle, Held, Whole
    <2>8. Handle(f)' = <<f, file[f].path, file[f].id>> /\ file[f].id \in Contents
      BY <1>2, <2>3, <2>5 DEF Fwrite, Handle, Held, Whole, TypeOK, FileType, HandlePaths, Open,
         Live
    <2>9. OpenHandles' = (OpenHandles \ {Handle(f)}) \cup {Handle(f)'} /\ Handle(f) \in OpenHandles
      BY <2>3, <2>4, <2>7, HandlesSwap, HandlesAre
    <2>10. UNCHANGED Stored
      BY <1>2, <2>1, ShownStays DEF Fwrite, Shown, Rewritten
    <2>11. Handle(f)[1] = f /\ Handle(f)[2] = file[f].path
      BY DEF Handle
    <2> QED BY <2>8, <2>9, <2>10, <2>11 DEF Writes
  <1>3. ASSUME NEW f \in Files, FcloseError(f) PROVE Stays \/ Opens \/ Writes \/ Closes \/ Removes
    <2>1. at["guest"] = "idle" /\ at'["guest"] \notin {"write", "publish"}
      BY <1>3 DEF FcloseError, TypeOK, Threads, jobVars
    <2>2. \A g \in Files : ~GuestWriting(g) /\ ~GuestWriting(g)'
      BY <2>1 DEF GuestWriting
    <2>3. f \in Live
      BY <1>3, <2>2 DEF FcloseError, Live
    <2>4. Live' = Live \ {f}
      BY <1>3, <2>2 DEF FcloseError, Live, ClosedFile, TypeOK
    <2>5. \A g \in Live : g # f => Handle(g)' = Handle(g)
      BY <1>3 DEF FcloseError, Live, Handle, Held, Whole, TypeOK, jobVars
    <2>6. OpenHandles' = OpenHandles \ {Handle(f)} /\ Handle(f) \in OpenHandles
      BY <2>3, <2>4, <2>5, HandlesShrink, HandlesAre
    <2>7. UNCHANGED Stored
      BY <1>3, <2>1, ShownStays DEF FcloseError, Shown, Rewritten, jobVars
    <2> QED BY <2>6, <2>7 DEF Closes
  <1>4. ASSUME NEW f \in Files,
      FcloseNative(f) PROVE Stays \/ Opens \/ Writes \/ Closes \/ Removes
    <2>1. at["guest"] = "idle" /\ at'["guest"] \notin {"write", "publish"}
      BY <1>4 DEF FcloseNative, TypeOK, Threads, jobVars
    <2>2. \A g \in Files : ~GuestWriting(g) /\ ~GuestWriting(g)'
      BY <2>1 DEF GuestWriting
    <2>3. f \in Live
      BY <1>4, <2>2 DEF FcloseNative, Live
    <2>4. Live' = Live \ {f}
      BY <1>4, <2>2 DEF FcloseNative, Live, ClosedFile, TypeOK
    <2>5. \A g \in Live : g # f => Handle(g)' = Handle(g)
      BY <1>4 DEF FcloseNative, Live, Handle, Held, Whole, TypeOK, jobVars
    <2>6. OpenHandles' = OpenHandles \ {Handle(f)} /\ Handle(f) \in OpenHandles
      BY <2>3, <2>4, <2>5, HandlesShrink, HandlesAre
    <2> DEFINE q == file[f].path
               c == Handle(f)[3]
    <2>7. q \in Paths /\ q = Handle(f)[2]
      BY <2>3 DEF HandlePaths, Open, Live, Handle, Held
    <2>8. acked' = [acked EXCEPT ![q] = c]
      BY <1>4, <2>3 DEF FcloseNative, Handle, Held, Whole, ImageInv, ImageFiles, Live
    <2>9. \A r \in Paths : Shown(r)' = IF r = q THEN c ELSE Shown(r)
      BY <2>1, <2>8 DEF Shown, Rewritten, TypeOK
    <2>10. Stored' = [Stored EXCEPT ![q] = c]
      BY <2>7, <2>9, ShownSet
    <2> QED BY <2>6, <2>7, <2>10 DEF Closes
  <1>5. ASSUME NEW f \in Files, FcloseQueue(f) PROVE Stays \/ Opens \/ Writes \/ Closes \/ Removes
    <2>1. at["guest"] = "idle" /\ at'["guest"] \notin {"write", "publish"}
      BY <1>5 DEF FcloseQueue, TypeOK, Threads, jobVars
    <2>2. \A g \in Files : ~GuestWriting(g) /\ ~GuestWriting(g)'
      BY <2>1 DEF GuestWriting
    <2>3. f \in Live
      BY <1>5, <2>2 DEF FcloseQueue, Live
    <2>4. Live' = Live \ {f}
      BY <1>5, <2>2 DEF FcloseQueue, Live, ClosedFile, TypeOK
    <2>5. \A g \in Live : g # f => Handle(g)' = Handle(g)
      BY <1>5 DEF FcloseQueue, Live, Handle, Held, Whole, TypeOK, jobVars
    <2>6. OpenHandles' = OpenHandles \ {Handle(f)} /\ Handle(f) \in OpenHandles
      BY <2>3, <2>4, <2>5, HandlesShrink, HandlesAre
    <2> DEFINE q == file[f].path
               c == Handle(f)[3]
    <2>7. q \in Paths /\ q = Handle(f)[2]
      BY <2>3 DEF HandlePaths, Open, Live, Handle, Held
    <2>8. acked' = [acked EXCEPT ![q] = c]
      BY <1>5, <2>3 DEF FcloseQueue, Handle, Held, Whole, ImageInv, ImageFiles, Live
    <2>9. \A r \in Paths : Shown(r)' = IF r = q THEN c ELSE Shown(r)
      BY <2>1, <2>8 DEF Shown, Rewritten, TypeOK
    <2>10. Stored' = [Stored EXCEPT ![q] = c]
      BY <2>7, <2>9, ShownSet
    <2> QED BY <2>6, <2>7, <2>10 DEF Closes
  <1>6. ASSUME ResumeFopenImage PROVE Stays \/ Opens \/ Writes \/ Closes \/ Removes
    <2>1. at["guest"] = "resume" /\ at'["guest"] = "idle" /\ op.path \in Paths
      BY <1>6 DEF ResumeFopenImage, OpInv, Done, Goto, TypeOK, Threads, WaitInv, jobVars
    <2>2. \A g \in Files : ~GuestWriting(g) /\ ~GuestWriting(g)'
      BY <2>1 DEF GuestWriting
    <2>3. PICK f \in Files, q \in Paths : f = op.file /\ q = op.path
      BY <1>6, <2>1 DEF ResumeFopenImage, OpInv
    <2>4. f \notin Live /\ \A g \in Live : file[g].path # q
      BY <1>6, <2>3 DEF ResumeFopenImage, OpInv, OpPaths, Live
    <2>5. \E l \in Lanes, k \in {"image", "native"} :
            file' = [file EXCEPT ![f] = [kind |-> k, path |-> q, lane |-> l,
                                         size |-> 0, id |-> opens, error |-> 0]]
      BY <1>6, <2>3, ZeroLane DEF ResumeFopenImage, Lowest
    <2>6. Live' = Live \cup {f}
      BY <2>2, <2>5 DEF Live, TypeOK
    <2>7. \A g \in Live : Handle(g)' = Handle(g)
      BY <1>6, <2>4, <2>5 DEF ResumeFopenImage, Live, Handle, Held, Whole, TypeOK
    <2>8. Handle(f)' = <<f, q, Empty>>
      BY <2>5 DEF Handle, Held, Whole, TypeOK
    <2>9. UNCHANGED Stored
      BY <1>6, <2>1, ShownStays DEF ResumeFopenImage, Shown, Rewritten
    <2>10. \A h \in OpenHandles : h[1] # f /\ h[2] # q
      BY <2>4, HandlesAre DEF Handle
    <2>11. OpenHandles' = OpenHandles \cup {<<f, q, Empty>>}
      BY <2>6, <2>7, <2>8, HandlesGrow
    <2> QED BY <2>9, <2>10, <2>11 DEF Opens
  <1>7. ASSUME ResumeFopenNative PROVE Stays \/ Opens \/ Writes \/ Closes \/ Removes
    <2>1. at["guest"] = "resume" /\ at'["guest"] = "idle" /\ op.path \in Paths
      BY <1>7 DEF ResumeFopenNative, OpInv, Done, Goto, TypeOK, Threads, WaitInv, jobVars
    <2>2. \A g \in Files : ~GuestWriting(g) /\ ~GuestWriting(g)'
      BY <2>1 DEF GuestWriting
    <2>3. PICK f \in Files, q \in Paths : f = op.file /\ q = op.path
      BY <1>7, <2>1 DEF ResumeFopenNative, OpInv
    <2>4. f \notin Live /\ \A g \in Live : file[g].path # q
      BY <1>7, <2>3 DEF ResumeFopenNative, OpInv, OpPaths, Live
    <2>5. \E l \in Lanes, k \in {"image", "native"} :
            file' = [file EXCEPT ![f] = [kind |-> k, path |-> q, lane |-> l,
                                         size |-> 0, id |-> opens, error |-> 0]]
      BY <1>7, <2>3, ZeroLane DEF ResumeFopenNative, Lowest
    <2>6. Live' = Live \cup {f}
      BY <2>2, <2>5 DEF Live, TypeOK
    <2>7. \A g \in Live : Handle(g)' = Handle(g)
      BY <1>7, <2>4, <2>5 DEF ResumeFopenNative, Live, Handle, Held, Whole, TypeOK
    <2>8. Handle(f)' = <<f, q, Empty>>
      BY <2>5 DEF Handle, Held, Whole, TypeOK
    <2>9. Stored' = [Stored EXCEPT ![q] = Empty]
      <3>1. \A r \in Paths : Shown(r)' = IF r = q THEN Empty ELSE Shown(r)
        BY <1>7, <2>1, <2>3 DEF ResumeFopenNative, Shown, Rewritten, TypeOK
      <3> QED BY <3>1, ShownSet
    <2>10. \A h \in OpenHandles : h[1] # f /\ h[2] # q
      BY <2>4, HandlesAre DEF Handle
    <2>11. OpenHandles' = OpenHandles \cup {<<f, q, Empty>>}
      BY <2>6, <2>7, <2>8, HandlesGrow
    <2> QED BY <2>9, <2>10, <2>11 DEF Opens
  <1>8. ASSUME ResumeRemove PROVE Stays \/ Opens \/ Writes \/ Closes \/ Removes
    <2>1. at["guest"] = "resume" /\ at'["guest"] = "idle" /\ op.path \in Paths
      BY <1>8 DEF ResumeRemove, OpInv, Done, Goto, TypeOK, Threads, WaitInv, jobVars
    <2>2. \A g \in Files : ~GuestWriting(g) /\ ~GuestWriting(g)'
      BY <2>1 DEF GuestWriting
    <2>3. PICK q \in Paths : q = op.path
      BY <2>1
    <2>4. \A r \in Paths : Shown(r)' = IF r = q THEN Absent ELSE Shown(r)
      BY <1>8, <2>1, <2>3 DEF ResumeRemove, Shown, Rewritten, TypeOK
    <2>5. Stored' = [Stored EXCEPT ![q] = Absent]
      BY <2>4, ShownSet
    <2>6. Live' = Live /\ \A g \in Live : Handle(g)' = Handle(g)
      BY <1>8, <2>2 DEF ResumeRemove, Live, Handle, Held, Whole, jobVars
    <2>7. UNCHANGED OpenHandles
      BY <2>6, HandlesStay
    <2> QED BY <2>5, <2>7 DEF Removes
  <1>9. ASSUME NEW t \in Threads,
      NativeOpen(t) PROVE Stays \/ Opens \/ Writes \/ Closes \/ Removes
    <2>1. CASE t = "worker"
      <3>1. \A g \in Files : GuestWriting(g)' <=> GuestWriting(g)
        BY <1>9, <2>1 DEF NativeOpen, GuestWriting, Goto, TypeOK, Threads, jobVars
      <3>2. \A q \in Paths : Shown(q)' = Shown(q)
        BY <1>9, <2>1 DEF NativeOpen, Shown, Rewritten, Goto, TypeOK, Threads, Image, jobVars
      <3>3. Live' = Live /\ \A g \in Live : Handle(g)' = Handle(g)
        BY <1>9, <3>1 DEF NativeOpen, Live, Handle, Held, Whole, jobVars
      <3> QED BY <3>2, <3>3, ShownStays, HandlesStay DEF Stays
    <2>2. CASE t = "guest"
      <3>1. PICK f \in Files : f = op.file
        BY <1>9, <2>2, GuestJob DEF NativeOpen
      <3>2. /\ f \in ImageFiles /\ op.kind = "fclose" /\ file[f].path \in Paths
            /\ file[f].path = op.path /\ run["guest"] = NoSlot
        BY <1>9, <2>2, <3>1, GuestJob DEF NativeOpen, WaitInv
      <3>3. /\ at["guest"] = "open" /\ at'["guest"] \in {"write", "publish"}
            /\ UNCHANGED <<file, arena, acked, op, run>>
        BY <1>9, <2>2 DEF NativeOpen, Goto, TypeOK, Threads, jobVars
      <3>4. f \in Live /\ Live' = Live \ {f}
        BY <3>1, <3>2, <3>3 DEF Live, GuestWriting, ImageFiles
      <3>5. \A g \in Live : Handle(g)' = Handle(g)
        BY <3>3 DEF Handle, Held, Whole
      <3>6. OpenHandles' = OpenHandles \ {Handle(f)} /\ Handle(f) \in OpenHandles
        BY <3>4, <3>5, HandlesShrink, HandlesAre
      <3>7. Handle(f)[2] = op.path /\ Handle(f)[3] = Image(file[f])
        BY <3>2 DEF Handle, Held, Image, ImageFiles, Whole
      <3>8. \A q \in Paths : Shown(q)' = IF q = file[f].path THEN Image(file[f]) ELSE Shown(q)
        BY <3>1, <3>2, <3>3 DEF Shown, Rewritten, Image, Whole
      <3>9. Stored' = [Stored EXCEPT ![file[f].path] = Image(file[f])]
        BY <3>2, <3>8, ShownSet
      <3> QED BY <3>2, <3>6, <3>7, <3>9 DEF Closes
    <2> QED BY <2>1, <2>2 DEF Threads
  <1>10. ASSUME NEW t \in Threads,
      NativeWrite(t) PROVE Stays \/ Opens \/ Writes \/ Closes \/ Removes
    <2>1. \A g \in Files : GuestWriting(g)' <=> GuestWriting(g)
      BY <1>10 DEF NativeWrite, GuestWriting, Goto, TypeOK, Threads, jobVars
    <2>2. \A q \in Paths : Shown(q)' = Shown(q)
      BY <1>10 DEF NativeWrite, Shown, Rewritten, Goto, TypeOK, Threads, Image, Whole, jobVars
    <2>3. Live' = Live /\ \A g \in Live : Handle(g)' = Handle(g)
      BY <1>10, <2>1 DEF NativeWrite, Live, Handle, Held, Whole, jobVars
    <2> QED BY <2>2, <2>3, ShownStays, HandlesStay DEF Stays
  <1>11. ASSUME PublishJob("worker") PROVE Stays \/ Opens \/ Writes \/ Closes \/ Removes
    <2>1. \A g \in Files : GuestWriting(g)' <=> GuestWriting(g)
      BY <1>11 DEF PublishJob, GuestWriting, Goto, TypeOK, Threads, jobVars
    <2>2. \A q \in Paths : Shown(q)' = Shown(q)
      BY <1>11 DEF PublishJob, Shown, Rewritten, Goto, TypeOK, Threads, Image, Whole, jobVars
    <2>3. Live' = Live /\ \A g \in Live : Handle(g)' = Handle(g)
      BY <1>11, <2>1 DEF PublishJob, Live, Handle, Held, Whole, jobVars
    <2> QED BY <2>2, <2>3, ShownStays, HandlesStay DEF Stays
  <1>12. ASSUME PublishSynchronous PROVE Stays \/ Opens \/ Writes \/ Closes \/ Removes
    <2>1. at["guest"] = "publish" /\ at'["guest"] = "idle" /\ UNCHANGED <<arena, disk>>
      BY <1>12 DEF PublishSynchronous, Done, Goto, TypeOK, Threads
    <2>2. PICK f \in Files, q \in Paths : f = op.file /\ q = op.path
      BY <2>1, GuestJob
    <2>3. f \in ImageFiles /\ op.kind = "fclose" /\ run["guest"] = NoSlot
      BY <2>1, <2>2, GuestJob DEF WaitInv
    <2>4. file' = [file EXCEPT ![f] = ClosedFile] /\ acked' = [acked EXCEPT ![q] = Image(file[f])]
      BY <1>12, <2>2, <2>3 DEF PublishSynchronous, Image, Whole, ImageInv
    <2>5. \A r \in Paths : Shown(r)' = Shown(r)
      BY <2>1, <2>2, <2>4 DEF Shown, Rewritten, TypeOK
    <2>6. Live' = Live /\ f \notin Live
      BY <2>1, <2>2, <2>3, <2>4 DEF Live, GuestWriting, ClosedFile, TypeOK
    <2>7. \A g \in Live : Handle(g)' = Handle(g)
      BY <2>1, <2>4, <2>6 DEF Handle, Held, Whole, Live, TypeOK
    <2> QED BY <2>5, <2>6, <2>7, ShownStays, HandlesStay DEF Stays
  <1> QED BY StepKinds, <1>1, <1>2, <1>3, <1>4, <1>5, <1>6, <1>7, <1>8, <1>9, <1>10, <1>11,
             <1>12 DEF Loud

(* The writer, its queue and its arena are a plain store of whole files: a *)
(* file changes only when the guest closes a handle, opens a native stream *)
(* or removes it, at once.                                                 *)
THEOREM Implements == ASSUME Prompt PROVE Spec => SaveStoreSpec
  <1>1. PInv /\ PInv' /\ [Next]_vars => [Store!Next]_(Store!vars)
    BY StoreStep, StoreMoves
  <1> QED BY PromptInvariant, StoreInit, <1>1, PTL DEF Spec, SaveStoreSpec, Store!Spec
-----------------------------------------------------------------------------
(* The order of the jobs.  The age of a job is the number of saves queued  *)
(* after it; no two unfinished jobs have one age, none is older than the   *)
(* queue is long, and the job that runs is the oldest.                     *)
Queue  == {s \in Slots : Unfinished(s)}
Age(s) == (sequence - jobs[s].seq) % SequenceMod

AgeInv ==
  /\ \A s \in Queue : Age(s) < Cardinality(Queue)
  /\ \A s, r \in Queue : s # r => Age(s) # Age(r)
  /\ \A s, r \in Queue : jobs[s].state = "RUNNING" => Age(r) <= Age(s)

(* Sums and differences of ticket numbers that wrap around.                *)
LEMMA ModStep ==
  /\ SequenceMod \in Nat \ {0}
  /\ \A a, b \in 0 .. SequenceMod - 1 :
       (a - b) % SequenceMod = IF a >= b THEN a - b ELSE a - b + SequenceMod
  /\ \A a \in 0 .. SequenceMod - 1 :
       (a + 1) % SequenceMod = IF a + 1 = SequenceMod THEN 0 ELSE a + 1
  <1>1. SequenceMod \in Nat \ {0}
    BY AsyncWriteAssumption
  <1>2. \A x \in 0 .. SequenceMod - 1 : x % SequenceMod = x
    BY <1>1
  <1>3. \A x \in 0 .. SequenceMod - 1 : (x - SequenceMod) % SequenceMod = x % SequenceMod
    BY <1>1
  <1>4. SequenceMod % SequenceMod = 0
    BY <1>1
  <1>5. \A a, b \in 0 .. SequenceMod - 1 :
       (a - b) % SequenceMod = IF a >= b THEN a - b ELSE a - b + SequenceMod
    BY <1>1, <1>2, <1>3
  <1> QED BY <1>1, <1>2, <1>4, <1>5

(* The queue is finite, and a slot without a job is room in it.            *)
LEMMA QueueSize ==
  /\ IsFiniteSet(Queue) /\ Cardinality(Queue) \in 0 .. QueueCapacity
  /\ \A s \in Slots \ Queue : Cardinality(Queue) < QueueCapacity
  <1>1. IsFiniteSet(Slots) /\ Cardinality(Slots) = QueueCapacity
    BY FS_Interval, AsyncWriteAssumption DEF Slots
  <1>2. IsFiniteSet(Queue) /\ Cardinality(Queue) <= Cardinality(Slots)
    BY <1>1, FS_Subset DEF Queue
  <1>3. ASSUME NEW s \in Slots \ Queue PROVE Cardinality(Queue) < Cardinality(Slots)
    <2>1. Queue \subseteq Slots /\ Queue # Slots
      BY <1>3 DEF Queue
    <2> QED BY <1>1, <2>1, FS_Subset, FS_CardinalityType
  <1> QED BY <1>1, <1>2, <1>3, FS_CardinalityType

(* An age is a number.                                                     *)
LEMMA AgeType == TypeOK => \A s \in Queue : Age(s) \in Nat
  <1>1. TypeOK => \A s \in Queue : /\ jobs[s].seq \in 0 .. SequenceMod - 1
                                   /\ sequence \in 0 .. SequenceMod - 1
    BY DEF TypeOK, JobType, Queue
  <1> QED BY <1>1, ModStep DEF Age

(* With ages below half of the modulus, "before" is "older".               *)
LEMMA BeforeIsOlder ==
  ASSUME TypeOK, AgeInv, NEW s \in Queue, NEW r \in Queue
  PROVE  Before(jobs[r].seq, jobs[s].seq) <=> Age(r) > Age(s)
  <1> DEFINE M == SequenceMod
             a == jobs[r].seq
             b == jobs[s].seq
  <1>1. a \in 0 .. M - 1 /\ b \in 0 .. M - 1 /\ sequence \in 0 .. M - 1
    BY DEF TypeOK, JobType, Queue
  <1>2. Age(r) = (IF sequence >= a THEN sequence - a ELSE sequence - a + M)
    BY <1>1, ModStep DEF Age
  <1>3. Age(s) = (IF sequence >= b THEN sequence - b ELSE sequence - b + M)
    BY <1>1, ModStep DEF Age
  <1>4. (a - b) % M = IF a >= b THEN a - b ELSE a - b + M
    BY <1>1, ModStep
  <1>5. Age(r) <= QueueCapacity - 1 /\ Age(s) <= QueueCapacity - 1
    BY <1>1, <1>2, <1>3, QueueSize, AsyncWriteAssumption DEF AgeInv
  <1>6. M \in Nat /\ QueueCapacity \in Nat /\ M > 2 * (QueueCapacity - 1)
    BY AsyncWriteAssumption
  <1> QED BY <1>1, <1>2, <1>3, <1>4, <1>5, <1>6 DEF Before

(* A step that neither queues nor finishes a job, and starts none.         *)
NoneAges == /\ SameQueue /\ UNCHANGED sequence
            /\ \A s \in Slots : jobs'[s].state = "RUNNING" => jobs[s].state = "RUNNING"

(* What else a step can do to the order of the queue.                      *)
LEMMA AgeKinds ==
  ASSUME Prompt, PInv, [Next]_vars
  PROVE  NoneAges \/ (\E h \in Files : FcloseQueue(h)) \/ WorkerTake \/ PublishJob("worker")
  <1> DEFINE Ages == NoneAges \/ (\E h \in Files : FcloseQueue(h)) \/ WorkerTake
                     \/ PublishJob("worker")
  <1> USE DEF NoneAges, PInv, IInv, TypeOK
  <1>1. ASSUME NEW f \in Files, NEW p \in Paths, Fopen(f, p) PROVE Ages
    BY <1>1, StillQueue DEF Fopen, StartWait, jobVars, workerVars
  <1>2. ASSUME NEW p \in Paths, Read(p) PROVE Ages
    BY <1>2, StillQueue DEF Read, StartWait, jobVars, workerVars
  <1>3. ASSUME NEW p \in Paths, Remove(p) PROVE Ages
    BY <1>3, StillQueue DEF Remove, StartWait, jobVars, workerVars
  <1>4. ASSUME Scan PROVE Ages
    BY <1>4, StillQueue DEF Scan, StartWait, jobVars, workerVars
  <1>5. ASSUME Shutdown PROVE Ages
    BY <1>5, StillQueue DEF Shutdown, StartWait, jobVars, workerVars
  <1>6. ASSUME NEW f \in Files, Fwrite(f) PROVE Ages
    BY <1>6, StillQueue DEF Fwrite, jobVars, workerVars
  <1>7. ASSUME NEW f \in Files, FwriteError(f) PROVE Ages
    BY <1>7, StillQueue DEF FwriteError, jobVars, workerVars
  <1>8. ASSUME NEW f \in Files, FcloseError(f) PROVE Ages
    BY <1>8, StillQueue DEF FcloseError, jobVars, workerVars
  <1>9. ASSUME NEW f \in Files, FcloseNative(f) PROVE Ages
    BY <1>9, StillQueue DEF FcloseNative, jobVars, workerVars
  <1>10. ASSUME NEW f \in Files, FcloseQueue(f) PROVE Ages
    BY <1>10
  <1>11. ASSUME NEW f \in Files, FcloseSynchronous(f) PROVE Ages
    <2>1. SameQueue
      BY <1>11, ReclaimQueue, StillQueue DEF FcloseSynchronous
    <2>2. UNCHANGED sequence /\ (UNCHANGED jobs \/ jobs' = Reclaimed)
      BY <1>11 DEF FcloseSynchronous, workerVars
    <2> QED BY <2>1, <2>2 DEF Reclaimed, EmptyJob
  <1>12. ASSUME SignalWake PROVE Ages
    BY <1>12, StillQueue DEF SignalWake, jobVars, workerVars
  <1>13. ASSUME Poll PROVE Ages
    <2>1. SameQueue
      BY <1>13, ReclaimQueue, StillQueue DEF Poll
    <2>2. UNCHANGED sequence /\ (UNCHANGED jobs \/ jobs' = Reclaimed)
      BY <1>13 DEF Poll, workerVars
    <2> QED BY <2>1, <2>2 DEF Reclaimed, EmptyJob
  <1>14. ASSUME StepAnswered PROVE Ages
    BY <1>14, StillQueue DEF StepAnswered, jobVars, workerVars
  <1>15. ASSUME StepTimedOut PROVE Ages
    BY <1>15 DEF StepTimedOut, Prompt
  <1>16. ASSUME RescuePending PROVE Ages
    BY <1>16 DEF RescuePending, WaitInv
  <1>17. ASSUME RescueNothing PROVE Ages
    BY <1>17 DEF RescueNothing, WaitInv
  <1>18. ASSUME ResumeFopenImage PROVE Ages
    <2>1. SameQueue
      BY <1>18, ReclaimQueue, StillQueue DEF ResumeFopenImage
    <2>2. UNCHANGED sequence /\ (UNCHANGED jobs \/ jobs' = Reclaimed)
      BY <1>18 DEF ResumeFopenImage, workerVars
    <2> QED BY <2>1, <2>2 DEF Reclaimed, EmptyJob
  <1>19. ASSUME ResumeFopenNative PROVE Ages
    <2>1. SameQueue
      BY <1>19, ReclaimQueue, StillQueue DEF ResumeFopenNative
    <2>2. UNCHANGED sequence /\ (UNCHANGED jobs \/ jobs' = Reclaimed)
      BY <1>19 DEF ResumeFopenNative, workerVars
    <2> QED BY <2>1, <2>2 DEF Reclaimed, EmptyJob
  <1>20. ASSUME ResumeRead PROVE Ages
    BY <1>20, StillQueue DEF ResumeRead, jobVars, workerVars
  <1>21. ASSUME ResumeRemove PROVE Ages
    BY <1>21, StillQueue DEF ResumeRemove, jobVars, workerVars
  <1>22. ASSUME ResumeSynchronous PROVE Ages
    BY <1>22, StillQueue DEF ResumeSynchronous, jobVars, workerVars
  <1>23. ASSUME ResumeShutdown PROVE Ages
    BY <1>23, StillQueue DEF ResumeShutdown, jobVars, workerVars
  <1>24. ASSUME Join PROVE Ages
    <2>1. SameQueue
      BY <1>24, ReclaimQueue, StillQueue DEF Join
    <2>2. UNCHANGED sequence /\ (UNCHANGED jobs \/ jobs' = Reclaimed)
      BY <1>24 DEF Join, workerVars
    <2> QED BY <2>1, <2>2 DEF Reclaimed, EmptyJob
  <1>25. ASSUME NEW t \in Threads, NativeOpen(t) PROVE Ages
    BY <1>25, StillQueue DEF NativeOpen, jobVars, workerVars
  <1>26. ASSUME NEW t \in Threads, NativeWrite(t) PROVE Ages
    BY <1>26, StillQueue DEF NativeWrite, jobVars, workerVars
  <1>27. ASSUME NEW t \in Threads, PublishJob(t) PROVE Ages
    BY <1>27 DEF PublishJob, WaitInv, Threads
  <1>28. ASSUME PublishSynchronous PROVE Ages
    BY <1>28, StillQueue DEF PublishSynchronous, jobVars, workerVars
  <1>29. ASSUME WorkerWait PROVE Ages
    BY <1>29, StillQueue DEF WorkerWait, jobVars, workerVars
  <1>30. ASSUME WorkerTake PROVE Ages
    BY <1>30
  <1>31. ASSUME WorkerIdle PROVE Ages
    BY <1>31, StillQueue DEF WorkerIdle, jobVars, workerVars
  <1>32. ASSUME WorkerSignal PROVE Ages
    BY <1>32, StillQueue DEF WorkerSignal, jobVars, workerVars
  <1>33. CASE UNCHANGED vars
    BY <1>33, StillQueue DEF vars
  <1>34. CASE GuestCalls
    BY <1>34, <1>1, <1>2, <1>3, <1>4, <1>5, <1>6, <1>7, <1>8, <1>9, <1>10, <1>11 DEF GuestCalls
  <1>35. CASE GuestContinues
    BY <1>35, <1>12, <1>13, <1>14, <1>15, <1>16, <1>17, <1>18, <1>19, <1>20, <1>21, <1>22, <1>23,
       <1>24, <1>25, <1>26, <1>27, <1>28 DEF GuestContinues, Threads
  <1>36. CASE Worker
    BY <1>36, <1>25, <1>26, <1>27, <1>29, <1>30, <1>31, <1>32 DEF Worker, Threads
  <1> QED BY <1>33, <1>34, <1>35, <1>36 DEF Next

(* Every step keeps the jobs in the order in which they were queued.       *)
LEMMA AgeStep == ASSUME Prompt, PInv, AgeInv, [Next]_vars PROVE AgeInv'
  <1> USE DEF PInv, IInv
  <1>1. ASSUME NoneAges PROVE AgeInv'
    <2>1. Queue' = Queue /\ \A s \in Queue : Age(s)' = Age(s)
      BY <1>1 DEF NoneAges, SameQueue, Queue, Age, Kept
    <2>2. \A s \in Queue : jobs'[s].state = "RUNNING" => jobs[s].state = "RUNNING"
      BY <1>1 DEF NoneAges, Queue
    <2> QED BY <2>1, <2>2 DEF AgeInv
  <1>2. ASSUME NEW f \in Files, FcloseQueue(f) PROVE AgeInv'
    <2>1. PICK s \in Slots :
            /\ ~Unfinished(s)
            /\ jobs' = [Reclaimed EXCEPT ![s] =
                 [state |-> "PENDING", path |-> file[f].path, lane |-> file[f].lane,
                  size |-> file[f].size, seq |-> (sequence + 1) % SequenceMod]]
      BY <1>2, ReclaimFact DEF FcloseQueue, Lowest, EmptySlots
    <2>2. \A r \in Slots : r # s => /\ Unfinished(r)' <=> Unfinished(r)
                                    /\ Unfinished(r) => jobs'[r] = jobs[r]
      BY <2>1, ReclaimFact, ReclaimType DEF Unfinished, JobType, Reclaimed, EmptyJob
    <2>3. /\ Unfinished(s)' /\ jobs'[s].state = "PENDING"
          /\ jobs'[s].seq = (sequence + 1) % SequenceMod
      BY <2>1, ReclaimType DEF Unfinished
    <2>4. Queue' = Queue \cup {s} /\ s \notin Queue
      BY <2>1, <2>2, <2>3 DEF Queue
    <2>5. Cardinality(Queue') = Cardinality(Queue) + 1 /\ Cardinality(Queue) < QueueCapacity
      BY <2>4, QueueSize, FS_AddElement
    <2>6. sequence' = (sequence + 1) % SequenceMod /\ sequence \in 0 .. SequenceMod - 1
      BY <1>2 DEF FcloseQueue, TypeOK
    <2>7. Age(s)' = 0
      BY <2>3, <2>6, ModStep DEF Age
    <2>8. \A r \in Queue : Age(r)' = Age(r) + 1 /\ Age(r) \in Nat
      <3>1. SUFFICES ASSUME NEW r \in Queue PROVE Age(r)' = Age(r) + 1 /\ Age(r) \in Nat
        OBVIOUS
      <3> DEFINE b == jobs[r].seq
      <3>2. b \in 0 .. SequenceMod - 1 /\ jobs'[r].seq = b
        BY <2>2, <2>4 DEF Queue, TypeOK, JobType
      <3>3. Age(r) = (IF sequence >= b THEN sequence - b ELSE sequence - b + SequenceMod)
        BY <2>6, <3>2, ModStep DEF Age
      <3>4. Age(r)' = (IF sequence' >= b THEN sequence' - b ELSE sequence' - b + SequenceMod)
        <4>1. Age(r)' = (sequence' - b) % SequenceMod
          BY <3>2 DEF Age
        <4>2. sequence' \in 0 .. SequenceMod - 1
          BY <2>6, ModStep
        <4> QED BY <3>2, <4>1, <4>2, ModStep
      <3>5. Age(r) < QueueCapacity - 1
        BY <2>5, <2>6, <3>2, <3>3, QueueSize, AsyncWriteAssumption DEF AgeInv
      <3>6. sequence' = IF sequence + 1 = SequenceMod THEN 0 ELSE sequence + 1
        BY <2>6, ModStep
      <3> QED BY <2>6, <3>2, <3>3, <3>4, <3>5, <3>6, AsyncWriteAssumption
    <2>9. \A r \in Queue : Age(r)' < Cardinality(Queue') /\ Age(r)' # 0
      BY <2>5, <2>8, QueueSize DEF AgeInv
    <2>10. \A r, q \in Queue : r # q => Age(r)' # Age(q)'
      BY <2>8 DEF AgeInv
    <2>11. \A r, q \in Queue' : jobs'[r].state = "RUNNING" => Age(q)' <= Age(r)'
      BY <2>2, <2>3, <2>4, <2>7, <2>8 DEF AgeInv, Queue
    <2>12. \A r \in Queue' : Age(r)' < Cardinality(Queue')
      <3>1. 0 < Cardinality(Queue')
        BY <2>5, QueueSize
      <3> QED BY <2>4, <2>7, <2>9, <3>1
    <2>13. \A r, q \in Queue' : r # q => Age(r)' # Age(q)'
      BY <2>4, <2>7, <2>9, <2>10
    <2> QED BY <2>11, <2>12, <2>13 DEF AgeInv
  <1>3. ASSUME WorkerTake PROVE AgeInv'
    <2>1. PICK s \in Slots : OldestPending(s) /\ jobs' = [jobs EXCEPT ![s].state = "RUNNING"]
      BY <1>3 DEF WorkerTake
    <2>2. SameQueue /\ UNCHANGED sequence
      BY <1>3, <2>1, TakeQueue DEF WorkerTake, workerVars
    <2>3. Queue' = Queue /\ \A r \in Queue : Age(r)' = Age(r)
      BY <2>2 DEF SameQueue, Queue, Age, Kept
    <2>4. \A r \in Slots : jobs[r].state # "RUNNING"
      BY <1>3 DEF WorkerTake, OneRunner, RunInv, WaitInv, Threads, NoSlot, Slots
    <2>5. s \in Queue /\ \A r \in Queue : Age(r) <= Age(s)
      <3>1. s \in Queue
        BY <2>1 DEF OldestPending, Queue, Unfinished
      <3>2. \A r \in Queue : ~Before(jobs[r].seq, jobs[s].seq)
        BY <2>1, <2>4 DEF OldestPending, Queue, Unfinished
      <3>3. \A r \in Queue : Age(r) \in Int
        BY AgeType
      <3> QED BY <3>1, <3>2, <3>3, BeforeIsOlder
    <2>6. \A r \in Queue : jobs'[r].state = "RUNNING" => r = s
      BY <2>1, <2>4 DEF Queue, TypeOK, JobType
    <2> QED BY <2>3, <2>5, <2>6 DEF AgeInv
  <1>4. ASSUME PublishJob("worker") PROVE AgeInv'
    <2> DEFINE w == run["worker"]
    <2>1. w \in Queue /\ jobs[w].state = "RUNNING"
      BY <1>4, WorkerJob DEF PublishJob, OneRunner, Queue, Threads
    <2>2. jobs' = [jobs EXCEPT ![w].state = "DONE"] /\ UNCHANGED sequence
      BY <1>4 DEF PublishJob, workerVars
    <2> HIDE DEF w
    <2>3. Queue' = Queue \ {w}
      BY <2>1, <2>2 DEF Queue, Unfinished, TypeOK, JobType
    <2>4. Cardinality(Queue') = Cardinality(Queue) - 1
      BY <2>1, <2>3, QueueSize, FS_RemoveElement
    <2>5. \A r \in Queue' : Age(r)' = Age(r) /\ jobs'[r] = jobs[r] /\ r \in Queue /\ r # w
      BY <2>1, <2>2, <2>3 DEF Queue, Age, TypeOK
    <2>6. \A r \in Queue : Age(r) \in Int
      BY AgeType
    <2>7. \A r \in Queue' : Age(r) < Age(w) /\ Age(w) < Cardinality(Queue)
      BY <2>1, <2>5, <2>6 DEF AgeInv
    <2>8. \A r \in Queue' : Age(r)' < Cardinality(Queue')
      BY <2>1, <2>4, <2>5, <2>6, <2>7, QueueSize
    <2> QED BY <2>5, <2>8 DEF AgeInv
  <1> QED BY AgeKinds, <1>1, <1>2, <1>3, <1>4

(* Saves finish in the order of their fclose, across paths, though their   *)
(* sequence numbers wrap.                                                  *)
THEOREM SavesFinishInOrder == ASSUME Prompt PROVE Spec => FinishInOrder
  <1>1. Init => AgeInv
    BY DEF Init, AgeInv, Queue, Unfinished, EmptyJob
  <1>2. PInv /\ AgeInv /\ [Next]_vars => AgeInv'
    BY AgeStep
  <1>3. PInv /\ AgeInv =>
          \A s,
              r \in Slots : jobs[s].state = "RUNNING" /\ jobs'[s].state = "DONE" /\ Unfinished(r)
                                => ~Before(jobs[r].seq, jobs[s].seq)
    <2> SUFFICES ASSUME PInv, AgeInv, NEW s \in Slots, NEW r \in Slots,
                        jobs[s].state = "RUNNING", Unfinished(r)
                 PROVE  ~Before(jobs[r].seq, jobs[s].seq)
      OBVIOUS
    <2>1. s \in Queue /\ r \in Queue /\ Age(r) <= Age(s)
      BY DEF AgeInv, Queue, Unfinished
    <2>2. Age(r) \in Int /\ Age(s) \in Int
      BY <2>1, AgeType DEF PInv, IInv
    <2> QED BY <2>1, <2>2, BeforeIsOlder DEF PInv, IInv
  <1> QED BY PromptInvariant, <1>1, <1>2, <1>3, PTL DEF Spec, FinishInOrder
=============================================================================
