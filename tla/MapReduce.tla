------------------------------ MODULE MapReduce ------------------------------
(***************************************************************************)
(* The MapReduce job of src/modules/m4/mapreduce: the coordinator          *)
(* (mapreduce/coordinator.go), the worker processes (mapreduce/worker.go), *)
(* the two RPCs between them (rpc.go) and the shared working directory     *)
(* that holds the intermediate files mapreduce-M-R and the output files    *)
(* mapreduce-out-R.                                                        *)
(*                                                                         *)
(* The coordinator's RPC handlers AssignJob and WorkerDone and its poll    *)
(* Done run under the coordinator mutex c.mu, so each is one atomic step.  *)
(* MakeCoordinator's switch to the reduce phase (mapDone = 1 and the loop  *)
(* appending reduce jobs) runs without the mutex, so it is one step per    *)
(* reduce job and the handlers interleave with it.  A worker runs its job  *)
(* without any lock; every file it writes is written to a temporary name   *)
(* and renamed, so a file is either absent or complete.                    *)
(*                                                                         *)
(* Data is abstracted: a map job is its id, an intermediate file is the    *)
(* pair <<map id, bucket>>, and an output file is recorded by the set of   *)
(* map jobs whose intermediate files it was reduced from.                  *)
(***************************************************************************)
EXTENDS Naturals, Sequences, FiniteSets, FiniteSetsExt

CONSTANTS
  Workers,             \* worker processes (model values)
  InputSizes,          \* sizes of the input files, in order (units of bytes)
  MapInputSize,        \* map_input_size, the chunk size of a map job
  UnreadableFile,      \* index of the first input file os.Open or Stat fails on; 0: none
  NReduce,             \* nReduce, the number of reduce jobs
  MapIdBase,           \* id of the first map job (job_id := 1000)
  MapRequeuePolls,     \* lease of an assigned map job, in Done() polls
  ReduceRequeuePolls,  \* lease of an assigned reduce job, in Done() polls
  MaxCrashes,          \* bound on worker processes dying in the middle of a job
  MaxFailures,         \* bound on job attempts that end in an I/O or function error
  HandlersImplemented, \* FALSE: AssignJob, WorkerDone and Done as the repository ships them
  TempDirOtherFs,      \* os.TempDir() is on another file system than the working directory
  WorkersStartEarly,   \* worker processes are launched before server() listens
  MaxLostCalls,        \* bound on worker RPCs failing while the coordinator runs
  GetJobMayFail,       \* CallGetJob may fail while the coordinator runs
  StaleFiles,          \* intermediate files <<M, R>> left in the directory by an earlier run
  DirScanMayFail       \* os.Getwd or os.ReadDir may fail in GetIntermediateFiles

ASSUME InputSizes \in Seq(Nat) /\ MapInputSize \in Nat \ {0}
ASSUME UnreadableFile \in 0 .. Len(InputSizes)
ASSUME NReduce \in Nat \ {0} /\ MapIdBase \in Nat
ASSUME MapRequeuePolls \in Nat /\ ReduceRequeuePolls \in Nat
ASSUME MaxCrashes \in Nat /\ MaxCrashes < Cardinality(Workers)
ASSUME MaxFailures \in Nat /\ HandlersImplemented \in BOOLEAN /\ TempDirOtherFs \in BOOLEAN
ASSUME WorkersStartEarly \in BOOLEAN /\ MaxLostCalls \in Nat /\ DirScanMayFail \in BOOLEAN
ASSUME GetJobMayFail \in BOOLEAN
ASSUME StaleFiles \subseteq Nat \X (0 .. NReduce - 1)

VARIABLES
  mapDone,     \* c.mapDone: 0 in the map phase, 1 in the reduce phase
  mapJobs,     \* c.mapJobs: map job id -> [status, timeout]
  reduceJobs,  \* c.reduceJobs: sequence of [job_id, status, intermediateFiles, timeout]
  coord,       \* where the coordinator's main goroutine is
  worker,      \* per worker: its loop position and the JobReply it holds
  interFiles,  \* intermediate files mapreduce-M-R present, as pairs <<M, R>>
  output,      \* per bucket: whether mapreduce-out-R exists and what it was reduced from
  crashes,     \* worker crashes so far
  failures,    \* failed job attempts so far
  lost         \* worker RPCs lost while the coordinator runs, so far

coordVars == <<mapDone, mapJobs, reduceJobs, coord>>
fileVars == <<interFiles, output>>
faultVars == <<crashes, failures, lost>>
vars == <<mapDone, mapJobs, reduceJobs, coord, worker, interFiles, output,
          crashes, failures, lost>>

Split == INSTANCE InputSplit

\* MakeCoordinator reads the files in order and returns at the first one it
\* cannot open or stat, with the map jobs of the files before it.
FilesRead == IF UnreadableFile = 0 THEN Len(InputSizes) ELSE UnreadableFile - 1
MapChunks == Split!SplitInputs(InputSizes, FilesRead, MapInputSize)
NMap == Len(MapChunks)
MapIds == MapIdBase .. MapIdBase + NMap - 1
\* The map ids in the names of the intermediate files that can ever exist.
FileIds == MapIds \cup {f[1] : f \in StaleFiles}
Buckets == 0 .. NReduce - 1

\* Job status values and job types of rpc.go.
UNASSIGNED == "UNASSIGNED"
ASSIGNED == "ASSIGNED"
FINISHED == "FINISHED"
Statuses == {UNASSIGNED, ASSIGNED, FINISHED}
UNKNOWN_TASK == "UNKNOWN_TASK"
MAP_TASK == "MAP_TASK"
REDUCE_TASK == "REDUCE_TASK"

\* Positions of the coordinator's main goroutine (MakeCoordinator, then main).
\* "starting": the inputs are split and server() is about to listen;
\* "main_poll": MakeCoordinator returned early and main polls Done().
CoordPcs == {"starting", "map_poll", "make_reduce", "reduce_poll", "main_poll", "exited"}

\* The coordinator process accepts RPCs: server() has run and it has not exited.
Listening == coord \in {"map_poll", "make_reduce", "reduce_poll"}
\* Positions of a worker process in the loop of Worker().
WorkerPcs == {"idle", "sleeping", "map", "reduce", "report", "exited", "crashed"}

\* A fresh `var reply JobReply` at the top of the worker loop.
NoReply == [pc |-> "idle", jobType |-> UNKNOWN_TASK, jobId |-> 0, files |-> {},
            r |-> 0, report |-> FINISHED]

-----------------------------------------------------------------------------
(***************************************************************************)
(* The coordinator.                                                        *)
(***************************************************************************)

\* MakeCoordinator up to server(): one map job per chunk with consecutive
\* ids from 1000, all UNASSIGNED.  On an unreadable file it prints the
\* error and returns &c at once, without server() or its poll loops, and
\* main goes on to its own Done() loop.
InitCoordinator ==
  /\ mapDone = 0
  /\ mapJobs = [m \in MapIds |-> [status |-> UNASSIGNED, timeout |-> 0]]
  /\ reduceJobs = <<>>
  /\ coord = IF UnreadableFile = 0 THEN "starting" ELSE "main_poll"

\* server(): the RPC handlers are registered and the socket listens; the
\* map-phase Done() loop starts.
Serve ==
  /\ coord = "starting"
  /\ coord' = "map_poll"
  /\ UNCHANGED <<mapDone, mapJobs, reduceJobs, worker, fileVars, faultVars>>

UnassignedMapJobs == {m \in MapIds : mapJobs[m].status = UNASSIGNED}
UnassignedReduceJobs == {i \in DOMAIN reduceJobs : reduceJobs[i].status = UNASSIGNED}

\* The jobs AssignJob may hand out: the repository's AssignJob hands out none.
AssignableMapJobs == IF HandlersImplemented THEN UnassignedMapJobs ELSE {}
AssignableReduceJobs == IF HandlersImplemented THEN UnassignedReduceJobs ELSE {}

\* AssignJob, map phase: the first UNASSIGNED job of the slice becomes
\* ASSIGNED with its timeout reset.
AssignMapJobHandler ==
  /\ mapDone = 0
  /\ AssignableMapJobs # {}
  /\ mapJobs' = [mapJobs EXCEPT ![Min(AssignableMapJobs)] = [status |-> ASSIGNED, timeout |-> 0]]
  /\ UNCHANGED <<mapDone, reduceJobs, coord>>

\* The reply carries the job's id.
AssignMapJob(w) ==
  /\ AssignMapJobHandler
  /\ worker' = [worker EXCEPT ![w] = [NoReply EXCEPT !.pc = "map",
                   !.jobType = MAP_TASK, !.jobId = Min(AssignableMapJobs)]]

\* AssignJob, reduce phase: the same over the reduce jobs appended so far.
AssignReduceJobHandler ==
  /\ mapDone = 1
  /\ AssignableReduceJobs # {}
  /\ LET i == Min(AssignableReduceJobs) IN
       reduceJobs' = [reduceJobs EXCEPT ![i].status = ASSIGNED, ![i].timeout = 0]
  /\ UNCHANGED <<mapDone, mapJobs, coord>>

\* The reply carries the job's id and its intermediate file list.
AssignReduceJob(w) ==
  /\ AssignReduceJobHandler
  /\ LET i == Min(AssignableReduceJobs) IN
       worker' = [worker EXCEPT ![w] = [NoReply EXCEPT !.pc = "reduce",
                    !.jobType = REDUCE_TASK, !.jobId = reduceJobs[i].job_id,
                    !.files = reduceJobs[i].intermediateFiles]]

\* AssignJob with nothing to hand out replies UNKNOWN_TASK.
AssignNoJob(w) ==
  /\ IF mapDone = 0 THEN AssignableMapJobs = {} ELSE AssignableReduceJobs = {}
  /\ worker' = [worker EXCEPT ![w] = [NoReply EXCEPT !.pc = "sleeping"]]
  /\ UNCHANGED coordVars

\* WorkerDone(id, st): the handler looks the id up among the jobs of the
\* current phase; a job already FINISHED is left alone (reply -1), any other
\* takes the status the worker reported.  An id of no job changes nothing.
MapJobReported(id, st) ==
  IF id \in MapIds /\ mapJobs[id].status # FINISHED
    THEN mapJobs' = [mapJobs EXCEPT ![id].status = st]
    ELSE UNCHANGED mapJobs

\* Fault: WorkerDone's reduce branch marks the job FINISHED whatever the
\* worker reported (its TODO list leaves out "mark as the status reported").
ReduceJobReportedAsFinished(id, st) ==
  IF \E i \in DOMAIN reduceJobs : reduceJobs[i].job_id = id
                                  /\ reduceJobs[i].status # FINISHED
    THEN LET i == CHOOSE i \in DOMAIN reduceJobs : reduceJobs[i].job_id = id IN
           reduceJobs' = [reduceJobs EXCEPT ![i].status = FINISHED]
    ELSE UNCHANGED reduceJobs

ReduceJobReported(id, st) ==
  IF \E i \in DOMAIN reduceJobs : reduceJobs[i].job_id = id
                                  /\ reduceJobs[i].status # FINISHED
    THEN LET i == CHOOSE i \in DOMAIN reduceJobs : reduceJobs[i].job_id = id IN
           reduceJobs' = [reduceJobs EXCEPT ![i].status = st]
    ELSE UNCHANGED reduceJobs

WorkerDone(id, st) ==
  /\ IF HandlersImplemented /\ mapDone = 0
       THEN MapJobReported(id, st) ELSE UNCHANGED mapJobs
  /\ IF HandlersImplemented /\ mapDone = 1
       THEN ReduceJobReported(id, st) ELSE UNCHANGED reduceJobs
  /\ UNCHANGED <<mapDone, coord>>

\* Done(), for one job: an ASSIGNED job's timeout counts one more poll, and
\* once it exceeds the lease the job goes back to UNASSIGNED.
\* Fault: Done() counts the timeout up to the lease but never requeues.
TickNoRequeue(job, lease) ==
  IF job.status = ASSIGNED /\ job.timeout <= lease
    THEN [job EXCEPT !.timeout = @ + 1]
    ELSE job

Tick(job, lease) ==
  IF job.status = ASSIGNED
    THEN IF job.timeout + 1 > lease
           THEN [job EXCEPT !.status = UNASSIGNED, !.timeout = @ + 1]
           ELSE [job EXCEPT !.timeout = @ + 1]
    ELSE job

\* Fault: Done() counts every job that is not UNASSIGNED as complete.
AllMapJobsFinishedNoneUnassigned ==
  ~HandlersImplemented \/ \A m \in MapIds : mapJobs[m].status # UNASSIGNED

\* What Done() returns: TRUE when every job of the phase is FINISHED.  The
\* repository's Done() returns its initial allJobsFinished := true.
AllMapJobsFinished ==
  ~HandlersImplemented \/ \A m \in MapIds : mapJobs[m].status = FINISHED
AllReduceJobsFinished ==
  ~HandlersImplemented \/ \A i \in DOMAIN reduceJobs : reduceJobs[i].status = FINISHED

\* One Done() poll of the map phase that returns false, in MakeCoordinator's
\* map loop or in main's loop after an early return.
MapPoll ==
  /\ coord \in {"map_poll", "main_poll"}
  /\ ~AllMapJobsFinished
  /\ mapJobs' = [m \in MapIds |-> Tick(mapJobs[m], MapRequeuePolls)]
  /\ UNCHANGED <<mapDone, reduceJobs, coord, worker, fileVars, faultVars>>

\* Done() returns true: MakeCoordinator leaves the loop and sets mapDone = 1
\* (without taking c.mu).
StartReducePhase ==
  /\ coord = "map_poll"
  /\ AllMapJobsFinished
  /\ mapDone' = 1
  /\ coord' = "make_reduce"
  /\ UNCHANGED <<mapJobs, reduceJobs, worker, fileVars, faultVars>>

\* GetIntermediateFiles(rNum), as the set of results it may return: the map
\* ids of the files mapreduce-<id>-rNum now in the working directory
\* (temporary .tmp files do not match), or, when os.Getwd or os.ReadDir
\* fails, nil after printing the error.
GetIntermediateFiles(rNum) ==
  {{f[1] : f \in {g \in interFiles : g[2] = rNum}}}
    \cup (IF DirScanMayFail THEN {{}} ELSE {})

\* Fault: the reduce job for bucket rNum is given the id rNum + 1.
MakeReduceJobIdOffByOne ==
  LET rNum == Len(reduceJobs) IN
  /\ coord = "make_reduce"
  /\ \E files \in GetIntermediateFiles(rNum) :
       reduceJobs' = Append(reduceJobs,
         [job_id |-> rNum + 1, status |-> UNASSIGNED, timeout |-> 0,
          intermediateFiles |-> files])
  /\ coord' = IF rNum + 1 = NReduce THEN "reduce_poll" ELSE "make_reduce"
  /\ UNCHANGED <<mapDone, mapJobs, worker, fileVars, faultVars>>

\* One iteration of the rNum loop: the files of bucket rNum are listed and
\* the reduce job is appended (without c.mu, while the RPC handlers run).
MakeReduceJob ==
  LET rNum == Len(reduceJobs) IN
  /\ coord = "make_reduce"
  /\ \E files \in GetIntermediateFiles(rNum) :
       reduceJobs' = Append(reduceJobs,
         [job_id |-> rNum, status |-> UNASSIGNED, timeout |-> 0,
          intermediateFiles |-> files])
  /\ coord' = IF rNum + 1 = NReduce THEN "reduce_poll" ELSE "make_reduce"
  /\ UNCHANGED <<mapDone, mapJobs, worker, fileVars, faultVars>>

\* One Done() poll of the reduce phase that returns false.
ReducePoll ==
  /\ coord = "reduce_poll"
  /\ ~AllReduceJobsFinished
  /\ reduceJobs' = [i \in DOMAIN reduceJobs |-> Tick(reduceJobs[i], ReduceRequeuePolls)]
  /\ UNCHANGED <<mapDone, mapJobs, coord, worker, fileVars, faultVars>>

\* Done() returns true: MakeCoordinator returns, main's own Done() loop
\* returns at once, and the coordinator process exits.  After an early
\* return, main's Done() is a map-phase poll.
CoordinatorExit ==
  /\ coord \in {"reduce_poll", "main_poll"}
  /\ IF mapDone = 0 THEN AllMapJobsFinished ELSE AllReduceJobsFinished
  /\ coord' = "exited"
  /\ UNCHANGED <<mapDone, mapJobs, reduceJobs, worker, fileVars, faultVars>>

-----------------------------------------------------------------------------
(***************************************************************************)
(* The workers.                                                            *)
(***************************************************************************)

\* CallGetJob succeeds: the AssignJob handler runs.
GetJob(w) ==
  /\ worker[w].pc = "idle"
  /\ Listening
  /\ \/ AssignMapJob(w)
     \/ AssignReduceJob(w)
     \/ AssignNoJob(w)
  /\ UNCHANGED <<fileVars, faultVars>>

\* CallGetJob fails to dial: nothing listens on the socket, and the worker
\* returns as if the job were over.  Before server() listens this happens
\* only to workers launched early.
WorkerExit(w) ==
  /\ worker[w].pc = "idle"
  /\ ~Listening
  /\ WorkersStartEarly \/ coord # "starting"
  /\ worker' = [worker EXCEPT ![w].pc = "exited"]
  /\ UNCHANGED <<coordVars, fileVars, faultVars>>

\* CallGetJob fails while the coordinator runs: call returns false on any
\* error of the dial or of c.Call, and the loop takes every false for "the
\* coordinator is gone" and returns.  The request may never have reached
\* AssignJob, or AssignJob ran and its reply was lost, leaving the job it
\* handed out ASSIGNED to no one until its lease runs out.
GetJobLost(w) ==
  /\ worker[w].pc = "idle"
  /\ Listening
  /\ GetJobMayFail /\ lost < MaxLostCalls
  /\ lost' = lost + 1
  /\ \/ UNCHANGED coordVars
     \/ AssignMapJobHandler
     \/ AssignReduceJobHandler
  /\ worker' = [worker EXCEPT ![w].pc = "exited"]
  /\ UNCHANGED <<fileVars, crashes, failures>>

\* UNKNOWN_TASK: sleep 500ms and go round the loop.
Backoff(w) ==
  /\ worker[w].pc = "sleeping"
  /\ worker' = [worker EXCEPT ![w].pc = "idle"]
  /\ UNCHANGED <<coordVars, fileVars, faultVars>>

\* doMap, one iteration of the bucket loop: bucket r is encoded, written to
\* mapreduce-M-r.tmp and renamed to mapreduce-M-r.  After the last bucket
\* doMap returns nil and the worker reports FINISHED.
\* Fault: doMap's bucket loop stops one bucket early (r < NReduce - 1).
MapWriteBucketOffByOne(w) ==
  LET r == worker[w].r IN
  /\ worker[w].pc = "map"
  /\ interFiles' = interFiles \cup {<<worker[w].jobId, r>>}
  /\ worker' = [worker EXCEPT ![w] =
                  IF r + 2 >= NReduce THEN [@ EXCEPT !.pc = "report", !.report = FINISHED]
                                      ELSE [@ EXCEPT !.r = r + 1]]
  /\ UNCHANGED <<coordVars, output, faultVars>>

MapWriteBucket(w) ==
  LET r == worker[w].r IN
  /\ worker[w].pc = "map"
  /\ interFiles' = interFiles \cup {<<worker[w].jobId, r>>}
  /\ worker' = [worker EXCEPT ![w] =
                  IF r + 1 = NReduce THEN [@ EXCEPT !.pc = "report", !.report = FINISHED]
                                     ELSE [@ EXCEPT !.r = r + 1]]
  /\ UNCHANGED <<coordVars, output, faultVars>>

\* doReduce: every listed intermediate file is read, the pairs are sorted
\* and reduced into a file made by os.CreateTemp("", ...) in os.TempDir(),
\* which is renamed to mapreduce-out-R and the worker reports FINISHED.  If
\* the temp directory is on another file system the rename fails (EXDEV),
\* doReduce returns the error and the worker reports UNASSIGNED.
ReduceWriteOutput(w) ==
  /\ worker[w].pc = "reduce"
  /\ \A m \in worker[w].files : <<m, worker[w].jobId>> \in interFiles
  /\ output' = IF TempDirOtherFs THEN output
                ELSE [output EXCEPT ![worker[w].jobId] =
                        [exists |-> TRUE, from |-> worker[w].files]]
  /\ worker' = [worker EXCEPT ![w].pc = "report",
                   ![w].report = IF TempDirOtherFs THEN UNASSIGNED ELSE FINISHED]
  /\ UNCHANGED <<coordVars, interFiles, faultVars>>

\* doMap or doReduce returns an error (open, read, decode, write or rename
\* failed) before its last rename: the worker reports UNASSIGNED.
JobFails(w) ==
  /\ worker[w].pc \in {"map", "reduce"}
  /\ failures < MaxFailures
  /\ failures' = failures + 1
  /\ worker' = [worker EXCEPT ![w].pc = "report", ![w].report = UNASSIGNED]
  /\ UNCHANGED <<coordVars, fileVars, crashes, lost>>

\* CallNotifyDone reaches the coordinator: the WorkerDone handler runs.
Report(w) ==
  /\ worker[w].pc = "report"
  /\ Listening
  /\ WorkerDone(worker[w].jobId, worker[w].report)
  /\ worker' = [worker EXCEPT ![w].pc = "idle"]
  /\ UNCHANGED <<fileVars, faultVars>>

\* CallNotifyDone's dial or call fails: it returns -1, which the loop
\* ignores.  It always fails once the coordinator has exited; while the
\* coordinator runs, at most MaxLostCalls calls are lost.
ReportLost(w) ==
  /\ worker[w].pc = "report"
  /\ ~Listening \/ lost < MaxLostCalls
  /\ lost' = IF Listening THEN lost + 1 ELSE lost
  /\ worker' = [worker EXCEPT ![w].pc = "idle"]
  /\ UNCHANGED <<coordVars, fileVars, crashes, failures>>

\* The worker process dies while it holds a job (the crash application
\* exits inside map or reduce): it never reports.
Crash(w) ==
  /\ worker[w].pc \in {"map", "reduce", "report"}
  /\ crashes < MaxCrashes
  /\ crashes' = crashes + 1
  /\ worker' = [worker EXCEPT ![w].pc = "crashed"]
  /\ UNCHANGED <<coordVars, fileVars, failures, lost>>

-----------------------------------------------------------------------------

Init ==
  /\ InitCoordinator
  /\ worker = [w \in Workers |-> NoReply]
  /\ interFiles = StaleFiles
  /\ output = [r \in Buckets |-> [exists |-> FALSE, from |-> {}]]
  /\ crashes = 0
  /\ failures = 0
  /\ lost = 0

\* The job is over: the coordinator has exited and no worker runs.
Terminated ==
  /\ coord = "exited"
  /\ \A w \in Workers : worker[w].pc \in {"exited", "crashed"}
  /\ UNCHANGED vars

CoordinatorNext ==
  Serve \/ MapPoll \/ StartReducePhase \/ MakeReduceJob \/ ReducePoll \/ CoordinatorExit

WorkerStep(w) ==
  \/ GetJob(w) \/ WorkerExit(w) \/ Backoff(w)
  \/ MapWriteBucket(w) \/ ReduceWriteOutput(w) \/ Report(w) \/ ReportLost(w)

Next ==
  \/ CoordinatorNext
  \/ \E w \in Workers : WorkerStep(w) \/ GetJobLost(w) \/ JobFails(w) \/ Crash(w)
  \/ Terminated

\* The coordinator's main goroutine polls forever until it exits, and a live
\* worker process always takes its next step; failures, crashes and lost
\* calls are not fair.
Fairness ==
  /\ WF_vars(CoordinatorNext)
  /\ \A w \in Workers : WF_vars(WorkerStep(w))

Spec == Init /\ [][Next]_vars /\ Fairness

-----------------------------------------------------------------------------
(***************************************************************************)
(* Properties.                                                             *)
(***************************************************************************)

JobRec == [status : Statuses, timeout : 0 .. Max({MapRequeuePolls, ReduceRequeuePolls}) + 1]

TypeOK ==
  /\ mapDone \in {0, 1}
  /\ mapJobs \in [MapIds -> JobRec]
  /\ \A i \in DOMAIN reduceJobs :
       /\ reduceJobs[i].job_id = i - 1
       /\ reduceJobs[i].status \in Statuses
       /\ reduceJobs[i].intermediateFiles \subseteq FileIds
  /\ Len(reduceJobs) <= NReduce
  /\ coord \in CoordPcs
  /\ \A w \in Workers : worker[w].pc \in WorkerPcs
                        /\ worker[w].report \in {UNASSIGNED, FINISHED}
  /\ interFiles \subseteq FileIds \X Buckets
  /\ output \in [Buckets -> [exists : BOOLEAN, from : SUBSET FileIds]]
  /\ crashes \in 0 .. MaxCrashes /\ failures \in 0 .. MaxFailures
  /\ lost \in 0 .. MaxLostCalls

\* Shuffle completeness: every reduce job that MakeCoordinator creates from
\* GetIntermediateFiles lists the intermediate file of every map job, so no
\* map output is dropped from its bucket (doMap writes every bucket, a job
\* is FINISHED only after a complete doMap, and the barrier holds).
ReduceInputComplete ==
  \A i \in DOMAIN reduceJobs : reduceJobs[i].intermediateFiles = MapIds

\* When the coordinator exits, every bucket has its output file
\* mapreduce-out-R, reduced from the output of every map job.
OutputComplete ==
  coord = "exited" =>
    \A r \in Buckets : output[r].exists /\ output[r].from = MapIds

\* With at least one worker that neither crashes nor leaves its loop early,
\* and finitely many failures and lost reports, the lease requeue gets
\* every job done: the coordinator exits and every live worker leaves its
\* loop.  A worker that leaves early is one whose CallGetJob failed while
\* the coordinator ran (GetJobLost); with crashes it can leave no worker.
JobTerminates ==
  <>(coord = "exited" /\ \A w \in Workers : worker[w].pc \in {"exited", "crashed"})


-----------------------------------------------------------------------------
(***************************************************************************)
(* Refinement: the coordinator's job table implements MRJob.  A job's      *)
(* status maps to idle/running/done, a reduce job MakeCoordinator has not  *)
(* appended yet is idle, and the job is done once the coordinator exits.   *)
(***************************************************************************)

AbsStatus(s) ==
  CASE s = UNASSIGNED -> "idle" [] s = ASSIGNED -> "running" [] s = FINISHED -> "done"

AbsPhase ==
  IF coord = "exited" THEN "done" ELSE IF mapDone = 0 THEN "map" ELSE "reduce"

AbsTaskStatus ==
  [t \in MapIds \cup Buckets |->
     IF t \in MapIds THEN AbsStatus(mapJobs[t].status)
     ELSE IF t < Len(reduceJobs) THEN AbsStatus(reduceJobs[t + 1].status)
     ELSE "idle"]

Job == INSTANCE MRJob WITH MapTasks <- MapIds, ReduceTasks <- Buckets,
                           phase <- AbsPhase, status <- AbsTaskStatus

\* The coordinator's job table only ever takes MRJob's steps: tasks move in
\* the current phase only (a late report of the other phase changes
\* nothing), a done task stays done, lease scans only give up running
\* tasks, and the phase advances only once every task of it is done.
JobRefinement == Job!Spec

=============================================================================
