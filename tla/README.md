# TLA+ models of the csc412-f25 MapReduce job

This directory checks the MapReduce system of `src/modules/m4/mapreduce` with TLC.
That system is the one part of the repository with concurrent and distributed behaviour.
The other parts of the repository are listed below with the reason they are not modelled yet.

## 1. Inventory

### Components

| Component | Source | State | Operations |
|---|---|---|---|
| Coordinator | `mapreduce/coordinator.go`, `coordinator/coordinator.go` | `mapJobs`, `reduceJobs`, `mapDone`, `numReduce`, mutex `mu` | `MakeCoordinator` (split the inputs into map jobs, `server()`, map poll loop, switch to the reduce phase, build the reduce jobs, reduce poll loop), the RPC handlers `AssignJob` and `WorkerDone`, the poll `Done()`, and `main`'s final `Done()` loop followed by exit |
| Worker | `mapreduce/worker.go`, `worker/worker.go` | a fresh `JobReply` per loop iteration (the process holds nothing else) | `Worker` loop (`CallGetJob`, then `doMap`, `doReduce` or a 500 ms back-off, then `CallNotifyDone`), exit whenever `CallGetJob` returns false |
| RPC protocol | `mapreduce/rpc.go` | none: the message shapes `IntArg`, `JobReply`, `NotifyDoneArgs`, `IntReply`, the status and type constants, and the socket name | `call` dials the unix socket for each request and returns false on any error |
| Shared directory | (the file system) | the intermediate files `mapreduce-M-R`, the outputs `mapreduce-out-R`, and temporary files | each file is written under a temporary name and then renamed |
| Partitioner | `ihash` in `worker.go` | none | FNV-1a 32-bit, masked to 31 bits; never called, since `doMap`'s partition step is a TODO |
| Registry, applications, sequential runner | `common/`, `mapreduceapps/`, `sequential/` | `jobcount` keeps a package counter | pure map and reduce functions; the `crash` application exits the worker process |
| Actor library, chat room (lab6) | `labs/lab6/...` | mailbox channel, killed channel; room members and logs | `New`, `Send`, `Kill`, `Receive`: every body is `panic("TODO")` |
| Inklings (a4) | `assignments/a4/...` | grid, ink levels, lock placeholders | config loading and a redraw loop; the goroutines are TODO comments |

### How the parts interact

- Workers call the coordinator's `AssignJob` and `WorkerDone` over RPC.
- The coordinator runs each RPC handler on its own goroutine. `MakeCoordinator`'s goroutine polls `Done()` every `POLL_MS`.
- All three of them share the job table, which `c.mu` is meant to guard.
- Workers pass data to each other only through the shared directory:
  - map jobs write `mapreduce-M-R`;
  - `GetIntermediateFiles` lists those files once, when the phase switches;
  - reduce jobs read them and write `mapreduce-out-R`.
- Nothing cancels a job.
  - A job whose lease expires goes back to UNASSIGNED.
  - Its first worker keeps running and reports late.

### What is hard

- Stragglers. A requeued job can run twice at the same time. Its late report, success or failure, can arrive after another worker has finished the job.
- Crashes. A worker can die after writing only some of its buckets. A failed attempt can leave some renamed files behind.
- The phase switch. `mapDone = 1` and the reduce-job appends run without `c.mu`, while the handlers keep running.
- Termination. Workers stop whenever `CallGetJob` fails, which `call` reports for any error, not only an unreachable coordinator. The coordinator stops only once every job is FINISHED, so it needs one worker that stays.

### The repository's state

`AssignJob`, `WorkerDone` and `Done` have TODO bodies. As shipped:

- `AssignJob` always replies `UNKNOWN_TASK`;
- `WorkerDone` changes nothing;
- `Done` returns `true` at once.

`doMap` writes every bucket, but the buckets are empty. `doReduce` sorts and renames an empty temporary file.

The model gives the three handlers the steps their TODO comments list, with each handler holding `c.mu`. Spec §4.1 gives the same steps. The constant `HandlersImplemented = FALSE` models the handlers as shipped instead.

### Properties that make each part correct

- Coordinator:
  - every reduce job lists the intermediate file of every map job;
  - the job ends only when every bucket's output exists;
  - the job table follows the abstract lifecycle in `MRJob` (which includes that FINISHED is terminal and that the reduce phase follows the map phase);
  - the job eventually completes.
- Worker:
  - a job is reported FINISHED only after every one of its files is renamed into place;
  - every live worker eventually exits.
- Input splitting: the map jobs cover every byte of every file read exactly once, in order.
- Sequential runner: one reduce call per key with all of its values, whatever order the unstable sort leaves them in.

The hazards these properties aim at are listed, each at its source line, under `hazards` in `PROJECT.json`.

## 2. Modules

| Module | Models |
|---|---|
| `MapReduce.tla` | The coordinator, the workers, the RPCs and the shared directory. The coordinator's state is `mapDone`, `mapJobs`, `reduceJobs` and `coord` (the position of `MakeCoordinator`/`main`). `worker[w]` holds a worker's loop position and its `JobReply`. `interFiles` is the set of intermediate files `<<M, R>>`. `output[R]` records whether `mapreduce-out-R` exists and which map jobs it was reduced from. `crashes`, `failures` and `lost` (worker RPCs lost while the coordinator listens) are bounded counters. |
| `MRJob.tla` | The abstract job: a phase (`map`, `reduce`, `done`) and a status per task (`idle`, `running`, `done`). |
| `InputSplit.tla` | `MakeCoordinator`'s two loops that cut the input files into chunks (`SplitFrom`, `SplitInputs`, both `RECURSIVE`), and a closed-form reference. `MapReduce` takes its map jobs from it. |
| `Sequential.tla` | The sequential runner: `sort.Sort(ByKey)` as the set of orders an unstable sort may produce, the grouping loop (`RunEnd`, `GroupFrom`), nocrash's `ReduceNoCrash`, and a reference output. |
| `MCMapReduce.tla` | Model values for the workers, the input files, the stale files, and worker symmetry. |
| `Actor.tla` | The lab6 actor library driven by one test. `messageQueue` is the buffered channel, `received` is the messages `Receive` was called with, `killed` and `running` are the shutdown signal and the actor goroutine. `pc` and `results` are the test goroutine and what its `Send`s returned. |
| `MapOutput.tla` | `doMap`'s write-then-rename loop for one map job run by several executions at once, at inode granularity. `tmpName` and `finalName` are what `mapreduce-M-r.tmp` and `mapreduce-M-r` name. `truncatedBy` and `whole` record each inode's content. `OpenTmp`, `WriteTmp` and `RenameTmp` are the open (O_TRUNC), the write, and the rename. |
| `MCMapOutput.tla` | Two executions: the straggler and its replacement. |
| `MCActor.tla` | `TestFullQueue`'s program. |
| `MCPureOps.tla`, `MCSequential.tla` | One initial state per bounded input. `MCPureOps` covers every split input of up to 3 files. |

How the actions of `MapReduce` correspond to the code:

- Coordinator:
  - `InitCoordinator` is `MakeCoordinator` up to `server()`: one UNASSIGNED map job per chunk of `InputSplit`. If input file `UnreadableFile` cannot be opened, the jobs of the earlier files exist, `coord` is `main_poll`, and `server()` never runs.
  - `Serve` is `server()`. `Listening` holds from then until the exit. A dial succeeds exactly when `Listening` holds.
  - `AssignMapJob`, `AssignReduceJob` and `AssignNoJob` are `AssignJob`. Each hands out the first UNASSIGNED job in slice order, or replies `UNKNOWN_TASK`. `AssignMapJobHandler` and `AssignReduceJobHandler` are the handler's change to the job table alone, which also happens when the reply is lost.
  - `Report` runs `WorkerDone` (`MapJobReported`, `ReduceJobReported`) for the current phase.
  - `MapPoll` and `ReducePoll` are one `Done()` poll that returns false: `Tick` counts the lease and requeues.
  - `StartReducePhase` is `Done()` returning true in the map phase, followed by `mapDone = 1`.
  - `MakeReduceJob` is one iteration of the `rNum` loop, with `GetIntermediateFiles`. With `DirScanMayFail`, the scan may also fail (`os.Getwd` or `os.ReadDir` returning an error). The error is printed and the job gets no files.
  - `MapPoll` also models `main`'s own `Done()` loop after an early return.
  - `CoordinatorExit` is the last `Done()` followed by `main`'s exit.
- Worker:
  - `GetJob`, `WorkerExit` and `GetJobLost` are `CallGetJob`. `GetJob` is a successful call. `WorkerExit` is a failed dial when nothing listens, which before `Serve` only happens to workers launched early (`WorkersStartEarly`); no run sets it, because spec §4.2 prescribes exiting on an unreachable coordinator, so the outcome depends on launch order, not on the code. `GetJobLost` is a call that fails while the coordinator listens (`GetJobMayFail`, at most `MaxLostCalls` lost calls in all). `call` returns false for any error, so the worker exits. The request may never have reached `AssignJob`, or `AssignJob` may have run with its reply lost.
  - `Backoff` is the sleep after `UNKNOWN_TASK`.
  - `MapWriteBucket` is one iteration of `doMap`'s write-then-rename loop. It is atomic here: a file is absent or complete. `MapOutput` shows that this holds for `doMap` only while one execution of a map job writes, so the `MapReduce` runs take the file system's atomic rename as given.
  - `ReduceWriteOutput` is `doReduce`.
  - `JobFails` is an error path of `doMap`/`doReduce`.
  - `Report` and `ReportLost` are `CallNotifyDone`, succeeding or failing. A report fails always after the exit, and at most `MaxLostCalls` times (shared with `GetJobLost`) while the coordinator listens.
  - `Crash` is the process exiting inside the map or reduce function.

How the actions of `Actor` correspond to `actors.go`, whose bodies are `panic("TODO")`. They follow the TODO comments and what the tests require:

- `Init` is `New`: an empty buffered channel and a running goroutine.
- `Send` is a non-blocking put: `nil` if there is room, an error otherwise (`TestFullQueue`).
- `Receive` is the goroutine taking the next message and calling `actor.Receive`.
- `Kill` signals on `killed`. `Stop` is the goroutine ending once it is signalled and the queue is empty. `KillReturns` is `Kill` returning after that (`TestCounterActor` reads the counter right after `Kill`).
- The test sends its program in order, then calls `Kill`.

`Terminated` is the stuttering step once everything has stopped. It keeps deadlock checking meaningful.

Refinement: `MapReduce!JobRefinement` is `MRJob!Spec` under this mapping:

- `UNASSIGNED`, `ASSIGNED` and `FINISHED` map to `idle`, `running` and `done`;
- a reduce job that has not been appended yet maps to `idle`;
- the phase is `done` once the coordinator has exited.

Two features of `MRJob` come from the code:

- `GiveUp` takes a set of tasks, because one lease scan may requeue several jobs.
- `MRJob` assumes map and reduce ids are disjoint. This is the `numeric_edge` hazard.

## 3. Runs

All runs use `MCMapReduce` with these settings:

- 2 workers and 2 buckets;
- input files of 3 and 0 bytes with a chunk size of 2. That gives 2 map jobs (ids 1000 and 1001): a full chunk, a cut-down last chunk, and an empty file with no job;
- a lease of 1 poll for both phases;
- at most 1 crash, 1 failed attempt and 1 lost call while the coordinator listens; `CallGetJob` fails only in `mr_safety` and `mr_getjob_lost`;
- no stale files, every input readable, and workers started after `server()`; the runs about the first two cases are the exceptions.

A one-poll lease lets a working worker's job be requeued and run by the other worker, which is how stragglers, duplicate renames and late reports all arise. Two of each kind of job is the smallest size at which one job can be finished while another is still running. Two buckets exercise `doMap`'s loop and the incremental reduce-job creation. One crash with two workers leaves one live worker, which the liveness run needs (`ASSUME MaxCrashes < Cardinality(Workers)`).

| Run | cfg | Expect | Checks |
|---|---|---|---|
| `mr_safety` | `MCMapReduce.cfg` | pass, about 346k states | `TypeOK`, `ReduceInputComplete`, `OutputComplete`, `JobRefinement`, with worker symmetry and `CallGetJob` failures |
| `mr_liveness` | `MCMapReduceLive.cfg` | pass, about 559k states | `JobTerminates` (no symmetry), with `CallGetJob` never failing while the coordinator listens. A lost report leaves its job ASSIGNED until the lease requeues it. |
| `mr_getjob_lost` | `MCMapReduceGetJobLost.cfg` | violation | `JobTerminates` with `GetJobMayFail = TRUE`. One worker crashes inside a map job. The other's `CallGetJob` fails once while the coordinator listens, and it exits as if the coordinator were gone. The requeued job is never taken and the coordinator polls forever. Spec §7 says no task is permanently lost (`worker.go:53`). |
| `mr_tmpdir_other_fs` | `MCMapReduceTmpDir.cfg` | violation | `JobTerminates` with `TempDirOtherFs = TRUE`. `doReduce`'s rename from `os.TempDir()` into the working directory fails (EXDEV) on every attempt. Reduce jobs are reassigned and fail forever, and the coordinator never exits. This is a code bug (`worker.go:144`). |
| `mr_unreadable_input` | `MCMapReduceUnreadable.cfg` | violation | `JobTerminates` with the second input unreadable. `MakeCoordinator` returns with the first file's map jobs and without `server()`. `main`'s `Done()` loop never sees them finished, so the coordinator never exits. Spec §7(a) says the process exits (`coordinator.go:217`). |
| `mr_stale_files` | `MCMapReduceStale.cfg` | violation | `ReduceInputComplete` with `mapreduce-1002-1` left by an earlier run. `GetIntermediateFiles` lists it in bucket 1's reduce job (`coordinator.go:89`). |
| `pure_ops` | `MCPureOps.cfg` | pass, about 3k states | `SplitMatchesReference` holds for all lists of up to 3 files of up to 5 bytes, chunk sizes 1 to 3, and every early-return point. |
| `seq_runner` | `MCSequential.cfg` | pass, 813 states | `OutputMatchesReference`: every intermediate of up to 4 records over 2 keys and 2 values, and every order the unstable sort may give |
| `mr_dir_scan_error` | `MCMapReduceScanError.cfg` | violation | `OutputComplete` with `DirScanMayFail = TRUE`. The scan fails while bucket 0's reduce job is built, and the job gets no files. It writes an empty output, reports FINISHED, and the coordinator exits. Spec §7 says no error is silently dropped (`coordinator.go:81`). |
| `actor_full_queue` | `MCActorFullQueue.cfg` | violation | `FullQueueRejected` for `TestFullQueue`. The goroutine can take messages off the queue between the sends, so the fourth `Send` succeeds. The test is racy against any implementation that receives in a separate goroutine, as `New`'s TODO says (`actors_test.go:99`). |
| `map_shared_tmp` | `MCMapOutput.cfg` | violation | `FinishedFilesWhole` with 2 executions, 2 buckets and no crash. The replacement truncates the `.tmp` the straggler has just written. The straggler renames it to `mapreduce-M-0`, finishes bucket 1, and returns nil while `mapreduce-M-0` is partial. Spec §4.2 says the temp-then-rename sequence means no reader sees a partial file (`worker.go:109`). `doReduce`'s `os.CreateTemp` avoids this. |

Fairness in `mr_liveness`:

- The coordinator's goroutine polls for as long as it lives, so it gets `WF`.
- Every live worker loops without blocking on anything except RPCs, so it gets `WF` too.
- Crashes, failures and lost calls are the environment's choice and get no fairness.

Each property has a mutant in `PROJECT.json`: a plausible bug in the code that TLC finds. The mutants are:

- the reduce job id off by one;
- `doMap`'s loop stopping one bucket early;
- `WorkerDone` marking a reduce job FINISHED whatever the worker reported;
- `Done()` treating ASSIGNED jobs as complete;
- `Done()` never requeueing;
- the last chunk of a file not cut down to the bytes left;
- the grouping loop's inner scan stopping one record early.

## 4. Plan

1. **Done (first sitting):** `MapReduce` and `MRJob`, the refinement, `mr_safety`, `mr_liveness` and `mr_tmpdir_other_fs` (and a run of the handlers as shipped, since retired).
2. **Done (second sitting):**
   - start-up: input splitting (`InputSplit`), the early return, `server()` and workers launched early;
   - reports lost while the coordinator runs;
   - stale intermediate files;
   - the sequential runner (`Sequential`).
3. **Done (third sitting):** the failing directory scan in `GetIntermediateFiles`, and the lab6 actor library (`Actor`).
4. **Done (fourth sitting):** the partitioner (`Partition`), and `doMap`'s shared temporary name (`MapOutput`). The two pure-operator runs were merged into `pure_ops`, and the launch-order run was retired, to stay within twelve runs.
5. **Done (fifth sitting):** `CallGetJob` failing while the coordinator listens (`GetJobLost`, `mr_getjob_lost`). Properties that restated a guard or checked only the modeller's design were removed: `FinishedIsStable` (implied by `JobRefinement`), `PhaseBarrier` on the shipped handlers (a placeholder the TODO acknowledges), the partitioner's range check (the mask alone gives it; `Partition.tla` is gone), and the actor's delivery and termination properties.
6. **Left open, with reasons under Not modelled:**
   - unlocked handlers: the repository has no handler code to race;
   - composing the oracle with `MapReduce`: it needs key/value data in `MapReduce`, which `doMap`'s TODO does not yet produce.

## 5. Not modelled

- Key/value contents, JSON encoding, and `doReduce`'s sorting and grouping in `MapReduce`. The properties only need to know which map jobs' data reached which output. Sorting and grouping are checked in `Sequential`, the runner whose loop `doReduce`'s TODO repeats.
- The registry and the applications, which are pure functions. The crash application's effect on the scheduler is the `Crash` action.
- The sequential runner's file reading and the map functions. `Sequential` starts from their concatenated output, and enumerates it.
- The partitioner. `ihash` is never called: `doMap`'s partition step is a TODO comment (`worker.go:99`). It has no state, and the bucket being in range follows from the 31-bit mask on one line.
- The rest of the actor library. `New`, `Send` and `Kill` are `panic("TODO")`, so `Actor` is a design from their comments and the tests. Only `TestFullQueue`'s expectation is checked against it; properties of delivery and `Kill` would check the design, not the code.
- The job registry. It names `MapWC`, `MapIndexer`, `MapMTiming` and `MapEarlyExit`, which are defined nowhere in the repository, so the package does not compile. It is a constant lookup table with no state.
- Handlers without the mutex. `AssignJob`, `WorkerDone` and `Done` are TODO stubs that take no lock and change nothing. An unlocked implementation would be a program the repository does not contain. Spec §5 requires one mutual-exclusion region, so the model's handlers are atomic. The one piece of real code that runs unlocked, the phase switch at `coordinator.go:274`, is modelled step by step.
- `jobcount`'s "no job runs twice without failure" and `rtiming`'s parallel-reduce count. Both depend on wall-clock time (map sleeps of 2 to 5 s against the lease), which an untimed model cannot express: any lease is exceeded by some schedule.
- `log.Fatal` in `server()` when the socket cannot be listened on. The process dies before any worker can connect.
- The timing of the `jobcount` and `rtiming` test applications (sleeps of 1 to 5 s against a lease of `POLL_MS` × polls). The model is untimed: a lease of one poll stands for any lease shorter than a job.
- The inklings simulation, which has no implemented concurrency.
- The lab6 chat room. `chatting_test.go` uses `UserActor` and `ChatMessage`, which are defined nowhere in the repository. `chat_room.go` is a skeleton, so the package does not compile. Its mailboxes are the actor library's, and `Actor` models them.
- `nReduce > 1000` id collisions. They are beyond TLC's reach, and `main` passes 5.
