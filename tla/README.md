# A verification project for paiton-vllm-plugin

TLA+ modules that model the concurrent and failure-prone parts of the plugin,
TLC configurations that check them on small instances, and TLAPS proofs of the
properties that matter most for every instance. Paths of source files below are
relative to `src/`; `X/` stands for `src/paiton_vllm_plugin/execution/` and `V/` for
`src/paiton_vllm_plugin/_vendor/qwen38/compat/overlays/vllm/`.

## 1. Inventory

The plugin replaces parts of vLLM's model execution by native GPU kernels. Its own
logic is mostly about *trust and identity*: a launch names exactly one native
package, one checkpoint and one set of options; they are verified before the engine
starts, bound in immutable files, and checked again in every worker process. Around
that core stand launchers, two image services and numeric adapters.

| Component | State it keeps | Operations | Interacts through |
|---|---|---|---|
| Execution-package cache (`X/cache.py`, `artifact_manifest.py`) | `executions/<digest>/`, staging directories, `locks/<digest>.lock` | `prepare_package`, `verify_package`, `extract_archive`, `validate_execution_package` | the file system, shared by all launchers and workers; `flock` |
| Immutable JSON (`X/cache.py`) | plan, lockfile and receipt files | `write_json_immutable`, unlocked reads | the file system; one lock per path |
| Checkpoint inspection (`X/inspection.py`, `X/api.py`) | fingerprints in the plan, receipts in `verified-models/` | `inspect_model`, `prepare`, `validate_source`, `validate_plan` | the checkpoint directory that others may rewrite |
| Serving-model preparation (`X/serving.py`) | `serving-models/<digest>/`, receipts | `prepare`, `verify` | the cache, links into the checkpoint |
| Worker bootstrap (`X/bootstrap.py`, `startup.py`) | `_plan`, import finders, patched `Worker.init_device` | `initialize`, `register_worker` | environment variables set by `launch`; monkey patches |
| Request witness (`X/witness.py`) | patched methods, flags, step counter, a HIP event, a thread | `arm`, `observe`, `execute`, `load`, `completed` | vLLM's worker, native libraries, the launcher's log |
| Presets and command line (`cli.py`, `X/presets.py`, `X/arguments.py`) | preset bindings | `prepare`, `launch`, `doctor` | all of the above in sequence |
| Resolution and catalogue (`X/resolver.py`, `X/catalogue.py`, `X/contracts.py`, `X/environment.py`) | none that changes | matching of arguments, versions and digests | — |
| Draft context graph (`dflash/context_graph*.py`, `dflash/uniform_graph*.py`) | one captured graph, its slots, a non-blocking lock, counters | capture, replay, fall back | the GPU stream of the caller |
| Speculative verification (`dflash/verification.py`, `dflash/rerank.py`) | buffers | tensor programs | — |
| Resharding (`ornith_reshard.py`) | output shards and an index | partition, offsets, streaming copy | — |
| Release launchers (`ornith_release_server.py`, `qwen38_release_server.py`, `gguf_release_server.py`) | staged model directories | stage, link, replace, exec | a cache shared without a lock |
| Compile-cache seeding (`_vendor/qwen38/compat/cache_namespace.py`) | seeded cache directories | `seed_caches` | a cache volume shared by containers |
| FLUX service (`models/FLUX.2-klein/service/worker_api.py`) | one inference process, a pipe, idle time | request, deadline, unload, restart | HTTP clients, the pipe |
| Qwen-Image engine (`models/Qwen-Image-2.1/paiton_image21/`) | a single-request lock, residence of the text encoder | generate, move, monitor | HTTP clients, the GPU |
| KV offload connector (`V/distributed/kv_transfer/kv_connector/v1/offloading/scheduler.py`, driven by `V/v1/core/sched/scheduler.py` and `V/v1/kv_offload/cpu/gpu_worker.py`) | request states, jobs, fences per block, jobs to flush, chunks being loaded, a threshold of stale jobs | lookup, load, store, flush, completion, `request_finished`, `reset_cache` | the scheduler's queues and block tables, the manager of the host tier, the copies of the GPU worker |
| Start-time helpers, adapters, kernels, other vendored overlays, benchmarks | — | — | — |

### What is hard here

- *Interleavings of processes.* Several launchers share one cache; each has its own
  idea of whether an entry exists. `flock` guards some paths, others (release
  launchers, seeding) rely on `rename` alone.
- *Checked, then used.* Files are hashed, then copied, linked, named in a plan or
  read by an engine later. The code closes these windows by fingerprints taken
  before and after, by verifying the copy, and by looking again in every process.
- *Crashes.* A launcher may die between `mkdtemp` and `rename`, the machine between
  `rename` and the next flush. Nothing repairs: a damaged entry is refused.
- *Dynamic patches.* The witness and the bootstrap replace methods at run time and
  must take them out again on every path, whichever library is loaded when.
- *Copies that are late.* The KV offload connector frees, reassigns and resets blocks and
  host slots whose copies are still queued.
- *Time.* The witness polls with a deadline; the image services have deadlines of
  their own and clients that give up.
- *Partial failure.* A step that fails after earlier ones changed global state
  (import finders, patched classes, half-written directories).

### What makes each component correct

- *Package cache*: an entry appears once, whole; nobody is granted a path that is not
  intact; no launcher changes an entry; only killed processes leave staging
  directories; no earlier failure stands in the way of a launcher with a good bundle.
- *Immutable JSON*: the path is a write-once register, torn writes included.
- *Checkpoint*: receipts and plans only bind bytes with the catalogue's digests; what
  an engine reads is what was bound unless it changed after the last look.
- *Serving model*: what is served is the transformation of what was verified, and a
  crash never leaves a directory that is trusted unhashed.
- *Bootstrap*: a worker that starts has validated its plan exactly once, or dies.
- *Witness*: one verdict; nothing stays patched; "Executed" is never said of anything
  but a completed dispatch of a request; a recorded dispatch is followed by a verdict.
- *Presets*: a launch uses the binding that was prepared last, or refuses.
- *Context graph*: a replay only runs for the call it was captured for, with the
  current slots.
- *Release launchers and seeding*: a stage that others can see is complete.
- *FLUX and Qwen-Image*: an answer goes to its own request; busy is never for ever.
- *KV offload*: what a lookup offers and what a request attends to is the KV of its own
  prefix; no fence is missed or left behind; every request ends.
- *Resharding*: shards are non-empty, in order, within the limit when possible.

## 2. Plan

Most important behaviour first. Rows 1 to 5, 7a, 9a and 12 are done, the rest is left.

| # | Module | Composes / refines | Runs | Theorems |
|---|---|---|---|---|
| 1 | `FileLock`, `PackageCache` | instantiates `FileLock`, implements `CacheEntry` | `package_cache` | types, `PublishSafe`, `LitterOnlyFromKills`, refinement |
| 2 | `ImmutableFile` | instantiates `FileLock`, implements `WriteOnce` | `immutable_file` | types, `KnownValueStands`, refinement |
| 3 | `Checkpoint` | receipts as the write-once files of 2 | `checkpoint` | types and its three invariants |
| 4 | `Witness` | — | `witness`, `witness_window` | types and its three invariants |
| 5 | `ServingModel` | receipts as in 2, sources as in 3, `FileLock` | `serving_model`, `serving_receipts` | types and its three invariants |
| 6 | `Bootstrap` | plan as in 3 | failing and repeated `initialize` / `register_worker` | a served plan was validated |
| 7a | `SeedCache` | — | `seed_cache`, `seed_two_containers` | types and its three safety properties |
| 7b | `ReleaseStage` | abstract "nothing or everything is visible" | two launchers, one stage | visibility |
| 8 | `ContextGraph` | — | capture, fall back, replay, concurrent calls | replays match captures |
| 9a | `FluxService` | services, workers and the node in one | `flux_service`, `flux_death` | types, answers match requests, one engine at a time |
| 9b | `ImageEngine` | — | busy lock, residence, monitor | busy is not for ever |
| 10 | `Reshard` | reference partition | bounded inputs | offsets (non-recursive parts) |
| 11 | `Preset` | binding as a replaceable register | prepare against launch | — |
| 12 | `Offload` | — | `offload` | types and its five safety invariants; the host tier's slots and readers; what the forward pass may write |

## 3. Modules

`FileLock` is `locked` of `X/cache.py`: `Acquire`, `Release` and `Die` on a holder. The
lock file is never deleted and `flock` is dropped by the kernel, hence `Die`.

### PackageCache and CacheEntry

`PackageCache` is `prepare_package` with everything it calls. A directory is a function
from the names that matter (declared files and the downloaded archive) to "none",
"good" (declared digest) or "bad". The labels of `pc` are the places between two
externally visible effects:

| Code (`X/cache.py`) | Action |
|---|---|
| call, `with locked(...)` 97 | `Start`, `AcquireLock` |
| `final.exists()`, `verify_package` 98–106 | `Reuse` |
| `mkdtemp` 108 | `Stage` |
| `verify_package(source)`, `copyfile` loop 112–119 | `VerifyBundle`, `CopyFile` (one file each) |
| no source, offline, no archive 120–131 | `NoPayload` |
| download, `verify_file` 132–154 | `Fetch`, `CheckArchive` |
| `extract_archive` 56–90 | `ExtractMember` (one member each), `FinishExtract` |
| `verify_package(staging)`, `os.rename` 156–158 | `VerifyStaging`, `Publish` |
| `finally: rmtree`, end of `with` 159–161 | `Cleanup`, `Leave` |
| I/O error or Ctrl-C in the `try`; death | `Interrupt`, `Kill` |

`EditBundle` and `Damage` are the user and the disk. `CacheEntry` is the promise: an
entry goes from absent to intact once, only `Harm` changes it afterwards, and a
launcher joins `granted` only while it is intact. The refinement maps a directory to
absent / intact / damaged and `granted` to the launchers whose call has returned a path.

Abstractions: `verify_package` reads its files in one step, because no launcher writes
into a directory that another one verifies; `rmtree` does not fail and is one step;
an exception outside the `try` (in the few lines around it) is a `Kill`. The memory of
`verify_file` is left out, as every change of a file is taken to change its fingerprint.

### ImmutableFile and WriteOnce

`write_json_immutable` on one path: `AcquireLock`, `Compare` (the path exists), or
`MakeTemp`, `WriteTemp`, `SyncTemp`, `Rename`, `Unlink`, then `Leave`; `Read` is any
reader of plans, lockfiles and receipts, which takes no lock. `PowerCut` keeps what was
fsynced: a new name may vanish (the directory is never fsynced), and so may the bytes of
a file that was not. `WriteOnce` says that the file appears once and whole, that success
means that it holds one's value, and that only a power cut takes it away. "Values" are
values with different canonical JSON; `canonical` itself refuses NaN before the lock.

### Checkpoint

The way of a checkpoint through `api.prepare` (first inspection, receipt or second
inspection, comparison, receipt), `validate_source` in each of the validations of
`validate_plan`, and the load by vLLM. A file is the sequence of contents it has had and
the length of that sequence is its fingerprint. Hashing is not atomic: if the file
changed meanwhile the digest may match or differ. `Rounds` counts validations after the
plan: `launch`, `initialize`, `init_device`. `late` is history: the files that changed
since the launcher last looked at them.

Abstractions: the receipt path is the digest of the receipt, so writing one is adding it
to a set (the details are `ImmutableFile`); the options and environment that
`validate_plan` compares as well do not appear. A *fresh fingerprint for every change* is
an assumption about clock granularity that the code shares.

### Witness

The witness of one worker. `patched` are the attributes that hold a wrapper, `restores`
those that `disarm` will restore; a site is a native component whose library is loaded
at the start or later (`Load`). `BeginStep`/`EndStep` are `Worker.execute_model`, with
the `finally` clause in `LeaveRequest` and `FinishStep`; `wrapped` records whether the
call entered through the wrapper, since `disarm` may run in the middle of it.
`Dispatch` is `observe`, in and out of a step, under capture or not, and may fail when
the event is created. `Gpu` completes or fails the event or does neither; `Watch` is one
iteration of the thread that ends it; `LoseManifest` makes the bundle unreadable.
The subclasses for other model families patch other attributes with the same logic.

### ServingModel

`prepare` and `verify` of `X/serving.py` for the layouts that build a directory, under
`FileLock`, with the validation of the plan and the load that follow:

| Code (`X/serving.py`, `X/api.py`) | Action |
|---|---|
| `api.prepare` up to the call, `with locked(...)` | `Begin`, `AcquireLock` |
| `target.exists()` | `Reuse` |
| `mkdtemp`, `copy2` and `reshard_checkpoint`, links | `MakeTemp`, `Copy` (one file each) |
| `validate_source`, here and in `validate_plan` | `StartSource`, `CheckSource`, `SourceChecked` |
| one file of `verify` | `VerifyFile`, and `HashFile` when it hashes |
| `os.replace(temp, target)` | `Publish` |
| the receipt is looked up; full, then compared again | `DecideReceipt`, `VerifyAgain` |
| `_remember_verification`, the plan | `Remember` |
| the last `validate`, vLLM's reads | `StartLoad`, `LoadFile` |

One directory stands for all, because its name is the digest of the checkpoint with its
fingerprints and of the package: launchers that meet in it have inspected the same
weights. For the same reason `Begin` needs unchanged weights. `verify` is called in five
places, which `pass` tells apart; only two of them hash. As in `Checkpoint` a file is its
history and the length of it its fingerprint, for links that of the file linked to.

Abstractions: a copy may come out good, bad or cut short, whatever its source was;
"short" is everything that `verify` notices without hashing (inventory, sizes, link
targets); of the validations of a plan only the last is modelled (`Checkpoint` has the
repeated ones); a killed launcher's temporary directory, which nothing looks at again, is
forgotten; `validate_source` may also fail for the sources of the copies, whose state does
not matter any more.

### SeedCache

`seed_caches` for one kind of cache. The code uses no lock: `Look` (`target.exists()`),
`MakeTemp` (the `makedirs` of `copytree`), `CopyFile`, `FinishCopy` (where `copytree` raises
the errors it collected), `Mark`, `Rename`, `Count`, and `rmtree` as `OpenTemp`, `RemoveFile`,
`RemoveTemp`, then the engine (`OpenCache`, `WriteEntry`, external). A directory is an
object named after its maker and a path leads to it until a rename or `rmdir` takes it away;
`rmtree` holds the object, everything else goes by the path. `Key` is the part of the
temporary name that tells processes apart, their id. With `OneNamespace` an id has one bearer at a
time and can be given again after his death; without it processes of different
containers may bear one at once. `harm` is history: somebody was killed or a file operation failed.

Abstractions: the seed is flat; the four kinds of cache are independent of each other; an
empty list of files stands for an empty directory.

### FluxService

One service per engine, its worker process, and the ComfyUI node that uses them:

| Code (`worker_api.py`, the node) | Action |
|---|---|
| the node's loop over the other engines, its `/generate` | `Begin`, `AskUnload`, `AskGenerate` |
| `urlopen(timeout=1230)` | `GiveUp`: the request stays in the backlog or in the handler |
| `HTTPServer`, one request at a time | `Accept` |
| `/unload` | `HandleUnload` |
| `generate` up to `start` 70–75 | `EnsureWorker` |
| `send` 76, `recv` 83, `is_alive` and exceptions 79–83, deadline 81 | `Send`, `Receive`, `WorkerExited`, `Deadline` |
| the reply; `except` 114 | `Reply`, `Fail` |
| `worker` 23–55 | `Load`, `Take`, `Finish`, `Die` |

`process` is `InferenceWorker.process` with the state of the process: "unstarted" is a
process object whose `start` raised, "exiting" a worker that has reported a failed load and will
not read again. The pipe is two queues that end with the process; what a dead worker has
left unread in `inbox` is what makes `recv` raise `ConnectionResetError` instead of `EOFError`
(checked with CPython's `multiprocessing.Pipe`). `asked` is the request the node waits for, so that
`Gone` is a client that does not wait any more. A reply that was written and the node's
reaction to it are one step.

Abstractions: requests that `validate` refuses and `/health` change nothing and are left out; the
only client is one node, whose lock serialises its calls; it sends its requests whole (a client
that stalls in the middle of one would block the single-threaded server). Between a death and
the next look at the process the model allows either order of `poll` and `is_alive`.

### Offload

The KV offload connector of the vendored vLLM with what drives it. The engine runs one step
after the other (`step.phase`); copies run beside it; requests arrive, are aborted and the
caches are reset between steps. `O` is the connector's scheduler side, `S` vLLM's scheduler.

| Code | Action |
|---|---|
| `S` `add_request`, `finish_requests`, `reset_prefix_cache` | `Arrive`, `Abort`, `Reset` |
| `EngineCore.step`, `has_requests` | `Begin` |
| `S.schedule` 603–806: tokens and blocks for a running request, or preemption of the last | `ScheduleRunning` |
| `S.schedule` 817–1255: promotion of a finished load; lookup delayed or no room; admission; asynchronous load | `Loading`, `Delay`, `Admit`, `Load` |
| `O._update_req_states`, first part of `build_connector_meta` (what to flush) | `EndSchedule` |
| `O._build_store_jobs`, one request | `Store` |
| last part of `build_connector_meta`, `S._update_after_schedule`, `handle_preemptions` | `SendMeta` |
| `wait` for the flushed jobs, forward pass, submission of the loads | `Forward` |
| one copy of the worker | `Copy` |
| `S.update_from_output`, `O.request_finished`, `O.update_connector_output` | `Update` |

`req`, `order` and `skipped` are the requests and the queues of the scheduler (`order` has
the pairs of requests that are in one list, the first before the second). `track` is
`_req_status`, `transfers` has `_jobs` and what the worker still holds; a transfer that is
not `known` is older than the last reset (`_stale_job_threshold`). `fences` is
`_block_id_to_pending_jobs`, `flush` `_current_batch_jobs_to_flush`, then the jobs that the
worker waits for. The content of a block or slot is the key of a chunk and how many of its
positions are computed, so that `Written` is what the forward pass does to it, and
`HostTruth` and `GpuTruth` say what the connector is for.

External, modelled from their use: the manager of the host tier (`host`, `PrepareStore`), the
block pool (`Free`, `Picks`: any free blocks) and the forward pass.

Abstractions: one cache group (all blocks full attention or one sliding window, by `window`) with
chunks of one block; equal prompts give equal tokens and different prompts share no chunk; a copy is
one step, and runs only while a step waits or ends, as in between nothing of it can be seen;
what nothing refers to is forgotten (`Forget`); job ids are given again once no
transfer in flight has a greater one (`NewIds`), because only their order and equality matter.
Left out are several groups with their common alignment, partial tails and boundary
states, adoption from the GPU's own prefix cache, asynchronous scheduling, several
workers (`pending_count` is 1), speculative tokens, priorities, and failed loads.

Five things that the code does and the properties do not claim away:

- **LastToken.** `_build_store_jobs` (`O` 1429) takes all tokens of a stopped request for
  computed. The last one was sampled in the step that stopped it and never went through the model. If
  it ends a chunk, the chunk is stored with a last position that was never written, and a later
  request with that prefix loads it. `HostTruth` and `GpuTruth` allow for this position of this chunk
  (`LastSampled`).
- **LateLoad.** A reset while a load is queued makes the load stale and empties the host tier. In the next step a
  store of a finished request may be given the same host slot and, because it is to be flushed at once, be
  submitted and run in its own stream before the stale load reads that slot: the load then brings the wrong
  bytes. `gpu_worker.py` 673–674 says that host memory that loads read is "never written by a concurrent
  GPU stream". It takes three requests, and that the worker submits the stores of this step that are to be flushed
  before its one wait (`S` 1606–1616 adds them to `jobs_to_flush`). With the two requests of the run `HostTruth` and
  `GpuTruth` hold.
- **StaleIds.** `reset_cache` sets `next_stored_chunk_idx` back to 0. For a running request with a
  sliding window the ids below the old index were never zeroed, since `_update_req_states` looks only
  at what is not stored yet (`O` 1219–1224); after the reset the blocks they name, long
  somebody else's, would be stored under this request's keys. It takes
  `reset_prefix_cache(reset_running_requests=False, reset_connector=True)` with such a request running, which
  `Reset` leaves out.
- **Second reset.** `reset_cache` puts jobs in flight into `_current_batch_jobs_to_flush` and asserts at its
  start that it is empty (`O` 1836): a second reset before the next step stops the engine.
  `ResetConnector` has the assertion as its guard.
- **HeadOfLine.** A queued request that does not fit ends the pass (`S` 1145). If it is ahead of one
  whose load has finished, that one is not promoted (`S` 845), keeps its blocks, and the first never fits. A
  lookup that was delayed is how such a request gets ahead. It takes four requests; with the two of
  the run `Served` holds.

## 4. Runs

| Run | Instance | What it shows |
|---|---|---|
| `package_cache` | 2 launchers, 3 calls, 2 declared files, 5 archives or none, 3 staging names, 2 faults | `PublishSafe`: whoever is about to rename is alone, with an intact staging directory. `LitterOnlyFromKills`. `RefinesCacheEntry`. `GoodBundlePrepares`: liveness with a good bundle |
| `immutable_file` | 3 processes, 2 values, 4 calls, 2 faults | `KnownValueStands`: what a live process learned of the path still holds. `RefinesWriteOnce` |
| `checkpoint` | 2 launchers, a metadata file and a weight file, 2 preparations, 2 validation rounds, 2 edits | `ReceiptsBindGoodBytes`, `PlansBindGoodBytes`, `OnlyLateEditsEscape` |
| `witness` | 2 components, a window of 3 steps | `OneVerdict`, `RemovedWhenDone`, `ExecutedIsGenuine`; liveness `RecordedIsReported` |
| `witness_window` | the same | violation: see below |
| `serving_model` | 2 launchers, a copy and a link, 2 preparations, 2 faults | `PublishedWhole`, `ReceiptsBindGoodCopies`, `ServedIsVerified`; liveness `PublishedIsUsable`: a directory whose maker died before the receipt is used by the next launcher |
| `serving_receipts` | the same | violation: see below |
| `seed_cache` | 3 processes, two of them with one id, a seed of 2 files | `SeenWhole`, `SeedArrives`, `WarmUntouched`; liveness `SeedNeverStops` |
| `seed_two_containers` | the same in several containers | violation: see below |
| `flux_service` | 2 engines, 6 HTTP requests (3 calls of the node) | `AnswerMatches`, `OneEngineLoaded`; liveness `NodeReturns` |
| `flux_death` | 2 engines, 4 requests | violation: see below |
| `offload` | 2 requests, 2 prompts, 2 blocks, 2 slots of 2 tokens, prompts of 2 and at most 5 tokens, full attention or a window of 2, one reset | `HostTruth`, `GpuTruth`, `FencesExact`, `JobsTracked`, `ClosedOnce`; liveness `Served` |

`TypeOK` is the type invariant of each, and says more than the shape of the variables where the code
relies on more: only declared members are extracted (`PackageCache`), a receipt has a row for every
file (`Checkpoint`, `ServingModel`), an `rmtree` never holds a directory that an engine made
(`SeedCache`), the node never has the engine unloaded that it is about to use (`FluxService`), no
count becomes negative (`Offload`). Every property of a passing run has a mutant of
the code (kept in the modules next to the action it alters) that TLC finds violating it.

*Why the bounds are enough.* Two launchers and three calls give the second-comer, the waiter
at the lock and the retry after a failure or a death; two faults give a kill followed by
damage, an edit between verification and copy, or two kills. Two declared files are the
least with a half-done copy and a repeated, missing or foreign member. Three staging names
are what two killed launchers and a live one need. In `immutable_file` two writers of
different values and a third process that reads or writes meet with two faults, so that a
value written after a power cut meets an earlier one. In `checkpoint` one file of each kind,
two edits (there and back, or one during each inspection) and two rounds (one change between
rounds) cover every window once for each of two launchers that share receipts; the proofs
cover the rest. In `serving_model` one copy and one link are the two kinds of file; two
launchers give maker and user in either order, with receipt or without; two faults give a
kill after the rename and an edit during the hashing that follows. In `seed_cache` the id that two
processes share brings the leftover of a dead one, the third process races with either, and two
files are the least for a half-done copy. Three calls of the node in `flux_service` are an abandoned
one, a switch and a switch back. In `offload` each request can fill the GPU and the host
tier alone, so that the second one preempts, evicts, reuses blocks and slots and meets chunks on their
way; a window of one chunk frees blocks of running requests. One reset splits the transfers into those before
and after. The same properties were found to hold with three blocks, with two resets, with prompts of 3
tokens, with steps of 1 or 3 tokens and with three requests, which take too long for a run to be kept. The window of the witness
is 32 in the code; three steps are an empty, a request and a last one. Calls and faults are
bounded by `MaxStarts`, `MaxCalls`, `MaxBegins`, `MaxFaults`, `MaxEdits`, `MaxRequests`, `MaxResets` and `MaxJobs`
(7 transfers in flight, which the run never needs all of), nothing else is. Deadlock is not checked, because all these systems stop when the calls are used up; that
no launcher waits for ever is part of `GoodBundlePrepares`.

*Fairness.* `package_cache`: weak fairness of a launcher's own steps, i.e. a process that is
not killed keeps running, and `flock` wakes a waiter. With two launchers no waiter can be
overtaken for ever, because calls are bounded; with unbounded calls the kernel's queue
would be needed. Interrupts, edits and calls are never forced. `witness`: weak fairness of
`Watch` (the thread polls every 10 ms and has a deadline of 120 s, so it ends even
without an event) and of `EndStep` (a step returns or raises). Nothing obliges the
scheduler to begin a step, a library to be dispatched or the GPU to finish.

`serving_model`: as in `package_cache`; `PublishedIsUsable` assumes that nobody rewrites a file,
and lets kills and interrupts happen to anyone, in which case the launcher is "killed" or "aborted".

`seed_cache`: weak fairness of each process's own steps; nobody waits for another, so the
fairness is that of a running process. Kills, errors and engine writes are free.

`flux_service`: weak fairness of each server (it polls every second and has a deadline of 1200 s, so that
`Serve` is always enabled while it handles a request) and of the node's own next request. The
worker has none: it may hang. The node's timeout is not needed for `NodeReturns`.

`offload`: weak fairness of the engine's next step (`run_busy_loop` goes on while `has_requests`) and strong
fairness of the copies, which are really independent of the steps; the model runs them only in the
phases "flush" and "output" of a step, and those come again and again. That a request stops is not assumed: it has at
most `MaxTokens` tokens.

*The findings.* `witness.py:142` reports "No eligible uncaptured native dispatch in the first
32 request steps". The code counts calls of `execute_model`, also those that schedule no
token, which `in_request` (line 131) tells apart. `witness_window` shows a window that is
over after steps none or few of which were request steps.

`serving.py:88` says of a receipt that "this private-cache entry binds trusted digests to
device/inode/ctime/mtime/size". `verify` never hashes what a link points to (it
compares the size and takes the fingerprint), and an existing directory is verified without
another `validate_source`. `serving_receipts` shows a weight that is rewritten
between the inspection and the receipt: the receipt then binds a fingerprint that goes with
no digest. What is served is unaffected (`ServedIsVerified`), because `validate_source`
runs before every use of the plan.

`cache_namespace.py:78` says that the target "is created from the seed with a copy-and-rename,
so a concurrent process sees either nothing or the complete seed". The temporary name (line 96)
has the process id alone. `seed_two_containers` shows two processes with one id on a
shared volume: the second meets the first's directory, removes files from it (line 104), and the first
renames what is left to the target. Engines compile what is missing, but the directory carries
the marker of a seeded cache.

`worker_api.py:80` has an error for a worker that exits, and line 114 turns it, `EOFError` and
`BrokenPipeError` into a reply. `flux_death` shows a worker that dies with the request still unread
(killed while it loads): `recv` raises `ConnectionResetError`, nobody catches it, and the client's
connection is closed without a reply. Two neighbours of it have no sentence of the repository against them
and are no findings: a `start` that raises leaves an unstarted process behind, on which
every later `unload` fails until the service is restarted ("unstarted" in `HandleUnload` and
`EnsureWorker`), and a client that has gone makes `Reply` throw a healthy worker away.

## 5. Proofs

`tlapm` checks all of them; assumptions are only the named ASSUMEs of the modules, which
TLC evaluates in the runs.

- `PackageCacheProofs` — `IInv` adds to the types that only the holder of the lock is inside
  (`HolderOnly`), that it has a staging directory from `mkdtemp` until it is renamed or removed
  (`StagingHeld`), that no entry has appeared since it looked (`StillAbsent`), that what passed
  the last verification is intact (`Verified`), and that an archive is only opened when there
  is one (`ArchivePinned`). `LitterCounted` bounds the staging directories without an owner by the
  kills, with the library's facts on finite sets. Theorems `CacheTypes`, `PublicationIsSafe`,
  `LitterIsFromKills`, and `ImplementsCacheEntry`: every step is one of `CacheEntry` or a stutter.
- `ImmutableFileProofs` — `IInv` adds to the types and `KnownValueStands` that only the
  holder of the lock is inside (`HolderOnly`), that it has a valid value (`ValueGiven`),
  that a process that will rename has seen no file since it got the lock
  (`StillAbsent`), that what it will rename is whole and synced (`TempWhole`), and that
  the bytes of the file are on disk. Without `StillAbsent` the rename could replace a
  value someone knows; without `TempWhole` and `durable.bytes` a power cut could
  leave garbage. Theorems `FileTypes`, `KnownValuesStand`, and `ImplementsWriteOnce`:
  every step is a step of `WriteOnce` or a stutter.
- `CheckpointProofs` — `IInv` says what has been established halfway through each loop:
  `FullIsGood` (hashed so far), `CandIsGood` (about to be remembered or planned),
  `CheckedOrLate` and `LoadedOrLate`. That a receipt has a row for every file is `CandIsGood`
  at the moment it is written. Theorems `CheckpointTypes`, `ReceiptsAreSound`,
  `PlansAreSound`, `OnlyLateEdits`, for any number of files, launchers, rounds, edits.
- `WitnessProofs` — `IInv` relates the patches to the state (`AllTracked`,
  `ArmedUntilDone`, `ExecuteWrapped`), the flag to the step (`StepInWindow`), the
  thread to the record (`ThreadOfRecord`), and lists who may have reported what
  (`Verdict`). Theorems `WitnessTypes`, `AtMostOneVerdict`, `InstrumentationRemoved`,
  `ExecutedIsTrue`, for any set of components and any window.

- `ServingModelProofs` — `IInv` has one part per phase of a launcher: while it makes the
  directory there is no other and its copies are in their first version (`DirectoryThere`,
  `CopiesMade`); what each pass of `verify` has established of the files behind it
  (`StagedHashed`, `FullHashed`, `AgainCompared`, `PlanChecked`); what rows of copies and links
  are worth afterwards (`RecordsGood`, `LinkRows`; together they give a receipt its rows). The crucial point is `FullHashed`: a
  copy hashed while it changed has a row that differs from its present fingerprint, which is
  what the comparison after hashing finds. `Frame` shows once that a launcher's step leaves
  the others' parts alone. Theorems `ServingTypes`, `PublicationIsWhole`,
  `ServingReceiptsSound`, `ServedWasVerified`.
- `SeedCacheProofs` — under `OneNamespace`, `IInv` says that ids are borne by one live process
  at a time (`Alone`), that what is at a temporary path was made there and is not the cache
  (`PathOfMaker`), that a copying process finds its own directory (`OwnPath`) with what it has
  brought (`Copied`), and that an `rmtree` holds a directory of its own id that is not the
  cache (`HoldsTemp`). `Alone` is what two containers break. Theorems `SeedTypes`,
  `SeedSeenWhole`, `SeedAlwaysArrives`, `CacheUntouched`, for any processes, ids and seed.
- `FluxServiceProofs` — `IInv` has two halves. For the answers, `Pipe` says what the two queues and the
  worker hold in each state of process and handler, so that nothing is left over when a request is
  sent to a worker that will read it. For the engines, `Quiet` is an engine with no worker, no request in
  hand that starts one and none in its backlog; `OneBusy` says that all but one are quiet,
  `UnloadedQuiet` that those the node had unloaded are. It rests on `Ordered` and `AskedLast`: an unload
  that the node waited for was the last request of its server, whatever was given up before.
  `OwnNotAsked` says that the request it waits for is in no queue of its own engine before it asks for the
  image, so that no late answer counts that engine among the unloaded.
  Theorems `FluxTypes`, `AnswersMatch`, `AtMostOneEngine`, for any engines and requests.

- `OffloadProofs` — `IInv` has nine parts. `Shape` are the types the others need. `Sched` says which requests
  can be in which list and in which phase what has been scheduled. `Counts` bounds tokens, so that a running request is never
  given tokens it does not have. `Closed` is `ClosedOnce` with what is known before the manager is told.
  `Linked` relates transfers to the rest: ids are unique (`Unique`), those of a request are in its status (`JobsFor`),
  a load is alone, and its request is loading or aborted and has stored nothing (`Loads`, `Received`), and the fences are those of
  the stores in flight (`FencesFor`). `Sized` says how long block tables are: those of what is computed, at most one block more while a request waits, so that
  what the forward pass writes is in its blocks (`Ahead`, `SizedFor`), and `Indexed` keeps `next_stored_chunk_idx` among
  them. `Pinned` is the bookkeeping of the host tier: the reader count of a key is the number of known loads that read it
  (`ReadersCounted`), only a present key has a slot and no two share one (`SlotsOwned`), a move of a known transfer
  names the slot of its key, readable exactly if the transfer is a load (`MovesNamed`), and no two stores in flight
  write the same key (`StoredOnce`). It rests on `LookupOffers`, that what a lookup answers are chunks that are
  present and readable, and is why eviction never takes a chunk that is being written or read. `Memory` are the types of
  what blocks and slots hold. Each action's lemma shows what it does to the few requests it names
  and that all other links stay as they are.
  On `IInv` rests a second inductive invariant, `Layout`: where blocks are, and what may come over them. Tables share no block
  (`Apart`) and are long enough, with a missing block only where no token to come attends (`Fitted`); they agree
  with the ids that the connector keeps (`TrackFit`). A transfer moves chunks of its own request, a load into the blocks of its
  request (`Moving`). `Placed` says where transfers are in each phase of a step: those from before a reset are to be
  flushed and run before newer ones, hence `ReadySafe`. `Undisturbed` is the point: each block of a store under
  way is still its request's (`Owned`), or fenced, or its request was just preempted, or the store is to be
  flushed (`Guarded`); and if it is in another table, it was put there in this very step (`Fresh`) and the store is flushed
  before the model runs (`Clear`). `Unspoiled` says the same of blocks whose chunks are still to be stored. The lemmas
  follow one transfer (`Moved`), one entry of a table (`EntryFrom`), one running request (`RunsOn`) and one chunk to be
  stored (`StoringFrom`) through a step. `ForwardSpares` is what comes of it when the model runs.
  The third, `Content`, says what blocks and slots hold. Whatever is readable (`HostGood`), stored (`StoreDone`), to be
  loaded or loaded (`LoadGood`) is the chunk it is taken for; what a store will read (`StoreGood`) or what is still to be
  stored (`TrackGood`) is there, or this very step computes it (`Pending`); and the blocks of a request hold what it counts as
  computed, as far as it still attends to it (`RunGood`), each but for the last position that LastToken is about
  (`InBlock`, `InSlot`). `Content` is inductive as long as `HostUnwritten` holds, the sentence of `gpu_worker.py` 673–674 for the
  loads from before a reset; for all others it follows from `Pinned` and `ReadySafe`. LateLoad is the execution in which it
  does not hold, so the condition cannot be dropped; TLC finds it true in all states of the run, among them those
  with such a load beside a store. Without resets there are no such loads (`AllKnown`).
  Theorems `ClosedOnceAlways`, `JobsTrackedAlways`,
  `FencesExactAlways`, `PinnedAlways`, `TypesAlways`, `ApartAlways`, `UndisturbedAlways`, `ReadySafeAlways`,
  `ForwardSparesAlways`, for any requests, prompts, blocks, slots and windows; `HostTruthAlways` and
  `GpuTruthAlways` under `HostUnwritten`, `TruthWithoutReset` for executions without `reset_prefix_cache`.

Only model-checked: the six liveness properties `GoodBundlePrepares`, `RecordedIsReported`,
`PublishedIsUsable`, `SeedNeverStops`, `NodeReturns` and `Served`, as fairness is beyond the prover. All
safety properties that the runs check are theorems, `HostTruth` and `GpuTruth` with the condition
`HostUnwritten`.

Next to prove is how far the condition can be narrowed: that a store which meets a load from before a reset
belongs to a request finished in the same step, as in LateLoad, and that two requests are too few for it.

## 6. Not modelled

Planned components are marked so in `PROJECT.json`. Resolution, catalogue and environment
checks are pure matching without state. Tensor programs, adapters, kernels and the other
vendored files of vLLM and torch are arithmetic or third-party code. Read-ahead and warm-up
helpers are detached and change nothing. Benchmarks and packaging tools are not part of
the running program. Of the modelled code, messages, paths, formats and permission bits
are left out; no property is about them.
