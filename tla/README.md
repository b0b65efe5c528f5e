# Verification of mnn-runtime

TLA+ models of the two crates of this repository, `mnn-runtime` (the safe
application API) and `mnn-runtime-sys` (the C++ bridge, its bindings and the
build script that obtains MNN), with TLC configurations that check them on small
instances and TLAPS proofs that hold for every instance. Paths below are
relative to the repository; `model.rs` and the other Rust sources without a
directory are in `crates/mnn-runtime/src/`, `bridge` is
`crates/mnn-runtime-sys/cpp/mnn_runtime_bridge.cpp`.

## 1. The system

| Component | State it keeps | Operations | Hard because |
| --- | --- | --- | --- |
| Model and its worker (`model.rs`) | the handle, a worker thread, a bounded command channel, the engine, one reply channel per call | load, `run*`, `try_submit*`, `save_cache`, `PendingRun::{wait, wait_timeout, cancel}`, drop | callers, worker and drop interleave; a panic anywhere inside MNN; bounded queue |
| Execution gate (`lib.rs` of sys, `with_gate`) | one process-wide `Mutex<()>` with its poison flag | lock, unlock, poison | shared by all models and by anybody who uses the sys crate; recovered for cleanup only |
| Native engine (`bridge`) | `ready`, `has_output`, `input_written`, staging tensors of inputs and outputs, `effective_threads`, MNN's session | create, resize, write, run, read, save, destroy | every call out may fail or throw halfway and leaves the session to the next request |
| Inference transaction (`run_model`) | the request, how far it got | resize, write each input, run, inspect and read outputs | the first error ends it; the session stays |
| Validation (`tensor.rs`, `validate_inputs`) | load-time metadata | `Tensor::new`, validation, output selection | two languages check the same limits with different arithmetic |
| Acquiring MNN (`build.rs`) | a cache directory several builds may share; OUT_DIR | download, verify, install, unpack, stamp | builds run concurrently and are killed at any time |
| Artifact selection (`prebuilt.rs`, `build_support.rs`, `main` and `link_mnn` of `build.rs`) | a static table | refuse, select, fall back, link | pure, but the choice and the link directives are written apart and must agree |
| Runtime and configuration (`runtime.rs`, `config.rs`, the tables of `model.rs`) | an immutable configuration | `Runtime::new`, builders, `gpu_mode`, `cache_file`'s key, conversion for the bridge | pure, but four layers convert it one after the other and each has its own checks |
| GPU kernel cache (`cache_file`, bridge 172-181 and 368-391) | a file per model bytes, configuration and MNN version | load at creation, save on request and at shutdown | models and later processes share it; MNN reports nothing when it cannot write; processes are killed |
| Thread budget (`initialize_model`, 576-584; bridge 201-205) | MNN's own pool | `ThreadCountLimited` | depends on the order of loads and on where MNN really puts a session |
| OCR adapter (`validation/ocr-rs/adapter.rs`) | the model, its shapes as unsigned numbers | `from_*`, `run`, `run_dynamic`, `run_raw`, `is_available` | a second configuration with its own rules; casts |

How they interact. An application thread validates its request, then sends a
command through the model's bounded channel: `run*` and `save_cache` block for
room and then for the reply, `try_submit*` returns a `PendingRun`, `QueueFull`
or `WorkerStopped` at once. The worker takes one command at a time, checks that
the request is still wanted, takes the gate (if its runtime is Serialized),
checks again, and runs the whole native transaction under it. Replies come back
on a channel per call. Cancellation is a flag shared with the queued command.
The last `Model` sends `Shutdown` through the same channel and joins the thread.
A panic unwinds the worker: the guard of the gate is dropped and poisons it,
then the request, the engine, and last the channel with all queued commands.

What makes each part correct:

* worker: every accepted call gets exactly one truthful outcome, in submission
  order; withdrawn calls never enter MNN; admission is bounded; nobody waits for
  ever; closing drains what was accepted and reclaims the thread;
* gate: native transactions exclude each other and stop after a panic;
* engine and transaction: outputs always belong to the inputs and shapes of the
  request that reads them, whatever failed before; failures do not linger;
* validation: what Rust accepts the bridge accepts, with the same element count;
* acquisition: only verified archives are unpacked, only whole trees are used,
  concurrent builds do not disturb each other;
* selection: the archive the documentation promises, linked so that every backend
  asked for, and no other, is usable;
* kernel cache: kernels run only for the bytes, configuration and MNN they were
  tuned for; a save loses nothing of earlier processes and says truly whether it
  was done;
* thread budget: a model on the CPU has the threads it was configured with, or
  is refused;
* configuration: no layer refuses what the one above it let through.

## 2. Modules

| Module | What it models | Used by |
| --- | --- | --- |
| `ModelWorker` | worker, channel, gate, callers, loading and closing | runs Gate, Service, Destruction |
| `ModelService` | abstract: one line of calls per model | refined by `ModelWorker` (run Service) |
| `ModelWorkerMC` | constants of the instances | |
| `ModelWorker_proofs` | TLAPS proofs about `ModelWorker`: types and gate; calls and the life of a model; waiting | |
| `ModelService_proofs` | TLAPS proof that `ModelWorker` implements `ModelService` | |
| `Engine` | the bridge's guards around MNN's session, its staging tensors | run Engine |
| `Inference` | `run_model` on top of `Engine`, request after request | run Inference |
| `Engine_proofs`, `Inference_proofs` | TLAPS proofs about `Engine`, and about `Inference` on top of it | |
| `Validation` | the checks in Rust and in C++ | composed into `Adapter` |
| `Adapter` | the OCR adapter as one more client of a model, on top of `Validation` | run Validation |
| `Adapter_proofs` | TLAPS proofs about `Validation` and `Adapter` | |
| `Configuration` | what each layer makes of a configuration (definitions only) | `KernelCache`, `Deployment` |
| `KernelCache` | cache files, thread pool and loading, over two processes | run KernelCache |
| `KernelCache_proofs` | TLAPS proofs about `KernelCache` and `Configuration`: files and gate, flags, saves and threads | |
| `Selection` | refused features, choice of an archive, link directives | composed into `Deployment` |
| `Deployment` | which backends a finished build has compiled and registered: `Selection` with an instance of `Configuration` | run Selection |
| `Deployment_proofs` | TLAPS proofs about `Selection`, `Deployment` and `Configuration` | |
| `BuildCache` | download cache, trees and stamps of the build script | runs Cache, ColdCache, SourceTree, Releases |
| `BuildCache_proofs` | TLAPS proofs about `BuildCache` | |
| `InferenceMC`, `ValidationMC`, `KernelCacheMC`, `SelectionMC`, `BuildCacheMC` | constants of the instances | |

`PROJECT.json` maps every definition to its source lines. Definitions whose
comment begins with "Bug:" are deliberate mistakes: each replaces the definition
that follows it to show that some property notices.

### ModelWorker

State: `model[m]` is the life of a `Model` (its clones count as one until the
last is dropped); `worker[m]` the place of the thread in `worker_main`;
`engine[m]` whether the native engine exists; `queue[m]` the channel;
`active[m]` and `verdict[m]` the command being served and its result once known;
`gate`, `poisoned`, `user[u]` the mutex, its poison flag and its other holders;
`caller[c]`, `cancelled[r]`, `expired[r]`, `reply[c]`, `result[c]` a call, its
`AtomicBool`, its deadline, its reply channel and what it returned. `entered` is
a history variable: the calls whose native transaction has begun.

Each shared effect of the code is one action, so the worker can be overtaken
between any two: `Recv`, `FirstCheck`, `Lock`/`LockPoisoned`, `Recheck`,
`EnterNative`, `FinishNative`/`PanicNative`, `Reply`. `Recheck` and
`EnterNative` are two actions because a cancellation can still arrive between
`check_live` (524) and the first native call; `WithdrawnNeverRuns` therefore
speaks of requests withdrawn before the check under the gate.

Assumptions made visible: a call is one invocation, made once; `DropLast` waits
until no thread is inside a call that borrows the `Model`, as Rust's borrows do,
but `PendingRun`s may outlive it; panics happen in creation and inference of
`Faulty` models only (saving and destroying are taken not to panic); deadlines
may pass at any moment before the reply; a gate user that calls into a model
while holding the gate would wait for itself and is not modelled. The branch of
`worker_main` for a vanished loader (511-517) cannot be reached, because
`Model::spawn` waits for the message. `recv` never fails, because the sender is
dropped after the join. Any thread that has called `wait` may find the reply
there already when its timeout expires; `Timeout` needs an empty channel as
`recv_timeout` does.

### ModelService

The promise to callers: a line of accepted calls for each model, decided from
the front, each once; skipped only when withdrawn; `Close` puts a marker behind
everything accepted; a worker that dies abandons what it still owes. The
refinement mapping of `ModelWorker` puts the active, undecided call back at the
head of the line. Gate, capacity and waiting are invisible.

### Engine and Inference

`Engine` keeps the bridge's own fields (`ready`, `has_output`, `input_written`,
the staging tensors) and enough of MNN's session to judge them: the shapes of
the input tensors, the shapes the buffers were allocated for, the contents of
the inputs, and what the outputs were computed from. Shapes are tokens; a
failing resize may have changed any prefix of the inputs. Any sequence of
operations of the safe `Engine` type is allowed. `hollow` is a staging tensor
that exists without memory: `prepare_host` (117-124) keeps it and finds the
right shape, so writes of that shape go on failing until the input changes
shape. Reads stage their output in `output_hosts` the same way (`outputHost`,
`outputHollow`). Both are modelled as the code has them. `NameUnknown` is the
lookup by name that `write_input` and `read_output` do before the call by index.

The dimensions of the outputs are MNN's and may depend on the data, so a run
chooses their `extent`: they fit, one is zero or unresolved, or one is beyond the
limits of `valid_shape`. One output stands for all that a request selects; what a
request reads before it meets an output it cannot return is left out. `since` is
a history variable: the inputs written since the last resize that got past its
checks. No guard reads it; `RunsAfresh` compares the code's own flags with it.

`Inference` is `run_model`: the same actions in its order, for one request after
another, and the early returns. `Continue` is the `?` after `resize_inputs`,
`write_input_index` and `run`; `InspectOutputs` has those between the inference
and the reads (model.rs:673-692), where nothing failed in MNN but
`TensorInfo::checked` or `concrete_shape` finds an output without a shape that
can be returned; `ReadOutputs` has the `?` of `read_output_index`. The remaining
ones cannot be taken: the dimensions of an accepted tensor fit an `i32`
(640-658), and `resize_output`, `element_count` and `Tensor::new` check once more
what the metadata has just passed. `faulted` and `rejected` are history variables,
the requests with a failure of their own in MNN and the outputs that requests were
refused for. Inputs are written in the order the caller listed them, at the slots
their names resolve to.

Not modelled here: error strings, and `save_cache` and the choice of a backend,
which are in `KernelCache`.

### Validation and Adapter

Element counts are computed as the code does: `checked_mul` and one comparison
in Rust, a recomputed quotient in `valid_shape`, a third product in
`logical_elements`. The limits are scaled down: 6 for `i32::MAX / 4 / 4`, 31 for
`usize::MAX`, rank 2 for 8. What may fail inside MNN is left to `Engine`.

`Adapter` adds the OCR adapter's calls in front of `Tensor::new`: it keeps the
declared shape as `usize`, so an unresolved -1 becomes the largest word, and
`run_raw` asks for exactly that shape. Calls of other clients of the same model
come in between.

### Configuration

One operator per conversion, in the order a configuration meets them:
`AdapterConfig`, `RuntimeNew` with `GpuMode` and `ValidateBackend`, `Native`,
`CreateAccepts` and `Schedule`, and `CacheKey` on the side. A key is the tuple of
what `cache_file` hashes: two keys differ exactly when the tuples do.
`GpuTuningMode::bits` of the adapter is in a file that the repository does not
contain; `AdapterBits` is the external table its use and its error message imply.

### KernelCache

State: the phase of each model from load to close, the gate, the pool's size,
where its session runs and what it reports as `effective_threads`, the kernels
it holds, and each cache file with what is in it and whether it is whole. A
process may be killed anywhere (`Restart`) and the next may be linked with
another MNN. `Obstruct` makes a file unwritable at any time, as the test of
`save_cache` does by putting a directory in its place. The actions follow
`initialize_model`, `mnn_runtime_engine_create`, `mnn_runtime_save_cache` and the
end of `worker_main`; `BeginWrite` and `EndWrite` are two, because Parallel
models and crashes come between.

External, from how the code uses MNN and what its comments say: `setCacheFile`
reads the file, one that is not whole yields no kernels; `updateCacheFile`
truncates and rewrites it with all the session holds and does not report a file
it cannot open (bridge 372); the first CPU session with several threads sizes
the pool; a GPU backend that cannot be created is replaced by the CPU
(`backupType`), which then reads the GPU flags as a number of threads between
one and four. Two sessions writing one file at once leave the kernels of either
or nothing usable. `held`, `since` and `doomed` serve the properties: what a
session has, what others left in the file since it read it, and which saves found the
file obstructed from their start. A kernel is named by what it was compiled
for (bytes, MNN, native configuration) and the requests it serves.

### Selection

The build script is a function of target, features and environment, followed
step by step: refused combinations, external installation, archive or source
build, link directives. `ARTIFACTS` keeps the order of the table and
`Candidates` are positions in it, because `min_by_key` takes the first of several
smallest. `ProfileAsDocumented` compares the choice with the table and the rules
of the repository's README, translated separately. `LinksComplete` is about two functions that know nothing of each
other: `link_mnn` adds Core ML and CUDA libraries for the *feature* only, and
that suffices because `select_prebuilt` never picks an archive with those
backends unless they were asked for (the table lists the wider archives first,
so taking the first that fits would already break it).

`Deployment` asks what `Runtime::new` and the adapter will say of the result:
`Configuration` is instantiated with the features as what was compiled and with
what the linked library registers. GPU backends register themselves in static
initialisers, which only a whole archive, a shared library or, for CUDA on
Linux, the companion library brings along. `Buildable` is external: MNN's CMake
files build Metal and Core ML on Apple systems only. External installations are
left out of its properties, since their backends are whatever they are.

### BuildCache

One action per effect on the disk: the two tests of the destination, its
removal, the download into a file of the process (private until its rename, so
one action), the rename, the second opening for unpacking, each piece unpacked
or removed, the stamp. `Killed` is a crash or a failed write at any point; the
next build starts in the same OUT_DIR. A tree is two pieces: the file whose
presence the code tests, and the rest. A rename over a file that another process
reads may fail (Windows) or succeed.

## 3. Runs

| Run | Instance | Properties | Distinct states |
| --- | --- | --- | --- |
| Gate | two serialized models, one may panic, one gate user, a blocking run on the second model and a timed try_submit on the first, queue of 1, fair | `TypeOK`, `GateExclusion`, `PoisonStopsInference`, `UnwindIsolated`, `ClosedReclaimed`, `NobodyWaitsInVain`, `CloseCompletes`, `WithdrawnNeverRuns` | 173k |
| Service | one serialized model that may panic, a gate user that may poison the gate, a blocking run, a timed try_submit and a save, queue of 2, fair | `NoLostCall`, `StoppedMeansPanic`, `OutcomeHonest`, `ShutdownDrains`, refinement of `ModelService`, `CallsReturn`, `AcceptedSettled` | 146k |
| Destruction | as Gate | violation of `DestructionUnderGate` | |
| Engine | two inputs, two shapes, two contents, all operations in any order | `TypeOK`, `ReadyAllocated`, `OutputCurrent`, `WrittenSinceResize`, `RunsAfresh` | 493k |
| Inference | three requests on a two-input model, with equal and different shapes and the inputs listed in either order | `OwnOutputs`, `HealthyRunsSucceed` | 8k |
| Validation | five models, all calls of one input up to rank 3 over seven dimensions, 864 calls of two inputs, the adapter's three calls with slices of up to four lengths, any number of calls in a row | `LayersAgree`, `NeverRejected`, `DeclaredDimensions`, `SliceFitsShape` | 129k |
| Cache | two builders sharing a file, one building from source, any content at first | `UnpacksVerified`, `PrebuiltComplete`, `ArchiveNeverSpoiled` | 233k |
| Selection | 17 targets, every linkage, threading policy and CRT, up to three backends | `ProfileAsDocumented`, `LinksComplete`, `RequestedUsable`, `ConfigAccepted` | 524k |
| KernelCache | two models in eight pairings: one cache file or two, serialized or parallel, thread counts in both orders, GPU sessions that may end on the CPU; one restart, one obstructed file, two versions of MNN | `TypeOK`, `OwnKernels`, `NothingForgotten`, `CacheExclusion`, `GpuModeDocumented`, `SaveReported`, `ThreadBudget` | 385k |
| ColdCache | two builders, empty shared cache | violation of `SharingHarmless` | |
| SourceTree | one builder, source | violation of `SourceComplete` | |
| Releases | one builder that switches between two release tags | violation of `PrebuiltComplete` | |

Why these bounds are enough. With a queue of one, a call can be active, one
queued and a third refused or asleep in `send`; two is the default capacity and
the smallest with an order in the channel. A Parallel model has no run of its
own: what its worker does is what a serialized one does that always finds the
gate free, which run Service contains, and the theorems hold for any set of
serialized models; KernelCache has parallel models of its own, since there they
meet in a file. Two serialized models and one gate user give every pair of gate
holders, with a third waiting. One faulty and one healthy model show that a
panic in one reaches the other only through the poison. Two inputs give a first
input changed and a second not; three requests give a failure between two
requests of the same shapes. The dimensions of Validation include zero, the
limit, one more than it, and a product that wraps around to a small number. No
archive has more than three backends, so a request for more only falls back. Two
builders are the smallest race on a file; the code has no step that involves
three. Where the number of calls, models or builders might matter, the theorems
below do not bound it. In KernelCache, two models are every pair of users of a
file or of the pool, and the theorems cover any number; `MaxRestarts` is 1,
since a process knows of the earlier ones only what the files hold;
`MaxObstructed` is 1 because no property relates two files. The versions of MNN
are only compared, so they are symmetric.

Deadlock is checked in every run. `Terminated` in `ModelWorker`, `Finished`
in `Selection` and `KernelCache` and the last disjuncts of `Engine` and
`Inference` are the stuttering of a program that has finished; any other state
without a successor is an error.

Fairness (runs Gate and Service). Each worker is scheduled; a thread inside
`send`, `recv`, `join` or the start of a load goes on when it can; a holder of
the gate releases it. The number of calls and gate users is finite, so a waiting
thread is not overtaken for ever and weak fairness suffices; with an endless
supply of competitors the code would need a fair mutex, which std does not
promise. Making calls, waiting on a `PendingRun`, cancelling and dropping are the
application's choice and have no fairness.

## 4. Disagreements found

* **Destruction**: a panic in `run_model` destroys the engine after the guard of
  the gate has been dropped, while ARCHITECTURE.md:40 has creation, inference
  and destruction all participate in it. `UnwindIsolated` (proved) bounds the
  effect: the poison keeps every other serialized inference out.
* **ColdCache**: `ensure_download` tests `is_file` and `exists` one after the
  other and removes what the second finds; a second builder may have installed
  the verified archive in between, and then fails to open it.
* **SourceTree**: an interrupted unpacking of MNN's source is taken for the
  source for ever after, because only `CMakeLists.txt` is looked for.
* **Releases**: after a change of `MNN_PREBUILT_TAG` the old tree is removed by
  `remove_dir_all` (build.rs:171), its stamp among its other entries. A build
  killed there may leave the old stamp and header beside part of the old tree,
  and a build back under the old tag takes it for whole. `PrebuiltWhole` (proved)
  shows that there is no other way to go on with part of a prebuilt; removing the
  stamp first would close this one.

## 5. Proofs

`ModelWorker_proofs`, for any models, calls, gate users and capacity:

* `TypeCorrectness`: `TypeOK`, together with `PhaseOK`, which ties the worker's
  place to its active call and verdict; without it the actions that use
  `active[m]` as a call could not be typed.
* `GateSafety`, `PoisonSafety` and `UnwindSafety`: `GateExclusion`,
  `PoisonStopsInference` and `UnwindIsolated`. They are proved as one inductive
  invariant because each step of one needs another: the gate's holder is exactly
  the worker in a gated phase, so a panic that poisons the gate leaves no other
  worker inside, and a worker that unwinds implies the poison.

The second part, about calls and the life of a model, has an inductive invariant
in six parts, each checked by TLC before it was proved. `LifecycleInv` says which
stages of the thread go with which state of the `Model`; `QueueInv` that
`Shutdown` is last and that nothing is queued where nobody will receive;
`PlaceInv` that an open reply and a place in the queue or at the worker imply each
other; `EnteredInv` which calls MNN has seen, for every place a call can be;
`WithdrawInv` that only handles withdraw; `ShutdownPending` that a worker that
still serves while its `Model` is joined has `Shutdown` in its queue.

* `ModelReclaimed`: `ClosedReclaimed`, from `LifecycleInv` and the gate's invariant.
* `CallsNeverLost`: `NoLostCall`. Its cardinality is 0 or 1 because no call is
  queued twice (`Distinct`), which holds because a call is sent once and its
  reply is open from then on.
* `ShutdownComplete`: `ShutdownDrains`. `Shutdown` is behind every accepted call
  only because the last `Model` is dropped when nobody is inside `send`; that is
  the part of `QueueInv` about callers.
* `StoppedHonest`: `StoppedMeansPanic`. A send that fails needs a dead worker, and
  a worker that leaves in order has answered everybody.
* `OutcomesHonest`: `OutcomeHonest`, from `EnteredInv`.
* `WithdrawnSkipped`: `WithdrawnNeverRuns`, of the form "once withdrawn before the
  check, never entered": `Withdrawn`, not entered and not past the check is
  itself kept by every step, given `WithdrawInv` and `EnteredInv`.
* `NoCircularWait`: `NobodyWaitsInVain`, the part of "nobody waits for ever" that
  is a safety property. Senders, waiting callers, loads and joins wait for one
  worker each (`AnswerComes`, `ShutdownPending`, and a full queue is never empty
  because its capacity is positive); a worker waits for the gate only, and whoever
  holds the gate needs nobody to let go of it (`GateComesBack`). What is left to
  the runs is that threads which can move do, which is their fairness.

`ModelService_proofs`:

* `WorkerServes`: `ServiceImplemented`, the refinement of `ModelService`. One step
  lemma for each action of `ModelWorker` says which action of `ModelService` it
  is under the mapping, or that it is invisible. The delicate ones are those that
  move a call: receiving leaves the line as it is because the active call is put
  back at its head; a verdict removes it; a panic empties a line that is longer
  than the queue by the active call. `ServiceInv` is what they need of the state
  they start from.

`BuildCache_proofs`, for any builders, files and artifacts:

* `CacheTypes` is `TypeOK`, which is left to the proof and not checked by a run.
* `CacheVerified` and `CacheNeverSpoiled` rest on `Verified`: once
  a builder has opened the pinned archive, its file holds the pinned archive or
  is gone. That has to be claimed from the opening of the file on, since others
  may replace it while its digest is computed.
* `PrebuiltWhole`: `Spec /\ [][WipesFinish]_vars => []PrebuiltComplete`, for any
  releases in an OUT_DIR and any other kills. `WipesFinish` excludes one step, an
  interruption of `remove_dir_all` while it removes the tree of another release
  whose stamp is still there; run Releases shows that it has to be excluded, and
  in an OUT_DIR that sees one release it excludes nothing. `StampVouches` is the
  inductive part: a stamp belongs to a whole tree except while that tree is
  removed for another release, and there is none while a tree is unpacked.

`Engine_proofs`, for any inputs, shapes and contents:

* `EngineTypes`, `EngineAllocated`, `EngineOutputs`, `EngineInputs`, `EngineAfresh`:
  the five invariants of the run Engine. Their conjunction, with `Blank` for an engine not
  yet created and `Recorded` (the flags `input_written` agree with the history of
  writes), is inductive and none of them is alone: a run records the shapes
  of the buffers, which are those of the tensors because the session is ready; a
  failed write may leave its input counted as written because a staging tensor
  that was sound cannot fail to be prepared (`StagingFailure`).

`Inference_proofs`, for any number of requests:

* `AnswersOwned` and `HealthyServed`: `OwnOutputs` and `HealthyRunsSucceed`.
  `Progress` says what the session has become for the request being served after
  the resize, after some of the writes, after all, after the run, and once the
  outputs were found to have shapes; the bridge therefore accepts every call
  (`WriteServed`, `RunServed`, `ReadServed`), and only MNN can fail, or give the
  request's own inputs an output without a shape (`InspectServed`). That every input is written, in whatever order they were
  listed, is where `OrderOf` must be a bijection.
* `WorkerUsesEngine`: `InferenceSpec => Spec`, so that the theorems about
  `Engine` hold of the worker.

`KernelCache_proofs`, for any models, configurations, versions of MNN, files and
number of processes:

* `KernelCacheTypes`, `CachesApart` and `KernelsOwned`: `TypeOK`,
  `CacheExclusion` and `OwnKernels`. `KeysIdentify` shows that equal keys mean
  equal bytes, version and native configuration, although the key hashes the
  RuntimeConfig and the kernels depend on what MNN was given; the invariant is
  that a file holds only kernels of the one identity of its key (`KernelsFit`).
* `FlagsDocumented`: `GpuModeDocumented`, from `AcceptedDocumented`, which is about
  every configuration `Runtime::new` accepts.
* `CacheKept`: `NothingForgotten`, from `Memory`, which follows a model from the
  reading of its file to the write, through what other writers leave half done.
* `SavesReported`: `SaveReported`, from `Saving`: a save that found its file
  obstructed never gets past the probe, and a file of serialized models is
  written by one at a time, so that it is whole afterwards.
* `ThreadsHonoured`: `ThreadBudget`, from `Budget`: the pool, once there, keeps
  its size, and is never of size one.

`Adapter_proofs`, for any limits, models and calls:

* `LayersCountAlike`, `AcceptedServed`, `DimensionsKept`: `LayersAgree`,
  `NeverRejected` and `DeclaredDimensions`; `SlicesFit`: `SliceFitsShape`.
  The element counts are folds that stop early in different ways: Rust multiplies
  with `checked_mul` and compares once, `valid_shape` recomputes a quotient at
  each dimension, `logical_elements` multiplies a third time. `FoldExists` and
  `FoldPrefixes` turn any fold into the sequence of its values on the prefixes, and
  `CheckedCount`, `ValidCount`, `LogicalCount` and `TrueCount` describe the four
  sequences by the true product of a prefix. These inductions are carried out by
  a least counterexample (`LeastOf`, `CountUp`), since the induction theorems of
  the library cannot be instantiated. `CountsAgree` then puts them together, and
  `Quotients` is the arithmetic under the quotient test.
* `AdapterInv` (checked by TLC on the run Validation) is the inductive invariant:
  the session has the ranks of the model's inputs after any requests (`DeviceInv`),
  a request under way is one that was checked (`RequestInv`), and one of the
  adapter still has the shape and length that were compared (`AskedInv`). That
  every input of the model is served by some input of the request although only
  names and numbers are compared is a pigeonhole argument (`SlotsMatched`).

`Deployment_proofs`, for every target, set of features and environment, and every
configuration of the adapter:

* `ProfilesHonoured`: `ProfileAsDocumented`. `TableProfiles` reads off what rows the
  table has for each target suffix and `ProfilesDocumented` that these are the
  README's; `SmallestFits` that the first of the smallest candidates is as small
  as any that fits, and `SizesTellApart` that no two archives of a platform have
  equally many backends, so that the smallest is unique. OpenMP is excluded only
  because `main` refuses it together with the thread pool that the archives
  require, which is why the invariant `BuildInv` keeps that a build under way is
  not `Contradictory`.
* `LinksSuffice`: `LinksComplete`. `Unasked` is its core: an archive chosen for a
  request brings Core ML or CUDA only if the request has them.
* `BackendsServed` and `LayersAccept`: `RequestedUsable` and `ConfigAccepted`. What
  is registered of the requested backends is what the target can have
  (`RegisteredRequested`), and what adapter, `Runtime::new` and bridge say of a
  configuration then follows layer by layer (`AdapterKeeps`, `ModesRefused`,
  `RuntimeAnswers`, `AdapterAnswers`, `BridgeAccepts`).

The assumptions of the theorems are the named ASSUMEs of the modules:
`ModelWorkerAssumption` (disjoint roles, a positive queue capacity, enforced by
`Runtime::new`), `BuildCacheAssumption` (one file per artifact),
`EngineAssumption`, `InferenceAssumption` (requests name every input once, checked
by `validate_inputs`), `KernelCacheAssumption` (configurations that `Runtime::new`
accepts), `ConfigurationAssumption` (what is compiled and registered are
backends), `ValidationAssumption` (positive limits that fit a word),
`TensorsAssumption` (a model's inputs have distinct names, because `tensor_list`
reads them from a map by name; declared dimensions are integers and requested
ones unsigned), `DeploymentAssumption` (a configuration is one the adapter's types
can hold) and `AdapterAssumption` (a negative dimension cast to `usize` is
larger than any element count that passes the limit; true of an `i32` on 32 and
on 64 bits).

Only model-checked: liveness (`CloseCompletes`, `CallsReturn`, `AcceptedSettled`),
since fairness and `ENABLED` are beyond TLAPS's backends, and the four runs that
end in a violation. Every other property of the passing runs is a theorem.

## 6. Plan

1. (done) `ModelWorker`, `ModelService`, gate theorems.
2. (done) `Engine` and `Inference`; `Validation`; `BuildCache` with its theorems;
   `Selection`.
3. (done) `Configuration` and `KernelCache`; `Deployment` on top of `Selection`;
   `Adapter` on top of `Validation`; output staging in `Engine`.
4. (done) Proofs about `Engine`, `Inference` and `KernelCache`.
5. (done) Proofs about `ModelWorker`: the life of a model, its calls, and the step
   simulation of `ModelService`; proofs about `Validation` and `Adapter`.
6. (done) Proofs about `Selection` and `Deployment`; absence of circular waiting.
7. (done) Outputs without a returnable shape in `Engine` and `Inference`; inputs
   written since the last resize; two releases in one OUT_DIR.

## 7. Not modelled

Error texts and timings; the contents of tensors beyond who wrote them;
`Tensor`'s accessors and `resize_output`, which repeat the checks of
`Validation`; CMake and cc, another checksum for the same release tag, the C++ runtime
and OpenMP libraries; the conversion of results to arrays in the OCR adapter and
its `gpu.rs`, which is not in the repository; the examples, test fixtures and
release scripts, which are clients of the crates; MNN itself, except for the outcomes the bridge
distinguishes and the rules listed under `KernelCache`.
