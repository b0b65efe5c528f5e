---------------------------- MODULE Configuration ----------------------------
(***************************************************************************)
(* What becomes of a configuration on its way to MNN: a RuntimeConfig,     *)
(* checked by Runtime::new, converted by initialize_model into the Config  *)
(* of mnn-runtime-sys and by the bridge into MNN's schedule; the key of    *)
(* its kernel cache; and the InferenceConfig of the OCR adapter, which is  *)
(* converted into a RuntimeConfig.  Definitions only: KernelCache loads    *)
(* models with them, Deployment asks them what a finished build offers.    *)
(***************************************************************************)
EXTENDS Integers

CONSTANTS
  Compiled,   \* the backend features of Cargo.toml the build has on
  Registered  \* the backends the linked MNN library has registered

Backends == {"auto", "cpu", "metal", "coreml", "opencl", "opengl", "vulkan", "cuda"}
Precisions == {"normal", "high", "low", "low_bf16"}
Powers == {"low", "normal", "high"}
Memories == {"low", "normal", "high"}
Executions == {"serialized", "parallel"}
Tunings == {"auto", "none", "fast", "normal", "wide", "heavy"}
Storages == {"buffer", "image", "auto"}

\* RuntimeConfig; of the directory of the kernel cache only its presence counts.
RuntimeConfig ==
  [backend : Backends, threads : Nat, precision : Precisions, power : Powers,
   memory : Memories, execution : Executions, capacity : Nat, tuning : Tunings,
   storage : Storages, caching : BOOLEAN]

Default ==
  [backend |-> "cpu", threads |-> 4, precision |-> "normal", power |-> "normal",
   memory |-> "normal", execution |-> "serialized", capacity |-> 2, tuning |-> "auto",
   storage |-> "buffer", caching |-> FALSE]

\* A chain of with_* calls.
With(config, changes) ==
  [f \in DOMAIN config |-> IF f \in DOMAIN changes THEN changes[f] ELSE config[f]]

-----------------------------------------------------------------------------
(* Runtime::new                                                            *)

Rejected == -1

\* gpu_mode's tuning bits; Fast and Normal exist for OpenCL only.
TuningBits(config) ==
  IF config.backend = "opencl"
  THEN [auto |-> 16, none |-> 1, fast |-> 16, normal |-> 8, wide |-> 4, heavy |-> 2][config.tuning]
  ELSE [auto |-> 1, none |-> 1, fast |-> Rejected, normal |-> Rejected, wide |-> 4,
        heavy |-> 2][config.tuning]

\* Bug: the storage bits are given to every GPU backend.
StorageBitsAlways(config) == [buffer |-> 64, image |-> 128, auto |-> 0][config.storage]

StorageBits(config) ==
  IF config.backend = "opencl"
  THEN [buffer |-> 64, image |-> 128, auto |-> 0][config.storage] ELSE 0

GpuMode(config) ==
  IF config.backend \notin {"opencl", "vulkan"} THEN 0
  ELSE IF TuningBits(config) = Rejected THEN Rejected
  ELSE TuningBits(config) + StorageBits(config)

\* mnn_backend needs the Cargo feature, the bridge MNN's runtime creator.
ValidateBackend(backend) ==
  CASE backend \notin Compiled \cup {"auto", "cpu"} -> "BackendNotCompiled"
    [] backend \in Compiled \cup {"cpu"} /\ backend \notin Registered -> "BackendUnavailable"
    [] OTHER -> "ok"

RuntimeNew(config) ==
  IF config.threads \notin 1..32 \/ config.capacity = 0 \/ GpuMode(config) = Rejected
  THEN "InvalidConfig" ELSE ValidateBackend(config.backend)

-----------------------------------------------------------------------------
(* initialize_model and the bridge                                         *)

\* mnn_backend, mnn_precision, mnn_power, mnn_memory and gpu_mode.
Native(config) ==
  [backend |-> [cpu |-> 0, metal |-> 1, cuda |-> 2, opencl |-> 3, auto |-> 4, coreml |-> 5,
                opengl |-> 6, vulkan |-> 7][config.backend],
   threads |-> config.threads,
   precision |-> [normal |-> 0, high |-> 1, low |-> 2, low_bf16 |-> 3][config.precision],
   power |-> [normal |-> 0, high |-> 1, low |-> 2][config.power],
   memory |-> [normal |-> 0, high |-> 1, low |-> 2][config.memory],
   gpuMode |-> GpuMode(config)]

\* The range checks at the start of mnn_runtime_engine_create.
CreateAccepts(native) ==
  native.threads > 0 /\ native.precision \in 0..3 /\ native.power \in 0..2 /\ native.memory \in 0..2

\* Bug: CPU thread counts are lost to the GPU flags.
ScheduleModeAlways(native) == [type |-> native.backend, mode |-> native.gpuMode, threads |-> 0]

\* The two Vulkan and OpenCL types get mode flags, all others a thread count.
Schedule(native) ==
  IF native.backend \in {3, 7}
  THEN [type |-> native.backend, mode |-> native.gpuMode, threads |-> 0]
  ELSE [type |-> native.backend, mode |-> 0, threads |-> native.threads]

\* Bug: a cache outlives the MNN that wrote it.
CacheKeyUnversioned(bytes, version, config) ==
  <<bytes, config.backend, config.threads, config.precision, config.power, config.memory,
    GpuMode(config)>>

\* What cache_file hashes: a file name for each value.
CacheKey(bytes, version, config) ==
  <<bytes, version, config.backend, config.threads, config.precision, config.power,
    config.memory, GpuMode(config)>>

-----------------------------------------------------------------------------
(* The OCR adapter                                                         *)

InferenceConfig ==
  [threads : Int, precision : {"normal", "low", "high"}, backend : Backends \ {"auto"},
   storage : Storages, tuning : Tunings, caching : BOOLEAN]

\* GpuTuningMode::bits(true) of the adapter's gpu.rs: none for the OpenCL-only modes.
AdapterBits(tuning) ==
  [auto |-> 1, none |-> 1, fast |-> Rejected, normal |-> Rejected, wide |-> 4, heavy |-> 2][tuning]

Validate(inference) ==
  ~(inference.backend = "vulkan" /\ AdapterBits(inference.tuning) = Rejected)

\* Bug: zero threads do not mean the default.
AdapterConfigVerbatim(inference) == With(Default, inference)

AdapterConfig(inference) ==
  With(Default, [inference EXCEPT !.threads = IF @ <= 0 THEN 4 ELSE @])

ConvertError(error) ==
  CASE error \in {"BackendNotCompiled", "BackendUnavailable"} -> "BackendUnavailable"
    [] error = "InvalidConfig" -> "InvalidParameter"
    [] OTHER -> error

\* InferenceConfig::runtime
AdapterRuntime(inference) ==
  IF Validate(inference) THEN ConvertError(RuntimeNew(AdapterConfig(inference)))
  ELSE "InvalidParameter"

\* Backend::is_available
IsAvailable(backend) == RuntimeNew(With(Default, [backend |-> backend])) = "ok"

ASSUME ConfigurationAssumption ==
  /\ Compiled \subseteq Backends \ {"auto", "cpu"}
  /\ Registered \subseteq Backends \ {"auto"}
=============================================================================
