------------------------------ MODULE Deployment -------------------------------
(***************************************************************************)
(* The build and what it can be asked for: Selection's features and links  *)
(* decide which backends Runtime::new, and above it the OCR adapter, find  *)
(* compiled and registered.                                                *)
(***************************************************************************)
EXTENDS Selection

CONSTANT Inferences \* the configurations that reach the OCR adapter

\* What MNN's CMake files compile for a target.
Buildable(backend) == backend \in {"metal", "coreml"} => Apple

\* A backend is registered when its library is loaded or its static initialisers
\* are linked; CUDA's live in a library of their own on Linux.
Registered ==
  {"cpu"} \cup {b \in native.profile :
                /\ "MNN static" \notin links
                /\ Buildable(b)
                /\ b = "cuda" /\ target.os = "linux" => "MNN_Cuda_Main" \in links}

Library == INSTANCE Configuration WITH Compiled <- features \cap Backends

\* What the types of the adapter's InferenceConfig can hold.
ASSUME DeploymentAssumption == Inferences \subseteq Library!InferenceConfig

Built == phase = "linked" /\ native.kind # "external"

Usable == {"cpu"} \cup {b \in features \cap Backends : Buildable(b)}

\* A build that succeeds keeps what its features promise, however it got MNN and
\* however it links it: exactly the requested backends the target can have are
\* available at run time, and one that an archive brings unasked is reported as
\* not compiled instead of being used.
RequestedUsable ==
  Built => \A b \in Backends \cup {"cpu"} :
             Library!ValidateBackend(b) =
               CASE b \in Usable -> "ok"
                 [] b \in features \ Usable -> "BackendUnavailable"
                 [] OTHER -> "BackendNotCompiled"

\* No layer refuses what the layer above it let through, or the other way round:
\* the adapter and Runtime::new draw the same line for Vulkan's tunings, any
\* thread count up to 32 will do (0 and less mean 4), a backend is reported
\* missing exactly when is_available says so, and the bridge's range checks take
\* what the adapter made.
ConfigAccepted ==
  Built => \A i \in Inferences :
    /\ Library!AdapterRuntime(i) =
         IF i.threads > 32 \/ (i.backend = "vulkan" /\ i.tuning \in {"fast", "normal"})
         THEN "InvalidParameter"
         ELSE IF i.backend \in Usable THEN "ok" ELSE "BackendUnavailable"
    /\ Library!IsAvailable(i.backend) <=> i.backend \in Usable
    /\ Library!AdapterRuntime(i) = "ok" => Library!CreateAccepts(Library!Native(Library!AdapterConfig(i)))
=============================================================================
