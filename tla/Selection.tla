------------------------------- MODULE Selection -------------------------------
(***************************************************************************)
(* What the build script of mnn-runtime-sys makes of a target and a set of *)
(* Cargo features: the combinations it refuses, the published archive it   *)
(* selects or the source build it falls back to, and the libraries it asks *)
(* the linker for.  Downloading and unpacking are in BuildCache.           *)
(*                                                                         *)
(* A target is [os, arch, env, abi]; abi is what the end of the triple     *)
(* says of Apple's ABIs.  Features are the names of Cargo.toml.  Library   *)
(* names stand for the group of link directives that belong to a backend.  *)
(* The directives of the C++ runtimes and of OpenMP, search paths, the     *)
(* test for the CUDA companion file, what CMake and the NDK may refuse and *)
(* the early return for docs.rs are left out.                              *)
(***************************************************************************)
EXTENDS Naturals, FiniteSets, Sequences

CONSTANTS
  Targets,     \* the targets built for
  FeatureSets, \* the features that may be on, as Cargo unified them
  Environments \* [external, require, crt, toolkit]: the rest of the surroundings

\* external: neither, one or both of the directory variables are set;
\* require: MNN_REQUIRE_PREBUILT; crt: the static CRT; toolkit: a CUDA 12.
ASSUME SelectionAssumption ==
  /\ \A f \in FeatureSets : "coreml" \in f => "metal" \in f
  /\ \A e \in Environments : /\ e.external \in {"none", "half", "both"}
                             /\ {e.require, e.crt, e.toolkit} \subseteq BOOLEAN

VARIABLES
  target, features, environment,
  phase,  \* started, screened, acquired, linked or refused
  native, \* the MNN to link: [kind, profile]
  links   \* what the linker is asked for

vars == <<target, features, environment, phase, native, links>>

-----------------------------------------------------------------------------
(* build_support.rs and prebuilt.rs                                        *)

None == "none"

TargetSuffix(t) ==
  CASE t.os = "linux" /\ t.env = "gnu" /\ t.arch = "x86_64" -> "linux-x86_64"
    [] t.os = "linux" /\ t.env = "gnu" /\ t.arch = "aarch64" -> "linux-aarch64"
    [] t.os = "windows" /\ t.env = "msvc" /\ t.arch = "x86_64" -> "windows-x86_64"
    [] t.os = "windows" /\ t.env = "msvc" /\ t.arch = "x86" -> "windows-i686"
    [] t.os = "windows" /\ t.env = "msvc" /\ t.arch = "aarch64" -> "windows-aarch64"
    [] t.os = "macos" /\ t.arch \in {"aarch64", "x86_64"} -> "macos-universal"
    [] t.os = "ios" /\ t.abi = "sim" /\ t.arch = "aarch64" -> "ios-arm64-sim"
    [] t.os = "ios" /\ t.abi \notin {"macabi", "sim"} /\ t.arch = "aarch64" -> "ios-arm64"
    [] t.os = "android" /\ t.arch = "aarch64" -> "android-arm64-v8a"
    [] t.os = "android" /\ t.arch = "arm" -> "android-armeabi-v7a"
    [] OTHER -> None

Backends == {"metal", "coreml", "opencl", "opengl", "vulkan", "cuda"}

\* Every archive has the CPU backend, which is never asked for by a feature.
Profile(base, backends) == [base |-> base, backends |-> backends]

ARTIFACTS == <<
  Profile("android-arm64-v8a", {"vulkan", "opencl", "opengl"}),
  Profile("android-arm64-v8a", {}),
  Profile("android-armeabi-v7a", {"vulkan", "opencl", "opengl"}),
  Profile("android-armeabi-v7a", {}),
  Profile("ios-arm64", {"metal", "coreml"}),
  Profile("ios-arm64-sim", {"metal", "coreml"}),
  Profile("ios-arm64-sim", {"metal"}),
  Profile("ios-arm64", {"metal"}),
  Profile("linux-aarch64", {"vulkan", "opencl"}),
  Profile("linux-aarch64", {}),
  Profile("linux-x86_64", {"cuda"}),
  Profile("linux-x86_64", {"vulkan", "opencl"}),
  Profile("linux-x86_64", {}),
  Profile("macos-universal", {"metal", "coreml"}),
  Profile("macos-universal", {"metal"}),
  Profile("windows-aarch64", {"vulkan", "opencl"}),
  Profile("windows-aarch64", {}),
  Profile("windows-i686", {"vulkan", "opencl"}),
  Profile("windows-i686", {}),
  Profile("windows-x86_64", {"cuda"}),
  Profile("windows-x86_64", {"vulkan", "opencl"}),
  Profile("windows-x86_64", {}) >>

Compatible(artifact) ==
  /\ artifact.base = TargetSuffix(target)
  /\ features \cap Backends \subseteq artifact.backends

\* Threading policy, CRT or linkage that no archive was built with.
Unpublished ==
  \/ "openmp" \in features
  \/ ("mnn-threadpool" \in features) # (target.os # "ios")
  \/ target.os = "windows" /\ ~environment.crt
  \/ target.os = "ios" /\ "dynamic" \in features

\* The places in the table of the archives that will do.
Candidates == {i \in DOMAIN ARTIFACTS : Compatible(ARTIFACTS[i])}

Size(i) == Cardinality(ARTIFACTS[i].backends)

\* Bug: the first archive that will do.
FirstOf(candidates) == ARTIFACTS[CHOOSE i \in candidates : \A j \in candidates : i <= j]

\* Bug: the widest archive that will do.
WidestOf(candidates) ==
  ARTIFACTS[CHOOSE i \in candidates : \A j \in candidates : Size(j) <= Size(i)]

\* min_by_key keeps the first of several smallest.
SmallestOf(candidates) ==
  ARTIFACTS[CHOOSE i \in candidates : \A j \in candidates :
              Size(i) < Size(j) \/ (Size(i) = Size(j) /\ i <= j)]

\* The selected archive as a sequence of at most one.
SelectPrebuilt ==
  IF TargetSuffix(target) = None \/ Unpublished \/ Candidates = {} THEN <<>>
  ELSE <<SmallestOf(Candidates)>>

-----------------------------------------------------------------------------
(* build.rs                                                                *)

Apple == target.os \in {"macos", "ios"}

CudaTargetSupported == target.os = "linux" \/ (target.os = "windows" /\ target.env = "msvc")

\* The panics of main before anything is acquired.
Contradictory ==
  \/ {"openmp", "mnn-threadpool"} \subseteq features
  \/ {"static", "dynamic"} \subseteq features
  \/ "crt-static" \in features /\ ~environment.crt
  \/ "openmp" \in features /\ Apple
  \/ "cuda" \in features /\ ~CudaTargetSupported

NoNative == [kind |-> None, profile |-> {}]

Refuse == phase' = "refused" /\ UNCHANGED <<native, links>>

Screen ==
  /\ phase = "started"
  /\ IF Contradictory THEN Refuse ELSE phase' = "screened" /\ UNCHANGED <<native, links>>

Acquire(kind, profile) ==
  /\ phase' = "acquired"
  /\ native' = [kind |-> kind, profile |-> profile]
  /\ UNCHANGED links

\* external_installation; what it holds is the user's business.
External ==
  /\ phase = "screened"
  /\ environment.external # "none"
  /\ IF environment.external = "both" THEN Acquire("external", {}) ELSE Refuse

\* The archive, if `prebuilt` is on and `build-from-source` is not.
Wanted ==
  IF "prebuilt" \in features /\ "build-from-source" \notin features THEN SelectPrebuilt ELSE <<>>

\* acquire_prebuilt after validate_cuda_prebuilt.
Prebuilt ==
  /\ phase = "screened"
  /\ environment.external = "none"
  /\ Wanted # <<>>
  /\ LET profile == Wanted[1].backends
     IN IF "cuda" \in profile /\ ~environment.toolkit
        THEN Refuse ELSE Acquire("prebuilt", profile)

\* build_from_source, which cannot compile for Mac Catalyst; the CUDA backend
\* needs a toolkit, of any version, but CMake looks for that.
FromSource ==
  /\ phase = "screened"
  /\ environment.external = "none"
  /\ Wanted = <<>>
  /\ IF environment.require \/ (target.os = "ios" /\ target.abi = "macabi")
     THEN Refuse ELSE Acquire("source", features \cap Backends)

LinkMode == IF "dynamic" \in features THEN "dynamic" ELSE "static"

\* Bug: a library built from source is never linked as a whole archive.
LibraryLinkArchives ==
  IF LinkMode = "dynamic" THEN {"MNN dynamic"}
  ELSE IF native.kind = "prebuilt" THEN {"MNN whole archive"} ELSE {"MNN static"}

\* The library itself; GPU backends register themselves in static initialisers,
\* which only a whole archive keeps.
LibraryLink ==
  IF LinkMode = "dynamic" THEN {"MNN dynamic"}
  ELSE IF native.kind = "prebuilt" \/ features \cap Backends # {} THEN {"MNN whole archive"}
  ELSE {"MNN static"}

OpenGlLink ==
  IF "opengl" \in features \/ (native.kind = "prebuilt" /\ "opengl" \in native.profile)
  THEN CASE target.os = "android" -> {"GLES"}
         [] target.os = "linux" -> {"GL"}
         [] OTHER -> {}
  ELSE {}

CudaLink ==
  IF "cuda" \in features
  THEN {"cudart"} \cup (IF target.os = "linux" THEN {"MNN_Cuda_Main"} ELSE {})
  ELSE {}

AppleLink ==
  IF ~Apple THEN {}
  ELSE (IF native.kind = "prebuilt" \/ "metal" \in features THEN {"Metal"} ELSE {})
       \cup (IF "coreml" \in features THEN {"CoreML"} ELSE {})

Link ==
  /\ phase = "acquired"
  /\ phase' = "linked"
  /\ links' = LibraryLink \cup OpenGlLink \cup CudaLink \cup AppleLink
  /\ UNCHANGED native

Init ==
  /\ target \in Targets
  /\ features \in FeatureSets
  /\ environment \in Environments
  /\ phase = "started"
  /\ native = NoNative
  /\ links = {}

Step == Screen \/ External \/ Prebuilt \/ FromSource \/ Link

Finished == phase \in {"linked", "refused"} /\ UNCHANGED <<phase, native, links>>

Next == (Step \/ Finished) /\ UNCHANGED <<target, features, environment>>

Spec == Init /\ [][Next]_vars

-----------------------------------------------------------------------------

\* What README.md:146-152 publishes for a platform, beyond the CPU.
DocumentedProfiles(t) ==
  CASE t.os = "linux" /\ t.env = "gnu" /\ t.arch = "x86_64" -> {{}, {"vulkan", "opencl"}, {"cuda"}}
    [] t.os = "linux" /\ t.env = "gnu" /\ t.arch = "aarch64" -> {{}, {"vulkan", "opencl"}}
    [] t.os = "windows" /\ t.env = "msvc" /\ t.arch = "x86_64" -> {{}, {"vulkan", "opencl"}, {"cuda"}}
    [] t.os = "windows" /\ t.env = "msvc" /\ t.arch \in {"x86", "aarch64"} -> {{}, {"vulkan", "opencl"}}
    [] t.os = "macos" /\ t.arch \in {"aarch64", "x86_64"} -> {{"metal"}, {"metal", "coreml"}}
    [] t.os = "ios" /\ t.arch = "aarch64" /\ t.abi # "macabi" -> {{"metal"}, {"metal", "coreml"}}
    [] t.os = "android" /\ t.arch \in {"aarch64", "arm"} -> {{}, {"vulkan", "opencl", "opengl"}}
    [] OTHER -> {}

\* README.md:160-172: iOS archives are static and have no thread pool, others
\* require it, and Windows archives require the static CRT.
DocumentedPolicy ==
  IF target.os = "ios" THEN features \cap {"mnn-threadpool", "dynamic"} = {}
  ELSE "mnn-threadpool" \in features /\ (target.os = "windows" => environment.crt)

\* The profiles the documentation lets a build use: as small as any that has
\* every requested backend.
DocumentedChoice ==
  LET fitting == {p \in DocumentedProfiles(target) : features \cap Backends \subseteq p}
  IN IF ~DocumentedPolicy THEN {}
     ELSE {p \in fitting : \A q \in fitting : Cardinality(p) <= Cardinality(q)}

\* The build uses the one archive the documentation promises for the platform,
\* the features and the linkage, and compiles the requested backends itself in
\* exactly the cases where the documentation says there is none: the table in
\* prebuilt.rs, its filters and the tie-break of its minimum agree with
\* README.md, and no minimum is ambiguous.
ProfileAsDocumented ==
  /\ Cardinality(DocumentedChoice) <= 1
  /\ native.kind = "prebuilt" => native.profile \in DocumentedChoice
  /\ native.kind = "source" => /\ native.profile = features \cap Backends
                               /\ ("prebuilt" \in features /\ "build-from-source" \notin features)
                                    => DocumentedChoice = {}

\* The system libraries a backend needs in an archive (README.md:140 and
\* 176-178: Vulkan and OpenCL load their drivers at run time).
Needs(backend) ==
  CASE backend = "metal" -> {"Metal"}
    [] backend = "coreml" -> {"CoreML"}
    [] backend = "opengl" -> {"GLES"}
    [] backend = "cuda" -> {"cudart"} \cup (IF target.os = "linux" THEN {"MNN_Cuda_Main"} ELSE {})
    [] OTHER -> {}

\* A prebuilt may bring backends nobody asked for, and their link dependencies
\* come with them (README.md:140).  link_mnn looks at the archive for OpenGL but
\* only at the features for Core ML and CUDA: that is enough only because the
\* smallest fitting profile holds those two in no other case.
LinksComplete ==
  (phase = "linked" /\ native.kind = "prebuilt") =>
    /\ \A b \in native.profile : Needs(b) \subseteq links
    /\ "MNN static" \notin links
=============================================================================
