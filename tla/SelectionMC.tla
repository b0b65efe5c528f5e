------------------------------ MODULE SelectionMC ------------------------------
(* Targets the build script tells apart, every way of linking, threading and  *)
(* acquiring, all sets of up to three backends, and what the adapter is asked. *)
EXTENDS Deployment

T(os, arch, env, abi) == [os |-> os, arch |-> arch, env |-> env, abi |-> abi]

SomeTargets == {
  T("linux", "x86_64", "gnu", "none"), T("linux", "aarch64", "gnu", "none"),
  T("linux", "x86_64", "musl", "none"),
  T("windows", "x86_64", "msvc", "none"), T("windows", "x86", "msvc", "none"),
  T("windows", "aarch64", "msvc", "none"), T("windows", "x86_64", "gnu", "none"),
  T("macos", "aarch64", "none", "none"), T("macos", "x86_64", "none", "none"),
  T("macos", "x86", "none", "none"),
  T("ios", "aarch64", "none", "device"), T("ios", "aarch64", "none", "sim"),
  T("ios", "x86_64", "none", "sim"), T("ios", "aarch64", "macabi", "macabi"),
  T("android", "aarch64", "none", "none"), T("android", "arm", "none", "none"),
  T("android", "x86_64", "none", "none")}

BackendSets == {b \in SUBSET Backends : Cardinality(b) <= 3 /\ ("coreml" \in b => "metal" \in b)}

SomeFeatureSets ==
  {b \cup l \cup t \cup a :
     b \in BackendSets,
     l \in {{}, {"static"}, {"dynamic"}, {"static", "dynamic"}},
     t \in {{}, {"mnn-threadpool"}, {"openmp"}, {"openmp", "mnn-threadpool"}},
     a \in {{"prebuilt"}, {"prebuilt", "build-from-source"},
           {"prebuilt", "crt-static"}, {}}}

E(external, require, crt, toolkit) ==
  [external |-> external, require |-> require, crt |-> crt, toolkit |-> toolkit]

SomeEnvironments == {
  E("none", FALSE, FALSE, TRUE), E("none", FALSE, TRUE, TRUE), E("none", FALSE, TRUE, FALSE),
  E("none", TRUE, TRUE, TRUE), E("half", FALSE, TRUE, TRUE), E("both", FALSE, TRUE, TRUE)}

SomeInferences ==
  [threads : {0, 32, 33}, precision : {"high"}, backend : Backends \cup {"cpu"},
   storage : {"auto"}, tuning : {"auto", "fast"}, caching : {FALSE}]
=============================================================================
