----------------------------- MODULE KernelCacheMC -----------------------------
(* A process that loads two models, and the process after it: with one cache *)
(* key or two, inside the execution gate or outside, and with every order of  *)
(* thread counts.                                                             *)
EXTENDS KernelCache, TLC

CONSTANTS m1, m2, v1, v2  \* model values

SomeModels == {m1, m2}

SomeCompiled == {"opencl", "vulkan", "metal", "cuda"}
SomeRegistered == {"cpu", "opencl", "vulkan", "metal"}

Model(bytes, changes) == [bytes |-> bytes, config |-> With(Default, changes)]

Cpu(n) == Model("a", [threads |-> n])
Kept(bytes, tuning, execution) ==
  Model(bytes, [backend |-> "opencl", caching |-> TRUE, tuning |-> tuning, execution |-> execution])

Two(first, second) == [m \in SomeModels |-> IF m = m1 THEN first ELSE second]

SomeSetups == <<
  \* one key, both models inside the gate, or neither
  Two(Kept("a", "auto", "serialized"), Kept("a", "fast", "serialized")),
  Two(Kept("a", "auto", "parallel"), Kept("a", "fast", "parallel")),
  \* two keys, for another tuning
  Two(Kept("a", "wide", "serialized"), Kept("a", "fast", "serialized")),
  \* threads
  Two(Cpu(4), Cpu(2)),
  Two(Cpu(2), Cpu(1)),
  Two(Cpu(4), Model("a", [backend |-> "vulkan", execution |-> "parallel", storage |-> "image"])),
  Two(Cpu(2), Model("a", [backend |-> "auto", threads |-> 3])),
  Two(Cpu(4), Model("a", [backend |-> "metal", threads |-> 2]))>>

SomeVersions == {v1, v2}

VersionSymmetry == Permutations(SomeVersions)
=============================================================================
