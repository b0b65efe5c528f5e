-------------------------- MODULE KernelCache_proofs --------------------------
(***************************************************************************)
(* For any models, configurations, versions of MNN and number of           *)
(* processes: kernels only run for what they were tuned for, models inside *)
(* the execution gate never meet in a cache file, MNN is given the flags   *)
(* the documentation promises; what a save may lose and save_cache may     *)
(* answer, and the threads a model gets from the pool.                     *)
(***************************************************************************)
EXTENDS KernelCache, TLAPS

States == {"absent", "whole", "open", "clashed", "broken"}
Phases == {"absent", "loading", "opened", "created", "live", "saving", "probed", "writing", "gone"}
Kernels == {IdentityTable[setup][m][v] : m \in Models, v \in Versions} \X Models

\* The process and what it was given.
World ==
  /\ setup \in DOMAIN Setups
  /\ version \in Versions
  /\ restarts \in 0..MaxRestarts
  /\ reply \in {"none", "ok", "error", "limited"}
  /\ pool \in 0..32
  /\ obstructed \subseteq Keys

\* Where the workers are: the gate belongs to the serialized one that is inside.
Places ==
  /\ phase \in [Models -> Phases]
  /\ session \in [Models -> {"none", "cpu", "gpu"}]
  /\ gate \in Models \cup {Free}
  /\ \A m \in Models :
       /\ session[m] = "none" <=> phase[m] \in {"absent", "loading", "opened", "gone"}
       /\ gate = m <=> Serialized(m) /\ phase[m] \notin {"absent", "live", "gone"}

\* A file holds kernels of the one identity its key stands for.
KernelsFit(k, kernels) ==
  /\ kernels \subseteq Kernels
  /\ \A kernel \in kernels, n \in Models, v \in Versions :
       KeyTable[setup][n][v] = k => kernel[1] = IdentityTable[setup][n][v]

Contents ==
  /\ held \in [Models -> SUBSET Kernels]
  /\ file \in [Keys -> [state : States, kernels : SUBSET Kernels]]
  /\ \A k \in Keys : KernelsFit(k, file[k].kernels)
  /\ OwnKernels

CacheInv == World /\ Places /\ Contents

\* What initialize_model passes on is determined by what the key names.
LEMMA NativeDetermined ==
  ASSUME NEW c, NEW d,
         c.backend = d.backend, c.threads = d.threads, c.precision = d.precision,
         c.power = d.power, c.memory = d.memory, GpuMode(c) = GpuMode(d)
  PROVE  Native(c) = Native(d)
BY Zenon DEF Native

\* Everything that is hashed can be read off the key.
LEMMA KeyParts ==
  ASSUME NEW a, NEW b, NEW v, NEW w, NEW c, NEW d, CacheKey(a, v, c) = CacheKey(b, w, d)
  PROVE  /\ a = b /\ v = w
         /\ c.backend = d.backend /\ c.threads = d.threads /\ c.precision = d.precision
         /\ c.power = d.power /\ c.memory = d.memory /\ GpuMode(c) = GpuMode(d)
<1> DEFINE K == CacheKey(a, v, c)
           L == CacheKey(b, w, d)
<1>1. K[1] = L[1] /\ K[2] = L[2] /\ K[3] = L[3] /\ K[4] = L[4]
      /\ K[5] = L[5] /\ K[6] = L[6] /\ K[7] = L[7] /\ K[8] = L[8]
  OBVIOUS
<1>2. K[1] = a /\ K[2] = v /\ K[3] = c.backend /\ K[4] = c.threads
      /\ K[5] = c.precision /\ K[6] = c.power /\ K[7] = c.memory /\ K[8] = GpuMode(c)
  BY DEF CacheKey
<1>3. L[1] = b /\ L[2] = w /\ L[3] = d.backend /\ L[4] = d.threads
      /\ L[5] = d.precision /\ L[6] = d.power /\ L[7] = d.memory /\ L[8] = GpuMode(d)
  BY DEF CacheKey
<1> HIDE DEF K, L
<1> QED BY <1>1, <1>2, <1>3

\* A cache file stands for one combination of model bytes, MNN and native
\* configuration, although several RuntimeConfigs share it.
LEMMA KeysIdentify ==
  ASSUME NEW i \in DOMAIN Setups, NEW m \in Models, NEW n \in Models,
         NEW v \in Versions, NEW w \in Versions, KeyTable[i][m][v] = KeyTable[i][n][w]
  PROVE  IdentityTable[i][m][v] = IdentityTable[i][n][w]
<1> DEFINE a == Setups[i][m].bytes
           b == Setups[i][n].bytes
           c == Setups[i][m].config
           d == Setups[i][n].config
<1>1. KeyTable[i][m][v] = CacheKey(a, v, c) /\ KeyTable[i][n][w] = CacheKey(b, w, d)
  BY DEF KeyTable
<1>2. IdentityTable[i][m][v] = <<a, v, Native(c)>> /\ IdentityTable[i][n][w] = <<b, w, Native(d)>>
  BY DEF IdentityTable
<1> HIDE DEF a, b, c, d
<1>3. CacheKey(a, v, c) = CacheKey(b, w, d)
  BY <1>1
<1>4. /\ a = b /\ v = w
      /\ c.backend = d.backend /\ c.threads = d.threads /\ c.precision = d.precision
      /\ c.power = d.power /\ c.memory = d.memory /\ GpuMode(c) = GpuMode(d)
  BY <1>3, KeyParts
<1>5. Native(c) = Native(d)
  BY <1>4, NativeDetermined
<1> QED BY <1>2, <1>4, <1>5

LEMMA CacheInit == Init => CacheInv
<1> SUFFICES ASSUME Init PROVE CacheInv
  OBVIOUS
<1> USE KernelCacheAssumption DEF KernelCacheAssumption, Init
<1>1. World
  BY DEF World
<1>2. Places
  BY DEF Places, Phases
<1>3. Contents
  <2>1. file \in [Keys -> [state : States, kernels : SUBSET Kernels]]
    BY DEF Absent, States
  <2>2. \A k \in Keys : KernelsFit(k, file[k].kernels)
    BY DEF Absent, KernelsFit
  <2> QED BY <2>1, <2>2 DEF Contents, OwnKernels
<1> QED BY <1>1, <1>2, <1>3 DEF CacheInv

\* The pool is as large as some accepted configuration asks for, or as the number
\* MNN reads into GPU flags.
LEMMA ThreadTypes ==
  ASSUME World, NEW m \in Models
  PROVE  Threads(m) \subseteq 1..32
<1> DEFINE c == Config(m)
<1>1. c \in RuntimeConfig /\ RuntimeNew(c) = "ok"
  BY KernelCacheAssumption DEF KernelCacheAssumption, World, Config
<1> HIDE DEF c
<1>2. c.threads \in 1..32
  <2>1. SUFFICES ASSUME c.threads \notin 1..32 PROVE FALSE
    OBVIOUS
  <2> QED BY <1>1, <2>1 DEF RuntimeNew
<1>3. Native(c).threads = c.threads
  BY DEF Native
<1>4. Schedule(Native(c)).threads \in {0, c.threads}
  BY <1>3 DEF Schedule
<1> QED BY <1>2, <1>4 DEF Threads, c

LEMMA WorldStep ==
  ASSUME World, Next
  PROVE  World'
<1> USE DEF World, instance, Silent, Returns, Saved, engineVars, gateVars, history
<1>1. ASSUME NEW m \in Models, Load(m) \/ LoadFails(m) \/ OpenCache(m) \/ Infer(m)
                               \/ BeginSave(m) \/ Probe(m) \/ BeginWrite(m)
      PROVE  World'
  BY <1>1 DEF Load, LoadFails, OpenCache, Infer, BeginSave, Probe, BeginWrite, Keys
<1>2. ASSUME NEW m \in Models, CreateSession(m) PROVE World'
  BY <1>2, ThreadTypes DEF CreateSession, Keys
<1>3. ASSUME NEW m \in Models, Inspect(m) PROVE World'
  BY <1>3 DEF Inspect, Keys
<1>4. ASSUME NEW m \in Models, SaveNothing(m) \/ WriteNothing(m) \/ EndWrite(m) PROVE World'
  BY <1>4 DEF SaveNothing, WriteNothing, EndWrite, Keys
<1>5. ASSUME NEW m \in Models, Obstruct(m) PROVE World'
  BY <1>5 DEF Obstruct, Keys, KeyOf
<1>6. CASE Restart
  BY <1>6, KernelCacheAssumption DEF Restart, Keys, KernelCacheAssumption
<1>7. CASE Finished
  BY <1>7 DEF Finished, vars, Keys
<1> QED BY <1>1, <1>2, <1>3, <1>4, <1>5, <1>6, <1>7 DEF Next

LEMMA PlacesStep ==
  ASSUME World, Places, Next
  PROVE  Places'
<1> USE KernelCacheAssumption DEF KernelCacheAssumption, instance, gateVars, engineVars,
        Places, Phases, Serialized, Config, GoTo, Gone, Unlock, LockGate, LockForCleanup
<1>1. ASSUME NEW m \in Models, Load(m) PROVE Places'
  BY <1>1 DEF Load
<1>2. ASSUME NEW m \in Models, LoadFails(m) PROVE Places'
  BY <1>2 DEF LoadFails
<1>3. ASSUME NEW m \in Models, OpenCache(m) \/ Probe(m) \/ BeginWrite(m) PROVE Places'
  BY <1>3 DEF OpenCache, Probe, BeginWrite
<1>4. ASSUME NEW m \in Models, CreateSession(m) PROVE Places'
  BY <1>4 DEF CreateSession, SessionOn
<1>5. ASSUME NEW m \in Models, Inspect(m) PROVE Places'
  BY <1>5 DEF Inspect
<1>6. ASSUME NEW m \in Models, Infer(m) PROVE Places'
  BY <1>6 DEF Infer
<1>7. ASSUME NEW m \in Models, BeginSave(m) PROVE Places'
  BY <1>7 DEF BeginSave
<1>8. ASSUME NEW m \in Models, SaveNothing(m) PROVE Places'
  BY <1>8 DEF SaveNothing, Saved
<1>9. ASSUME NEW m \in Models, WriteNothing(m) PROVE Places'
  BY <1>9 DEF WriteNothing, Saved
<1>10. ASSUME NEW m \in Models, EndWrite(m) PROVE Places'
  BY <1>10 DEF EndWrite, Saved
<1>11. ASSUME NEW m \in Models, Obstruct(m) PROVE Places'
  BY <1>11 DEF Obstruct
<1>12. CASE Restart
  BY <1>12 DEF Restart
<1>13. CASE Finished
  BY <1>13 DEF Finished, vars
<1> QED BY <1>1, <1>2, <1>3, <1>4, <1>5, <1>6, <1>7, <1>8, <1>9, <1>10, <1>11, <1>12, <1>13
        DEF Next

\* The kernels of the model itself fit the file of its key, and those of the file
\* fit the model.
LEMMA OwnFile ==
  ASSUME CacheInv, NEW m \in Models
  PROVE  /\ KeyOf(m) \in Keys
         /\ held[m] \subseteq Kernels /\ KernelsFit(KeyOf(m), held[m])
         /\ file[KeyOf(m)].kernels \subseteq Kernels
         /\ \A kernel \in file[KeyOf(m)].kernels : kernel[1] = Identity(m)
         /\ Tuned(m) \subseteq Kernels
         /\ \A kernel \in Tuned(m) : kernel[1] = Identity(m)
<1> USE DEF CacheInv, World, Contents
<1>1. KeyOf(m) \in Keys /\ KeyTable[setup][m][version] = KeyOf(m)
  BY DEF KeyOf, Keys
<1>2. held[m] \subseteq Kernels
  OBVIOUS
<1>3. ASSUME NEW kernel \in held[m], NEW n \in Models, NEW v \in Versions,
             KeyTable[setup][n][v] = KeyOf(m)
      PROVE  kernel[1] = IdentityTable[setup][n][v]
  <2>1. kernel[1] = IdentityTable[setup][m][version]
    BY DEF OwnKernels, Identity
  <2>2. KeyTable[setup][n][v] = KeyTable[setup][m][version]
    BY <1>1, <1>3
  <2>3. IdentityTable[setup][n][v] = IdentityTable[setup][m][version]
    BY <2>2, KeysIdentify
  <2> QED BY <2>1, <2>3
<1>4. file[KeyOf(m)].kernels \subseteq Kernels
      /\ \A kernel \in file[KeyOf(m)].kernels : kernel[1] = Identity(m)
  BY <1>1 DEF KernelsFit, Identity
<1>5. Tuned(m) \subseteq Kernels /\ \A kernel \in Tuned(m) : kernel[1] = Identity(m)
  BY DEF Tuned, Kernels, Identity
<1> QED BY <1>1, <1>2, <1>3, <1>4, <1>5 DEF KernelsFit

\* Steps that leave the files alone, and give a session nothing but its own.
LEMMA HeldChanges ==
  ASSUME CacheInv, NEW m \in Models, NEW kernels \in SUBSET Kernels,
         \A kernel \in kernels : kernel[1] = Identity(m),
         held' = held \/ held' = [held EXCEPT ![m] = kernels],
         UNCHANGED <<setup, version>>
  PROVE  held' \in [Models -> SUBSET Kernels'] /\ OwnKernels'
BY DEF CacheInv, Contents, OwnKernels, Kernels, Identity

\* Steps that change one file, to kernels that fit its key.
LEMMA FileChanges ==
  ASSUME CacheInv, NEW k \in Keys, NEW state \in States, NEW kernels, KernelsFit(k, kernels),
         file' = file \/ file' = [file EXCEPT ![k] = [state |-> state, kernels |-> kernels]],
         UNCHANGED setup
  PROVE  /\ file' \in [Keys' -> [state : States, kernels : SUBSET Kernels']]
         /\ \A l \in Keys' : KernelsFit(l, file[l].kernels)'
<1> USE DEF CacheInv, Contents
<1>1. Keys' = Keys /\ Kernels' = Kernels
  BY DEF Keys, Kernels
<1>2. kernels \in SUBSET Kernels
  BY DEF KernelsFit
<1>3. file' \in [Keys -> [state : States, kernels : SUBSET Kernels]]
  BY <1>2
<1>4. \A l \in Keys : KernelsFit(l, file'[l].kernels)
  <2> TAKE l \in Keys
  <2>1. file'[l].kernels = file[l].kernels \/ (l = k /\ file'[l].kernels = kernels)
    OBVIOUS
  <2> QED BY <2>1
<1>5. \A l \in Keys : KernelsFit(l, file[l].kernels)'
  BY <1>1, <1>4 DEF KernelsFit
<1> QED BY <1>1, <1>3, <1>5

LEMMA ContentsStep ==
  ASSUME CacheInv, Next
  PROVE  Contents'
<1> USE DEF instance, engineVars, gateVars, Gone, Saved
<1>1. ASSUME NEW m \in Models, UNCHANGED <<setup, version, file>>,
             held' = held \/ held' = [held EXCEPT ![m] = {}]
      PROVE  Contents'
  <2>1. held' \in [Models -> SUBSET Kernels'] /\ OwnKernels'
    BY <1>1, HeldChanges
  <2>2. KernelsFit(KeyOf(m), {}) /\ KeyOf(m) \in Keys /\ "whole" \in States
    BY OwnFile DEF KernelsFit, States
  <2>3. /\ file' \in [Keys' -> [state : States, kernels : SUBSET Kernels']]
        /\ \A l \in Keys' : KernelsFit(l, file[l].kernels)'
    BY <1>1, <2>2, FileChanges
  <2> QED BY <2>1, <2>3 DEF Contents
<1>2. ASSUME NEW m \in Models, NEW state \in States, NEW kernels, KernelsFit(KeyOf(m), kernels),
             UNCHANGED <<setup, version>>,
             held' = held \/ held' = [held EXCEPT ![m] = {}],
             file' = file \/ file' = [file EXCEPT ![KeyOf(m)] = [state |-> state, kernels |-> kernels]]
      PROVE  Contents'
  <2>1. held' \in [Models -> SUBSET Kernels'] /\ OwnKernels'
    BY <1>2, HeldChanges
  <2>2. /\ file' \in [Keys' -> [state : States, kernels : SUBSET Kernels']]
        /\ \A l \in Keys' : KernelsFit(l, file[l].kernels)'
    BY <1>2, OwnFile, FileChanges
  <2> QED BY <2>1, <2>2 DEF Contents
<1>3. ASSUME NEW m \in Models, Load(m) \/ LoadFails(m) \/ Inspect(m) \/ BeginSave(m)
                               \/ SaveNothing(m) \/ WriteNothing(m) \/ Obstruct(m)
      PROVE  Contents'
  <2>1. UNCHANGED <<setup, version, file>> /\ (held' = held \/ held' = [held EXCEPT ![m] = {}])
    BY <1>3 DEF Load, LoadFails, Inspect, BeginSave, SaveNothing, WriteNothing, Obstruct
  <2> QED BY <1>1, <2>1
<1>4. ASSUME NEW m \in Models, CreateSession(m) PROVE Contents'
  <2>1. UNCHANGED <<setup, version, file>> /\ (held' = held \/ held' = [held EXCEPT ![m] = {}])
    <3>1. PICK on \in SessionOn(m) : held' = [held EXCEPT ![m] = IF on = "gpu" THEN @ ELSE {}]
      BY <1>4 DEF CreateSession
    <3> QED BY <1>4, <3>1 DEF CreateSession, CacheInv, Contents
  <2> QED BY <1>1, <2>1
<1>5. ASSUME NEW m \in Models, Infer(m) PROVE Contents'
  <2>1. CASE held' = [held EXCEPT ![m] = @ \cup Tuned(m)]
    <3>1. UNCHANGED <<setup, version, file>>
      BY <1>5 DEF Infer
    <3>2. held[m] \cup Tuned(m) \in SUBSET Kernels
          /\ \A kernel \in held[m] \cup Tuned(m) : kernel[1] = Identity(m)
      BY OwnFile DEF CacheInv, Contents, OwnKernels
    <3>3. held' \in [Models -> SUBSET Kernels'] /\ OwnKernels'
      BY <2>1, <3>1, <3>2, HeldChanges
    <3>4. /\ file' \in [Keys' -> [state : States, kernels : SUBSET Kernels']]
          /\ \A l \in Keys' : KernelsFit(l, file[l].kernels)'
      BY <3>1, OwnFile, FileChanges DEF States
    <3> QED BY <3>3, <3>4 DEF Contents
  <2>2. CASE held' # [held EXCEPT ![m] = @ \cup Tuned(m)]
    BY <1>1, <1>5, <2>2 DEF Infer
  <2> QED BY <2>1, <2>2
<1>6. ASSUME NEW m \in Models, OpenCache(m) PROVE Contents'
  <2>1. Loaded(m) \in SUBSET Kernels /\ \A kernel \in Loaded(m) : kernel[1] = Identity(m)
    BY OwnFile DEF Loaded
  <2>2. UNCHANGED <<setup, version>> /\ held' = [held EXCEPT ![m] = Loaded(m)]
    BY <1>6 DEF OpenCache
  <2>3. held' \in [Models -> SUBSET Kernels'] /\ OwnKernels'
    BY <2>1, <2>2, HeldChanges
  <2>4. KernelsFit(KeyOf(m), {}) /\ KeyOf(m) \in Keys /\ "whole" \in States
    BY OwnFile DEF KernelsFit, States
  <2>5. file' = file \/ file' = [file EXCEPT ![KeyOf(m)] = [state |-> "whole", kernels |-> {}]]
    BY <1>6, <2>4 DEF OpenCache, Touched, Whole, CacheInv, Contents
  <2>6. /\ file' \in [Keys' -> [state : States, kernels : SUBSET Kernels']]
        /\ \A l \in Keys' : KernelsFit(l, file[l].kernels)'
    BY <2>2, <2>4, <2>5, FileChanges
  <2> QED BY <2>3, <2>6 DEF Contents
<1>7. ASSUME NEW m \in Models, Probe(m) PROVE Contents'
  <2>1. KernelsFit(KeyOf(m), {}) /\ KeyOf(m) \in Keys /\ "whole" \in States
    BY OwnFile DEF KernelsFit, States
  <2>2. file' = file \/ file' = [file EXCEPT ![KeyOf(m)] = [state |-> "whole", kernels |-> {}]]
    BY <1>7, <2>1 DEF Probe, Touched, Whole, CacheInv, Contents
  <2>3. UNCHANGED <<setup, version, held>>
    BY <1>7 DEF Probe
  <2> QED BY <1>2, <2>1, <2>2, <2>3
<1>8. ASSUME NEW m \in Models, BeginWrite(m) PROVE Contents'
  <2>1. KernelsFit(KeyOf(m), {}) /\ UNCHANGED <<setup, version, held>>
    BY <1>8 DEF KernelsFit, BeginWrite
  <2>2. PICK state \in States :
          file' = [file EXCEPT ![KeyOf(m)] = [state |-> state, kernels |-> {}]]
    BY <1>8 DEF BeginWrite, Torn, States
  <2> QED BY <1>2, <2>1, <2>2
<1>9. ASSUME NEW m \in Models, EndWrite(m) PROVE Contents'
  <2>1. UNCHANGED <<setup, version>> /\ (held' = held \/ held' = [held EXCEPT ![m] = {}])
    BY <1>9 DEF EndWrite
  <2>2. KernelsFit(KeyOf(m), held[m]) /\ KernelsFit(KeyOf(m), file[KeyOf(m)].kernels)
        /\ KernelsFit(KeyOf(m), {})
    BY OwnFile DEF CacheInv, Contents, KernelsFit
  <2>3. PICK state \in States, kernels \in {held[m], file[KeyOf(m)].kernels, {}} :
          file' = [file EXCEPT ![KeyOf(m)] = [state |-> state, kernels |-> kernels]]
    BY <1>9 DEF EndWrite, Torn, Whole, States
  <2> QED BY <1>2, <2>1, <2>2, <2>3
<1>10. CASE Restart
  <2> USE <1>10 DEF Restart
  <2>1. Keys' = Keys /\ Kernels' = Kernels /\ setup' = setup
    BY DEF Keys, Kernels
  <2>2. held' \in [Models -> SUBSET Kernels'] /\ OwnKernels'
    BY DEF OwnKernels
  <2>3. file' \in [Keys -> [state : States, kernels : SUBSET Kernels]]
    BY DEF CacheInv, Contents, Torn, States
  <2>4. \A k \in Keys : KernelsFit(k, file'[k].kernels)
    BY DEF CacheInv, Contents, Torn, KernelsFit
  <2>5. \A k \in Keys : KernelsFit(k, file[k].kernels)'
    BY <2>1, <2>4 DEF KernelsFit
  <2> QED BY <2>1, <2>2, <2>3, <2>5 DEF Contents
<1>11. CASE Finished
  BY <1>11 DEF Finished, vars, CacheInv, Contents, OwnKernels, Identity, Keys, Kernels, KernelsFit
<1> QED BY <1>3, <1>4, <1>5, <1>6, <1>7, <1>8, <1>9, <1>10, <1>11 DEF Next

LEMMA CacheStep == CacheInv /\ [Next]_vars => CacheInv'
<1> SUFFICES ASSUME CacheInv, [Next]_vars PROVE CacheInv'
  OBVIOUS
<1>1. CASE Next
  BY <1>1, WorldStep, PlacesStep, ContentsStep DEF CacheInv
<1>2. CASE UNCHANGED vars
  BY <1>2 DEF vars, CacheInv, World, Places, Contents, OwnKernels, Identity, Keys, Kernels,
              KernelsFit, Serialized, Config
<1> QED BY <1>1, <1>2

LEMMA CacheInductive == Spec => []CacheInv
BY CacheInit, CacheStep, PTL DEF Spec

\* Types, and where a worker may be while it holds the gate or a session.
THEOREM KernelCacheTypes == Spec => []TypeOK
<1>1. CacheInv => TypeOK
  BY DEF CacheInv, World, Places, Contents, TypeOK, Phases, States
<1> QED BY <1>1, CacheInductive, PTL

\* No model, of whatever process, configuration or version of MNN, runs kernels that
\* were tuned for another combination: the hash in cache_file names enough.
THEOREM KernelsOwned == Spec => []OwnKernels
<1>1. CacheInv => OwnKernels
  BY DEF CacheInv, Contents
<1> QED BY <1>1, CacheInductive, PTL

\* Two serialized models are never together in the code that opens, reads or writes
\* cache files, whatever is loaded, saved and shut down at once.
THEOREM CachesApart == Spec => []CacheExclusion
<1>1. CacheInv => CacheExclusion
  BY DEF CacheInv, Places, CacheExclusion
<1> QED BY <1>1, CacheInductive, PTL

-----------------------------------------------------------------------------
(* The flags MNN is given.                                                 *)

\* What a configuration becomes when only its tuning or only its storage is changed.
LEMMA Changed ==
  ASSUME NEW c \in RuntimeConfig, NEW t \in Tunings, NEW s \in Storages
  PROVE  /\ With(c, [tuning |-> t]).backend = c.backend
         /\ With(c, [tuning |-> t]).storage = c.storage
         /\ With(c, [tuning |-> t]).tuning = t
         /\ With(c, [storage |-> s]).backend = c.backend
         /\ With(c, [storage |-> s]).storage = s
         /\ With(c, [storage |-> s]).tuning = c.tuning
<1>1. DOMAIN c = {"backend", "threads", "precision", "power", "memory", "execution", "capacity",
                  "tuning", "storage", "caching"}
  BY DEF RuntimeConfig
<1>2. DOMAIN [tuning |-> t] = {"tuning"} /\ DOMAIN [storage |-> s] = {"storage"}
  OBVIOUS
<1>3. [tuning |-> t]["tuning"] = t /\ [storage |-> s]["storage"] = s
  OBVIOUS
<1>4. "tuning" # "backend" /\ "tuning" # "storage" /\ "storage" # "backend"
  OBVIOUS
<1> QED BY <1>1, <1>2, <1>3, <1>4 DEF With

\* The bits of a tuning and of a storage, spelled out.
LEMMA OpenclTuning ==
  ASSUME NEW d, d.backend = "opencl", d.tuning \in Tunings
  PROVE  /\ d.tuning = "auto" => TuningBits(d) = 16
         /\ d.tuning = "none" => TuningBits(d) = 1
         /\ d.tuning = "fast" => TuningBits(d) = 16
         /\ d.tuning = "normal" => TuningBits(d) = 8
         /\ d.tuning = "wide" => TuningBits(d) = 4
         /\ d.tuning = "heavy" => TuningBits(d) = 2
BY DEF TuningBits, Tunings

LEMMA VulkanTuning ==
  ASSUME NEW d, d.backend = "vulkan", d.tuning \in Tunings
  PROVE  /\ d.tuning = "auto" => TuningBits(d) = 1
         /\ d.tuning = "none" => TuningBits(d) = 1
         /\ d.tuning = "fast" => TuningBits(d) = -1
         /\ d.tuning = "normal" => TuningBits(d) = -1
         /\ d.tuning = "wide" => TuningBits(d) = 4
         /\ d.tuning = "heavy" => TuningBits(d) = 2
BY DEF TuningBits, Tunings, Rejected

LEMMA StorageFlags ==
  ASSUME NEW d, d.storage \in Storages
  PROVE  /\ d.backend = "opencl" /\ d.storage = "buffer" => StorageBits(d) = 64
         /\ d.backend = "opencl" /\ d.storage = "image" => StorageBits(d) = 128
         /\ d.backend = "opencl" /\ d.storage = "auto" => StorageBits(d) = 0
         /\ d.backend = "vulkan" => StorageBits(d) = 0
BY DEF StorageBits, Storages

LEMMA FlagBits == \A n \in {1, 2, 4, 8, 16} : \E bit \in 0..4 : n = 2^bit
<1>1. 2^0 = 1 /\ 2^1 = 2 /\ 2^2 = 4 /\ 2^3 = 8 /\ 2^4 = 16
  OBVIOUS
<1> QED BY <1>1

\* A mode of OpenCL: a tuning flag and a storage flag, each its own.
LEMMA OpenclModes ==
  ASSUME NEW d, d.backend = "opencl", d.tuning \in Tunings, d.storage \in Storages
  PROVE  /\ GpuMode(d) = TuningBits(d) + StorageBits(d)
         /\ GpuMode(d) # Rejected
         /\ GpuMode(d) % 64 = TuningBits(d)
<1>1. TuningBits(d) \in {1, 2, 4, 8, 16}
  BY OpenclTuning DEF Tunings
<1>2. StorageBits(d) \in {0, 64, 128}
  BY StorageFlags DEF Storages
<1>3. GpuMode(d) = TuningBits(d) + StorageBits(d)
  BY <1>1 DEF GpuMode, Rejected
<1> QED BY <1>1, <1>2, <1>3 DEF Rejected

LEMMA VulkanModes ==
  ASSUME NEW d, d.backend = "vulkan", d.tuning \in Tunings, d.storage \in Storages
  PROVE  /\ GpuMode(d) = TuningBits(d)
         /\ GpuMode(d) \in {-1, 1, 2, 4}
<1>1. TuningBits(d) \in {-1, 1, 2, 4}
  BY VulkanTuning DEF Tunings
<1>2. StorageBits(d) = 0
  BY StorageFlags
<1> QED BY <1>1, <1>2 DEF GpuMode, Rejected

\* The table of the documentation for one configuration that Runtime::new accepts.
Documented(c) ==
  LET Retuned(t) == GpuMode(With(c, [tuning |-> t]))
      Stored(s) == GpuMode(With(c, [storage |-> s]))
      efforts == {"none", "wide", "heavy"} \cup (IF c.backend = "opencl" THEN {"fast", "normal"} ELSE {})
      scheduled == Schedule(Native(c))
  IN IF c.backend \notin {"opencl", "vulkan"}
     THEN scheduled.mode = 0 /\ scheduled.threads = c.threads
     ELSE /\ scheduled.threads = 0
          /\ Retuned("auto") = Retuned(IF c.backend = "opencl" THEN "fast" ELSE "none")
          /\ \A t \in Tunings : Retuned(t) = Rejected <=> t \notin efforts \cup {"auto"}
          /\ \A t \in efforts : \E bit \in 0..4 : Retuned(t) % 64 = 2^bit
          /\ \A t, u \in efforts : Retuned(t) = Retuned(u) => t = u
          /\ \A s \in Storages : Stored(s) = Stored(c.storage) <=> c.backend = "vulkan" \/ s = c.storage

LEMMA ScheduleOf ==
  ASSUME NEW c \in RuntimeConfig
  PROVE  IF c.backend \in {"opencl", "vulkan"} THEN Schedule(Native(c)).threads = 0
         ELSE Schedule(Native(c)).mode = 0 /\ Schedule(Native(c)).threads = c.threads
<1>1. Native(c).threads = c.threads
  BY DEF Native
<1>2. c.backend \in Backends
  BY DEF RuntimeConfig
<1>3. Native(c).backend = [cpu |-> 0, metal |-> 1, cuda |-> 2, opencl |-> 3, auto |-> 4, coreml |-> 5,
                           opengl |-> 6, vulkan |-> 7][c.backend]
  BY DEF Native
<1>4. Native(c).backend \in {3, 7} <=> c.backend \in {"opencl", "vulkan"}
  BY <1>2, <1>3 DEF Backends
<1> QED BY <1>1, <1>4 DEF Schedule

LEMMA AcceptedDocumented ==
  ASSUME NEW c \in RuntimeConfig, RuntimeNew(c) = "ok"
  PROVE  Documented(c)
<1> DEFINE Retuned(t) == GpuMode(With(c, [tuning |-> t]))
           Stored(s) == GpuMode(With(c, [storage |-> s]))
<1>1. c.backend \in Backends /\ c.tuning \in Tunings /\ c.storage \in Storages
  BY DEF RuntimeConfig
<1>2. CASE c.backend \notin {"opencl", "vulkan"}
  BY <1>2, ScheduleOf DEF Documented
<1>3. CASE c.backend = "opencl"
  <2>1. \A t \in Tunings : With(c, [tuning |-> t]).backend = "opencl"
                          /\ With(c, [tuning |-> t]).tuning = t
                          /\ With(c, [tuning |-> t]).storage = c.storage
    BY <1>1, <1>3, Changed
  <2>2. ASSUME NEW t \in Tunings
        PROVE  /\ Retuned(t) # Rejected
               /\ Retuned(t) % 64 = TuningBits(With(c, [tuning |-> t]))
    BY <2>1, <1>1, OpenclModes
  <2>3. ASSUME NEW t \in Tunings
        PROVE  Retuned(t) = TuningBits(With(c, [tuning |-> t])) + StorageBits(With(c, [tuning |-> t]))
    BY <2>1, <1>1, OpenclModes
  <2>4. ASSUME NEW t \in Tunings
        PROVE  StorageBits(With(c, [tuning |-> t])) = StorageBits(c)
    BY <2>1, <1>3 DEF StorageBits
  <2>5. ASSUME NEW t \in Tunings
        PROVE  /\ t = "auto" => TuningBits(With(c, [tuning |-> t])) = 16
               /\ t = "none" => TuningBits(With(c, [tuning |-> t])) = 1
               /\ t = "fast" => TuningBits(With(c, [tuning |-> t])) = 16
               /\ t = "normal" => TuningBits(With(c, [tuning |-> t])) = 8
               /\ t = "wide" => TuningBits(With(c, [tuning |-> t])) = 4
               /\ t = "heavy" => TuningBits(With(c, [tuning |-> t])) = 2
    BY <2>1, OpenclTuning
  <2>6. ASSUME NEW s \in Storages
        PROVE  Stored(s) = TuningBits(With(c, [storage |-> s])) + StorageBits(With(c, [storage |-> s]))
    BY <1>1, <1>3, Changed, OpenclModes
  <2>7. ASSUME NEW s \in Storages
        PROVE  TuningBits(With(c, [storage |-> s])) = TuningBits(c)
    BY <1>1, <1>3, Changed DEF TuningBits
  <2>8. ASSUME NEW s \in Storages
        PROVE  /\ s = "buffer" => StorageBits(With(c, [storage |-> s])) = 64
               /\ s = "image" => StorageBits(With(c, [storage |-> s])) = 128
               /\ s = "auto" => StorageBits(With(c, [storage |-> s])) = 0
    <3>1. With(c, [storage |-> s]).backend = "opencl" /\ With(c, [storage |-> s]).storage = s
      BY <1>1, <1>3, Changed
    <3> QED BY <3>1, StorageFlags
  <2>9. TuningBits(c) \in Nat
    BY <1>1, <1>3, OpenclTuning DEF Tunings
  <2> HIDE DEF Retuned, Stored
  <2>10. Retuned("auto") = Retuned("fast")
    BY <2>3, <2>4, <2>5 DEF Tunings
  <2>11. \A t \in Tunings : \E bit \in 0..4 : Retuned(t) % 64 = 2^bit
    <3>1. \A t \in Tunings : Retuned(t) % 64 \in {1, 2, 4, 8, 16}
      BY <2>2, <2>5 DEF Tunings
    <3> QED BY <3>1, FlagBits
  <2>12. \A t, u \in Tunings \ {"auto"} : Retuned(t) = Retuned(u) => t = u
    BY <2>2, <2>5 DEF Tunings
  <2>13. \A s \in Storages : Stored(s) = Stored(c.storage) <=> s = c.storage
    <3> DEFINE bits(s) == StorageBits(With(c, [storage |-> s]))
    <3>1. \A s \in Storages : Stored(s) = TuningBits(c) + bits(s)
      BY <2>6, <2>7
    <3>2. /\ \A s \in Storages : bits(s) \in Nat
          /\ \A s, u \in Storages : bits(s) = bits(u) => s = u
      BY <2>8 DEF Storages
    <3> HIDE DEF bits
    <3>3. \A s \in Storages : Stored(s) = Stored(c.storage) => bits(s) = bits(c.storage)
      BY <1>1, <2>9, <3>1, <3>2
    <3> QED BY <1>1, <3>2, <3>3
  <2> DEFINE efforts == {"none", "wide", "heavy"} \cup (IF c.backend = "opencl" THEN {"fast", "normal"} ELSE {})
  <2>14. efforts = Tunings \ {"auto"}
    BY <1>3 DEF Tunings
  <2>16. /\ \A t \in Tunings : Retuned(t) = Rejected <=> t \notin efforts \cup {"auto"}
         /\ \A t \in efforts : \E bit \in 0..4 : Retuned(t) % 64 = 2^bit
         /\ \A t, u \in efforts : Retuned(t) = Retuned(u) => t = u
    <3> HIDE DEF efforts
    <3> QED BY <2>2, <2>11, <2>12, <2>14
  <2>15. Schedule(Native(c)).threads = 0
    BY <1>3, ScheduleOf
  <2> QED BY Zenon, <1>3, <2>10, <2>13, <2>15, <2>16 DEF Documented, Retuned, Stored
<1>4. CASE c.backend = "vulkan"
  <2>1. \A t \in Tunings : With(c, [tuning |-> t]).backend = "vulkan"
                          /\ With(c, [tuning |-> t]).tuning = t
                          /\ With(c, [tuning |-> t]).storage = c.storage
    BY <1>1, <1>4, Changed
  <2>2. ASSUME NEW t \in Tunings
        PROVE  /\ t = "auto" => Retuned(t) = 1
               /\ t = "none" => Retuned(t) = 1
               /\ t = "fast" => Retuned(t) = -1
               /\ t = "normal" => Retuned(t) = -1
               /\ t = "wide" => Retuned(t) = 4
               /\ t = "heavy" => Retuned(t) = 2
    <3>1. Retuned(t) = TuningBits(With(c, [tuning |-> t]))
      BY <2>1, <1>1, VulkanModes
    <3> QED BY <2>1, <3>1, VulkanTuning
  <2>3. ASSUME NEW s \in Storages
        PROVE  Stored(s) = TuningBits(c)
    <3>1. Stored(s) = TuningBits(With(c, [storage |-> s]))
      BY <1>1, <1>4, Changed, VulkanModes
    <3> QED BY <1>1, <1>4, <3>1, Changed DEF TuningBits
  <2> HIDE DEF Retuned, Stored
  <2>4. \A t \in Tunings : Retuned(t) = Rejected <=> t \notin {"none", "wide", "heavy"} \cup {"auto"}
    BY <2>2 DEF Tunings, Rejected
  <2>5. \A t \in {"none", "wide", "heavy"} : \E bit \in 0..4 : Retuned(t) % 64 = 2^bit
    BY <2>2, FlagBits DEF Tunings
  <2>6. \A t, u \in {"none", "wide", "heavy"} : Retuned(t) = Retuned(u) => t = u
    BY <2>2 DEF Tunings
  <2>7. Retuned("auto") = Retuned("none")
    BY <2>2 DEF Tunings
  <2>8. \A s \in Storages : Stored(s) = Stored(c.storage)
    BY <1>1, <2>3
  <2>9. Schedule(Native(c)).threads = 0
    BY <1>4, ScheduleOf
  <2> QED BY <1>4, <2>4, <2>5, <2>6, <2>7, <2>8, <2>9 DEF Documented, Retuned, Stored
<1> QED BY <1>1, <1>2, <1>3, <1>4

\* Whatever the tuning and storage of an accepted configuration, MNN is given the
\* flags README.md and config.rs promise, and never flags for a thread count.
THEOREM FlagsDocumented == Spec => []GpuModeDocumented
<1>1. ASSUME CacheInv
      PROVE  GpuModeDocumented
  <2>1. \A m \in Models : Config(m) \in RuntimeConfig /\ RuntimeNew(Config(m)) = "ok"
    BY <1>1, KernelCacheAssumption DEF CacheInv, World, Config
  <2>2. \A m \in Models : Documented(Config(m))
    BY <2>1, AcceptedDocumented
  <2> QED BY <2>2 DEF GpuModeDocumented, Documented
<1> QED BY <1>1, CacheInductive, PTL

-----------------------------------------------------------------------------
(* Saves and threads.                                                      *)

Opened(m) == phase[m] = "opened" \/ session[m] = "gpu"

\* Whoever has read its file knows everything in it that is not in since.  While
\* it writes, that also goes for a file other writers have left half done.
Memory ==
  /\ since \in [Models -> SUBSET Kernels]
  /\ \A m \in Models :
       /\ session[m] = "cpu" => held[m] = {}
       /\ phase[m] \in {"probed", "writing"} => Caching(m)
       /\ Opened(m) /\ Caching(m) /\ (file[KeyOf(m)].state = "whole" \/ phase[m] = "writing")
            => file[KeyOf(m)].kernels \subseteq held[m] \cup since[m]

\* The step another model makes on the file of m leaves in it what was there, less,
\* or what since then contains.
LEMMA OthersRemembered ==
  ASSUME CacheInv, Memory, NEW m \in Models,
         UNCHANGED <<setup, version>>,
         phase'[m] = phase[m], session'[m] = session[m], held'[m] = held[m],
         since[m] \subseteq since'[m],
         \/ file'[KeyOf(m)] = file[KeyOf(m)]
         \/ file'[KeyOf(m)].kernels = {}
         \/ Opened(m) => file'[KeyOf(m)].kernels \subseteq since'[m]
  PROVE  (Opened(m) /\ Caching(m) /\ (file[KeyOf(m)].state = "whole" \/ phase[m] = "writing")
            => file[KeyOf(m)].kernels \subseteq held[m] \cup since[m])'
BY DEF Memory, Opened, KeyOf, Caching, Config

LEMMA MemoryInit == Init => Memory
BY DEF Init, Memory, Opened

\* A file that did not exist is empty.
LEMMA TouchedFile ==
  ASSUME CacheInv, NEW k \in Keys, NEW l \in Keys, file' = Touched(k)
  PROVE  file'[l] = file[l] \/ (file'[l].kernels = {} /\ file[l].state = "absent")
BY DEF CacheInv, Contents, Touched, Absent, Whole

LEMMA MemoryStep ==
  ASSUME CacheInv, CacheInv', Memory, Next
  PROVE  Memory'
<1> USE DEF instance, gateVars, engineVars, history, GoTo, Gone, Silent, Returns
<1> DEFINE Remembers(m) ==
             Opened(m) /\ Caching(m) /\ (file[KeyOf(m)].state = "whole" \/ phase[m] = "writing")
               => file[KeyOf(m)].kernels \subseteq held[m] \cup since[m]
           Tame(m) == /\ session[m] = "cpu" => held[m] = {}
                      /\ phase[m] \in {"probed", "writing"} => Caching(m)
<1>types. /\ phase \in [Models -> Phases] /\ session \in [Models -> {"none", "cpu", "gpu"}]
          /\ held \in [Models -> SUBSET Kernels] /\ since \in [Models -> SUBSET Kernels]
          /\ file \in [Keys -> [state : States, kernels : SUBSET Kernels]]
          /\ \A m \in Models : KeyOf(m) \in Keys
          /\ \A m \in Models : session[m] = "none" <=> phase[m] \in {"absent", "loading", "opened", "gone"}
  BY OwnFile DEF CacheInv, Places, Contents, Memory
\* Steps of one model that leave its file alone, and forget nothing.
<1>1. ASSUME NEW m \in Models, UNCHANGED <<setup, version, file, since>>,
             \A n \in Models \ {m} : phase'[n] = phase[n] /\ session'[n] = session[n] /\ held'[n] = held[n],
             Opened(m)' /\ Caching(m) => Opened(m) /\ held[m] \subseteq held'[m],
             phase'[m] # "writing", phase'[m] = "probed" => phase[m] = "probed",
             session'[m] = "cpu" => held'[m] = {}
      PROVE  Memory'
  <2>1. since' \in [Models -> SUBSET Kernels']
    BY <1>1, <1>types DEF Kernels
  <2>2. \A n \in Models : Tame(n)'
    BY <1>1, <1>types DEF Memory, Caching, Config
  <2>3. ASSUME NEW n \in Models PROVE Remembers(n)'
    <3>1. CASE n = m
      BY <1>1, <3>1 DEF Memory, Caching, Config, KeyOf
    <3>2. CASE n # m
      BY <1>1, <3>2, OthersRemembered
    <3> QED BY <3>1, <3>2
  <2> QED BY <2>1, <2>2, <2>3 DEF Memory
<1>2. ASSUME NEW m \in Models, Load(m) PROVE Memory'
  <2>1. phase'[m] = "loading" /\ session'[m] = "none" /\ held'[m] = held[m]
    BY <1>2, <1>types DEF Load
  <2> QED BY <1>1, <1>2, <1>types, <2>1 DEF Load, Opened
<1>3. ASSUME NEW m \in Models, LoadFails(m) PROVE Memory'
  <2>1. phase'[m] = "gone" /\ session'[m] = "none"
    BY <1>3, <1>types DEF LoadFails
  <2> QED BY <1>1, <1>3, <1>types, <2>1 DEF LoadFails, Opened
<1>4. ASSUME NEW m \in Models, OpenCache(m) PROVE Memory'
  <2> USE <1>4 DEF OpenCache
  <2>1. since' \in [Models -> SUBSET Kernels']
    BY <1>types DEF Kernels
  <2>2. phase'[m] = "opened" /\ session'[m] = "none" /\ held'[m] = Loaded(m)
    BY <1>types
  <2>3. \A n \in Models \ {m} : phase'[n] = phase[n] /\ session'[n] = session[n]
                               /\ held'[n] = held[n] /\ since'[n] = since[n]
    BY <1>types
  <2>4. \A n \in Models : Tame(n)'
    BY <2>2, <2>3 DEF Memory, Caching, Config
  <2>5. \A l \in Keys : file'[l] = file[l] \/ (file'[l].kernels = {} /\ file[l].state = "absent")
    BY <1>types, TouchedFile
  <2>6. ASSUME NEW n \in Models PROVE Remembers(n)'
    <3>1. CASE n = m
      BY <1>types, <2>2, <2>5, <3>1 DEF Loaded, Caching, Config, KeyOf
    <3>2. CASE n # m
      BY <1>types, <2>3, <2>5, <3>2, OthersRemembered
    <3> QED BY <3>1, <3>2
  <2> QED BY <2>1, <2>4, <2>6 DEF Memory
<1>5. ASSUME NEW m \in Models, CreateSession(m) PROVE Memory'
  <2>1. PICK on \in SessionOn(m) :
          /\ session' = [session EXCEPT ![m] = on]
          /\ held' = [held EXCEPT ![m] = IF on = "gpu" THEN @ ELSE {}]
    BY <1>5 DEF CreateSession
  <2>2. phase'[m] = "created" /\ phase[m] = "opened" /\ session'[m] = on
        /\ held'[m] = IF on = "gpu" THEN held[m] ELSE {}
    BY <1>5, <1>types, <2>1 DEF CreateSession
  <2> QED BY <1>1, <1>5, <1>types, <2>1, <2>2 DEF CreateSession, Opened
<1>6. ASSUME NEW m \in Models, Inspect(m) PROVE Memory'
  <2>1. CASE UNCHANGED <<session, held>> /\ phase' = [phase EXCEPT ![m] = "live"]
    BY <1>1, <1>6, <1>types, <2>1 DEF Inspect, Opened, Memory
  <2>2. CASE Gone(m)
    <3>1. phase'[m] = "gone" /\ session'[m] = "none"
      BY <1>types, <2>2
    <3> QED BY <1>1, <1>6, <1>types, <2>2, <3>1 DEF Inspect, Opened
  <2> QED BY <1>6, <2>1, <2>2 DEF Inspect
<1>7. ASSUME NEW m \in Models, Infer(m) PROVE Memory'
  <2>1. CASE session[m] = "gpu" /\ held' = [held EXCEPT ![m] = @ \cup Tuned(m)]
             /\ UNCHANGED <<phase, session>>
    <3>1. phase'[m] = "live"
      BY <1>7, <2>1 DEF Infer
    <3> QED BY <1>1, <1>7, <1>types, <2>1, <3>1 DEF Infer, Opened
  <2>2. CASE Gone(m)
    <3>1. phase'[m] = "gone" /\ session'[m] = "none"
      BY <1>types, <2>2
    <3> QED BY <1>1, <1>7, <1>types, <2>2, <3>1 DEF Infer, Opened
  <2> QED BY <1>7, <2>1, <2>2 DEF Infer
<1>8. ASSUME NEW m \in Models, BeginSave(m) PROVE Memory'
  <2>1. phase'[m] = "saving"
    BY <1>8, <1>types DEF BeginSave
  <2> QED BY <1>1, <1>8, <1>types, <2>1 DEF BeginSave, Opened, Memory
<1>9. ASSUME NEW m \in Models, Probe(m) PROVE Memory'
  <2> USE <1>9 DEF Probe
  <2>1. since' \in [Models -> SUBSET Kernels'] /\ UNCHANGED <<setup, version, session, held, since>>
    BY <1>types DEF Kernels
  <2>2. phase'[m] = "probed" /\ phase[m] = "saving"
        /\ \A n \in Models \ {m} : phase'[n] = phase[n]
    BY <1>types
  <2>3. \A n \in Models : Tame(n)'
    BY <2>1, <2>2 DEF Memory, Caching, Config
  <2>4. \A l \in Keys : file'[l] = file[l] \/ (file'[l].kernels = {} /\ file[l].state = "absent")
    BY <1>types, TouchedFile
  <2>5. ASSUME NEW n \in Models PROVE Remembers(n)'
    <3>1. CASE n = m
      BY <1>types, <2>1, <2>2, <2>4, <3>1 DEF Memory, Opened, Caching, Config, KeyOf
    <3>2. CASE n # m
      BY <1>types, <2>1, <2>2, <2>4, <3>2, OthersRemembered
    <3> QED BY <3>1, <3>2
  <2> QED BY <2>1, <2>3, <2>5 DEF Memory
<1>10. ASSUME NEW m \in Models, BeginWrite(m) PROVE Memory'
  <2> USE <1>10 DEF BeginWrite
  <2>1. since' \in [Models -> SUBSET Kernels'] /\ UNCHANGED <<setup, version, session, held, since>>
    BY <1>types DEF Kernels
  <2>2. phase'[m] = "writing" /\ phase[m] = "probed"
        /\ \A n \in Models \ {m} : phase'[n] = phase[n]
    BY <1>types
  <2>3. \A n \in Models : Tame(n)'
    BY <2>1, <2>2 DEF Memory, Caching, Config
  <2>4. \A l \in Keys : file'[l] = file[l] \/ file'[l].kernels = {}
    BY <1>types DEF Torn
  <2>5. file'[KeyOf(m)].kernels = {}
    BY <1>types DEF Torn
  <2>6. ASSUME NEW n \in Models PROVE Remembers(n)'
    <3>1. CASE n = m
      BY <2>1, <2>5, <3>1 DEF KeyOf
    <3>2. CASE n # m
      BY <1>types, <2>1, <2>2, <2>4, <3>2, OthersRemembered
    <3> QED BY <3>1, <3>2
  <2> QED BY <2>1, <2>3, <2>6 DEF Memory
<1>11. ASSUME NEW m \in Models, SaveNothing(m) \/ WriteNothing(m) PROVE Memory'
  <2>1. UNCHANGED <<setup, version, file, since>> /\ (m \in leaving => Gone(m))
        /\ (m \notin leaving => phase' = [phase EXCEPT ![m] = "live"] /\ UNCHANGED <<session, held>>)
        /\ phase[m] \in {"saving", "probed"}
    BY <1>11 DEF SaveNothing, WriteNothing, Saved
  <2>2. CASE m \in leaving
    <3>1. phase'[m] = "gone" /\ session'[m] = "none"
      BY <1>types, <2>1, <2>2
    <3> QED BY <1>1, <1>types, <2>1, <2>2, <3>1 DEF Opened
  <2>3. CASE m \notin leaving
    BY <1>1, <1>types, <2>1, <2>3 DEF Opened, Memory
  <2> QED BY <2>2, <2>3
<1>12. ASSUME NEW m \in Models, EndWrite(m) PROVE Memory'
  <2> DEFINE k == KeyOf(m)
             outcomes == IF Writers(k) # {m} THEN {Torn("clashed", held[m])}
                         ELSE {Whole(held[m])} \cup
                              IF file[k].state = "open" THEN {}
                              ELSE {Whole(file[k].kernels), Torn("broken", {})}
  <2>1. PICK outcome \in outcomes :
          /\ file' = [file EXCEPT ![KeyOf(m)] = outcome]
          /\ since' = [n \in Models |->
                         IF n # m /\ KeyOf(n) = KeyOf(m) /\ phase[n] \notin {"absent", "loading", "gone"}
                         THEN since[n] \cup outcome.kernels ELSE since[n]]
    BY <1>12 DEF EndWrite
  <2>2. outcome.kernels \in {held[m], file[KeyOf(m)].kernels, {}}
    BY DEF Torn, Whole
  <2>3. outcome.kernels \subseteq Kernels
    BY <1>types, <2>2
  <2> HIDE DEF outcomes, k
  <2>4. UNCHANGED <<setup, version>> /\ phase[m] = "writing" /\ (m \in leaving => Gone(m))
        /\ (m \notin leaving => phase' = [phase EXCEPT ![m] = "live"] /\ UNCHANGED <<session, held>>)
    BY <1>12 DEF EndWrite, Saved
  <2>5. since' \in [Models -> SUBSET Kernels']
    BY <1>types, <2>3, <2>1, <2>4 DEF Kernels
  <2>6. /\ \A n \in Models \ {m} : phase'[n] = phase[n] /\ session'[n] = session[n] /\ held'[n] = held[n]
        /\ \/ phase'[m] = "gone" /\ session'[m] = "none"
           \/ phase'[m] = "live" /\ session'[m] = session[m] /\ held'[m] = held[m]
    BY <1>types, <2>4
  <2>7. \A n \in Models : Tame(n)'
    BY <2>4, <2>6 DEF Memory, Caching, Config
  <2>8. ASSUME NEW n \in Models PROVE Remembers(n)'
    <3>1. CASE n = m
      <4>1. file'[KeyOf(m)].kernels \in {held[m], file[KeyOf(m)].kernels, {}} /\ since'[m] = since[m]
        BY <1>types, <2>1, <2>2
      <4> QED BY <2>4, <2>6, <3>1, <4>1 DEF Memory, Opened, Caching, Config, KeyOf
    <3>2. CASE n # m
      <4>1. since[n] \subseteq since'[n]
        BY <2>1
      <4>2. Opened(n) => phase[n] \notin {"absent", "loading", "gone"}
        BY <1>types DEF Opened
      <4>3. \/ file'[KeyOf(n)] = file[KeyOf(n)]
            \/ Opened(n) => file'[KeyOf(n)].kernels \subseteq since'[n]
        BY <1>types, <2>1, <3>2, <4>2
      <4> QED BY <2>4, <2>6, <3>2, <4>1, <4>3, OthersRemembered
    <3> QED BY <3>1, <3>2
  <2> QED BY <2>5, <2>7, <2>8 DEF Memory
<1>13. ASSUME NEW m \in Models, Obstruct(m) PROVE Memory'
  BY <1>13 DEF Obstruct, Memory, Opened, Caching, Config, KeyOf, Kernels
<1>14. CASE Restart
  BY <1>14 DEF Restart, Memory, Opened
<1>15. CASE Finished
  BY <1>15 DEF Finished, vars, Memory, Opened, Caching, Config, KeyOf, Kernels
<1> QED BY <1>2, <1>3, <1>4, <1>5, <1>6, <1>7, <1>8, <1>9, <1>10, <1>11, <1>12, <1>13, <1>14, <1>15
        DEF Next

\* A save overwrites nothing but what others left in the file since it was read:
\* the kernels of earlier processes are loaded, since the cache is set before the
\* session is created.
THEOREM CacheKept == Spec => []NothingForgotten
<1>1. Memory /\ CacheInv => NothingForgotten
  BY DEF Memory, CacheInv, Places, NothingForgotten, Opened
<1>2. CacheInv /\ Memory /\ CacheInv' /\ [Next]_vars => Memory'
  <2>1. CASE Next
    BY <2>1, MemoryStep
  <2>2. CASE UNCHANGED vars
    BY <2>2 DEF vars, Memory, Opened, Caching, Config, KeyOf, Kernels
  <2> QED BY <2>1, <2>2
<1> QED BY <1>1, <1>2, MemoryInit, CacheInductive, PTL DEF Spec

-----------------------------------------------------------------------------

\* A save that was doomed when it began is still before the probe that refuses it,
\* and whoever writes a file of serialized models writes it alone.
Saving ==
  \A m \in Models :
    /\ phase[m] \in {"saving", "probed", "writing"} /\ m \in doomed
         => phase[m] = "saving" /\ Caching(m) /\ KeyOf(m) \in obstructed
    /\ phase[m] = "writing" /\ (\A n \in Models : KeyOf(n) = KeyOf(m) => Serialized(n))
         => file[KeyOf(m)].state = "open"

LEMMA SavingInit == Init => Saving
BY DEF Init, Saving

\* While it writes, nobody else touches a file that only serialized models have.
LEMMA WriterAlone ==
  ASSUME CacheInv, NEW m \in Models, NEW n \in Models \ {m},
         phase[m] = "writing", \A l \in Models : KeyOf(l) = KeyOf(m) => Serialized(l),
         KeyOf(n) = KeyOf(m)
  PROVE  phase[n] \in {"absent", "live", "gone"}
BY DEF CacheInv, Places

LEMMA SavingStep ==
  ASSUME CacheInv, Saving, Next
  PROVE  Saving'
<1> USE DEF instance, gateVars, engineVars, history, GoTo, Gone, Caching, KeyOf, Serialized, Config
<1>types. /\ phase \in [Models -> Phases]
          /\ file \in [Keys -> [state : States, kernels : SUBSET Kernels]]
          /\ \A m \in Models : KeyOf(m) \in Keys
  BY OwnFile DEF CacheInv, Places, Contents
\* A step of m that changes no file but its own, before or after the writing.
<1>1. ASSUME NEW m \in Models, UNCHANGED <<setup, version, doomed>>, obstructed \subseteq obstructed',
             \A n \in Models \ {m} : phase'[n] = phase[n],
             \/ phase'[m] \notin {"saving", "probed", "writing"}
             \/ phase'[m] = phase[m]
             \/ phase'[m] \in {"probed", "writing"} /\ phase[m] \in {"saving", "probed"}
                  /\ (m \in doomed => KeyOf(m) \notin obstructed),
             phase'[m] = "writing" => phase[m] = "writing"
                  \/ file'[KeyOf(m)].state = "open" \/ ~\A n \in Models : KeyOf(n) = KeyOf(m) => Serialized(n),
             \/ file' = file
             \/ phase[m] \notin {"absent", "live", "gone"}
                  /\ \A k \in Keys \ {KeyOf(m)} : file'[k] = file[k],
             phase[m] = "writing" /\ phase'[m] = "writing" => file' = file
      PROVE  Saving'
  <2> SUFFICES ASSUME NEW n \in Models
               PROVE  (/\ phase[n] \in {"saving", "probed", "writing"} /\ n \in doomed
                           => phase[n] = "saving" /\ Caching(n) /\ KeyOf(n) \in obstructed
                       /\ phase[n] = "writing" /\ (\A l \in Models : KeyOf(l) = KeyOf(n) => Serialized(l))
                           => file[KeyOf(n)].state = "open")'
    BY DEF Saving
  <2>1. CASE n = m
    BY <1>1, <2>1 DEF Saving
  <2>2. CASE n # m
    <3>1. ASSUME phase[n] = "writing", \A l \in Models : KeyOf(l) = KeyOf(n) => Serialized(l)
          PROVE  file'[KeyOf(n)].state = "open"
      <4>1. file[KeyOf(n)].state = "open"
        BY <3>1 DEF Saving
      <4>2. KeyOf(m) = KeyOf(n) => phase[m] \in {"absent", "live", "gone"}
        BY <2>2, <3>1, WriterAlone
      <4> QED BY <1>1, <1>types, <4>1, <4>2
    <3> QED BY <1>1, <2>2, <3>1 DEF Saving
  <2> QED BY <2>1, <2>2
<1>2. ASSUME NEW m \in Models, Load(m) \/ LoadFails(m) \/ CreateSession(m) \/ Inspect(m) PROVE Saving'
  <2>1. /\ UNCHANGED <<setup, version, doomed, obstructed, file>>
        /\ phase'[m] \notin {"saving", "probed", "writing"}
        /\ \A n \in Models \ {m} : phase'[n] = phase[n]
    BY <1>2, <1>types DEF Load, LoadFails, CreateSession, Inspect
  <2> QED BY <1>1, <2>1
<1>3. ASSUME NEW m \in Models, Infer(m) PROVE Saving'
  <2>1. /\ UNCHANGED <<setup, version, doomed, obstructed, file>>
        /\ phase'[m] \notin {"saving", "probed", "writing"}
        /\ \A n \in Models \ {m} : phase'[n] = phase[n]
    BY <1>3, <1>types DEF Infer
  <2> QED BY <1>1, <2>1
<1>4. ASSUME NEW m \in Models, OpenCache(m) PROVE Saving'
  <2>1. /\ UNCHANGED <<setup, version, doomed, obstructed>>
        /\ phase'[m] = "opened" /\ phase[m] = "loading"
        /\ \A n \in Models \ {m} : phase'[n] = phase[n]
        /\ \A k \in Keys \ {KeyOf(m)} : file'[k] = file[k]
    BY <1>4, <1>types DEF OpenCache, Touched
  <2> QED BY <1>1, <2>1
<1>5. ASSUME NEW m \in Models, BeginSave(m) PROVE Saving'
  <2>1. /\ UNCHANGED <<setup, version, obstructed, file>>
        /\ phase'[m] = "saving" /\ \A n \in Models \ {m} : phase'[n] = phase[n]
        /\ m \in doomed' => Caching(m) /\ KeyOf(m) \in obstructed
        /\ \A n \in Models \ {m} : n \in doomed' => n \in doomed
    BY <1>5, <1>types DEF BeginSave
  <2> QED BY <2>1 DEF Saving
<1>6. ASSUME NEW m \in Models, Probe(m) PROVE Saving'
  <2>1. /\ UNCHANGED <<setup, version, doomed, obstructed>>
        /\ phase'[m] = "probed" /\ phase[m] = "saving" /\ KeyOf(m) \notin obstructed
        /\ \A n \in Models \ {m} : phase'[n] = phase[n]
        /\ \A k \in Keys \ {KeyOf(m)} : file'[k] = file[k]
    BY <1>6, <1>types DEF Probe, Touched
  <2> QED BY <1>1, <2>1
<1>7. ASSUME NEW m \in Models, BeginWrite(m) PROVE Saving'
  <2>1. /\ UNCHANGED <<setup, version, doomed, obstructed>>
        /\ phase'[m] = "writing" /\ phase[m] = "probed" /\ KeyOf(m) \notin obstructed
        /\ \A n \in Models \ {m} : phase'[n] = phase[n]
        /\ \A k \in Keys \ {KeyOf(m)} : file'[k] = file[k]
        /\ Writers(KeyOf(m)) = {} => file'[KeyOf(m)].state = "open"
    BY <1>7, <1>types DEF BeginWrite, Torn
  <2>2. (\A n \in Models : KeyOf(n) = KeyOf(m) => Serialized(n)) => Writers(KeyOf(m)) = {}
    BY <2>1 DEF CacheInv, Places, Writers
  <2> QED BY <1>1, <2>1, <2>2
<1>8. ASSUME NEW m \in Models, SaveNothing(m) \/ WriteNothing(m) \/ EndWrite(m) PROVE Saving'
  <2>1. /\ UNCHANGED <<setup, version, doomed, obstructed>>
        /\ phase'[m] \in {"live", "gone"} /\ phase[m] \in {"saving", "probed", "writing"}
        /\ \A n \in Models \ {m} : phase'[n] = phase[n]
    BY <1>8, <1>types DEF SaveNothing, WriteNothing, EndWrite, Saved
  <2>2. \A k \in Keys \ {KeyOf(m)} : file'[k] = file[k]
    BY <1>8, <1>types DEF SaveNothing, WriteNothing, EndWrite
  <2> QED BY <1>1, <2>1, <2>2
<1>9. ASSUME NEW m \in Models, Obstruct(m) PROVE Saving'
  BY <1>9 DEF Obstruct, Saving
<1>10. CASE Restart
  BY <1>10 DEF Restart, Saving
<1>11. CASE Finished
  BY <1>11 DEF Finished, vars, Saving
<1> QED BY <1>2, <1>3, <1>4, <1>5, <1>6, <1>7, <1>8, <1>9, <1>10, <1>11 DEF Next

\* save_cache reports a file that cannot be opened, and after an "ok" the file of
\* serialized models holds what was tuned.
THEOREM SavesReported == Spec => SaveReported
<1> DEFINE Reported ==
      \A m \in Models : Saves(m) =>
        /\ m \in doomed => reply' = "error"
        /\ /\ Caching(m) /\ reply' = "ok" /\ KeyOf(m) \notin obstructed
           /\ \A n \in Models : KeyOf(n) = KeyOf(m) => Serialized(n)
           => held[m] \subseteq file'[KeyOf(m)].kernels
<1>1. ASSUME CacheInv, Saving, Next PROVE Reported
  <2> SUFFICES ASSUME NEW m \in Models, Saves(m)
               PROVE  /\ m \in doomed => reply' = "error"
                      /\ /\ Caching(m) /\ reply' = "ok" /\ KeyOf(m) \notin obstructed
                         /\ \A n \in Models : KeyOf(n) = KeyOf(m) => Serialized(n)
                         => held[m] \subseteq file'[KeyOf(m)].kernels
    OBVIOUS
  <2> USE <1>1
  <2>1. /\ phase \in [Models -> Phases]
        /\ file \in [Keys -> [state : States, kernels : SUBSET Kernels]]
        /\ KeyOf(m) \in Keys
    BY OwnFile DEF CacheInv, Places, Contents
  <2>2. SaveNothing(m) \/ WriteNothing(m) \/ EndWrite(m)
    <3>1. ASSUME NEW n \in Models,
                 Load(n) \/ LoadFails(n) \/ OpenCache(n) \/ CreateSession(n) \/ Inspect(n)
                   \/ Infer(n) \/ BeginSave(n) \/ Probe(n) \/ BeginWrite(n) \/ Obstruct(n)
          PROVE  FALSE
      <4>1. \/ phase' = phase
            \/ phase[n] \notin {"saving", "probed", "writing"} /\ phase' = [phase EXCEPT ![n] = phase'[n]]
            \/ phase'[n] \in {"probed", "writing"} /\ phase' = [phase EXCEPT ![n] = phase'[n]]
        BY <2>1, <3>1 DEF Load, LoadFails, OpenCache, CreateSession, Inspect, Infer, BeginSave,
                          Probe, BeginWrite, Obstruct, GoTo, Gone
      <4> QED BY <2>1, <4>1 DEF Saves
    <3>2. ASSUME NEW n \in Models \ {m}, SaveNothing(n) \/ WriteNothing(n) \/ EndWrite(n)
          PROVE  FALSE
      BY <2>1, <3>2 DEF SaveNothing, WriteNothing, EndWrite, Saved, GoTo, Gone, Saves
    <3>3. ~Restart
      BY DEF Restart, Saves, CacheInv, World
    <3>4. ~Finished
      BY DEF Finished, vars, Saves
    <3> QED BY <3>1, <3>2, <3>3, <3>4 DEF Next
  <2>3. CASE SaveNothing(m)
    BY <2>3 DEF SaveNothing, Saved, Returns, Saving
  <2>4. CASE WriteNothing(m)
    BY <2>4 DEF WriteNothing, Saved, Returns, Saving
  <2>5. CASE EndWrite(m)
    <3>1. m \notin doomed
      BY <2>5 DEF EndWrite, Saving
    <3>2. ASSUME \A n \in Models : KeyOf(n) = KeyOf(m) => Serialized(n)
          PROVE  held[m] \subseteq file'[KeyOf(m)].kernels
      <4>1. phase[m] = "writing" /\ file[KeyOf(m)].state = "open"
        BY <2>5, <3>2 DEF EndWrite, Saving
      <4>2. Writers(KeyOf(m)) = {m}
        BY <3>2, <4>1, WriterAlone DEF Writers
      <4>3. file' = [file EXCEPT ![KeyOf(m)] = Whole(held[m])]
        BY <2>5, <4>1, <4>2 DEF EndWrite
      <4> QED BY <2>1, <4>3 DEF Whole
    <3> QED BY <3>1, <3>2
  <2> QED BY <2>2, <2>3, <2>4, <2>5
<1>2. CacheInv /\ Saving /\ [Next]_vars => [Reported]_vars
  BY <1>1
<1>3. CacheInv /\ Saving /\ [Next]_vars => Saving'
  <2>1. CASE UNCHANGED vars
    BY <2>1 DEF vars, Saving, Caching, KeyOf, Serialized, Config
  <2> QED BY <2>1, SavingStep
<1> HIDE DEF Reported
<1>4. Spec => [][Reported]_vars
  BY <1>2, <1>3, SavingInit, CacheInductive, PTL DEF Spec
<1> QED BY <1>4 DEF Reported, SaveReported

-----------------------------------------------------------------------------

\* The pool is sized by the first CPU session with several threads and stays; a
\* session just created has the threads it asked for, or all there are.
Budget ==
  /\ effective \in [Models -> Nat]
  /\ pool # 1
  /\ \A m \in Models : phase[m] = "created" =>
       /\ effective[m] = 0 <=> session[m] = "gpu"
       /\ \/ effective[m] \in {0, Config(m).threads}
          \/ 1 < pool /\ pool < Config(m).threads
          \/ Config(m).backend \in {"opencl", "vulkan"}

\* Only GPU flags are taken for another number of threads.
LEMMA ThreadsAsked ==
  ASSUME World, NEW m \in Models, Config(m).backend \notin {"opencl", "vulkan"}
  PROVE  Threads(m) = {Config(m).threads}
<1> DEFINE c == Config(m)
<1>1. c \in RuntimeConfig /\ RuntimeNew(c) = "ok"
  BY KernelCacheAssumption DEF KernelCacheAssumption, World, Config
<1>2. c.backend \in Backends \ {"opencl", "vulkan"}
  BY <1>1 DEF RuntimeConfig
<1>3. c.threads # 0
  <2>1. c.threads \in 1..32
    <3> HIDE DEF c
    <3>1. SUFFICES ASSUME c.threads \notin 1..32 PROVE FALSE
      OBVIOUS
    <3> QED BY <1>1, <3>1 DEF RuntimeNew
  <2> QED BY <2>1
<1>4. Native(c).threads = c.threads
  BY DEF Native
<1>5. Native(c).backend \notin {3, 7}
  <2> HIDE DEF c
  <2> QED BY <1>2 DEF Native, Backends
<1>6. Schedule(Native(c)) = [type |-> Native(c).backend, mode |-> 0, threads |-> c.threads]
  BY <1>4, <1>5 DEF Schedule
<1> HIDE DEF c
<1> QED BY <1>3, <1>6 DEF Threads, c

LEMMA BudgetInit == Init => Budget
BY DEF Init, Budget

LEMMA BudgetStep ==
  ASSUME CacheInv, Budget, Next
  PROVE  Budget'
<1> USE DEF instance, gateVars, engineVars, history, GoTo, Gone, Config
<1>types. /\ phase \in [Models -> Phases] /\ session \in [Models -> {"none", "cpu", "gpu"}]
          /\ effective \in [Models -> Nat] /\ pool \in 0..32
  BY DEF CacheInv, World, Places, Budget
<1>1. ASSUME NEW m \in Models, UNCHANGED <<setup, pool>>,
             \A n \in Models \ {m} : phase'[n] = phase[n] /\ session'[n] = session[n]
                                    /\ effective'[n] = effective[n],
             effective' \in [Models -> Nat], phase'[m] # "created"
      PROVE  Budget'
  <2> SUFFICES ASSUME NEW n \in Models, phase'[n] = "created"
               PROVE  /\ effective'[n] = 0 <=> session'[n] = "gpu"
                      /\ \/ effective'[n] \in {0, Config(n).threads}
                         \/ 1 < pool /\ pool < Config(n).threads
                         \/ Config(n).backend \in {"opencl", "vulkan"}
    BY <1>1 DEF Budget
  <2> QED BY <1>1 DEF Budget
<1>2. ASSUME NEW m \in Models, Load(m) \/ OpenCache(m) \/ BeginSave(m) \/ Probe(m) \/ BeginWrite(m)
      PROVE  Budget'
  <2>1. UNCHANGED <<setup, pool, session, effective>> /\ phase'[m] # "created"
        /\ \A n \in Models \ {m} : phase'[n] = phase[n]
    BY <1>2, <1>types DEF Load, OpenCache, BeginSave, Probe, BeginWrite
  <2> QED BY <1>1, <1>types, <2>1
<1>3. ASSUME NEW m \in Models, LoadFails(m) \/ Inspect(m) \/ Infer(m) \/ SaveNothing(m)
                               \/ WriteNothing(m) \/ EndWrite(m)
      PROVE  Budget'
  <2> DEFINE Stays == /\ UNCHANGED <<session, effective>>
                      /\ \/ phase' = [phase EXCEPT ![m] = "live"]
                         \/ phase' = phase /\ phase[m] = "live"
  <2>1. UNCHANGED <<setup, pool>> /\ (Stays \/ Gone(m))
    <3>1. CASE LoadFails(m)
      BY <3>1 DEF LoadFails
    <3>2. CASE Inspect(m)
      BY <3>2 DEF Inspect
    <3>3. CASE Infer(m)
      BY <3>3 DEF Infer
    <3>4. CASE SaveNothing(m) \/ WriteNothing(m) \/ EndWrite(m)
      BY <3>4 DEF SaveNothing, WriteNothing, EndWrite, Saved
    <3> QED BY <1>3, <3>1, <3>2, <3>3, <3>4
  <2>2. CASE Gone(m)
    <3>1. effective' \in [Models -> Nat] /\ phase'[m] # "created"
          /\ \A n \in Models \ {m} : phase'[n] = phase[n] /\ session'[n] = session[n]
                                     /\ effective'[n] = effective[n]
      BY <1>types, <2>2
    <3> QED BY <1>1, <2>1, <3>1
  <2>3. CASE Stays
    <3>1. phase'[m] # "created" /\ \A n \in Models \ {m} : phase'[n] = phase[n]
      BY <1>types, <2>3
    <3> QED BY <1>1, <1>types, <2>1, <2>3, <3>1
  <2> QED BY <2>1, <2>2, <2>3
<1>4. ASSUME NEW m \in Models, CreateSession(m) PROVE Budget'
  <2>1. PICK on \in SessionOn(m), threads \in Threads(m) :
          /\ session' = [session EXCEPT ![m] = on]
          /\ pool' = IF on = "cpu" /\ threads > 1 /\ pool = 0 THEN threads ELSE pool
          /\ effective' = [effective EXCEPT ![m] = Effective(m, on, threads, pool')]
    BY <1>4 DEF CreateSession
  <2>2. threads \in 1..32 /\ on \in {"cpu", "gpu"}
    BY ThreadTypes DEF CacheInv, SessionOn
  <2>3. pool' \in 0..32 /\ pool' # 1 /\ (pool # 0 => pool' = pool)
    BY <1>types, <2>1, <2>2 DEF Budget
  <2>4. /\ effective'[m] \in Nat
        /\ effective'[m] = 0 <=> on = "gpu"
        /\ effective'[m] \in {0, threads} \/ (1 < pool' /\ pool' < threads)
    BY <1>types, <2>1, <2>2, <2>3 DEF Effective
  <2>5. Config(m).backend \notin {"opencl", "vulkan"} => threads = Config(m).threads
    BY <2>1, ThreadsAsked DEF CacheInv
  <2>6. effective' \in [Models -> Nat]
    BY <1>types, <2>1, <2>4
  <2>7. UNCHANGED setup /\ \A n \in Models \ {m} : phase'[n] = phase[n]
    BY <1>4, <1>types DEF CreateSession
  <2>8. ASSUME NEW n \in Models, phase'[n] = "created"
        PROVE  /\ effective'[n] = 0 <=> session'[n] = "gpu"
               /\ \/ effective'[n] \in {0, Config(n).threads}
                  \/ 1 < pool' /\ pool' < Config(n).threads
                  \/ Config(n).backend \in {"opencl", "vulkan"}
    <3>1. CASE n = m
      BY <1>types, <2>1, <2>4, <2>5, <3>1
    <3>2. CASE n # m
      <4>1. phase[n] = "created" /\ session'[n] = session[n] /\ effective'[n] = effective[n]
        BY <1>types, <2>1, <2>7, <2>8, <3>2
      <4>2. 1 < pool => pool' = pool
        BY <1>types, <2>3
      <4> QED BY <4>1, <4>2 DEF Budget
    <3> QED BY <3>1, <3>2
  <2> QED BY <2>3, <2>6, <2>7, <2>8 DEF Budget
<1>5. ASSUME NEW m \in Models, Obstruct(m) PROVE Budget'
  BY <1>5 DEF Obstruct, Budget
<1>6. CASE Restart
  BY <1>6 DEF Restart, Budget
<1>7. CASE Finished
  BY <1>7 DEF Finished, vars, Budget
<1> QED BY <1>2, <1>3, <1>4, <1>5, <1>6, <1>7 DEF Next

\* Whichever model sized the pool: a model that loads has the threads it was
\* configured with, and ThreadCountLimited has one of two causes.
THEOREM ThreadsHonoured == Spec => ThreadBudget
<1> DEFINE Honoured ==
      \A m \in Models : phase[m] = "created" /\ phase'[m] \in {"live", "gone"} /\ restarts' = restarts =>
        /\ phase'[m] = "live" /\ session[m] = "cpu" => effective[m] = Config(m).threads
        /\ phase'[m] = "live" => (effective[m] = 0 <=> session[m] = "gpu")
        /\ reply' = "limited" =>
             /\ session[m] = "cpu"
             /\ \/ 1 < pool /\ pool < Config(m).threads
                \/ Config(m).backend \in {"opencl", "vulkan"}
<1>1. ASSUME CacheInv, Budget, Next PROVE Honoured
  <2> SUFFICES ASSUME NEW m \in Models, phase[m] = "created", phase'[m] \in {"live", "gone"},
                      restarts' = restarts
               PROVE  /\ phase'[m] = "live" /\ session[m] = "cpu" => effective[m] = Config(m).threads
                      /\ phase'[m] = "live" => (effective[m] = 0 <=> session[m] = "gpu")
                      /\ reply' = "limited" =>
                           /\ session[m] = "cpu"
                           /\ \/ 1 < pool /\ pool < Config(m).threads
                              \/ Config(m).backend \in {"opencl", "vulkan"}
    OBVIOUS
  <2>1. phase \in [Models -> Phases] /\ session \in [Models -> {"none", "cpu", "gpu"}]
        /\ session[m] # "none"
    BY <1>1 DEF CacheInv, Places
  <2>2. Inspect(m)
    <3>1. ASSUME NEW n \in Models \ {m},
                 \/ Load(n) \/ LoadFails(n) \/ OpenCache(n) \/ CreateSession(n) \/ Inspect(n)
                 \/ Infer(n) \/ BeginSave(n) \/ Probe(n) \/ SaveNothing(n) \/ BeginWrite(n)
                 \/ WriteNothing(n) \/ EndWrite(n) \/ Obstruct(n)
          PROVE  FALSE
      <4>1. phase'[m] = phase[m]
        BY <2>1, <3>1 DEF Load, LoadFails, OpenCache, CreateSession, Inspect, Infer, BeginSave,
                          Probe, SaveNothing, BeginWrite, WriteNothing, EndWrite, Saved, Obstruct,
                          GoTo, Gone
      <4> QED BY <4>1
    <3>2. ASSUME \/ Load(m) \/ LoadFails(m) \/ OpenCache(m) \/ CreateSession(m)
                 \/ Infer(m) \/ BeginSave(m) \/ Probe(m) \/ SaveNothing(m) \/ BeginWrite(m)
                 \/ WriteNothing(m) \/ EndWrite(m) \/ Obstruct(m)
          PROVE  FALSE
      BY <3>2 DEF Load, LoadFails, OpenCache, CreateSession, Infer, BeginSave, Probe,
                  SaveNothing, BeginWrite, WriteNothing, EndWrite, Obstruct
    <3>3. ~Restart
      BY <1>1 DEF Restart, CacheInv, World
    <3>4. ~Finished
      BY DEF Finished, vars
    <3> QED BY <1>1, <3>1, <3>2, <3>3, <3>4 DEF Next
  <2>3. \/ ~Limited(m) /\ phase'[m] = "live" /\ reply' = "ok"
        \/ phase'[m] = "gone" /\ (reply' = "limited" => Limited(m))
    BY <2>1, <2>2 DEF Inspect, Returns, GoTo, Gone
  <2>4. /\ effective[m] = 0 <=> session[m] = "gpu"
        /\ \/ effective[m] \in {0, Config(m).threads}
           \/ 1 < pool /\ pool < Config(m).threads
           \/ Config(m).backend \in {"opencl", "vulkan"}
    BY <1>1 DEF Budget
  <2>5. CASE ~Limited(m) /\ phase'[m] = "live" /\ reply' = "ok"
    BY <2>1, <2>4, <2>5 DEF Limited
  <2>6. CASE phase'[m] = "gone" /\ (reply' = "limited" => Limited(m))
    BY <2>1, <2>4, <2>6 DEF Limited
  <2> QED BY <2>3, <2>5, <2>6
<1>2. CacheInv /\ Budget /\ [Next]_vars => [Honoured]_vars
  BY <1>1
<1>3. CacheInv /\ Budget /\ [Next]_vars => Budget'
  <2>1. CASE UNCHANGED vars
    BY <2>1 DEF vars, Budget, Config
  <2> QED BY <2>1, BudgetStep
<1> HIDE DEF Honoured
<1>4. Spec => [][Honoured]_vars
  BY <1>2, <1>3, BudgetInit, CacheInductive, PTL DEF Spec
<1> QED BY <1>4 DEF Honoured, ThreadBudget
=============================================================================
