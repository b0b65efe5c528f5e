----------------------------- MODULE KernelCache -----------------------------
(***************************************************************************)
(* What models share outside the execution gate: the files of tuned GPU    *)
(* kernels and MNN's pool of CPU threads.  initialize_model loads the file *)
(* of the model's key and sizes or meets the pool; inference tunes more    *)
(* kernels; save_cache and the end of the worker write them back.  A       *)
(* process may end at any time, and the next one, perhaps linked with      *)
(* another MNN, finds the files.                                           *)
(*                                                                         *)
(* MNN itself is external.  Setting the file of a session reads it, and a  *)
(* file that is not whole yields no kernels; a write first truncates the   *)
(* file, then puts everything the session holds into it, and says nothing  *)
(* if the file cannot be opened.                                           *)
(* The first CPU session that asks for several threads fixes the size of   *)
(* the pool.  A backend that cannot be created is replaced by the CPU.     *)
(***************************************************************************)
EXTENDS Configuration, FiniteSets

CONSTANTS
  Models,      \* the models a process loads
  Setups,      \* what they may be: a sequence of [Models -> [bytes, config]]
  Versions,    \* the versions of MNN one may be linked with
  MaxRestarts,  \* bounds the processes that share the files
  MaxObstructed \* bounds the files that cannot be written at the same time

Free == "free"

ASSUME KernelCacheAssumption ==
  /\ \A i \in DOMAIN Setups, m \in Models :
       LET config == Setups[i][m].config IN config \in RuntimeConfig /\ RuntimeNew(config) = "ok"
  /\ MaxRestarts \in Nat
  /\ MaxObstructed \in Nat
  /\ Free \notin Models

VARIABLES
  setup,      \* the one of Setups this instance is about
  version,    \* the MNN of this process
  restarts,   \* how many processes there were before it
  gate,       \* the holder of the execution gate
  poisoned,   \* its poison flag
  phase,      \* how far a worker is with loading, saving or closing
  leaving,    \* the models whose worker has received Shutdown
  pool,       \* the size of MNN's thread pool, 0 before it exists
  session,    \* what a model's session runs on: none, cpu or gpu
  effective,  \* MnnRuntimeEngine::effective_threads
  held,       \* the kernels a session has loaded or tuned
  reply,      \* what this step returned to a caller of load or save_cache
  file,       \* the cache files: [state, kernels]
  obstructed, \* the files that cannot be opened for writing
  since,      \* history: kernels others left in a model's file since it was read
  doomed      \* history: the saves that found their file obstructed from the start

instance == <<setup, version, restarts>>
gateVars == <<gate, poisoned>>
engineVars == <<session, effective, held>>
history == <<since, doomed>>
vars == <<setup, version, restarts, gate, poisoned, phase, leaving, pool, session, effective,
          held, reply, file, obstructed, since, doomed>>

Config(m) == Setups[setup][m].config
Caching(m) == Config(m).caching
Serialized(m) == Config(m).execution = "serialized"

\* The cache file of every model, and everything its compiled kernels depend on.
KeyTable ==
  [i \in DOMAIN Setups |-> [m \in Models |-> [v \in Versions |->
     CacheKey(Setups[i][m].bytes, v, Setups[i][m].config)]]]
IdentityTable ==
  [i \in DOMAIN Setups |-> [m \in Models |-> [v \in Versions |->
     <<Setups[i][m].bytes, v, Native(Setups[i][m].config)>>]]]

KeyOf(m) == KeyTable[setup][m][version]
Identity(m) == IdentityTable[setup][m][version]

\* The kernels the requests of a model need; a model stands for its requests.
Tuned(m) == {<<Identity(m), m>>}

Keys == {KeyTable[setup][m][v] : m \in Models, v \in Versions}

Absent == [state |-> "absent", kernels |-> {}]
Whole(kernels) == [state |-> "whole", kernels |-> kernels]
Torn(state, kernels) == [state |-> state, kernels |-> kernels]

Init ==
  /\ setup \in DOMAIN Setups
  /\ version \in Versions
  /\ restarts = 0
  /\ gate = Free
  /\ poisoned = FALSE
  /\ phase = [m \in Models |-> "absent"]
  /\ leaving = {}
  /\ pool = 0
  /\ session = [m \in Models |-> "none"]
  /\ effective = [m \in Models |-> 0]
  /\ held = [m \in Models |-> {}]
  /\ reply = "none"
  /\ file = [k \in Keys |-> Absent]
  /\ obstructed = {}
  /\ since = [m \in Models |-> {}]
  /\ doomed = {}

-----------------------------------------------------------------------------

LockGate(m) ==
  IF Serialized(m) THEN gate = Free /\ ~poisoned /\ gate' = m ELSE UNCHANGED gate

\* Bug: the flush at shutdown does not wait for the gate.
LockForCleanupNot(m) == UNCHANGED gate

\* The end of worker_main recovers a poisoned gate.
LockForCleanup(m) ==
  IF Serialized(m) THEN gate = Free /\ gate' = m ELSE UNCHANGED gate

Unlock(m) == gate' = IF gate = m THEN Free ELSE gate

GoTo(m, p) == phase' = [phase EXCEPT ![m] = p]

\* The engine is destroyed, or was never returned.
Gone(m) ==
  /\ GoTo(m, "gone")
  /\ session' = [session EXCEPT ![m] = "none"]
  /\ effective' = [effective EXCEPT ![m] = 0]
  /\ held' = [held EXCEPT ![m] = {}]
  /\ Unlock(m)

Returns(r) == reply' = r
Silent == Returns("none")

-----------------------------------------------------------------------------
(* initialize_model                                                        *)

Load(m) ==
  /\ phase[m] = "absent"
  /\ LockGate(m)
  /\ GoTo(m, "loading")
  /\ Silent
  /\ UNCHANGED <<instance, poisoned, leaving, pool, engineVars, file, obstructed, history>>

\* An error before there is a session: a poisoned gate, the directory, its path,
\* the model, the cache file, always when it is obstructed, or the session itself.
LoadFails(m) ==
  /\ \/ phase[m] \in {"loading", "opened"}
     \/ phase[m] = "absent" /\ Serialized(m) /\ gate = Free /\ poisoned
  /\ Returns("error")
  /\ Gone(m)
  /\ UNCHANGED <<instance, poisoned, leaving, pool, file, obstructed, history>>

Touched(k) == [file EXCEPT ![k] = IF @ = Absent THEN Whole({}) ELSE @]

\* Bug: the cache is set when the session exists already.
LoadedTooLate(m) == {}

Loaded(m) ==
  IF Caching(m) /\ file[KeyOf(m)].state = "whole" THEN file[KeyOf(m)].kernels ELSE {}

\* The probe appends nothing and so creates the file; then MNN reads it.
OpenCache(m) ==
  /\ phase[m] = "loading"
  /\ Caching(m) => KeyOf(m) \notin obstructed
  /\ file' = IF Caching(m) THEN Touched(KeyOf(m)) ELSE file
  /\ held' = [held EXCEPT ![m] = Loaded(m)]
  /\ since' = [since EXCEPT ![m] = {}]
  /\ GoTo(m, "opened")
  /\ Silent
  /\ UNCHANGED <<instance, gateVars, leaving, pool, session, effective, obstructed, doomed>>

\* Where MNN may put the session: the CPU takes the place of what it cannot create.
SessionOn(m) ==
  CASE Config(m).backend = "cpu" -> {"cpu"}
    [] OTHER -> {"gpu", "cpu"}

\* Threads for CPU sessions; a session that was given GPU flags instead runs on
\* as many as MNN reads into them.
Threads(m) ==
  LET schedule == Schedule(Native(Config(m)))
  IN IF schedule.mode # 0 THEN 1..4 ELSE {IF schedule.threads = 0 THEN 1 ELSE schedule.threads}

\* Bug: the requested backend decides whether there is a thread count.
EffectiveIfRequested(m, on, threads, size) ==
  IF Config(m).backend # "cpu" THEN 0 ELSE IF threads < size THEN threads ELSE size

\* A session on the CPU has the threads it asks for, as far as the pool has them.
Effective(m, on, threads, size) ==
  IF on = "gpu" THEN 0 ELSE IF threads = 1 \/ threads < size THEN threads ELSE size

CreateSession(m) ==
  /\ phase[m] = "opened"
  /\ \E on \in SessionOn(m), threads \in Threads(m) :
       /\ session' = [session EXCEPT ![m] = on]
       /\ pool' = IF on = "cpu" /\ threads > 1 /\ pool = 0 THEN threads ELSE pool
       /\ effective' = [effective EXCEPT ![m] = Effective(m, on, threads, pool')]
       /\ held' = [held EXCEPT ![m] = IF on = "gpu" THEN @ ELSE {}]
  /\ GoTo(m, "created")
  /\ Silent
  /\ UNCHANGED <<instance, gateVars, leaving, file, obstructed, history>>

\* Bug: only a count above the requested one is refused.
LimitedAbove(m) == effective[m] > Config(m).threads

Limited(m) == effective[m] # 0 /\ effective[m] # Config(m).threads

\* The thread count first, then the metadata of the tensors; an error drops the
\* engine, and what it did to the pool and the file remains.
Inspect(m) ==
  /\ phase[m] = "created"
  /\ \/ /\ ~Limited(m)
        /\ GoTo(m, "live")
        /\ Returns("ok")
        /\ Unlock(m)
        /\ UNCHANGED engineVars
     \/ /\ Returns(IF Limited(m) THEN "limited" ELSE "error")
        /\ Gone(m)
  /\ UNCHANGED <<instance, poisoned, leaving, pool, file, obstructed, history>>

-----------------------------------------------------------------------------
(* Inference, save_cache and the end of the worker.                        *)

\* One inference under the gate; a panic poisons it and ends the worker, whose
\* engine goes without a save.
Infer(m) ==
  /\ phase[m] = "live"
  /\ Serialized(m) => gate = Free /\ ~poisoned
  /\ \/ /\ session[m] = "gpu"
        /\ held' = [held EXCEPT ![m] = @ \cup Tuned(m)]
        /\ UNCHANGED <<gateVars, phase, session, effective>>
     \/ /\ poisoned' = (poisoned \/ Serialized(m))
        /\ Gone(m)
  /\ Silent
  /\ UNCHANGED <<instance, leaving, pool, file, obstructed, history>>

\* Engine::save_cache begins, called for or at shutdown.
BeginSave(m) ==
  /\ phase[m] = "live"
  /\ \/ LockGate(m) /\ UNCHANGED leaving
     \/ LockForCleanup(m) /\ leaving' = leaving \cup {m}
  /\ GoTo(m, "saving")
  /\ doomed' = IF Caching(m) /\ KeyOf(m) \in obstructed THEN doomed \cup {m} ELSE doomed \ {m}
  /\ Silent
  /\ UNCHANGED <<instance, poisoned, pool, engineVars, file, obstructed, since>>

\* Bug: what the probe finds is not looked at.
ProbeAnyway(m) ==
  /\ phase[m] = "saving"
  /\ Caching(m)
  /\ GoTo(m, "probed")
  /\ Silent
  /\ UNCHANGED <<instance, gateVars, leaving, pool, engineVars, file, obstructed, history>>

Probe(m) ==
  /\ phase[m] = "saving"
  /\ Caching(m)
  /\ KeyOf(m) \notin obstructed
  /\ file' = Touched(KeyOf(m))
  /\ GoTo(m, "probed")
  /\ Silent
  /\ UNCHANGED <<instance, gateVars, leaving, pool, engineVars, obstructed, history>>

\* The reply of save_cache, or, after a last save whose result is ignored, the end.
Saved(m, r) ==
  /\ Returns(r)
  /\ IF m \in leaving THEN Gone(m)
     ELSE GoTo(m, "live") /\ Unlock(m) /\ UNCHANGED engineVars
  /\ UNCHANGED <<instance, poisoned, leaving, pool, obstructed, doomed>>

\* Without a cache file there is nothing to do; an obstructed one is an error.
SaveNothing(m) ==
  /\ phase[m] = "saving"
  /\ Caching(m) => KeyOf(m) \in obstructed
  /\ Saved(m, IF Caching(m) THEN "error" ELSE "ok")
  /\ UNCHANGED <<file, since>>

Writers(k) == {n \in Models : phase[n] = "writing" /\ KeyOf(n) = k}

\* MNN truncates the file.
BeginWrite(m) ==
  /\ phase[m] = "probed"
  /\ held[m] # {} /\ KeyOf(m) \notin obstructed
  /\ file' = [file EXCEPT ![KeyOf(m)] = Torn(IF Writers(KeyOf(m)) = {} THEN "open" ELSE "clashed", {})]
  /\ GoTo(m, "writing")
  /\ Silent
  /\ UNCHANGED <<instance, gateVars, leaving, pool, engineVars, obstructed, history>>

\* MNN has no kernels to write, cannot open the file after all, which it does not
\* report, or reports another failure.
WriteNothing(m) ==
  /\ phase[m] = "probed"
  /\ \/ /\ held[m] = {} \/ KeyOf(m) \in obstructed
        /\ Saved(m, "ok")
     \/ Saved(m, "error")
  /\ UNCHANGED <<file, since>>

\* Of a file that two sessions write at once either's kernels are left or none.
EndWrite(m) ==
  LET k == KeyOf(m)
      outcomes == IF Writers(k) # {m} THEN {Torn("clashed", held[m])}
                  ELSE {Whole(held[m])} \cup
                       IF file[k].state = "open" THEN {} ELSE {Whole(file[k].kernels), Torn("broken", {})}
  IN /\ phase[m] = "writing"
     /\ \E outcome \in outcomes :
          /\ file' = [file EXCEPT ![k] = outcome]
          /\ since' = [n \in Models |->
                         IF n # m /\ KeyOf(n) = k /\ phase[n] \notin {"absent", "loading", "gone"}
                         THEN since[n] \cup outcome.kernels ELSE since[n]]
     /\ Saved(m, "ok")

-----------------------------------------------------------------------------

\* Something makes a cache file unwritable.
Obstruct(m) ==
  /\ Caching(m)
  /\ Cardinality(obstructed) < MaxObstructed
  /\ obstructed' = obstructed \cup {KeyOf(m)}
  /\ Silent
  /\ UNCHANGED <<instance, gateVars, phase, leaving, pool, engineVars, file, history>>

\* The process exits or is killed, and another one starts where the files are
\* writable again.
Restart ==
  /\ restarts < MaxRestarts
  /\ restarts' = restarts + 1
  /\ version' \in Versions
  /\ gate' = Free
  /\ poisoned' = FALSE
  /\ phase' = [m \in Models |-> "absent"]
  /\ leaving' = {}
  /\ pool' = 0
  /\ session' = [m \in Models |-> "none"]
  /\ effective' = [m \in Models |-> 0]
  /\ held' = [m \in Models |-> {}]
  /\ Silent
  /\ file' = [k \in Keys |-> IF file[k].state \in {"open", "clashed"} THEN Torn("broken", {}) ELSE file[k]]
  /\ obstructed' = {}
  /\ since' = [m \in Models |-> {}]
  /\ doomed' = {}
  /\ UNCHANGED setup

Finished ==
  /\ restarts = MaxRestarts
  /\ \A m \in Models : phase[m] = "gone"
  /\ UNCHANGED vars

Next ==
  \/ \E m \in Models :
       \/ Load(m) \/ LoadFails(m) \/ OpenCache(m) \/ CreateSession(m) \/ Inspect(m)
       \/ Infer(m) \/ BeginSave(m) \/ Probe(m) \/ SaveNothing(m)
       \/ BeginWrite(m) \/ WriteNothing(m) \/ EndWrite(m)
       \/ Obstruct(m)
  \/ Restart
  \/ Finished

Spec == Init /\ [][Next]_vars

-----------------------------------------------------------------------------

\* What the properties below rely on: a session exists from CreateSession until
\* the model is gone, kernels are only held for one that may use them, and
\* whoever is between LockGate and Unlock has the gate if it is serialized.
TypeOK ==
  /\ version \in Versions
  /\ restarts \in 0..MaxRestarts
  /\ gate \in Models \cup {Free}
  /\ phase \in [Models -> {"absent", "loading", "opened", "created", "live", "saving", "probed",
                           "writing", "gone"}]
  /\ reply \in {"none", "ok", "error", "limited"}
  /\ pool \in 0..32
  /\ obstructed \subseteq Keys
  /\ \A k \in Keys : file[k].state \in {"absent", "whole", "open", "clashed", "broken"}
  /\ \A m \in Models :
       /\ session[m] = "none" <=> phase[m] \in {"absent", "loading", "opened", "gone"}
       /\ gate = m <=> Serialized(m) /\ phase[m] \notin {"absent", "live", "gone"}

\* A kernel runs only for the model bytes, configuration and MNN it was tuned for
\* (the hash in cache_file), across models, files and processes.
OwnKernels == \A m \in Models : \A kernel \in held[m] : kernel[1] = Identity(m)

\* A save replaces the whole file.  It may lose only kernels that somebody else
\* saved since this model read the file, never those of an earlier process: the
\* cache is set before the session is created.
NothingForgotten ==
  \A m \in Models :
    /\ phase[m] = "probed" /\ held[m] # {}
    /\ file[KeyOf(m)].state = "whole"
    => file[KeyOf(m)].kernels \subseteq held[m] \cup since[m]

\* Serialized models never read a cache file another of them is writing, nor
\* write it together, not even while one is loaded and the other shut down.
CacheExclusion ==
  \A m, n \in Models :
    /\ m # n /\ Serialized(m) /\ Serialized(n) /\ KeyOf(m) = KeyOf(n)
    /\ phase[m] = "writing"
    => phase[n] \notin {"loading", "opened", "created", "saving", "probed", "writing"}

\* README.md:233-236 and config.rs, for the configuration a model is loaded with
\* and those that differ in tuning or storage: Auto is Fast on OpenCL and None on
\* Vulkan, which refuses Fast and Normal; OpenCL and Vulkan get one tuning flag,
\* another one for each effort; only OpenCL gets a storage flag, other backends no
\* flags at all; and no thread count is ever read as flags.
GpuModeDocumented ==
  \A m \in Models :
    LET c == Config(m)
        Retuned(t) == GpuMode(With(c, [tuning |-> t]))
        Stored(s) == GpuMode(With(c, [storage |-> s]))
        efforts == {"none", "wide", "heavy"} \cup (IF c.backend = "opencl" THEN {"fast", "normal"} ELSE {})
        scheduled == Schedule(Native(c))
    IN phase[m] = "loading" =>
         IF c.backend \notin {"opencl", "vulkan"}
         THEN scheduled.mode = 0 /\ scheduled.threads = c.threads
         ELSE /\ scheduled.threads = 0
              /\ Retuned("auto") = Retuned(IF c.backend = "opencl" THEN "fast" ELSE "none")
              /\ \A t \in Tunings : Retuned(t) = Rejected <=> t \notin efforts \cup {"auto"}
              /\ \A t \in efforts : \E bit \in 0..4 : Retuned(t) % 64 = 2^bit
              /\ \A t, u \in efforts : Retuned(t) = Retuned(u) => t = u
              /\ \A s \in Storages : Stored(s) = Stored(c.storage) <=> c.backend = "vulkan" \/ s = c.storage

Saves(m) == phase[m] \in {"saving", "probed", "writing"} /\ phase'[m] \in {"live", "gone"} /\ restarts' = restarts

\* save_cache answers for the file: an error when it could not be opened from the
\* start, which MNN does not report itself, and after "ok", had nobody obstructed
\* it meanwhile or written it outside the gate, the file holds what was tuned.
SaveReported ==
  [][\A m \in Models : Saves(m) =>
       /\ m \in doomed => reply' = "error"
       /\ /\ Caching(m) /\ reply' = "ok" /\ KeyOf(m) \notin obstructed
          /\ \A n \in Models : KeyOf(n) = KeyOf(m) => Serialized(n)
          => held[m] \subseteq file'[KeyOf(m)].kernels]_vars

\* A model on the CPU has the threads it was configured with and says so, the
\* fallback of a GPU backend too; ThreadCountLimited appears only for a model
\* that came after a smaller pool was made, or whose GPU flags MNN took for a
\* thread count.
ThreadBudget ==
  [][\A m \in Models : phase[m] = "created" /\ phase'[m] \in {"live", "gone"} /\ restarts' = restarts =>
       /\ phase'[m] = "live" /\ session[m] = "cpu" => effective[m] = Config(m).threads
       /\ phase'[m] = "live" => (effective[m] = 0 <=> session[m] = "gpu")
       /\ reply' = "limited" =>
            /\ session[m] = "cpu"
            /\ \/ 1 < pool /\ pool < Config(m).threads
               \/ Config(m).backend \in {"opencl", "vulkan"}]_vars
=============================================================================
