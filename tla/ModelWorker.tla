----------------------------- MODULE ModelWorker -----------------------------
(***************************************************************************)
(* The concurrent core of mnn-runtime: every loaded model owns one worker  *)
(* thread fed by a bounded channel; calls are answered through one-shot    *)
(* reply channels; and the native transactions of all Serialized models    *)
(* take the process-wide execution gate, a std Mutex that a panic poisons. *)
(*                                                                         *)
(* A call stands for one invocation, by some application thread, of run*   *)
(* (BlockingRuns), try_submit* (TryRuns) or save_cache (Saves).  Tensors   *)
(* are left out: what the native transaction computes is the outcome "ok"  *)
(* or "native" (an error).                                                 *)
(***************************************************************************)
EXTENDS Naturals, Sequences, FiniteSets

CONSTANTS
  Models,        \* the models the process loads
  Serialized,    \* those whose runtime uses ExecutionMode::Serialized
  Faulty,        \* those whose native transactions may panic the worker
  GateUsers,     \* other holders of mnn_runtime_sys::execution_gate()
  BlockingRuns,  \* run, run_owned, run_dynamic, run_for_outputs, run_reusing ...
  TryRuns,       \* try_submit_owned, try_submit_dynamic_owned
  Timed,         \* the TryRuns submitted with a deadline
  Saves,         \* save_cache
  ModelOf,       \* the model each call addresses
  QueueCapacity, \* RuntimeConfig::queue_capacity
  Free, NoCall, Shutdown

Runs == BlockingRuns \cup TryRuns
Calls == Runs \cup Saves
CallsOf(m) == {c \in Calls : ModelOf[c] = m}

ASSUME ModelWorkerAssumption ==
  /\ Serialized \subseteq Models
  /\ Faulty \subseteq Models
  /\ Timed \subseteq TryRuns
  /\ BlockingRuns \cap TryRuns = {}
  /\ Runs \cap Saves = {}
  /\ ModelOf \in [Calls -> Models]
  /\ QueueCapacity \in Nat \ {0}
  /\ Models \cap GateUsers = {}
  /\ Free \notin Models \cup GateUsers
  /\ NoCall \notin Calls
  /\ Shutdown \notin Calls

VARIABLES
  model,     \* the Model handle: unloaded, loading, live, closing, joining, closed, failed
  worker,    \* where the worker thread is in worker_main
  engine,    \* the native engine the worker owns: none, alive, destroyed
  queue,     \* the command channel
  active,    \* the call the worker has received and not yet replied to
  verdict,   \* its result, once decided
  gate,      \* the holder of the execution gate
  poisoned,  \* the gate's poison flag
  user,      \* the other gate users: idle, holding, finished
  caller,    \* idle, sending, held (a PendingRun exists), waiting, timed, returned
  cancelled, \* the AtomicBool shared by a PendingRun and its RunCommand
  expired,   \* the deadline has passed
  reply,     \* the one-shot reply channel of an accepted call
  result,    \* what the call returned to its caller
  entered    \* the calls whose native transaction has begun

lifecycleVars == <<model, worker, engine>>
channelVars == <<queue, active, verdict>>
gateVars == <<gate, poisoned, user>>
callerVars == <<caller, cancelled, expired, reply, result>>
vars == <<model, worker, engine, queue, active, verdict, gate, poisoned, user,
          caller, cancelled, expired, reply, result, entered>>

Verdicts == {"ok", "native", "cancelled", "deadline", "poisoned"}
ModelStates == {"unloaded", "loading", "live", "closing", "joining", "closed", "failed"}
Running == {"idle", "checking", "locking", "rechecking", "entering", "native",
            "saveLocking", "saving", "replying"}
Leaving == {"exitLocking", "cleanup", "exited"}
Dying == {"unwinding", "dropping", "panicked"}
WorkerStates == {"absent", "starting", "initializing"} \cup Running \cup Leaving \cup Dying

\* The phases between acquiring the execution gate and releasing it.
InferencePhases == {"initializing", "rechecking", "entering", "native", "saving"}
InGate == InferencePhases \cup {"cleanup"}

\* The receiving half of the command channel is dropped with the worker's stack.
ReceiverGone(m) == worker[m] \in {"exited", "panicked"}

\* Bug: one command too many.
HasRoomOffByOne(m) == Len(queue[m]) <= QueueCapacity

HasRoom(m) == Len(queue[m]) < QueueCapacity

Init ==
  /\ model = [m \in Models |-> "unloaded"]
  /\ worker = [m \in Models |-> "absent"]
  /\ engine = [m \in Models |-> "none"]
  /\ queue = [m \in Models |-> <<>>]
  /\ active = [m \in Models |-> NoCall]
  /\ verdict = [m \in Models |-> "none"]
  /\ gate = Free
  /\ poisoned = FALSE
  /\ user = [u \in GateUsers |-> "idle"]
  /\ caller = [c \in Calls |-> "idle"]
  /\ cancelled = [r \in Runs |-> FALSE]
  /\ expired = [r \in Timed |-> FALSE]
  /\ reply = [c \in Calls |-> "none"]
  /\ result = [c \in Calls |-> "none"]
  /\ entered = {}

-----------------------------------------------------------------------------
(* with_gate: a Parallel runtime has no gate; a Serialized one locks it, and *)
(* a poisoned lock is an error.                                              *)

\* Bug: the call goes on when the gate is contended.
LockGateTry(m) ==
  IF m \in Serialized
  THEN ~poisoned /\ gate' = IF gate = Free THEN m ELSE gate
  ELSE UNCHANGED gate

\* Bug: inference recovers from a poisoned gate as cleanup does.
LockGateRecovering(m) ==
  IF m \in Serialized THEN gate = Free /\ gate' = m ELSE UNCHANGED gate

LockGate(m) ==
  IF m \in Serialized
  THEN gate = Free /\ ~poisoned /\ gate' = m
  ELSE UNCHANGED gate

GatePoisoned(m) == m \in Serialized /\ gate = Free /\ poisoned

UnlockGate(m) == gate' = IF m \in Serialized THEN Free ELSE gate

\* Bug: a gate that a panic does not poison.
PoisonGateIgnored(m) == UNCHANGED poisoned

\* The guard is dropped by a panicking thread.
PoisonGate(m) == poisoned' = (poisoned \/ m \in Serialized)

\* RunCommand::check_live: cancellation first, then the deadline.
CheckLive(r) ==
  CASE cancelled[r] -> "cancelled"
    [] r \in Timed /\ ~cancelled[r] /\ expired[r] -> "deadline"
    [] OTHER -> "live"

GoTo(m, w) == worker' = [worker EXCEPT ![m] = w]

\* The request's result is known; the reply is sent next.
Decide(m, v) ==
  /\ GoTo(m, "replying")
  /\ verdict' = [verdict EXCEPT ![m] = v]

-----------------------------------------------------------------------------
(* Loading and closing: Model::spawn and Drop for ModelInner.              *)

\* Empty model bytes, or no thread.
LoadRejected(m) ==
  /\ model[m] = "unloaded"
  /\ model' = [model EXCEPT ![m] = "failed"]
  /\ UNCHANGED <<worker, engine, channelVars, gateVars, callerVars, entered>>

Spawn(m) ==
  /\ model[m] = "unloaded"
  /\ model' = [model EXCEPT ![m] = "loading"]
  /\ GoTo(m, "starting")
  /\ UNCHANGED <<engine, channelVars, gateVars, callerVars, entered>>

\* startup.recv(): the model, or the error of a worker that is joined first.
LoadReturns(m) ==
  /\ model[m] = "loading"
  /\ \/ /\ worker[m] = "idle"
        /\ model' = [model EXCEPT ![m] = "live"]
     \/ /\ ReceiverGone(m)
        /\ model' = [model EXCEPT ![m] = "failed"]
  /\ UNCHANGED <<worker, engine, channelVars, gateVars, callerVars, entered>>

\* A blocked call borrows its Model; a PendingRun does not.
Borrowed(m) ==
  \E c \in CallsOf(m) : \/ caller[c] = "sending"
                        \/ c \notin TryRuns /\ caller[c] = "waiting"

\* The last clone of a Model is dropped.
DropLast(m) ==
  /\ model[m] = "live"
  /\ ~Borrowed(m)
  /\ model' = [model EXCEPT ![m] = "closing"]
  /\ UNCHANGED <<worker, engine, channelVars, gateVars, callerVars, entered>>

\* Bug: Shutdown overtakes the requests already accepted.
SendShutdownFirst(m) ==
  /\ model[m] = "closing"
  /\ HasRoom(m)
  /\ queue' = [queue EXCEPT ![m] = <<Shutdown>> \o @]
  /\ model' = [model EXCEPT ![m] = "joining"]
  /\ UNCHANGED <<worker, engine, active, verdict, gateVars, callerVars, entered>>

\* Bug: Shutdown is given up when the queue is full.
SendShutdownTry(m) ==
  /\ model[m] = "closing"
  /\ queue' = IF ~ReceiverGone(m) /\ HasRoom(m)
              THEN [queue EXCEPT ![m] = Append(@, Shutdown)] ELSE queue
  /\ model' = [model EXCEPT ![m] = "joining"]
  /\ UNCHANGED <<worker, engine, active, verdict, gateVars, callerVars, entered>>

\* send(Shutdown) waits for room; its error, a dead worker, is ignored.
SendShutdown(m) ==
  /\ model[m] = "closing"
  /\ \/ ReceiverGone(m) /\ UNCHANGED queue
     \/ /\ ~ReceiverGone(m)
        /\ HasRoom(m)
        /\ queue' = [queue EXCEPT ![m] = Append(@, Shutdown)]
  /\ model' = [model EXCEPT ![m] = "joining"]
  /\ UNCHANGED <<worker, engine, active, verdict, gateVars, callerVars, entered>>

\* Bug: the thread is detached instead of joined.
JoinedDetached(m) ==
  /\ model[m] = "joining"
  /\ model' = [model EXCEPT ![m] = "closed"]
  /\ UNCHANGED <<worker, engine, channelVars, gateVars, callerVars, entered>>

\* join() returns once the thread has ended, normally or by a panic.
Joined(m) ==
  /\ model[m] = "joining"
  /\ ReceiverGone(m)
  /\ model' = [model EXCEPT ![m] = "closed"]
  /\ UNCHANGED <<worker, engine, channelVars, gateVars, callerVars, entered>>

-----------------------------------------------------------------------------
(* The worker thread: worker_main.                                         *)

StartLock(m) ==
  /\ worker[m] = "starting"
  /\ LockGate(m)
  /\ GoTo(m, "initializing")
  /\ UNCHANGED <<model, engine, channelVars, poisoned, user, callerVars, entered>>

\* Bug: the worker waits for the poison to go away.
StartPoisonedRetry(m) ==
  /\ worker[m] = "starting"
  /\ GatePoisoned(m)
  /\ UNCHANGED vars

\* with_gate fails before initialize_model: the error is sent, the worker ends.
StartPoisoned(m) ==
  /\ worker[m] = "starting"
  /\ GatePoisoned(m)
  /\ GoTo(m, "exited")
  /\ UNCHANGED <<model, engine, channelVars, gateVars, callerVars, entered>>

\* initialize_model: on an error (engine creation, thread count, metadata) an
\* engine it had created is dropped before the gate is released.
Initialize(m) ==
  /\ worker[m] = "initializing"
  /\ \/ GoTo(m, "idle") /\ engine' = [engine EXCEPT ![m] = "alive"]
     \/ GoTo(m, "exited") /\ UNCHANGED engine
  /\ UnlockGate(m)
  /\ UNCHANGED <<model, channelVars, poisoned, user, callerVars, entered>>

InitPanic(m) ==
  /\ worker[m] = "initializing"
  /\ m \in Faulty
  /\ GoTo(m, "panicked")
  /\ UnlockGate(m)
  /\ PoisonGate(m)
  /\ UNCHANGED <<model, engine, channelVars, user, callerVars, entered>>

Recv(m) ==
  /\ worker[m] = "idle"
  /\ queue[m] # <<>>
  /\ LET command == Head(queue[m]) IN
       \/ command \in Runs /\ GoTo(m, "checking") /\ active' = [active EXCEPT ![m] = command]
       \/ command \in Saves /\ GoTo(m, "saveLocking") /\ active' = [active EXCEPT ![m] = command]
       \/ command = Shutdown /\ GoTo(m, "exitLocking") /\ UNCHANGED active
  /\ queue' = [queue EXCEPT ![m] = Tail(@)]
  /\ UNCHANGED <<model, engine, verdict, gateVars, callerVars, entered>>

\* request.check_live() before the gate.
FirstCheck(m) ==
  /\ worker[m] = "checking"
  /\ \/ CheckLive(active[m]) = "live" /\ GoTo(m, "locking") /\ UNCHANGED verdict
     \/ CheckLive(active[m]) # "live" /\ Decide(m, CheckLive(active[m]))
  /\ UNCHANGED <<model, engine, queue, active, gateVars, callerVars, entered>>

Lock(m) ==
  /\ worker[m] = "locking"
  /\ LockGate(m)
  /\ GoTo(m, "rechecking")
  /\ UNCHANGED <<model, engine, channelVars, poisoned, user, callerVars, entered>>

\* Bug: a poisoned gate is tried again instead of being reported.
LockPoisonedRetry(m) ==
  /\ worker[m] \in {"locking", "saveLocking"}
  /\ GatePoisoned(m)
  /\ UNCHANGED vars

LockPoisoned(m) ==
  /\ worker[m] \in {"locking", "saveLocking"}
  /\ GatePoisoned(m)
  /\ Decide(m, "poisoned")
  /\ UNCHANGED <<model, engine, queue, active, gateVars, callerVars, entered>>

\* Bug: liveness is checked only before waiting for the gate.
RecheckSkipped(m) ==
  /\ worker[m] = "rechecking"
  /\ GoTo(m, "entering")
  /\ UNCHANGED <<model, engine, channelVars, gateVars, callerVars, entered>>

\* request.check_live() again, now holding the gate.
Recheck(m) ==
  /\ worker[m] = "rechecking"
  /\ \/ /\ CheckLive(active[m]) = "live"
        /\ GoTo(m, "entering")
        /\ UNCHANGED <<verdict, gate>>
     \/ /\ CheckLive(active[m]) # "live"
        /\ Decide(m, CheckLive(active[m]))
        /\ UnlockGate(m)
  /\ UNCHANGED <<model, engine, queue, active, poisoned, user, callerVars, entered>>

\* run_model reaches resize_inputs, its first native call.
EnterNative(m) ==
  /\ worker[m] = "entering"
  /\ GoTo(m, "native")
  /\ entered' = entered \cup {active[m]}
  /\ UNCHANGED <<model, engine, channelVars, gateVars, callerVars>>

\* Bug: a request cancelled during inference is reported as skipped.
FinishNativeRelabelled(m) ==
  /\ worker[m] = "native"
  /\ Decide(m, IF CheckLive(active[m]) = "live" THEN "ok" ELSE CheckLive(active[m]))
  /\ UnlockGate(m)
  /\ UNCHANGED <<model, engine, queue, active, poisoned, user, callerVars, entered>>

\* The tensors of a successful inference, or the first error of run_model.
FinishNative(m) ==
  /\ worker[m] = "native"
  /\ \E v \in {"ok", "native"} : Decide(m, v)
  /\ UnlockGate(m)
  /\ UNCHANGED <<model, engine, queue, active, poisoned, user, callerVars, entered>>

\* A panic inside the transaction: the guard is dropped first, then the request.
PanicNative(m) ==
  /\ worker[m] = "native"
  /\ m \in Faulty
  /\ GoTo(m, "unwinding")
  /\ UnlockGate(m)
  /\ PoisonGate(m)
  /\ active' = [active EXCEPT ![m] = NoCall]
  /\ reply' = [reply EXCEPT ![active[m]] = "disconnected"]
  /\ UNCHANGED <<model, engine, queue, verdict, user, caller, cancelled, expired,
                 result, entered>>

\* The engine, a local of worker_main, is dropped by the unwinding stack ...
UnwindEngine(m) ==
  /\ worker[m] = "unwinding"
  /\ GoTo(m, "dropping")
  /\ engine' = [engine EXCEPT ![m] = "destroyed"]
  /\ UNCHANGED <<model, channelVars, gateVars, callerVars, entered>>

Queued(c) == \E i \in 1..Len(queue[ModelOf[c]]) : queue[ModelOf[c]][i] = c

\* ... and then the receiver, with every command still queued.
DropReceiver(m) ==
  /\ worker[m] = "dropping"
  /\ GoTo(m, "panicked")
  /\ queue' = [queue EXCEPT ![m] = <<>>]
  /\ reply' = [c \in Calls |->
                 IF ModelOf[c] = m /\ Queued(c) THEN "disconnected" ELSE reply[c]]
  /\ UNCHANGED <<model, engine, active, verdict, gateVars, caller, cancelled,
                 expired, result, entered>>

\* Bug: a skipped request is forgotten without a reply.
ReplyUnlessSkipped(m) ==
  /\ worker[m] = "replying"
  /\ GoTo(m, "idle")
  /\ reply' = IF verdict[m] = "cancelled" THEN reply
              ELSE [reply EXCEPT ![active[m]] = verdict[m]]
  /\ active' = [active EXCEPT ![m] = NoCall]
  /\ verdict' = [verdict EXCEPT ![m] = "none"]
  /\ UNCHANGED <<model, engine, queue, gateVars, caller, cancelled, expired,
                 result, entered>>

\* reply.send(result); a dropped PendingRun makes it fail, which is ignored.
Reply(m) ==
  /\ worker[m] = "replying"
  /\ GoTo(m, "idle")
  /\ reply' = [reply EXCEPT ![active[m]] = verdict[m]]
  /\ active' = [active EXCEPT ![m] = NoCall]
  /\ verdict' = [verdict EXCEPT ![m] = "none"]
  /\ UNCHANGED <<model, engine, queue, gateVars, caller, cancelled, expired,
                 result, entered>>

SaveLock(m) ==
  /\ worker[m] = "saveLocking"
  /\ LockGate(m)
  /\ GoTo(m, "saving")
  /\ entered' = entered \cup {active[m]}
  /\ UNCHANGED <<model, engine, channelVars, poisoned, user, callerVars>>

Save(m) ==
  /\ worker[m] = "saving"
  /\ \E v \in {"ok", "native"} : Decide(m, v)
  /\ UnlockGate(m)
  /\ UNCHANGED <<model, engine, queue, active, poisoned, user, callerVars, entered>>

\* Cleanup takes the gate even when it is poisoned.
ExitLock(m) ==
  /\ worker[m] = "exitLocking"
  /\ IF m \in Serialized THEN gate = Free /\ gate' = m ELSE UNCHANGED gate
  /\ GoTo(m, "cleanup")
  /\ UNCHANGED <<model, engine, channelVars, poisoned, user, callerVars, entered>>

Cleanup(m) ==
  /\ worker[m] = "cleanup"
  /\ engine' = [engine EXCEPT ![m] = "destroyed"]
  /\ UnlockGate(m)
  /\ GoTo(m, "exited")
  /\ UNCHANGED <<model, channelVars, poisoned, user, callerVars, entered>>

WorkerStep(m) ==
  \/ StartLock(m) \/ StartPoisoned(m) \/ Initialize(m) \/ InitPanic(m)
  \/ Recv(m) \/ FirstCheck(m) \/ Lock(m) \/ LockPoisoned(m) \/ Recheck(m)
  \/ EnterNative(m) \/ FinishNative(m) \/ PanicNative(m)
  \/ UnwindEngine(m) \/ DropReceiver(m) \/ Reply(m)
  \/ SaveLock(m) \/ Save(m) \/ ExitLock(m) \/ Cleanup(m)

-----------------------------------------------------------------------------
(* Calls: enqueue, PendingRun and save_cache.                              *)

Return(c, v) ==
  /\ caller' = [caller EXCEPT ![c] = "returned"]
  /\ result' = [result EXCEPT ![c] = v]

\* Bug: the newest call is served first.
SendFront(c) ==
  /\ queue' = [queue EXCEPT ![ModelOf[c]] = <<c>> \o @]
  /\ reply' = [reply EXCEPT ![c] = "empty"]

Send(c) ==
  /\ queue' = [queue EXCEPT ![ModelOf[c]] = Append(@, c)]
  /\ reply' = [reply EXCEPT ![c] = "empty"]

\* validate_inputs or the output selection fails before anything is sent.
RejectInvalid(r) ==
  /\ r \in Runs
  /\ caller[r] = "idle"
  /\ model[ModelOf[r]] = "live"
  /\ Return(r, "invalid")
  /\ UNCHANGED <<lifecycleVars, channelVars, gateVars, cancelled, expired, reply, entered>>

\* A blocking run, or save_cache, reaches the bounded send.
Call(c) ==
  /\ c \notin TryRuns
  /\ caller[c] = "idle"
  /\ model[ModelOf[c]] = "live"
  /\ caller' = [caller EXCEPT ![c] = "sending"]
  /\ UNCHANGED <<lifecycleVars, channelVars, gateVars, cancelled, expired, reply,
                 result, entered>>

\* send() sleeps until there is room or the receiver is gone.
SendBlocking(c) ==
  /\ caller[c] = "sending"
  /\ \/ /\ ReceiverGone(ModelOf[c])
        /\ Return(c, "stopped")
        /\ UNCHANGED <<queue, reply>>
     \/ /\ ~ReceiverGone(ModelOf[c])
        /\ HasRoom(ModelOf[c])
        /\ Send(c)
        /\ caller' = [caller EXCEPT ![c] = "waiting"]
        /\ UNCHANGED result
  /\ UNCHANGED <<lifecycleVars, active, verdict, gateVars, cancelled, expired, entered>>

\* Bug: TrySendError's two cases are swapped.
AdmissionSwapped(r) ==
  CASE CheckLive(r) # "live" -> CheckLive(r)
    [] CheckLive(r) = "live" /\ ReceiverGone(ModelOf[r]) -> "full"
    [] CheckLive(r) = "live" /\ ~ReceiverGone(ModelOf[r]) /\ ~HasRoom(ModelOf[r]) -> "stopped"
    [] OTHER -> "accepted"

\* try_send: the deadline first, then a dead worker, then a full queue.
Admission(r) ==
  CASE CheckLive(r) # "live" -> CheckLive(r)
    [] CheckLive(r) = "live" /\ ReceiverGone(ModelOf[r]) -> "stopped"
    [] CheckLive(r) = "live" /\ ~ReceiverGone(ModelOf[r]) /\ ~HasRoom(ModelOf[r]) -> "full"
    [] OTHER -> "accepted"

TrySubmit(r) ==
  /\ r \in TryRuns
  /\ caller[r] = "idle"
  /\ model[ModelOf[r]] = "live"
  /\ \/ /\ Admission(r) = "accepted"
        /\ Send(r)
        /\ caller' = [caller EXCEPT ![r] = "held"]
        /\ UNCHANGED result
     \/ /\ Admission(r) # "accepted"
        /\ Return(r, Admission(r))
        /\ UNCHANGED <<queue, reply>>
  /\ UNCHANGED <<lifecycleVars, active, verdict, gateVars, cancelled, expired, entered>>

\* PendingRun::wait and wait_timeout consume the handle.
Wait(r) ==
  /\ caller[r] = "held"
  /\ \E w \in {"waiting", "timed"} : caller' = [caller EXCEPT ![r] = w]
  /\ UNCHANGED <<lifecycleVars, channelVars, gateVars, cancelled, expired, reply,
                 result, entered>>

SetCancelled(r) == cancelled' = [cancelled EXCEPT ![r] = TRUE]

\* The reply, or WorkerStopped when its sender was dropped.  Returning drops
\* the PendingRun of an inference call.
Receive(c) ==
  /\ caller[c] \in {"waiting", "timed"}
  /\ reply[c] # "empty"
  /\ Return(c, IF reply[c] = "disconnected" THEN "stopped" ELSE reply[c])
  /\ IF c \in Runs THEN SetCancelled(c) ELSE UNCHANGED cancelled
  /\ UNCHANGED <<lifecycleVars, channelVars, gateVars, expired, reply, entered>>

\* recv_timeout expires with no reply: DeadlineExceeded, and the dropped
\* handle cancels the request.
Timeout(r) ==
  /\ caller[r] = "timed"
  /\ reply[r] = "empty"
  /\ Return(r, "deadline")
  /\ SetCancelled(r)
  /\ UNCHANGED <<lifecycleVars, channelVars, gateVars, expired, reply, entered>>

Cancel(r) ==
  /\ caller[r] = "held"
  /\ SetCancelled(r)
  /\ UNCHANGED <<lifecycleVars, channelVars, gateVars, caller, expired, reply,
                 result, entered>>

DropHandle(r) ==
  /\ caller[r] = "held"
  /\ Return(r, "dropped")
  /\ SetCancelled(r)
  /\ UNCHANGED <<lifecycleVars, channelVars, gateVars, expired, reply, entered>>

\* Time reaches the deadline, before the submission or while it is unanswered.
Expire(r) ==
  /\ r \in Timed
  /\ caller[r] = "idle" \/ reply[r] = "empty"
  /\ expired' = [expired EXCEPT ![r] = TRUE]
  /\ UNCHANGED <<lifecycleVars, channelVars, gateVars, caller, cancelled, reply,
                 result, entered>>

CallerStep(c) ==
  \/ RejectInvalid(c) \/ Call(c) \/ SendBlocking(c) \/ TrySubmit(c) \/ Wait(c)
  \/ Receive(c) \/ Timeout(c) \/ Cancel(c) \/ DropHandle(c) \/ Expire(c)

-----------------------------------------------------------------------------
(* Other users of the gate lock it, and release it or panic.               *)

UserLock(u) ==
  /\ user[u] = "idle"
  /\ gate = Free
  /\ gate' = u
  /\ user' = [user EXCEPT ![u] = "holding"]
  /\ UNCHANGED <<lifecycleVars, channelVars, poisoned, callerVars, entered>>

UserUnlock(u) ==
  /\ user[u] = "holding"
  /\ gate' = Free
  /\ \/ UNCHANGED poisoned
     \/ poisoned' = TRUE
  /\ user' = [user EXCEPT ![u] = "finished"]
  /\ UNCHANGED <<lifecycleVars, channelVars, callerVars, entered>>

-----------------------------------------------------------------------------

ModelStep(m) ==
  \/ LoadRejected(m) \/ Spawn(m) \/ LoadReturns(m)
  \/ DropLast(m) \/ SendShutdown(m) \/ Joined(m)

\* Every model is gone and no thread is left inside a call.
Terminated ==
  /\ \A m \in Models : model[m] \in {"closed", "failed"}
  /\ \A c \in Calls : caller[c] \in {"idle", "returned"}
  /\ \A u \in GateUsers : user[u] = "finished"

Next ==
  \/ \E m \in Models : ModelStep(m) \/ WorkerStep(m)
  \/ \E c \in Calls : CallerStep(c)
  \/ \E u \in GateUsers : UserLock(u) \/ UserUnlock(u)
  \/ Terminated /\ UNCHANGED vars

Spec == Init /\ [][Next]_vars

\* Threads that can run do run, a holder of the gate releases it, and a thread
\* inside join, recv or a bounded send goes on when it can.  Loading, calling,
\* cancelling, waiting on a handle and dropping a model are the application's
\* choice.
Fairness ==
  /\ \A m \in Models : WF_vars(WorkerStep(m))
  /\ \A m \in Models : WF_vars(LoadReturns(m) \/ SendShutdown(m) \/ Joined(m))
  /\ \A c \in Calls : WF_vars(SendBlocking(c) \/ Receive(c))
  /\ \A u \in GateUsers : WF_vars(UserUnlock(u))

FairSpec == Spec /\ Fairness

-----------------------------------------------------------------------------
(* Safety.                                                                 *)

QueueTypeOK ==
  /\ queue \in [Models -> Seq(Calls \cup {Shutdown})]
  /\ \A m \in Models : /\ queue[m] \in Seq(CallsOf(m) \cup {Shutdown})
                       /\ Len(queue[m]) <= QueueCapacity

\* Types, with the bound of the channel: std's sync_channel(queue_capacity)
\* never holds more than queue_capacity commands, and only this model's.
TypeOK ==
  /\ model \in [Models -> ModelStates]
  /\ worker \in [Models -> WorkerStates]
  /\ engine \in [Models -> {"none", "alive", "destroyed"}]
  /\ QueueTypeOK
  /\ active \in [Models -> Calls \cup {NoCall}]
  /\ \A m \in Models : active[m] \in CallsOf(m) \cup {NoCall}
  /\ verdict \in [Models -> Verdicts \cup {"none"}]
  /\ gate \in Models \cup GateUsers \cup {Free}
  /\ poisoned \in BOOLEAN
  /\ user \in [GateUsers -> {"idle", "holding", "finished"}]
  /\ caller \in [Calls -> {"idle", "sending", "held", "waiting", "timed", "returned"}]
  /\ cancelled \in [Runs -> BOOLEAN]
  /\ expired \in [Timed -> BOOLEAN]
  /\ reply \in [Calls -> Verdicts \cup {"none", "empty", "disconnected"}]
  /\ result \in [Calls -> Verdicts \cup {"none", "invalid", "full", "stopped", "dropped"}]
  /\ entered \subseteq Calls

\* Complete native transactions exclude each other: a Serialized worker between
\* the start of a creation, inference, save or orderly destruction and its end
\* is the one holder of the gate, and so is any other user of the gate.
GateExclusion ==
  /\ \A m \in Serialized : worker[m] \in InGate <=> gate = m
  /\ \A u \in GateUsers : user[u] = "holding" <=> gate = u
  /\ gate \notin Models \ Serialized

\* Poison recovery is only for cleanup: once any holder of the gate has
\* panicked, no Serialized model creates, infers or saves, one already inside
\* included (there can be none).
PoisonStopsInference ==
  poisoned => \A m \in Serialized : worker[m] \notin InferencePhases

\* A panicking worker destroys its engine after it has let go of the gate.  The
\* poison keeps every other Serialized model out of MNN meanwhile, so only the
\* destruction of another engine can overlap it.
UnwindIsolated ==
  \A m, n \in Serialized :
    worker[m] \in {"unwinding", "dropping"} => worker[n] \notin InferencePhases

\* A refusal or a skipped request never touched MNN, and an inference result
\* is never reported for a request MNN did not see.  (DeadlineExceeded from
\* wait_timeout says nothing about MNN; as a reply of the worker it does.)
OutcomeHonest ==
  \A c \in Calls :
    /\ result[c] \in {"invalid", "full", "cancelled", "poisoned"} => c \notin entered
    /\ reply[c] \in {"cancelled", "deadline", "poisoned"} => c \notin entered
    /\ result[c] \in {"ok", "native"} => c \in entered

\* An accepted call that has no reply yet is in the queue or with the worker,
\* exactly once: nothing is lost between channel, worker and unwinding.
NoLostCall ==
  \A c \in Calls :
    LET m == ModelOf[c]
        places == {i \in 1..Len(queue[m]) : queue[m][i] = c}
    IN Cardinality(places) + (IF active[m] = c THEN 1 ELSE 0)
         = IF reply[c] = "empty" THEN 1 ELSE 0

\* A worker that stops in order has answered everything accepted before the
\* last Model was dropped, PendingRuns that outlive the Model included.
ShutdownDrains ==
  \A m \in Models : worker[m] \in Leaving =>
    /\ queue[m] = <<>>
    /\ \A c \in CallsOf(m) : reply[c] \notin {"empty", "disconnected"}

\* WorkerStopped reaches a caller only when the worker panicked: neither a full
\* queue nor an orderly shutdown is ever reported as a dead worker.
StoppedMeansPanic ==
  \A c \in Calls : result[c] = "stopped" => worker[ModelOf[c]] \in Dying

\* When the last Model has been dropped, or a load has failed, the thread has
\* ended, its engine is gone and it does not hold the gate.
ClosedReclaimed ==
  \A m \in Models : model[m] \in {"closed", "failed"} =>
    /\ worker[m] \in {"absent", "exited", "panicked"}
    /\ engine[m] # "alive"
    /\ gate # m

AtGate(m) == worker[m] \in {"starting", "locking", "saveLocking", "exitLocking"}

\* The worker has a step of its own to take, or waits only for a holder of the
\* gate that needs nobody else to let go of it.
WillMove(m) ==
  IF AtGate(m)
  THEN \/ m \notin Serialized \/ gate = Free
       \/ \E n \in Serialized : gate = n /\ worker[n] \in InGate
       \/ \E u \in GateUsers : gate = u /\ user[u] = "holding"
  ELSE /\ ~ReceiverGone(m) /\ worker[m] # "absent"
       /\ worker[m] = "idle" => queue[m] # <<>>

\* No circle of waiting: whoever sleeps in a full channel, for a reply, for the
\* start of a load or in join is waiting for a worker that moves, and not for one
\* that itself sleeps in recv, has left, or wants a gate that nobody will return.
NobodyWaitsInVain ==
  /\ \A c \in Calls :
       LET m == ModelOf[c] IN
         /\ caller[c] = "sending" => ReceiverGone(m) \/ HasRoom(m) \/ WillMove(m)
         /\ caller[c] \in {"waiting", "timed"} /\ reply[c] = "empty" => WillMove(m)
  /\ \A m \in Models :
       /\ model[m] = "loading" => worker[m] = "idle" \/ ReceiverGone(m) \/ WillMove(m)
       /\ model[m] = "closing" => ReceiverGone(m) \/ HasRoom(m) \/ WillMove(m)
       /\ model[m] = "joining" => ReceiverGone(m) \/ WillMove(m)

-----------------------------------------------------------------------------
(* Actions and liveness.                                                   *)

Withdrawn(r) == cancelled[r] \/ (r \in Timed /\ expired[r])

\* The request has passed the check under the gate and is about to enter MNN.
Committed(r) == active[ModelOf[r]] = r /\ worker[ModelOf[r]] = "entering"

\* A request cancelled, dropped, timed out or past its deadline before the
\* check under the gate never enters MNN, however long it waited for the gate.
WithdrawnNeverRuns ==
  \A r \in TryRuns :
    [](Withdrawn(r) /\ r \notin entered /\ ~Committed(r) => [](r \notin entered))

\* "Creation, inference and destruction participate in that gate"
\* (ARCHITECTURE.md, Current invariants).
DestructionUnderGate ==
  [][\A m \in Serialized :
       engine[m] = "alive" /\ engine'[m] = "destroyed" => gate = m]_vars

\* No caller waits for ever, whatever dies, fills up or is poisoned.
CallsReturn ==
  \A c \in Calls : caller[c] \in {"sending", "waiting", "timed"} ~> caller[c] = "returned"

\* Every accepted request is settled even when nobody waits for it.
AcceptedSettled ==
  \A c \in Calls : reply[c] = "empty" ~> reply[c] # "empty"

\* Dropping the last Model returns, and so does loading one.
CloseCompletes ==
  \A m \in Models :
    /\ model[m] = "closing" ~> model[m] = "closed"
    /\ model[m] = "loading" ~> model[m] \in {"live", "failed"}

-----------------------------------------------------------------------------
(* The worker implements the line of calls of ModelService.                *)

ServicePhase(m) ==
  CASE worker[m] \in {"absent", "starting", "initializing"} -> "starting"
    [] worker[m] \in Running -> "serving"
    [] worker[m] \in {"unwinding", "dropping"} -> "lost"
    [] OTHER -> "retired"

ServiceBacklog(m) ==
  IF active[m] # NoCall /\ verdict[m] = "none"
  THEN <<active[m]>> \o queue[m]
  ELSE queue[m]

ServiceFate(c) ==
  CASE reply[c] = "none" -> IF caller[c] = "returned" THEN "refused" ELSE "new"
    [] reply[c] = "empty" ->
         IF active[ModelOf[c]] = c /\ verdict[ModelOf[c]] # "none"
         THEN verdict[ModelOf[c]] ELSE "pending"
    [] reply[c] = "disconnected" -> "abandoned"
    [] OTHER -> reply[c]

Service == INSTANCE ModelService WITH
  Withdrawable <- TryRuns,
  Stop <- Shutdown,
  phase <- [m \in Models |-> ServicePhase(m)],
  backlog <- [m \in Models |-> ServiceBacklog(m)],
  fate <- [c \in Calls |-> ServiceFate(c)],
  withdrawn <- {r \in TryRuns : Withdrawn(r)}

\* Calls to one model are decided in the order they were accepted, each at
\* most once, skipped only if withdrawn, and abandoned only by a dying worker.
ServiceImplemented == Service!Spec
=============================================================================
