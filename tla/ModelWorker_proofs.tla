-------------------------- MODULE ModelWorker_proofs --------------------------
(***************************************************************************)
(* Theorems about ModelWorker, for every set of models, calls and gate     *)
(* users and every queue capacity: first the types and the gate, then the  *)
(* life of a Model and of the calls it accepts.                            *)
(***************************************************************************)
EXTENDS ModelWorker, FiniteSetTheorems, SequenceTheorems, TLAPS

USE DEF lifecycleVars, channelVars, gateVars, callerVars

RunPhases == {"checking", "locking", "rechecking", "entering", "native"}
SavePhases == {"saveLocking", "saving"}

\* What the phase of a worker says about the call it is serving.
PhaseOK ==
  \A m \in Models :
    /\ model[m] = "unloaded" => worker[m] = "absent"
    /\ worker[m] \in RunPhases => active[m] \in Runs
    /\ worker[m] \in SavePhases => active[m] \in Saves
    /\ worker[m] = "replying" => active[m] \in Calls
    /\ worker[m] \notin RunPhases \cup SavePhases \cup {"replying"} => active[m] = NoCall
    /\ worker[m] = "replying" <=> verdict[m] # "none"

LEMMA ServiceCallTypes ==
  ASSUME TypeOK, NEW c \in Calls
  PROVE  ModelOf[c] \in Models /\ c \in CallsOf(ModelOf[c])
BY ModelWorkerAssumption DEF CallsOf

\* check_live has three answers.
LEMMA CheckLiveType ==
  ASSUME NEW r
  PROVE  CheckLive(r) \in {"live", "cancelled", "deadline"}
BY DEF CheckLive

LEMMA TypeInit == Init => TypeOK
<1> SUFFICES ASSUME Init PROVE TypeOK OBVIOUS
<1>1. queue \in [Models -> Seq(Calls \cup {Shutdown})]
  BY DEF Init
<1>2. ASSUME NEW m \in Models
      PROVE  queue[m] \in Seq(CallsOf(m) \cup {Shutdown}) /\ Len(queue[m]) <= QueueCapacity
  BY ModelWorkerAssumption DEF Init
<1> QED BY <1>1, <1>2 DEF Init, TypeOK, QueueTypeOK, ModelStates, WorkerStates

\* A command of model m fits its queue while there is room.
LEMMA AppendTypes ==
  ASSUME QueueTypeOK, NEW m \in Models, HasRoom(m),
         NEW command \in CallsOf(m) \cup {Shutdown},
         queue' = [queue EXCEPT ![m] = Append(@, command)]
  PROVE  QueueTypeOK'
<1> DEFINE All == Calls \cup {Shutdown}
           Own == CallsOf(m) \cup {Shutdown}
<1>1. queue[m] \in Seq(Own) /\ Own \subseteq All
  BY DEF QueueTypeOK, CallsOf
<1>2. Append(queue[m], command) \in Seq(Own)
  BY <1>1
<1>3. Append(queue[m], command) \in Seq(All)
  BY <1>1 DEF QueueTypeOK
<1>4. Len(Append(queue[m], command)) = Len(queue[m]) + 1
  BY <1>1
<1>5. Len(queue[m]) + 1 <= QueueCapacity
  BY <1>1, ModelWorkerAssumption DEF HasRoom
<1> QED BY <1>2, <1>3, <1>4, <1>5 DEF QueueTypeOK

LEMMA TailTypes ==
  ASSUME QueueTypeOK, NEW m \in Models, queue[m] # <<>>,
         queue' = [queue EXCEPT ![m] = Tail(@)]
  PROVE  QueueTypeOK' /\ Head(queue[m]) \in CallsOf(m) \cup {Shutdown}
<1> DEFINE All == Calls \cup {Shutdown}
           Own == CallsOf(m) \cup {Shutdown}
<1>1. queue[m] \in Seq(Own) /\ queue[m] \in Seq(All)
  BY DEF QueueTypeOK
<1>2. Tail(queue[m]) \in Seq(Own) /\ Tail(queue[m]) \in Seq(All) /\ Head(queue[m]) \in Own
  BY <1>1
<1>3. Len(Tail(queue[m])) = Len(queue[m]) - 1 /\ Len(queue[m]) \in Nat
  BY <1>1
<1>4. Len(queue[m]) - 1 <= QueueCapacity
  <2>1. Len(queue[m]) <= QueueCapacity /\ QueueCapacity \in Nat
    BY ModelWorkerAssumption DEF QueueTypeOK
  <2> QED BY <1>3, <2>1
<1> QED BY <1>2, <1>3, <1>4 DEF QueueTypeOK

LEMMA TypeModelStep ==
  ASSUME TypeOK, NEW m \in Models, ModelStep(m)
  PROVE  TypeOK'
<1>1. CASE LoadRejected(m)
  BY <1>1 DEF LoadRejected, TypeOK, QueueTypeOK, ModelStates
<1>2. CASE Spawn(m)
  BY <1>2 DEF Spawn, GoTo, TypeOK, QueueTypeOK, ModelStates, WorkerStates
<1>3. CASE LoadReturns(m)
  BY <1>3 DEF LoadReturns, TypeOK, QueueTypeOK, ModelStates
<1>4. CASE DropLast(m)
  BY <1>4 DEF DropLast, TypeOK, QueueTypeOK, ModelStates
<1>5. CASE SendShutdown(m)
  <2>1. CASE UNCHANGED queue
    BY <1>5, <2>1 DEF SendShutdown, TypeOK, QueueTypeOK, ModelStates
  <2>2. CASE HasRoom(m) /\ queue' = [queue EXCEPT ![m] = Append(@, Shutdown)]
    <3>1. QueueTypeOK'
      BY <2>2, AppendTypes DEF TypeOK
    <3> QED BY <1>5, <3>1 DEF SendShutdown, TypeOK, QueueTypeOK, ModelStates
  <2> QED BY <1>5, <2>1, <2>2 DEF SendShutdown
<1>6. CASE Joined(m)
  BY <1>6 DEF Joined, TypeOK, QueueTypeOK, ModelStates
<1> QED BY <1>1, <1>2, <1>3, <1>4, <1>5, <1>6 DEF ModelStep

LEMMA DecideTypes ==
  ASSUME TypeOK, NEW m \in Models, NEW v \in Verdicts, Decide(m, v)
  PROVE  /\ worker' \in [Models -> WorkerStates]
         /\ verdict' \in [Models -> Verdicts \cup {"none"}]
BY DEF Decide, GoTo, TypeOK, WorkerStates, Running

LEMMA GoToTypes ==
  ASSUME TypeOK, NEW m \in Models, NEW w \in WorkerStates, GoTo(m, w)
  PROVE  worker' \in [Models -> WorkerStates]
BY DEF GoTo, TypeOK

LEMMA UnlockTypes ==
  ASSUME TypeOK, NEW m \in Models, UnlockGate(m)
  PROVE  gate' \in Models \cup GateUsers \cup {Free}
BY DEF UnlockGate, TypeOK

LEMMA TypeWorkerStep ==
  ASSUME TypeOK, PhaseOK, NEW m \in Models, WorkerStep(m)
  PROVE  TypeOK'
<1>1. CASE StartLock(m)
  BY <1>1 DEF StartLock, GoTo, LockGate, TypeOK, QueueTypeOK, WorkerStates, Running, Leaving, Dying
<1>2. CASE StartPoisoned(m)
  BY <1>2 DEF StartPoisoned, GoTo, TypeOK, QueueTypeOK, WorkerStates, Running, Leaving, Dying
<1>3. CASE Initialize(m)
  BY <1>3 DEF Initialize, GoTo, UnlockGate, TypeOK, QueueTypeOK, WorkerStates, Running, Leaving, Dying
<1>4. CASE InitPanic(m)
  BY <1>4 DEF InitPanic, GoTo, UnlockGate, PoisonGate, TypeOK, QueueTypeOK, WorkerStates, Running, Leaving, Dying
<1>5. CASE Recv(m)
  <2>1. QueueTypeOK' /\ Head(queue[m]) \in CallsOf(m) \cup {Shutdown}
    BY <1>5, TailTypes DEF Recv, TypeOK
  <2>2. Head(queue[m]) \in Calls => Head(queue[m]) \in CallsOf(m)
    BY <2>1, ModelWorkerAssumption
  <2> QED BY <1>5, <2>1, <2>2 DEF Recv, GoTo, TypeOK, Calls, WorkerStates, Running, Leaving, Dying
<1>6. CASE FirstCheck(m)
  <2>1. CASE CheckLive(active[m]) = "live"
    BY <1>6, <2>1 DEF FirstCheck, GoTo, TypeOK, QueueTypeOK, WorkerStates, Running, Leaving, Dying
  <2>2. CASE CheckLive(active[m]) # "live"
    <3>1. CheckLive(active[m]) \in Verdicts
      BY <2>2, CheckLiveType DEF Verdicts
    <3>2. Decide(m, CheckLive(active[m]))
      BY <1>6, <2>2 DEF FirstCheck
    <3> QED BY <1>6, <3>1, <3>2, DecideTypes DEF FirstCheck, TypeOK, QueueTypeOK
  <2> QED BY <2>1, <2>2
<1>7. CASE Lock(m)
  BY <1>7 DEF Lock, GoTo, LockGate, TypeOK, QueueTypeOK, WorkerStates, Running, Leaving, Dying
<1>8. CASE LockPoisoned(m)
  BY <1>8 DEF LockPoisoned, GoTo, Decide, Verdicts, TypeOK, QueueTypeOK, WorkerStates, Running, Leaving, Dying
<1>9. CASE Recheck(m)
  <2>1. CASE CheckLive(active[m]) = "live"
    BY <1>9, <2>1 DEF Recheck, GoTo, TypeOK, QueueTypeOK, WorkerStates, Running, Leaving, Dying
  <2>2. CASE CheckLive(active[m]) # "live"
    <3>1. CheckLive(active[m]) \in Verdicts
      BY <2>2, CheckLiveType DEF Verdicts
    <3>2. Decide(m, CheckLive(active[m])) /\ UnlockGate(m)
      BY <1>9, <2>2 DEF Recheck
    <3> QED BY <1>9, <3>1, <3>2, DecideTypes, UnlockTypes DEF Recheck, TypeOK, QueueTypeOK
  <2> QED BY <2>1, <2>2
<1>10. CASE EnterNative(m)
  <2>1. active[m] \in Calls
    BY <1>10 DEF EnterNative, PhaseOK, RunPhases, SavePhases, Calls, Runs
  <2> QED BY <1>10, <2>1 DEF EnterNative, GoTo, LockGate, TypeOK, QueueTypeOK, WorkerStates, Running, Leaving, Dying
<1>11. CASE FinishNative(m)
  <2>1. PICK v \in {"ok", "native"} : Decide(m, v)
    BY <1>11 DEF FinishNative
  <2>2. v \in Verdicts
    BY <2>1 DEF Verdicts
  <2> QED BY <1>11, <2>1, <2>2, DecideTypes, UnlockTypes DEF FinishNative, TypeOK, QueueTypeOK
<1>12. CASE PanicNative(m)
  BY <1>12 DEF PanicNative, GoTo, UnlockGate, PoisonGate, TypeOK, QueueTypeOK, WorkerStates, Running, Leaving, Dying
<1>13. CASE UnwindEngine(m)
  BY <1>13 DEF UnwindEngine, GoTo, TypeOK, QueueTypeOK, WorkerStates, Running, Leaving, Dying
<1>14. CASE DropReceiver(m)
  <2>1. <<>> \in Seq(Calls \cup {Shutdown}) /\ <<>> \in Seq(CallsOf(m) \cup {Shutdown})
    OBVIOUS
  <2>2. Len(<<>>) <= QueueCapacity
    BY ModelWorkerAssumption
  <2>3. QueueTypeOK'
    BY <1>14, <2>1, <2>2 DEF DropReceiver, TypeOK, QueueTypeOK
  <2> QED BY <1>14, <2>3 DEF DropReceiver, GoTo, TypeOK, WorkerStates, Running, Leaving, Dying
<1>15. CASE Reply(m)
  BY <1>15 DEF Reply, GoTo, TypeOK, QueueTypeOK, WorkerStates, Running, Leaving, Dying
<1>16. CASE SaveLock(m)
  <2>1. active[m] \in Calls
    BY <1>16 DEF SaveLock, PhaseOK, RunPhases, SavePhases, Calls, Runs
  <2> QED BY <1>16, <2>1 DEF SaveLock, GoTo, LockGate, TypeOK, QueueTypeOK, WorkerStates, Running, Leaving, Dying
<1>17. CASE Save(m)
  <2>1. PICK v \in {"ok", "native"} : Decide(m, v)
    BY <1>17 DEF Save
  <2>2. v \in Verdicts
    BY <2>1 DEF Verdicts
  <2> QED BY <1>17, <2>1, <2>2, DecideTypes, UnlockTypes DEF Save, TypeOK, QueueTypeOK
<1>18. CASE ExitLock(m)
  BY <1>18 DEF ExitLock, GoTo, TypeOK, QueueTypeOK, WorkerStates, Running, Leaving, Dying
<1>19. CASE Cleanup(m)
  BY <1>19 DEF Cleanup, GoTo, UnlockGate, TypeOK, QueueTypeOK, WorkerStates, Running, Leaving, Dying
<1> QED BY <1>1, <1>2, <1>3, <1>4, <1>5, <1>6, <1>7, <1>8, <1>9, <1>10, <1>11, <1>12, <1>13, <1>14, <1>15, <1>16, <1>17, <1>18, <1>19 DEF WorkerStep

LEMMA TypeCallerStep ==
  ASSUME TypeOK, NEW c \in Calls, CallerStep(c)
  PROVE  TypeOK'
<1>0. UNCHANGED queue => QueueTypeOK'
  BY DEF TypeOK, QueueTypeOK
<1>1. CASE RejectInvalid(c)
  BY <1>0, <1>1 DEF RejectInvalid, Return, TypeOK
<1>2. CASE Call(c)
  BY <1>0, <1>2 DEF Call, TypeOK
<1>3. CASE SendBlocking(c)
  <2>1. CASE ReceiverGone(ModelOf[c])
    BY <1>0, <1>3, <2>1 DEF SendBlocking, Return, TypeOK
  <2>2. CASE ~ReceiverGone(ModelOf[c])
    <3>1. QueueTypeOK'
      BY <1>3, <2>2, ServiceCallTypes, AppendTypes DEF SendBlocking, Send, TypeOK
    <3> QED BY <1>3, <2>2, <3>1 DEF SendBlocking, Send, TypeOK
  <2> QED BY <2>1, <2>2
<1>4. CASE TrySubmit(c)
  <2>1. CASE Admission(c) = "accepted"
    <3>1. HasRoom(ModelOf[c])
      BY <2>1, CheckLiveType DEF Admission
    <3>2. QueueTypeOK'
      BY <1>4, <2>1, <3>1, ServiceCallTypes, AppendTypes DEF TrySubmit, Send, TypeOK
    <3> QED BY <1>4, <2>1, <3>2 DEF TrySubmit, Send, TypeOK
  <2>2. CASE Admission(c) # "accepted"
    <3>1. Admission(c) \in Verdicts \cup {"full", "stopped"}
      BY <2>2, CheckLiveType DEF Admission, Verdicts
    <3> QED BY <1>0, <1>4, <2>2, <3>1 DEF TrySubmit, Return, TypeOK
  <2> QED BY <2>1, <2>2
<1>5. CASE Wait(c)
  <2>1. PICK w \in {"waiting", "timed"} : caller' = [caller EXCEPT ![c] = w]
    BY <1>5 DEF Wait
  <2> QED BY <1>0, <1>5, <2>1 DEF Wait, TypeOK
<1>6. CASE Receive(c)
  <2>1. (IF reply[c] = "disconnected" THEN "stopped" ELSE reply[c])
          \in Verdicts \cup {"none", "stopped"}
    BY <1>6 DEF Receive, TypeOK
  <2>2. cancelled' \in [Runs -> BOOLEAN]
    BY <1>6 DEF Receive, SetCancelled, TypeOK
  <2> QED BY <1>0, <1>6, <2>1, <2>2 DEF Receive, Return, TypeOK
<1>7. CASE Timeout(c)
  BY <1>0, <1>7 DEF Timeout, Return, SetCancelled, TypeOK, Verdicts
<1>8. CASE Cancel(c)
  BY <1>0, <1>8 DEF Cancel, SetCancelled, TypeOK
<1>9. CASE DropHandle(c)
  BY <1>0, <1>9 DEF DropHandle, Return, SetCancelled, TypeOK
<1>10. CASE Expire(c)
  BY <1>0, <1>10 DEF Expire, TypeOK
<1> QED BY <1>1, <1>2, <1>3, <1>4, <1>5, <1>6, <1>7, <1>8, <1>9, <1>10 DEF CallerStep

LEMMA TypeUserStep ==
  ASSUME TypeOK, NEW u \in GateUsers, UserLock(u) \/ UserUnlock(u)
  PROVE  TypeOK'
BY DEF UserLock, UserUnlock, TypeOK, QueueTypeOK

LEMMA TypeStutter ==
  ASSUME TypeOK, UNCHANGED vars
  PROVE  TypeOK'
BY DEF vars, TypeOK, QueueTypeOK

LEMMA PhaseInit == Init => PhaseOK
BY DEF Init, PhaseOK, RunPhases, SavePhases

\* The phases change with the worker; the other threads leave them alone.
LEMMA PhaseStep ==
  ASSUME TypeOK, PhaseOK, [Next]_vars
  PROVE  PhaseOK'
<1> USE DEF RunPhases, SavePhases
<1>1. ASSUME NEW m \in Models, ModelStep(m)
      PROVE  PhaseOK'
  BY <1>1 DEF ModelStep, LoadRejected, Spawn, LoadReturns, DropLast, SendShutdown, Joined,
              GoTo, PhaseOK, TypeOK
<1>2. ASSUME NEW m \in Models, WorkerStep(m)
      PROVE  PhaseOK'
  <2> USE DEF GoTo, PhaseOK, TypeOK
  <2>1. CASE Recv(m)
    BY <1>2, <2>1 DEF Recv, Calls
  <2>2. CASE FirstCheck(m)
    BY <1>2, <2>2, CheckLiveType DEF FirstCheck, Decide, Runs, Calls
  <2>3. CASE LockPoisoned(m)
    BY <1>2, <2>3 DEF LockPoisoned, Decide, Runs, Calls
  <2>4. CASE Recheck(m)
    BY <1>2, <2>4, CheckLiveType DEF Recheck, Decide, Runs, Calls
  <2>5. CASE FinishNative(m)
    BY <1>2, <2>5 DEF FinishNative, Decide, Runs, Calls
  <2>6. CASE Save(m)
    BY <1>2, <2>6 DEF Save, Decide, Runs, Calls
  <2>7. CASE Reply(m)
    BY <1>2, <2>7 DEF Reply
  <2>8. CASE PanicNative(m)
    BY <1>2, <2>8 DEF PanicNative
  <2>9. CASE StartLock(m) \/ StartPoisoned(m) \/ Initialize(m) \/ InitPanic(m)
    BY <1>2, <2>9 DEF StartLock, StartPoisoned, Initialize, InitPanic
  <2>10. CASE Lock(m) \/ EnterNative(m) \/ SaveLock(m)
    BY <1>2, <2>10 DEF Lock, EnterNative, SaveLock
  <2>11. CASE UnwindEngine(m) \/ DropReceiver(m) \/ ExitLock(m) \/ Cleanup(m)
    BY <1>2, <2>11 DEF UnwindEngine, DropReceiver, ExitLock, Cleanup
  <2> QED BY <1>2, <2>1, <2>2, <2>3, <2>4, <2>5, <2>6, <2>7, <2>8, <2>9, <2>10, <2>11
          DEF WorkerStep
<1>3. ASSUME NEW c \in Calls, CallerStep(c)
      PROVE  PhaseOK'
  <2>1. UNCHANGED <<model, worker, active, verdict>>
    BY <1>3 DEF CallerStep, RejectInvalid, Call, SendBlocking, TrySubmit, Wait, Receive,
                Timeout, Cancel, DropHandle, Expire
  <2> QED BY <2>1 DEF PhaseOK
<1>4. ASSUME NEW u \in GateUsers, UserLock(u) \/ UserUnlock(u)
      PROVE  PhaseOK'
  BY <1>4 DEF UserLock, UserUnlock, PhaseOK
<1>5. CASE UNCHANGED vars
  BY <1>5 DEF vars, PhaseOK
<1> QED BY <1>1, <1>2, <1>3, <1>4, <1>5 DEF Next

\* Type correctness, the bound of every command channel included: no sequence of
\* loads, calls, cancellations, panics and drops puts a command of one model into
\* the channel of another or more than queue_capacity commands into one.
THEOREM TypeCorrectness == Spec => [](TypeOK /\ PhaseOK)
<1>1. Init => TypeOK /\ PhaseOK
  BY TypeInit, PhaseInit
<1>2. TypeOK /\ PhaseOK /\ [Next]_vars => (TypeOK /\ PhaseOK)'
  <2> SUFFICES ASSUME TypeOK, PhaseOK, [Next]_vars
               PROVE  TypeOK'
    BY PhaseStep
  <2> QED BY TypeModelStep, TypeWorkerStep, TypeCallerStep, TypeUserStep, TypeStutter DEF Next
<1> QED BY <1>1, <1>2, PTL DEF Spec

-----------------------------------------------------------------------------
(* The execution gate.                                                     *)

\* The strengthening: a Serialized worker that is unwinding from a native
\* transaction has poisoned the gate.
GateInv ==
  /\ GateExclusion
  /\ PoisonStopsInference
  /\ \A m \in Serialized : worker[m] \in {"unwinding", "dropping"} => poisoned

LEMMA GateInit == Init => GateInv
BY ModelWorkerAssumption
   DEF Init, GateInv, GateExclusion, PoisonStopsInference, InGate, InferencePhases

LEMMA GateModelStep ==
  ASSUME TypeOK, PhaseOK, GateInv, NEW m \in Models, ModelStep(m)
  PROVE  GateInv'
<1>1. CASE Spawn(m)
  BY <1>1, ModelWorkerAssumption
     DEF Spawn, GoTo, GateInv, GateExclusion, PoisonStopsInference, InGate,
         InferencePhases, TypeOK, PhaseOK
<1>2. CASE UNCHANGED worker
  BY <1>2 DEF ModelStep, LoadRejected, Spawn, LoadReturns, DropLast, SendShutdown, Joined,
              GateInv, GateExclusion, PoisonStopsInference
<1> QED BY <1>1, <1>2 DEF ModelStep, LoadRejected, LoadReturns, DropLast, SendShutdown, Joined

LEMMA GateWorkerStep ==
  ASSUME TypeOK, GateInv, NEW m \in Models, WorkerStep(m)
  PROVE  GateInv'
<1> USE ModelWorkerAssumption
    DEF GoTo, Decide, GateInv, GateExclusion, PoisonStopsInference, InGate,
        InferencePhases, TypeOK
\* Steps that take the gate find it free, so nobody else is inside.
<1>1. CASE StartLock(m) \/ Lock(m) \/ SaveLock(m)
  BY <1>1 DEF StartLock, Lock, SaveLock, LockGate
<1>2. CASE ExitLock(m)
  BY <1>2 DEF ExitLock
\* Steps that release it leave the phases it protects.
<1>3. CASE Initialize(m) \/ Cleanup(m)
  BY <1>3 DEF Initialize, Cleanup, UnlockGate
<1>4. CASE FinishNative(m) \/ Save(m)
  BY <1>4 DEF FinishNative, Save, UnlockGate
<1>5. CASE Recheck(m)
  BY <1>5 DEF Recheck, UnlockGate
\* A panicking holder poisons it: it was the only one inside.
<1>6. CASE InitPanic(m)
  BY <1>6 DEF InitPanic, UnlockGate, PoisonGate
<1>7. CASE PanicNative(m)
  <2>1. m \in Serialized => gate = m
    BY <1>7 DEF PanicNative
  <2>2. worker' = [worker EXCEPT ![m] = "unwinding"] /\ UNCHANGED user
    BY <1>7 DEF PanicNative
  <2>3. CASE m \in Serialized
    <3>1. gate' = Free /\ poisoned'
      BY <1>7, <2>3 DEF PanicNative, UnlockGate, PoisonGate
    <3> QED BY <2>1, <2>2, <2>3, <3>1
  <2>4. CASE m \notin Serialized
    <3>1. UNCHANGED gate /\ poisoned' = poisoned
      BY <1>7, <2>4 DEF PanicNative, UnlockGate, PoisonGate
    <3> QED BY <2>2, <2>4, <3>1
  <2> QED BY <2>3, <2>4
\* The other steps move between phases on the same side of the gate.
<1>8. CASE EnterNative(m)
  BY <1>8 DEF EnterNative
<1>9. CASE Recv(m) \/ FirstCheck(m) \/ Reply(m)
  BY <1>9 DEF Recv, FirstCheck, Reply
<1>10. CASE StartPoisoned(m) \/ LockPoisoned(m)
  BY <1>10 DEF StartPoisoned, LockPoisoned
<1>11. CASE UnwindEngine(m) \/ DropReceiver(m)
  BY <1>11 DEF UnwindEngine, DropReceiver
<1> QED BY <1>1, <1>2, <1>3, <1>4, <1>5, <1>6, <1>7, <1>8, <1>9, <1>10, <1>11 DEF WorkerStep

LEMMA GateCallerStep ==
  ASSUME GateInv, NEW c \in Calls, CallerStep(c)
  PROVE  GateInv'
<1>1. UNCHANGED <<worker, gate, poisoned, user>>
  BY DEF CallerStep, RejectInvalid, Call, SendBlocking, TrySubmit, Wait, Receive,
         Timeout, Cancel, DropHandle, Expire
<1> QED BY <1>1 DEF GateInv, GateExclusion, PoisonStopsInference

LEMMA GateUserStep ==
  ASSUME TypeOK, GateInv, NEW u \in GateUsers, UserLock(u) \/ UserUnlock(u)
  PROVE  GateInv'
<1> USE ModelWorkerAssumption
    DEF GateInv, GateExclusion, PoisonStopsInference, InGate, InferencePhases, TypeOK
<1>1. CASE UserLock(u)
  BY <1>1 DEF UserLock
<1>2. CASE UserUnlock(u)
  BY <1>2 DEF UserUnlock
<1> QED BY <1>1, <1>2

\* The execution gate excludes complete native transactions, and a panic of any
\* holder ends creation, inference and saving for good while orderly cleanup
\* goes on: with_gate, the poison recovery at the end of worker_main, and the
\* guard dropped before the engine when the worker unwinds.
THEOREM GateSafety ==
  Spec => [](GateExclusion /\ PoisonStopsInference /\ UnwindIsolated)
<1>1. Init => GateInv
  BY GateInit
<1>2. TypeOK /\ PhaseOK /\ GateInv /\ [Next]_vars => GateInv'
  <2> SUFFICES ASSUME TypeOK, PhaseOK, GateInv, [Next]_vars
               PROVE  GateInv'
    OBVIOUS
  <2>1. CASE UNCHANGED vars
    BY <2>1 DEF vars, GateInv, GateExclusion, PoisonStopsInference
  <2> QED BY <2>1, GateModelStep, GateWorkerStep, GateCallerStep, GateUserStep DEF Next
<1>3. GateInv => GateExclusion /\ PoisonStopsInference /\ UnwindIsolated
  BY DEF GateInv, PoisonStopsInference, UnwindIsolated
<1> QED BY <1>1, <1>2, <1>3, TypeCorrectness, PTL DEF Spec

\* After a panic of any holder no Serialized model is inside creation, inference
\* or saving, those already loaded included (with_gate reports the poison).
THEOREM PoisonSafety == Spec => []PoisonStopsInference
BY GateSafety, PTL

\* While a panicking worker destroys its engine without the gate, no Serialized
\* model is inside MNN except to destroy an engine of its own.
THEOREM UnwindSafety == Spec => []UnwindIsolated
BY GateSafety, PTL

-----------------------------------------------------------------------------
(* The life of a Model and of its calls.                                   *)

\* The stages of a worker's thread that each state of its Model allows: load and
\* drop are the only ways in and out of the running stages, and a worker leaves in
\* order only for a Model that is being joined.
LifecycleInv ==
  \A m \in Models :
    /\ model[m] = "loading" =>
         worker[m] \in {"starting", "initializing", "idle", "exited", "panicked"}
    /\ model[m] \in {"live", "closing"} => worker[m] \in Running \cup Dying
    /\ model[m] = "joining" => worker[m] \in Running \cup Leaving \cup Dying
    /\ model[m] = "closed" => worker[m] \in {"exited", "panicked"}
    /\ model[m] = "failed" => worker[m] \in {"absent", "exited", "panicked"}
    /\ worker[m] \in {"absent", "starting", "initializing"} => engine[m] = "none"
    /\ worker[m] \in {"dropping", "exited", "panicked"} => engine[m] # "alive"

\* Shutdown is the last command of a queue and means that the Model is gone; a
\* queue without a running worker or without a Model that was handed out is empty.
QueueInv ==
  /\ \A c \in Calls : caller[c] = "sending" => model[ModelOf[c]] = "live"
  /\ \A m \in Models :
       /\ \A i \in 1..Len(queue[m]) :
            queue[m][i] = Shutdown => i = Len(queue[m]) /\ model[m] = "joining"
       /\ model[m] \in {"unloaded", "loading", "failed"} => queue[m] = <<>>
       /\ worker[m] \in Leaving \cup {"panicked"} => queue[m] = <<>>

\* No call is queued twice.
Distinct == \A m \in Models : \A i, j \in 1..Len(queue[m]) : queue[m][i] = queue[m][j] => i = j

\* Where the calls are: an unanswered one is queued at one place or served, and
\* the state of its caller agrees.
PlaceInv ==
  /\ Distinct
  /\ \A c \in Calls :
       /\ reply[c] = "empty" <=> Queued(c) \/ active[ModelOf[c]] = c
       /\ Queued(c) => active[ModelOf[c]] # c
       /\ reply[c] = "disconnected" => worker[ModelOf[c]] \in Dying
       /\ caller[c] \in {"idle", "sending"} => reply[c] = "none"
       /\ caller[c] \in {"held", "waiting", "timed"} => reply[c] # "none"
       /\ caller[c] \in {"held", "timed"} => c \in TryRuns
       /\ caller[c] # "returned" => result[c] = "none"
       /\ result[c] = "stopped" => worker[ModelOf[c]] \in Dying

Unentered == {"checking", "locking", "rechecking", "entering", "saveLocking"}

\* Which calls MNN has seen, at every place a call can be.
EnteredInv ==
  /\ \A m \in Models :
       /\ worker[m] \in Unentered => active[m] \notin entered
       /\ worker[m] \in {"native", "saving"} => active[m] \in entered
       /\ verdict[m] \in {"ok", "native"} => active[m] \in entered
       /\ verdict[m] \in {"cancelled", "deadline", "poisoned"} => active[m] \notin entered
  /\ \A c \in Calls :
       /\ reply[c] = "none" \/ Queued(c) => c \notin entered
       /\ reply[c] \in {"ok", "native"} => c \in entered
       /\ reply[c] \in {"cancelled", "deadline", "poisoned"} => c \notin entered
       /\ result[c] \in {"invalid", "full"} => reply[c] = "none"
       /\ result[c] = "cancelled" => reply[c] \in {"none", "cancelled"}
       /\ result[c] \in {"ok", "native", "poisoned"} => reply[c] = result[c]

\* Only a handle withdraws a request that is not answered yet.
WithdrawInv ==
  \A r \in Runs : cancelled[r] /\ r \notin TryRuns => reply[r] \notin {"none", "empty"}

\* What each thread other than the workers leaves alone.
LEMMA CallerFrame ==
  ASSUME NEW c \in Calls, CallerStep(c)
  PROVE  UNCHANGED <<model, worker, engine, active, verdict, gate, poisoned, user, entered>>
BY DEF CallerStep, RejectInvalid, Call, SendBlocking, TrySubmit, Wait, Receive,
       Timeout, Cancel, DropHandle, Expire, Return

LEMMA UserFrame ==
  ASSUME NEW u \in GateUsers, UserLock(u) \/ UserUnlock(u)
  PROVE  UNCHANGED <<model, worker, engine, queue, active, verdict, caller, cancelled,
                     expired, reply, result, entered>>
BY DEF UserLock, UserUnlock

-----------------------------------------------------------------------------
(* The life of a Model and of its worker.                                  *)

LEMMA LifecycleInit == Init => LifecycleInv
BY DEF Init, LifecycleInv, Running, Leaving, Dying

LEMMA LifecycleModelStep ==
  ASSUME TypeOK, PhaseOK, LifecycleInv, NEW m \in Models, ModelStep(m)
  PROVE  LifecycleInv'
<1> USE DEF LifecycleInv, PhaseOK, TypeOK, GoTo, Running, Leaving, Dying
<1>1. CASE LoadRejected(m)
  BY <1>1 DEF LoadRejected
<1>2. CASE Spawn(m)
  BY <1>2 DEF Spawn
<1>3. CASE LoadReturns(m)
  BY <1>3 DEF LoadReturns, ReceiverGone
<1>4. CASE DropLast(m)
  BY <1>4 DEF DropLast
<1>5. CASE SendShutdown(m)
  BY <1>5 DEF SendShutdown
<1>6. CASE Joined(m)
  BY <1>6 DEF Joined, ReceiverGone
<1> QED BY <1>1, <1>2, <1>3, <1>4, <1>5, <1>6 DEF ModelStep

\* A command is received only once the Model was handed out, and Shutdown only
\* when it is being joined.
LEMMA RecvStage ==
  ASSUME TypeOK, PhaseOK, LifecycleInv, QueueInv, NEW m \in Models, Recv(m)
  PROVE  /\ model[m] \in {"live", "closing", "joining"}
         /\ Head(queue[m]) = Shutdown => model[m] = "joining" /\ Tail(queue[m]) = <<>>
<1>1. queue[m] # <<>> /\ queue[m] \in Seq(Calls \cup {Shutdown}) /\ worker[m] = "idle"
  BY DEF Recv, TypeOK, QueueTypeOK
<1>2. model[m] \in {"live", "closing", "joining"}
  BY <1>1 DEF TypeOK, ModelStates, LifecycleInv, QueueInv, PhaseOK
<1>3. ASSUME Head(queue[m]) = Shutdown
      PROVE  model[m] = "joining" /\ Len(queue[m]) = 1
  <2>1. 1 \in 1..Len(queue[m]) /\ queue[m][1] = Shutdown
    BY <1>1, <1>3
  <2> QED BY <2>1 DEF QueueInv
<1>4. Len(queue[m]) = 1 => Tail(queue[m]) = <<>>
  <2> DEFINE All == Calls \cup {Shutdown}
             rest == Tail(queue[m])
  <2>1. rest \in Seq(All) /\ Len(rest) = Len(queue[m]) - 1
    BY <1>1
  <2>2. rest # <<>> => Len(rest) \in Nat \ {0}
    <3> HIDE DEF rest, All
    <3> QED BY <2>1, EmptySeq
  <2> QED BY <2>1, <2>2
<1> QED BY <1>2, <1>3, <1>4

LEMMA LifecycleWorkerStep ==
  ASSUME TypeOK, PhaseOK, LifecycleInv, QueueInv, NEW m \in Models, WorkerStep(m)
  PROVE  LifecycleInv'
<1> USE DEF LifecycleInv, PhaseOK, TypeOK, ModelStates, GoTo, Running, Leaving, Dying
<1>1. CASE StartLock(m) \/ StartPoisoned(m) \/ Initialize(m) \/ InitPanic(m)
  BY <1>1 DEF StartLock, StartPoisoned, Initialize, InitPanic
<1>2. CASE Recv(m)
  <2>1. \E w \in {"checking", "saveLocking", "exitLocking"} :
          /\ worker' = [worker EXCEPT ![m] = w]
          /\ w = "exitLocking" => model[m] = "joining"
    BY <1>2, RecvStage DEF Recv
  <2>2. UNCHANGED <<model, engine>> /\ worker[m] = "idle"
    BY <1>2 DEF Recv
  <2> QED BY <1>2, <2>1, <2>2, RecvStage
<1>3. CASE FirstCheck(m) \/ Lock(m) \/ LockPoisoned(m) \/ Recheck(m) \/ EnterNative(m)
  BY <1>3 DEF FirstCheck, Lock, LockPoisoned, Recheck, EnterNative, Decide
<1>4. CASE FinishNative(m) \/ Reply(m) \/ SaveLock(m) \/ Save(m)
  BY <1>4 DEF FinishNative, Reply, SaveLock, Save, Decide
<1>5. CASE PanicNative(m)
  BY <1>5 DEF PanicNative
<1>6. CASE UnwindEngine(m) \/ DropReceiver(m)
  BY <1>6 DEF UnwindEngine, DropReceiver
<1>7. CASE ExitLock(m) \/ Cleanup(m)
  BY <1>7 DEF ExitLock, Cleanup
<1> QED BY <1>1, <1>2, <1>3, <1>4, <1>5, <1>6, <1>7 DEF WorkerStep

LEMMA LifecycleStep ==
  ASSUME TypeOK, PhaseOK, LifecycleInv, QueueInv, [Next]_vars
  PROVE  LifecycleInv'
<1>1. ASSUME UNCHANGED <<model, worker, engine>>
      PROVE  LifecycleInv'
  BY <1>1 DEF LifecycleInv
<1> QED BY <1>1, LifecycleModelStep, LifecycleWorkerStep, CallerFrame, UserFrame DEF Next, vars

-----------------------------------------------------------------------------
(* The command channels.                                                   *)

\* What the bounded send does to a queue, by positions.
LEMMA AppendPlaces ==
  ASSUME QueueTypeOK, NEW m \in Models, NEW command \in Calls \cup {Shutdown},
         queue' = [queue EXCEPT ![m] = Append(@, command)]
  PROVE  /\ Len(queue[m]) \in Nat
         /\ Len(queue'[m]) = Len(queue[m]) + 1
         /\ \A i \in 1..Len(queue[m]) : queue'[m][i] = queue[m][i]
         /\ queue'[m][Len(queue[m]) + 1] = command
         /\ \A n \in Models \ {m} : queue'[n] = queue[n]
<1> DEFINE All == Calls \cup {Shutdown}
           line == queue[m]
<1>1. line \in Seq(All) /\ command \in All
  BY DEF QueueTypeOK
<1>2. queue'[m] = Append(line, command) /\ \A n \in Models \ {m} : queue'[n] = queue[n]
  BY DEF QueueTypeOK
<1>3. /\ Len(line) \in Nat
      /\ Len(Append(line, command)) = Len(line) + 1
      /\ \A i \in 1..Len(line) : Append(line, command)[i] = line[i]
      /\ Append(line, command)[Len(line) + 1] = command
  <2> HIDE DEF All, line
  <2> QED BY <1>1, AppendProperties, LenProperties
<1> QED BY <1>2, <1>3

\* What recv does to it.
LEMMA TailPlaces ==
  ASSUME QueueTypeOK, NEW m \in Models, queue[m] # <<>>,
         queue' = [queue EXCEPT ![m] = Tail(@)]
  PROVE  /\ Len(queue[m]) \in Nat \ {0}
         /\ Len(queue'[m]) = Len(queue[m]) - 1
         /\ \A i \in 1..Len(queue'[m]) : queue'[m][i] = queue[m][i + 1]
         /\ Head(queue[m]) = queue[m][1]
         /\ \A n \in Models \ {m} : queue'[n] = queue[n]
<1> DEFINE All == Calls \cup {Shutdown}
           line == queue[m]
<1>1. line \in Seq(All) /\ line # <<>>
  BY DEF QueueTypeOK
<1>2. queue'[m] = Tail(line) /\ \A n \in Models \ {m} : queue'[n] = queue[n]
  BY DEF QueueTypeOK
<1>3. /\ Len(line) \in Nat \ {0}
      /\ Len(Tail(line)) = Len(line) - 1
      /\ \A i \in 1..Len(Tail(line)) : Tail(line)[i] = line[i + 1]
  <2> HIDE DEF All, line
  <2> QED BY <1>1, HeadTailProperties, EmptySeq
<1>4. Head(line) = line[1]
  BY <1>1
<1> QED BY <1>2, <1>3, <1>4

LEMMA QueueInit == Init => QueueInv
BY ModelWorkerAssumption DEF Init, QueueInv, Leaving

LEMMA QueueLengths ==
  ASSUME QueueTypeOK, NEW m \in Models
  PROVE  Len(queue[m]) \in Nat
BY DEF QueueTypeOK

LEMMA QueueModelStep ==
  ASSUME TypeOK, PhaseOK, LifecycleInv, QueueInv, NEW m \in Models, ModelStep(m)
  PROVE  QueueInv'
<1>1. CASE LoadRejected(m) \/ Spawn(m)
  BY <1>1, ServiceCallTypes DEF LoadRejected, Spawn, GoTo, QueueInv, TypeOK, Leaving, PhaseOK
<1>2. CASE LoadReturns(m)
  BY <1>2, ServiceCallTypes DEF LoadReturns, QueueInv, TypeOK, PhaseOK
<1>3. CASE DropLast(m)
  <2>1. \A c \in CallsOf(m) : caller[c] # "sending"
    BY <1>3 DEF DropLast, Borrowed
  <2> QED BY <1>3, <2>1, ServiceCallTypes DEF DropLast, QueueInv, TypeOK, CallsOf
<1>4. CASE SendShutdown(m)
  <2>1. \A i \in 1..Len(queue[m]) : queue[m][i] # Shutdown
    BY <1>4 DEF SendShutdown, QueueInv
  <2>2. \A c \in Calls : caller'[c] = "sending" => model'[ModelOf[c]] = "live"
    BY <1>4, ServiceCallTypes DEF SendShutdown, QueueInv, TypeOK
  <2>3. CASE UNCHANGED queue
    BY <1>4, <2>1, <2>2, <2>3 DEF SendShutdown, QueueInv, TypeOK
  <2>4. CASE queue' = [queue EXCEPT ![m] = Append(@, Shutdown)] /\ ~ReceiverGone(m)
    <3> USE DEF QueueInv
    <3>1. model' = [model EXCEPT ![m] = "joining"] /\ UNCHANGED worker
      BY <1>4 DEF SendShutdown
    <3>2. worker[m] \notin Leaving \cup {"panicked"}
      BY <1>4, <2>4 DEF SendShutdown, ReceiverGone, LifecycleInv, Running, Leaving, Dying
    <3>3. \A i \in 1..Len(queue'[m]) : queue'[m][i] = Shutdown => i = Len(queue'[m])
      BY <2>1, <2>4, AppendPlaces DEF TypeOK
    <3>4. ASSUME NEW n \in Models \ {m}
          PROVE  queue'[n] = queue[n] /\ model'[n] = model[n]
      BY <2>4, <3>1, <3>4 DEF TypeOK, QueueTypeOK
    <3>5. model'[m] = "joining"
      BY <3>1 DEF TypeOK
    <3> QED BY <2>2, <3>1, <3>2, <3>3, <3>4, <3>5
  <2> QED BY <1>4, <2>3, <2>4 DEF SendShutdown
<1>5. CASE Joined(m)
  BY <1>5, ServiceCallTypes DEF Joined, QueueInv, TypeOK, ReceiverGone, LifecycleInv, Leaving, Dying
<1> QED BY <1>1, <1>2, <1>3, <1>4, <1>5 DEF ModelStep

LEMMA QueueWorkerStep ==
  ASSUME TypeOK, PhaseOK, LifecycleInv, QueueInv, NEW m \in Models, WorkerStep(m)
  PROVE  QueueInv'
<1>0. UNCHANGED model /\ UNCHANGED caller
  BY DEF WorkerStep, StartLock, StartPoisoned, Initialize, InitPanic, Recv, FirstCheck, Lock,
         LockPoisoned, Recheck, EnterNative, FinishNative, PanicNative, UnwindEngine,
         DropReceiver, Reply, SaveLock, Save, ExitLock, Cleanup
<1>1. CASE Recv(m)
  <2>1. /\ model[m] \in {"live", "closing", "joining"}
        /\ Head(queue[m]) = Shutdown => model[m] = "joining" /\ queue'[m] = <<>>
    BY <1>1, RecvStage DEF Recv, TypeOK, QueueTypeOK
  <2>2. /\ Len(queue'[m]) = Len(queue[m]) - 1 /\ Len(queue[m]) \in Nat \ {0}
        /\ \A i \in 1..Len(queue'[m]) : queue'[m][i] = queue[m][i + 1]
        /\ \A n \in Models \ {m} : queue'[n] = queue[n]
    BY <1>1, TailPlaces DEF Recv, TypeOK
  <2>3. \A i \in 1..Len(queue'[m]) :
          queue'[m][i] = Shutdown => i = Len(queue'[m]) /\ model[m] = "joining"
    BY <2>2 DEF QueueInv
  <2>4. worker'[m] \in Leaving \cup {"panicked"} => Head(queue[m]) = Shutdown
    BY <1>1 DEF Recv, GoTo, TypeOK, Leaving
  <2>5. \A n \in Models \ {m} : worker'[n] = worker[n]
    BY <1>1 DEF Recv, GoTo, TypeOK
  <2> QED BY <1>0, <2>1, <2>2, <2>3, <2>4, <2>5 DEF QueueInv
<1>2. CASE DropReceiver(m)
  <2>1. queue'[m] = <<>> /\ \A n \in Models \ {m} : queue'[n] = queue[n] /\ worker'[n] = worker[n]
    BY <1>2 DEF DropReceiver, GoTo, TypeOK, QueueTypeOK
  <2> QED BY <1>0, <2>1 DEF QueueInv
<1>3. CASE StartPoisoned(m) \/ Initialize(m) \/ InitPanic(m)
  <2>1. queue[m] = <<>>
    BY <1>3 DEF StartPoisoned, Initialize, InitPanic, QueueInv, TypeOK, ModelStates,
                LifecycleInv, PhaseOK, Running, Leaving, Dying
  <2>2. UNCHANGED queue /\ \A n \in Models \ {m} : worker'[n] = worker[n]
    BY <1>3 DEF StartPoisoned, Initialize, InitPanic, GoTo, TypeOK
  <2> QED BY <1>0, <2>1, <2>2 DEF QueueInv
<1>4. ASSUME UNCHANGED queue,
             \A n \in Models \ {m} : worker'[n] = worker[n],
             worker'[m] \in Leaving \cup {"panicked"} => worker[m] \in Leaving \cup {"panicked"}
      PROVE  QueueInv'
  BY <1>0, <1>4 DEF QueueInv
<1>5. CASE StartLock(m) \/ FirstCheck(m) \/ Lock(m) \/ LockPoisoned(m) \/ Recheck(m)
  BY <1>4, <1>5 DEF StartLock, FirstCheck, Lock, LockPoisoned, Recheck, Decide, GoTo, TypeOK, Leaving
<1>6. CASE EnterNative(m) \/ FinishNative(m) \/ PanicNative(m) \/ UnwindEngine(m) \/ Reply(m)
  BY <1>4, <1>6 DEF EnterNative, FinishNative, PanicNative, UnwindEngine, Reply, Decide, GoTo,
                    TypeOK, Leaving
<1>7. CASE SaveLock(m) \/ Save(m) \/ ExitLock(m) \/ Cleanup(m)
  BY <1>4, <1>7 DEF SaveLock, Save, ExitLock, Cleanup, Decide, GoTo, TypeOK, Leaving
<1> QED BY <1>1, <1>2, <1>3, <1>5, <1>6, <1>7 DEF WorkerStep

\* A call is appended for a live Model only, so never behind Shutdown and never
\* to the queue of a worker that has left in order.
LEMMA SendStage ==
  ASSUME TypeOK, PhaseOK, LifecycleInv, QueueInv, NEW c \in Calls,
         model[ModelOf[c]] = "live"
  PROVE  /\ worker[ModelOf[c]] \in Running \cup Dying
         /\ \A i \in 1..Len(queue[ModelOf[c]]) : queue[ModelOf[c]][i] # Shutdown
BY ServiceCallTypes DEF LifecycleInv, QueueInv

LEMMA QueueSend ==
  ASSUME TypeOK, PhaseOK, LifecycleInv, QueueInv, NEW c \in Calls,
         model[ModelOf[c]] = "live", ~ReceiverGone(ModelOf[c]), Send(c),
         NEW s, s # "sending", caller' = [caller EXCEPT ![c] = s],
         UNCHANGED <<model, worker>>
  PROVE  QueueInv'
<1> DEFINE m == ModelOf[c]
<1>1. m \in Models
  BY ServiceCallTypes
<1>2. \A i \in 1..Len(queue'[m]) : queue'[m][i] # Shutdown
  <2>1. \A i \in 1..Len(queue[m]) : queue[m][i] # Shutdown
    BY SendStage
  <2>2. c # Shutdown
    BY ModelWorkerAssumption
  <2> QED BY <1>1, <2>1, <2>2, AppendPlaces DEF Send, TypeOK
<1>3. \A n \in Models \ {m} : queue'[n] = queue[n]
  BY <1>1 DEF Send, TypeOK, QueueTypeOK
<1>4. worker[m] \notin Leaving \cup {"panicked"}
  BY SendStage DEF ReceiverGone, Running, Leaving, Dying
<1>5. \A d \in Calls : caller'[d] = "sending" => model[ModelOf[d]] = "live"
  BY DEF QueueInv, TypeOK
<1> HIDE DEF m
<1>6. model[m] = "live"
  BY DEF m
<1> QED BY <1>1, <1>2, <1>3, <1>4, <1>5, <1>6 DEF QueueInv

LEMMA QueueCallerStep ==
  ASSUME TypeOK, PhaseOK, LifecycleInv, QueueInv, NEW c \in Calls, CallerStep(c)
  PROVE  QueueInv'
<1>0. UNCHANGED <<model, worker>>
  BY CallerFrame
<1>1. ASSUME NEW s, caller' = [caller EXCEPT ![c] = s], s = "sending" => model[ModelOf[c]] = "live",
             UNCHANGED queue
      PROVE  QueueInv'
  BY <1>0, <1>1 DEF QueueInv, TypeOK
<1>2. CASE SendBlocking(c)
  <2>1. model[ModelOf[c]] = "live"
    BY <1>2 DEF SendBlocking, QueueInv
  <2> QED BY <1>0, <1>1, <1>2, <2>1, QueueSend DEF SendBlocking, Return
<1>3. CASE TrySubmit(c)
  <2>1. Admission(c) = "accepted" => ~ReceiverGone(ModelOf[c])
    BY CheckLiveType DEF Admission
  <2> QED BY <1>0, <1>1, <1>3, <2>1, QueueSend DEF TrySubmit, Return
<1>4. CASE Call(c)
  BY <1>1, <1>4 DEF Call
<1>5. CASE RejectInvalid(c) \/ Receive(c) \/ Timeout(c) \/ DropHandle(c)
  BY <1>1, <1>5 DEF RejectInvalid, Receive, Timeout, DropHandle, Return
<1>6. CASE Wait(c)
  BY <1>1, <1>6 DEF Wait
<1>7. CASE Cancel(c) \/ Expire(c)
  BY <1>0, <1>7 DEF Cancel, Expire, QueueInv
<1> QED BY <1>2, <1>3, <1>4, <1>5, <1>6, <1>7 DEF CallerStep

LEMMA QueueStep ==
  ASSUME TypeOK, PhaseOK, LifecycleInv, QueueInv, [Next]_vars
  PROVE  QueueInv'
<1>1. ASSUME UNCHANGED <<model, worker, queue, caller>>
      PROVE  QueueInv'
  BY <1>1 DEF QueueInv
<1> QED BY <1>1, QueueModelStep, QueueWorkerStep, QueueCallerStep, UserFrame DEF Next, vars

\* When the last Model is gone or a load has failed, the thread has ended, its
\* engine is destroyed and the gate is not held by it: Drop for ModelInner joins
\* the thread, and worker_main leaves only through cleanup or a panic.
THEOREM ModelReclaimed == Spec => []ClosedReclaimed
<1>1. Init => LifecycleInv /\ QueueInv
  BY LifecycleInit, QueueInit
<1>2. TypeOK /\ PhaseOK /\ LifecycleInv /\ QueueInv /\ [Next]_vars => (LifecycleInv /\ QueueInv)'
  BY LifecycleStep, QueueStep
<1>3. TypeOK /\ GateExclusion /\ LifecycleInv => ClosedReclaimed
  <2> SUFFICES ASSUME TypeOK, GateExclusion, LifecycleInv, NEW m \in Models,
                      model[m] \in {"closed", "failed"}
               PROVE  /\ worker[m] \in {"absent", "exited", "panicked"}
                      /\ engine[m] # "alive"
                      /\ gate # m
    BY DEF ClosedReclaimed
  <2> QED BY DEF GateExclusion, LifecycleInv, InGate, InferencePhases
<1> QED BY <1>1, <1>2, <1>3, TypeCorrectness, GateSafety, PTL DEF Spec

-----------------------------------------------------------------------------
(* Where the calls are.                                                    *)

LEMMA PlaceInit == Init => PlaceInv
BY ModelWorkerAssumption, ServiceCallTypes DEF Init, PlaceInv, Distinct, Queued

\* The steps that move no call.
LEMMA PlaceFrame ==
  ASSUME TypeOK, PlaceInv, UNCHANGED <<queue, active, reply, caller, result>>,
         \A m \in Models : worker[m] \in Dying => worker'[m] \in Dying
  PROVE  PlaceInv'
<1>1. \A c \in Calls : Queued(c)' <=> Queued(c)
  BY DEF Queued
<1> QED BY <1>1, ServiceCallTypes DEF PlaceInv, Distinct

LEMMA DistinctAppend ==
  ASSUME QueueTypeOK, Distinct, NEW m \in Models, NEW command \in Calls \cup {Shutdown},
         queue' = [queue EXCEPT ![m] = Append(@, command)],
         \A i \in 1..Len(queue[m]) : queue[m][i] # command
  PROVE  Distinct'
<1>1. /\ Len(queue[m]) \in Nat
      /\ Len(queue'[m]) = Len(queue[m]) + 1
      /\ \A i \in 1..Len(queue[m]) : queue'[m][i] = queue[m][i]
      /\ queue'[m][Len(queue[m]) + 1] = command
      /\ \A n \in Models \ {m} : queue'[n] = queue[n]
  BY AppendPlaces
<1>2. \A i, j \in 1..Len(queue'[m]) : queue'[m][i] = queue'[m][j] => i = j
  BY <1>1 DEF Distinct
<1> QED BY <1>1, <1>2 DEF Distinct

\* The calls queued after a send, and after a receipt.
LEMMA QueuedAppend ==
  ASSUME QueueTypeOK, NEW m \in Models, NEW command \in Calls \cup {Shutdown},
         queue' = [queue EXCEPT ![m] = Append(@, command)],
         NEW c \in Calls
  PROVE  Queued(c)' <=> Queued(c) \/ (ModelOf[c] = m /\ command = c)
<1>1. /\ Len(queue[m]) \in Nat
      /\ Len(queue'[m]) = Len(queue[m]) + 1
      /\ \A i \in 1..Len(queue[m]) : queue'[m][i] = queue[m][i]
      /\ queue'[m][Len(queue[m]) + 1] = command
      /\ \A n \in Models \ {m} : queue'[n] = queue[n]
  BY AppendPlaces
<1>2. CASE ModelOf[c] = m
  BY <1>1, <1>2 DEF Queued
<1>3. CASE ModelOf[c] # m
  BY <1>1, <1>3, ModelWorkerAssumption DEF Queued
<1> QED BY <1>2, <1>3

LEMMA DistinctTail ==
  ASSUME QueueTypeOK, Distinct, NEW m \in Models, queue[m] # <<>>,
         queue' = [queue EXCEPT ![m] = Tail(@)]
  PROVE  Distinct'
<1>1. /\ Len(queue[m]) \in Nat \ {0}
      /\ Len(queue'[m]) = Len(queue[m]) - 1
      /\ \A i \in 1..Len(queue'[m]) : queue'[m][i] = queue[m][i + 1]
      /\ \A n \in Models \ {m} : queue'[n] = queue[n]
  BY TailPlaces
<1>2. ASSUME NEW i \in 1..Len(queue'[m]), NEW j \in 1..Len(queue'[m]),
             queue'[m][i] = queue'[m][j]
      PROVE  i = j
  <2>1. i + 1 \in 1..Len(queue[m]) /\ j + 1 \in 1..Len(queue[m]) /\ i \in Int /\ j \in Int
    BY <1>1
  <2>2. queue[m][i + 1] = queue[m][j + 1]
    BY <1>1, <1>2
  <2> QED BY <2>1, <2>2 DEF Distinct
<1> QED BY <1>1, <1>2 DEF Distinct

LEMMA QueuedTail ==
  ASSUME QueueTypeOK, Distinct, NEW m \in Models, queue[m] # <<>>,
         queue' = [queue EXCEPT ![m] = Tail(@)],
         NEW c \in Calls
  PROVE  /\ Queued(c)' <=> Queued(c) /\ ~(ModelOf[c] = m /\ Head(queue[m]) = c)
         /\ ModelOf[c] = m /\ Head(queue[m]) = c => Queued(c)
<1>1. /\ Len(queue[m]) \in Nat \ {0}
      /\ Len(queue'[m]) = Len(queue[m]) - 1
      /\ \A i \in 1..Len(queue'[m]) : queue'[m][i] = queue[m][i + 1]
      /\ Head(queue[m]) = queue[m][1]
      /\ \A n \in Models \ {m} : queue'[n] = queue[n]
  BY TailPlaces
<1>2. CASE ModelOf[c] = m
  <2>1. ASSUME NEW i \in 1..Len(queue'[m]), queue'[m][i] = c
        PROVE  Queued(c) /\ Head(queue[m]) # c
    <3>1. i + 1 \in 1..Len(queue[m]) /\ 1 \in 1..Len(queue[m]) /\ i + 1 # 1
      BY <1>1
    <3>2. queue[m][i + 1] = c
      BY <1>1, <2>1
    <3> QED BY <1>1, <1>2, <3>1, <3>2 DEF Queued, Distinct
  <2>2. ASSUME NEW i \in 1..Len(queue[m]), queue[m][i] = c, Head(queue[m]) # c
        PROVE  Queued(c)'
    <3>1. i - 1 \in 1..Len(queue'[m]) /\ (i - 1) + 1 = i
      BY <1>1, <2>2
    <3>2. queue'[m][i - 1] = c
      BY <1>1, <2>2, <3>1
    <3> QED BY <1>2, <3>1, <3>2 DEF Queued
  <2>3. Head(queue[m]) = c => Queued(c)
    BY <1>1, <1>2 DEF Queued
  <2> QED BY <1>2, <2>1, <2>2, <2>3 DEF Queued
<1>3. CASE ModelOf[c] # m
  BY <1>1, <1>3, ModelWorkerAssumption DEF Queued
<1> QED BY <1>2, <1>3

\* The command at the front of a queue is a call to its model, or Shutdown.
LEMMA HeadOwn ==
  ASSUME TypeOK, NEW m \in Models, queue[m] # <<>>
  PROVE  \/ Head(queue[m]) \in Calls /\ ModelOf[Head(queue[m])] = m
         \/ Head(queue[m]) = Shutdown
<1> DEFINE Own == CallsOf(m) \cup {Shutdown}
<1>1. queue[m] \in Seq(Own)
  BY DEF TypeOK, QueueTypeOK
<1>2. Head(queue[m]) \in Own
  BY <1>1
<1> QED BY <1>2 DEF CallsOf

LEMMA PlaceModelStep ==
  ASSUME TypeOK, PhaseOK, LifecycleInv, QueueInv, PlaceInv, NEW m \in Models, ModelStep(m)
  PROVE  PlaceInv'
<1>0. UNCHANGED <<active, reply, caller, result>>
  BY DEF ModelStep, LoadRejected, Spawn, LoadReturns, DropLast, SendShutdown, Joined
<1>1. CASE UNCHANGED <<queue, worker>>
  BY <1>0, <1>1, PlaceFrame
<1>2. CASE Spawn(m)
  <2>1. UNCHANGED queue /\ \A n \in Models : worker[n] \in Dying => worker'[n] \in Dying
    BY <1>2 DEF Spawn, GoTo, TypeOK, PhaseOK, Dying, LifecycleInv
  <2> QED BY <1>0, <2>1, PlaceFrame
<1>3. CASE SendShutdown(m)
  <2>1. CASE queue' = [queue EXCEPT ![m] = Append(@, Shutdown)]
    <3>1. \A i \in 1..Len(queue[m]) : queue[m][i] # Shutdown
      BY <1>3 DEF SendShutdown, QueueInv
    <3>2. QueueTypeOK /\ Distinct /\ Shutdown \in Calls \cup {Shutdown}
      BY DEF TypeOK, PlaceInv
    <3>4. Distinct'
      BY <2>1, <3>1, <3>2, DistinctAppend
    <3>5. \A c \in Calls : Queued(c)' <=> Queued(c) \/ (ModelOf[c] = m /\ Shutdown = c)
      BY <2>1, <3>2, QueuedAppend
    <3>3. UNCHANGED worker /\ Shutdown \notin Calls
      BY <1>3, ModelWorkerAssumption DEF SendShutdown
    <3> QED BY <1>0, <3>3, <3>4, <3>5 DEF PlaceInv
  <2> QED BY <1>1, <1>3, <2>1 DEF SendShutdown
<1> QED BY <1>1, <1>2, <1>3 DEF ModelStep, LoadRejected, LoadReturns, DropLast, Joined

\* The call a worker serves, and no other, gets the answer that it sends or that
\* its unwinding stack leaves behind.
LEMMA PlaceAnswer ==
  ASSUME TypeOK, PlaceInv, NEW m \in Models, active[m] \in Calls,
         NEW answer, answer \notin {"none", "empty"}, reply' = [reply EXCEPT ![active[m]] = answer],
         active' = [active EXCEPT ![m] = NoCall], UNCHANGED <<queue, caller, result>>,
         \A n \in Models : worker[n] \in Dying => worker'[n] \in Dying,
         answer = "disconnected" => worker'[m] \in Dying
  PROVE  PlaceInv'
<1> DEFINE c == active[m]
<1>1. c \in Calls /\ ModelOf[c] = m /\ c # NoCall
  BY ModelWorkerAssumption DEF TypeOK, CallsOf
<1>2. reply[c] = "empty" /\ ~Queued(c)
  BY <1>1 DEF PlaceInv
<1>3. reply'[c] = answer /\ active'[m] # c
  BY <1>1 DEF TypeOK
<1>4. ASSUME NEW d \in Calls \ {c}
      PROVE  reply'[d] = reply[d] /\ (active'[ModelOf[d]] = d <=> active[ModelOf[d]] = d)
  BY <1>4, ServiceCallTypes, ModelWorkerAssumption DEF TypeOK
<1>5. \A d \in Calls : Queued(d)' <=> Queued(d)
  BY DEF Queued
<1> HIDE DEF c
<1>6. ASSUME NEW d \in Calls
      PROVE  (/\ reply[d] = "empty" <=> Queued(d) \/ active[ModelOf[d]] = d
              /\ Queued(d) => active[ModelOf[d]] # d
              /\ reply[d] = "disconnected" => worker[ModelOf[d]] \in Dying
              /\ caller[d] \in {"idle", "sending"} => reply[d] = "none"
              /\ caller[d] \in {"held", "waiting", "timed"} => reply[d] # "none"
              /\ caller[d] \in {"held", "timed"} => d \in TryRuns
              /\ caller[d] # "returned" => result[d] = "none"
              /\ result[d] = "stopped" => worker[ModelOf[d]] \in Dying)'
  <2>1. CASE d = c
    BY <1>1, <1>2, <1>3, <1>5, <2>1 DEF PlaceInv
  <2>2. CASE d # c
    BY <1>4, <1>5, <2>2, ServiceCallTypes DEF PlaceInv
  <2> QED BY <2>1, <2>2
<1> QED BY <1>6 DEF PlaceInv, Distinct

LEMMA PlaceWorkerStep ==
  ASSUME TypeOK, PhaseOK, LifecycleInv, QueueInv, PlaceInv, NEW m \in Models, WorkerStep(m)
  PROVE  PlaceInv'
<1>1. CASE Recv(m)
  <2> DEFINE command == Head(queue[m])
  <2>1. /\ UNCHANGED <<reply, caller, result>>
        /\ \A n \in Models : worker[n] \in Dying => worker'[n] \in Dying
        /\ queue[m] # <<>> /\ queue' = [queue EXCEPT ![m] = Tail(@)]
    BY <1>1 DEF Recv, GoTo, TypeOK, Dying
  <2>0. QueueTypeOK /\ Distinct
    BY DEF TypeOK, PlaceInv
  <2>2. ASSUME NEW c \in Calls
        PROVE  /\ Queued(c)' <=> Queued(c) /\ ~(ModelOf[c] = m /\ command = c)
               /\ ModelOf[c] = m /\ command = c => Queued(c)
    BY <2>0, <2>1, QueuedTail
  <2>6. Distinct'
    BY <2>0, <2>1, DistinctTail
  <2>3. active[m] = NoCall /\ NoCall \notin Calls /\ Shutdown \notin Calls
    BY <1>1, ModelWorkerAssumption DEF Recv, PhaseOK, RunPhases, SavePhases
  <2>4. \/ command \in Calls /\ ModelOf[command] = m /\ active' = [active EXCEPT ![m] = command]
        \/ command = Shutdown /\ UNCHANGED active
    BY <1>1, <2>1, <2>3, HeadOwn DEF Recv, Calls
  <2>5. ASSUME NEW c \in Calls
        PROVE  active'[ModelOf[c]] = c <=>
                 (active[ModelOf[c]] = c \/ (ModelOf[c] = m /\ command = c))
    <3> HIDE DEF command
    <3> QED BY <2>3, <2>4, <2>5, ServiceCallTypes DEF TypeOK
  <2> HIDE DEF command
  <2> QED BY <2>1, <2>2, <2>3, <2>5, <2>6, ServiceCallTypes DEF PlaceInv
<1>2. CASE Reply(m)
  <2>1. active[m] \in Calls /\ verdict[m] \in Verdicts
    BY <1>2 DEF Reply, PhaseOK, TypeOK
  <2>2. verdict[m] \notin {"none", "empty", "disconnected"}
    BY <2>1 DEF Verdicts
  <2>3. \A n \in Models : worker[n] \in Dying => worker'[n] \in Dying
    BY <1>2 DEF Reply, GoTo, TypeOK, Dying
  <2> QED BY <1>2, <2>1, <2>2, <2>3, PlaceAnswer DEF Reply
<1>3. CASE PanicNative(m)
  <2>1. active[m] \in Calls
    BY <1>3 DEF PanicNative, PhaseOK, RunPhases, Calls
  <2>2. worker'[m] \in Dying /\ \A n \in Models : worker[n] \in Dying => worker'[n] \in Dying
    BY <1>3 DEF PanicNative, GoTo, TypeOK, Dying
  <2>3. /\ reply' = [reply EXCEPT ![active[m]] = "disconnected"]
        /\ active' = [active EXCEPT ![m] = NoCall]
        /\ UNCHANGED <<queue, caller, result>>
    BY <1>3 DEF PanicNative
  <2>4. "disconnected" \notin {"none", "empty"}
    OBVIOUS
  <2> QED BY <2>1, <2>2, <2>3, <2>4, PlaceAnswer
<1>4. CASE DropReceiver(m)
  <2>1. /\ queue'[m] = <<>> /\ \A n \in Models \ {m} : queue'[n] = queue[n]
        /\ worker'[m] \in Dying /\ \A n \in Models \ {m} : worker'[n] = worker[n]
        /\ UNCHANGED <<active, caller, result>>
        /\ active[m] = NoCall
    BY <1>4 DEF DropReceiver, GoTo, TypeOK, QueueTypeOK, Dying, PhaseOK, RunPhases, SavePhases
  <2>2. \A c \in Calls :
          reply'[c] = IF ModelOf[c] = m /\ Queued(c) THEN "disconnected" ELSE reply[c]
    BY <1>4 DEF DropReceiver
  <2>3. ASSUME NEW c \in Calls
        PROVE  Queued(c)' <=> Queued(c) /\ ModelOf[c] # m
    <3>1. CASE ModelOf[c] = m
      BY <2>1, <3>1 DEF Queued
    <3>2. CASE ModelOf[c] # m
      BY <2>1, <3>2, ServiceCallTypes DEF Queued
    <3> QED BY <3>1, <3>2
  <2>4. Distinct'
    BY <2>1 DEF PlaceInv, Distinct
  <2>5. NoCall \notin Calls
    BY ModelWorkerAssumption
  <2> QED BY <2>1, <2>2, <2>3, <2>4, <2>5, ServiceCallTypes DEF PlaceInv
<1>5. CASE StartLock(m) \/ StartPoisoned(m) \/ Initialize(m) \/ InitPanic(m)
  BY <1>5, PlaceFrame DEF StartLock, StartPoisoned, Initialize, InitPanic, GoTo, TypeOK, Dying
<1>6. CASE FirstCheck(m) \/ Lock(m) \/ LockPoisoned(m) \/ Recheck(m) \/ EnterNative(m)
  BY <1>6, PlaceFrame DEF FirstCheck, Lock, LockPoisoned, Recheck, EnterNative, Decide, GoTo,
                          TypeOK, Dying
<1>7. CASE FinishNative(m) \/ UnwindEngine(m) \/ SaveLock(m) \/ Save(m)
  BY <1>7, PlaceFrame DEF FinishNative, UnwindEngine, SaveLock, Save, Decide, GoTo, TypeOK, Dying
<1>8. CASE ExitLock(m) \/ Cleanup(m)
  BY <1>8, PlaceFrame DEF ExitLock, Cleanup, GoTo, TypeOK, Dying
<1> QED BY <1>1, <1>2, <1>3, <1>4, <1>5, <1>6, <1>7, <1>8 DEF WorkerStep

\* An accepted call was nowhere before.
LEMMA PlaceSend ==
  ASSUME TypeOK, PlaceInv, NEW c \in Calls, caller[c] \in {"idle", "sending"}, Send(c),
         NEW s \in {"held", "waiting"}, s = "held" => c \in TryRuns,
         caller' = [caller EXCEPT ![c] = s],
         UNCHANGED <<worker, active, result>>
  PROVE  PlaceInv'
<1>1. reply[c] = "none" /\ ~Queued(c) /\ active[ModelOf[c]] # c /\ result[c] = "none"
  BY DEF PlaceInv
<1>2. ModelOf[c] \in Models /\ c \in Calls \cup {Shutdown}
      /\ \A i \in 1..Len(queue[ModelOf[c]]) : queue[ModelOf[c]][i] # c
  BY <1>1, ServiceCallTypes DEF Queued
<1>3. /\ queue' = [queue EXCEPT ![ModelOf[c]] = Append(@, c)]
      /\ QueueTypeOK /\ Distinct
  BY DEF Send, TypeOK, PlaceInv
<1>6. Distinct'
  BY <1>2, <1>3, DistinctAppend
<1>7. \A d \in Calls : Queued(d)' <=> Queued(d) \/ (ModelOf[d] = ModelOf[c] /\ c = d)
  BY <1>2, <1>3, QueuedAppend
<1>4. \A d \in Calls : /\ reply'[d] = IF d = c THEN "empty" ELSE reply[d]
                       /\ caller'[d] = IF d = c THEN s ELSE caller[d]
  BY DEF Send, TypeOK
<1>5. \A d \in Calls : Queued(d)' <=> Queued(d) \/ d = c
  BY <1>7
<1> QED BY <1>1, <1>4, <1>5, <1>6 DEF PlaceInv

\* A call that returns stays where it is.
LEMMA PlaceReturn ==
  ASSUME TypeOK, PlaceInv, NEW c \in Calls, NEW v, Return(c, v),
         v = "stopped" => worker[ModelOf[c]] \in Dying,
         UNCHANGED <<worker, queue, active, reply>>
  PROVE  PlaceInv'
<1>1. \A d \in Calls : /\ caller'[d] = IF d = c THEN "returned" ELSE caller[d]
                       /\ result'[d] = IF d = c THEN v ELSE result[d]
  BY DEF Return, TypeOK
<1>2. \A d \in Calls : Queued(d)' <=> Queued(d)
  BY DEF Queued
<1> QED BY <1>1, <1>2 DEF PlaceInv, Distinct

\* A live Model finds its receiver gone only after a panic.
LEMMA StoppedStage ==
  ASSUME TypeOK, LifecycleInv, NEW c \in Calls, model[ModelOf[c]] = "live",
         ReceiverGone(ModelOf[c])
  PROVE  worker[ModelOf[c]] \in Dying
BY ServiceCallTypes DEF LifecycleInv, ReceiverGone, Running, Dying

LEMMA PlaceCallerStep ==
  ASSUME TypeOK, LifecycleInv, QueueInv, PlaceInv, NEW c \in Calls, CallerStep(c)
  PROVE  PlaceInv'
<1>0. UNCHANGED <<worker, active>>
  BY CallerFrame
<1>1. CASE RejectInvalid(c)
  BY <1>0, <1>1, PlaceReturn DEF RejectInvalid
<1>2. CASE Call(c)
  <2>1. \A d \in Calls : Queued(d)' <=> Queued(d)
    BY <1>2 DEF Call, Queued
  <2> QED BY <1>0, <1>2, <2>1 DEF Call, PlaceInv, Distinct, TypeOK
<1>3. CASE SendBlocking(c)
  <2>1. ReceiverGone(ModelOf[c]) => worker[ModelOf[c]] \in Dying
    BY <1>3, StoppedStage DEF SendBlocking, QueueInv
  <2>2. CASE Return(c, "stopped") /\ ReceiverGone(ModelOf[c]) /\ UNCHANGED <<queue, reply>>
    BY <1>0, <1>3, <2>1, <2>2, PlaceReturn DEF SendBlocking
  <2>3. CASE Send(c) /\ caller' = [caller EXCEPT ![c] = "waiting"] /\ UNCHANGED result
    <3>1. caller[c] \in {"idle", "sending"} /\ "waiting" \in {"held", "waiting"}
      BY <1>3 DEF SendBlocking
    <3> QED BY <1>0, <2>3, <3>1, PlaceSend
  <2> QED BY <1>3, <2>2, <2>3 DEF SendBlocking
<1>4. CASE TrySubmit(c)
  <2>1. Admission(c) = "stopped" => worker[ModelOf[c]] \in Dying
    BY <1>4, StoppedStage, CheckLiveType DEF TrySubmit, Admission
  <2>2. CASE Return(c, Admission(c)) /\ UNCHANGED <<queue, reply>>
    BY <1>0, <2>1, <2>2, PlaceReturn
  <2>3. CASE Send(c) /\ caller' = [caller EXCEPT ![c] = "held"] /\ UNCHANGED result
    <3>1. caller[c] \in {"idle", "sending"} /\ "held" \in {"held", "waiting"} /\ c \in TryRuns
      BY <1>4 DEF TrySubmit
    <3> QED BY <1>0, <2>3, <3>1, PlaceSend
  <2> QED BY <1>4, <2>2, <2>3 DEF TrySubmit
<1>5. CASE Wait(c)
  <2>1. \A d \in Calls : Queued(d)' <=> Queued(d)
    BY <1>5 DEF Wait, Queued
  <2> QED BY <1>0, <1>5, <2>1 DEF Wait, PlaceInv, Distinct, TypeOK
<1>6. CASE Receive(c)
  <2> DEFINE v == IF reply[c] = "disconnected" THEN "stopped" ELSE reply[c]
  <2>1. Return(c, v) /\ UNCHANGED <<queue, reply>>
    BY <1>6 DEF Receive
  <2>2. v = "stopped" => worker[ModelOf[c]] \in Dying
    BY DEF PlaceInv, TypeOK, Verdicts
  <2> HIDE DEF v
  <2> QED BY <1>0, <2>1, <2>2, PlaceReturn
<1>7. CASE Timeout(c)
  BY <1>0, <1>7, PlaceReturn DEF Timeout
<1>8. CASE DropHandle(c)
  BY <1>0, <1>8, PlaceReturn DEF DropHandle
<1>9. CASE Cancel(c) \/ Expire(c)
  BY <1>0, <1>9, PlaceFrame DEF Cancel, Expire
<1> QED BY <1>1, <1>2, <1>3, <1>4, <1>5, <1>6, <1>7, <1>8, <1>9 DEF CallerStep

\* The parts above are inductive together.
CallsInv == LifecycleInv /\ QueueInv /\ PlaceInv

LEMMA CallsInvariant == Spec => [](TypeOK /\ PhaseOK /\ CallsInv)
<1>1. Init => CallsInv
  BY LifecycleInit, QueueInit, PlaceInit DEF CallsInv
<1>2. TypeOK /\ PhaseOK /\ CallsInv /\ [Next]_vars => CallsInv'
  <2> SUFFICES ASSUME TypeOK, PhaseOK, LifecycleInv, QueueInv, PlaceInv, [Next]_vars
               PROVE  PlaceInv'
    BY LifecycleStep, QueueStep DEF CallsInv
  <2>1. ASSUME UNCHANGED <<worker, queue, active, reply, caller, result>>
        PROVE  PlaceInv'
    BY <2>1, PlaceFrame
  <2> QED BY <2>1, PlaceModelStep, PlaceWorkerStep, PlaceCallerStep, UserFrame DEF Next, vars
<1> QED BY <1>1, <1>2, TypeCorrectness, PTL DEF Spec

\* An accepted call without a reply is queued or served, exactly once: no send,
\* receipt, panic or shutdown loses or duplicates it (enqueue, worker_main, and
\* the reply channels dropped with the receiver).
THEOREM CallsNeverLost == Spec => []NoLostCall
<1>1. TypeOK /\ CallsInv => NoLostCall
  <2> SUFFICES ASSUME TypeOK, PlaceInv, NEW c \in Calls
               PROVE  Cardinality({i \in 1..Len(queue[ModelOf[c]]) : queue[ModelOf[c]][i] = c})
                        + (IF active[ModelOf[c]] = c THEN 1 ELSE 0)
                        = IF reply[c] = "empty" THEN 1 ELSE 0
    BY DEF NoLostCall, CallsInv
  <2> DEFINE m == ModelOf[c]
             places == {i \in 1..Len(queue[m]) : queue[m][i] = c}
  <2>1. CASE Queued(c)
    <3>1. PICK i \in 1..Len(queue[m]) : queue[m][i] = c
      BY <2>1 DEF Queued
    <3>2. places = {i}
      BY <3>1, ServiceCallTypes DEF PlaceInv, Distinct
    <3>3. Cardinality(places) = 1
      BY <3>2, FS_Singleton
    <3> QED BY <2>1, <3>3 DEF PlaceInv
  <2>2. CASE ~Queued(c)
    <3>1. places = {}
      BY <2>2 DEF Queued
    <3>2. Cardinality(places) = 0
      BY <3>1, FS_EmptySet
    <3> QED BY <2>2, <3>2 DEF PlaceInv
  <2> QED BY <2>1, <2>2
<1> QED BY <1>1, CallsInvariant, PTL

\* A worker that ends in order has answered everything accepted before the last
\* Model was dropped: Shutdown is the last command of its channel.
THEOREM ShutdownComplete == Spec => []ShutdownDrains
<1>1. TypeOK /\ PhaseOK /\ CallsInv => ShutdownDrains
  <2> SUFFICES ASSUME TypeOK, PhaseOK, QueueInv, PlaceInv, NEW m \in Models,
                      worker[m] \in Leaving
               PROVE  /\ queue[m] = <<>>
                      /\ \A c \in CallsOf(m) : reply[c] \notin {"empty", "disconnected"}
    BY DEF ShutdownDrains, CallsInv
  <2>1. queue[m] = <<>>
    BY DEF QueueInv
  <2>2. active[m] = NoCall
    BY DEF PhaseOK, RunPhases, SavePhases, Leaving
  <2>3. ASSUME NEW c \in CallsOf(m)
        PROVE  reply[c] \notin {"empty", "disconnected"}
    <3>1. c \in Calls /\ ModelOf[c] = m /\ c # NoCall
      BY ModelWorkerAssumption DEF CallsOf
    <3>2. ~Queued(c)
      BY <2>1, <3>1 DEF Queued
    <3> QED BY <2>2, <3>1, <3>2 DEF PlaceInv, Leaving, Dying
  <2> QED BY <2>1, <2>3
<1> QED BY <1>1, CallsInvariant, PTL

\* WorkerStopped is returned only for a worker that panicked: never for a full
\* queue, never for an orderly shutdown (try_send's two errors, and recv's).
THEOREM StoppedHonest == Spec => []StoppedMeansPanic
<1>1. CallsInv => StoppedMeansPanic
  BY DEF CallsInv, PlaceInv, StoppedMeansPanic
<1> QED BY <1>1, CallsInvariant, PTL

-----------------------------------------------------------------------------
(* Nobody waits in vain.                                                   *)

\* While the last handle is inside join and the worker still serves, the command
\* that will end the worker is in its channel.
ShutdownPending ==
  \A m \in Models : model[m] = "joining" /\ worker[m] \in Running =>
    \E i \in 1..Len(queue[m]) : queue[m][i] = Shutdown

LEMMA PendingInit == Init => ShutdownPending
BY DEF Init, ShutdownPending

LEMMA PendingModelStep ==
  ASSUME TypeOK, PhaseOK, CallsInv, ShutdownPending, NEW m \in Models, ModelStep(m)
  PROVE  ShutdownPending'
<1>1. CASE Spawn(m)
  BY <1>1 DEF Spawn, GoTo, ShutdownPending, TypeOK
<1>2. CASE LoadRejected(m) \/ LoadReturns(m) \/ DropLast(m) \/ Joined(m)
  BY <1>2 DEF LoadRejected, LoadReturns, DropLast, Joined, ShutdownPending, TypeOK
<1>3. CASE SendShutdown(m)
  <2>1. UNCHANGED worker /\ \A n \in Models \ {m} : model'[n] = model[n]
    BY <1>3 DEF SendShutdown, TypeOK
  <2>2. CASE ReceiverGone(m) /\ UNCHANGED queue
    <3>1. worker[m] \notin Running
      BY <2>2 DEF ReceiverGone, Running
    <3> QED BY <2>1, <2>2, <3>1 DEF ShutdownPending
  <2>3. CASE queue' = [queue EXCEPT ![m] = Append(@, Shutdown)]
    <3>1. /\ Len(queue[m]) \in Nat /\ Len(queue'[m]) = Len(queue[m]) + 1
          /\ queue'[m][Len(queue[m]) + 1] = Shutdown
          /\ \A n \in Models \ {m} : queue'[n] = queue[n]
      BY <2>3, AppendPlaces DEF TypeOK
    <3>2. \E i \in 1..Len(queue'[m]) : queue'[m][i] = Shutdown
      <4>1. Len(queue[m]) + 1 \in 1..Len(queue'[m])
        BY <3>1
      <4> QED BY <3>1, <4>1
    <3> QED BY <2>1, <3>1, <3>2 DEF ShutdownPending
  <2> QED BY <1>3, <2>2, <2>3 DEF SendShutdown
<1> QED BY <1>1, <1>2, <1>3 DEF ModelStep

LEMMA PendingRecv ==
  ASSUME TypeOK, CallsInv, ShutdownPending, NEW m \in Models, Recv(m)
  PROVE  ShutdownPending'
<1>1. /\ UNCHANGED model
      /\ \A n \in Models \ {m} : worker'[n] = worker[n]
      /\ worker[m] = "idle"
      /\ Head(queue[m]) = Shutdown => worker'[m] = "exitLocking"
  BY ModelWorkerAssumption DEF Recv, GoTo, TypeOK, Calls
<1>2. /\ Len(queue[m]) \in Nat \ {0} /\ Len(queue'[m]) = Len(queue[m]) - 1
      /\ \A i \in 1..Len(queue'[m]) : queue'[m][i] = queue[m][i + 1]
      /\ Head(queue[m]) = queue[m][1]
      /\ \A n \in Models \ {m} : queue'[n] = queue[n]
  BY TailPlaces DEF Recv, TypeOK
<1>3. ASSUME model[m] = "joining", worker'[m] \in Running
      PROVE  \E i \in 1..Len(queue'[m]) : queue'[m][i] = Shutdown
  <2>1. PICK i \in 1..Len(queue[m]) : queue[m][i] = Shutdown
    BY <1>1, <1>3 DEF ShutdownPending, Running
  <2>2. i # 1
    BY <1>1, <1>2, <1>3, <2>1 DEF Running
  <2>3. i - 1 \in 1..Len(queue'[m]) /\ queue'[m][i - 1] = Shutdown
    BY <1>2, <2>1, <2>2
  <2> QED BY <2>3
<1> QED BY <1>1, <1>2, <1>3 DEF ShutdownPending

LEMMA PendingWorkerStep ==
  ASSUME TypeOK, PhaseOK, CallsInv, ShutdownPending, NEW m \in Models, WorkerStep(m)
  PROVE  ShutdownPending'
<1>1. ASSUME UNCHANGED <<model, queue>>,
             \A n \in Models \ {m} : worker'[n] = worker[n],
             model[m] = "joining" /\ worker'[m] \in Running => worker[m] \in Running
      PROVE  ShutdownPending'
  BY <1>1 DEF ShutdownPending
<1>2. CASE StartLock(m) \/ StartPoisoned(m) \/ Initialize(m) \/ InitPanic(m)
  BY <1>1, <1>2 DEF StartLock, StartPoisoned, Initialize, InitPanic, GoTo, TypeOK, CallsInv,
                    LifecycleInv, Running, Leaving, Dying
<1>3. CASE Recv(m)
  BY <1>3, PendingRecv
<1>4. CASE FirstCheck(m) \/ Lock(m) \/ LockPoisoned(m) \/ Recheck(m) \/ EnterNative(m)
  BY <1>1, <1>4 DEF FirstCheck, Lock, LockPoisoned, Recheck, EnterNative, Decide, GoTo, TypeOK,
                    Running
<1>5. CASE FinishNative(m) \/ Reply(m) \/ SaveLock(m) \/ Save(m)
  BY <1>1, <1>5 DEF FinishNative, Reply, SaveLock, Save, Decide, GoTo, TypeOK, Running
<1>6. CASE PanicNative(m) \/ UnwindEngine(m) \/ ExitLock(m) \/ Cleanup(m)
  BY <1>1, <1>6 DEF PanicNative, UnwindEngine, ExitLock, Cleanup, GoTo, TypeOK, Running
<1>7. CASE DropReceiver(m)
  BY <1>7 DEF DropReceiver, GoTo, TypeOK, QueueTypeOK, ShutdownPending, Running
<1> QED BY <1>2, <1>3, <1>4, <1>5, <1>6, <1>7 DEF WorkerStep

\* A caller that sends addresses a live Model, so nobody is inside join.
LEMMA PendingCallerStep ==
  ASSUME TypeOK, PhaseOK, CallsInv, ShutdownPending, NEW c \in Calls, CallerStep(c)
  PROVE  ShutdownPending'
<1>1. UNCHANGED <<model, worker>> /\ ModelOf[c] \in Models
  BY CallerFrame, ServiceCallTypes
<1>2. ASSUME UNCHANGED queue
      PROVE  ShutdownPending'
  BY <1>1, <1>2 DEF ShutdownPending
<1>3. ASSUME Send(c), model[ModelOf[c]] = "live"
      PROVE  ShutdownPending'
  BY <1>1, <1>3 DEF Send, ShutdownPending, TypeOK, QueueTypeOK
<1>4. CASE SendBlocking(c)
  BY <1>2, <1>3, <1>4 DEF SendBlocking, CallsInv, QueueInv
<1>5. CASE TrySubmit(c)
  BY <1>2, <1>3, <1>5 DEF TrySubmit
<1>6. CASE RejectInvalid(c) \/ Call(c) \/ Wait(c) \/ Receive(c)
  BY <1>2, <1>6 DEF RejectInvalid, Call, Wait, Receive
<1>7. CASE Timeout(c) \/ Cancel(c) \/ DropHandle(c) \/ Expire(c)
  BY <1>2, <1>7 DEF Timeout, Cancel, DropHandle, Expire
<1> QED BY <1>4, <1>5, <1>6, <1>7 DEF CallerStep

LEMMA PendingInvariant == Spec => []ShutdownPending
<1>1. TypeOK /\ PhaseOK /\ CallsInv /\ ShutdownPending /\ [Next]_vars => ShutdownPending'
  <2> SUFFICES ASSUME TypeOK, PhaseOK, CallsInv, ShutdownPending, [Next]_vars
               PROVE  ShutdownPending'
    OBVIOUS
  <2>1. ASSUME UNCHANGED <<model, worker, queue>>
        PROVE  ShutdownPending'
    BY <2>1 DEF ShutdownPending
  <2> QED BY <2>1, PendingModelStep, PendingWorkerStep, PendingCallerStep, UserFrame
          DEF Next, vars
<1> QED BY <1>1, PendingInit, CallsInvariant, PTL DEF Spec

\* Whoever holds the gate can let go of it alone: its holder is a worker inside a
\* transaction or a user that needs nothing else.
LEMMA GateComesBack ==
  ASSUME TypeOK, GateExclusion, NEW m \in Models, AtGate(m)
  PROVE  WillMove(m)
<1>1. gate = Free \/ gate \in Serialized \/ gate \in GateUsers
  BY DEF TypeOK, GateExclusion
<1> QED BY <1>1 DEF WillMove, GateExclusion

\* A worker that is still there, and has something to receive when it is idle,
\* has a step to take.
LEMMA WorkerMoves ==
  ASSUME TypeOK, GateExclusion, NEW m \in Models,
         worker[m] \notin {"absent", "exited", "panicked"},
         worker[m] = "idle" => queue[m] # <<>>
  PROVE  WillMove(m)
BY GateComesBack DEF WillMove, ReceiverGone

LEMMA FullNotEmpty ==
  ASSUME QueueTypeOK, NEW m \in Models, ~HasRoom(m)
  PROVE  queue[m] # <<>>
BY ModelWorkerAssumption DEF HasRoom, QueueTypeOK

\* A call without a reply belongs to a worker with something to do.
LEMMA AnswerComes ==
  ASSUME TypeOK, PhaseOK, CallsInv, GateExclusion, NEW c \in Calls, reply[c] = "empty"
  PROVE  WillMove(ModelOf[c])
<1> DEFINE m == ModelOf[c]
<1>1. m \in Models /\ c # NoCall /\ (Queued(c) \/ active[m] = c)
  BY ServiceCallTypes, ModelWorkerAssumption DEF CallsInv, PlaceInv
<1>2. CASE Queued(c)
  <2>1. queue[m] # <<>>
    BY <1>2 DEF Queued
  <2>2. worker[m] \notin {"absent", "exited", "panicked"}
    BY <1>1, <2>1 DEF CallsInv, QueueInv, LifecycleInv, TypeOK, ModelStates, Running, Leaving, Dying
  <2> QED BY <1>1, <2>1, <2>2, WorkerMoves
<1>3. CASE active[m] = c
  <2>1. worker[m] \in RunPhases \cup SavePhases \cup {"replying"}
    BY <1>1, <1>3 DEF PhaseOK
  <2> QED BY <1>1, <2>1, WorkerMoves DEF RunPhases, SavePhases
<1> QED BY <1>1, <1>2, <1>3

\* No circle of waiting among callers, workers and closing handles: Shutdown is
\* sent with a send that waits for room, never given up; the channel holds at
\* least one command; and no transaction keeps the gate while it waits for
\* another thread (send and recv in enqueue, spawn and Drop for ModelInner).
THEOREM NoCircularWait == Spec => []NobodyWaitsInVain
<1>1. TypeOK /\ PhaseOK /\ CallsInv /\ ShutdownPending /\ GateExclusion => NobodyWaitsInVain
  <2> SUFFICES ASSUME TypeOK, PhaseOK, CallsInv, ShutdownPending, GateExclusion
               PROVE  NobodyWaitsInVain
    OBVIOUS
  <2>1. QueueTypeOK
    BY DEF TypeOK
  <2>2. ASSUME NEW m \in Models, worker[m] \in Running \cup Dying, ~ReceiverGone(m), ~HasRoom(m)
        PROVE  WillMove(m)
    BY <2>1, <2>2, FullNotEmpty, WorkerMoves DEF Running, Dying, ReceiverGone
  <2>3. ASSUME NEW c \in Calls, caller[c] = "sending"
        PROVE  ReceiverGone(ModelOf[c]) \/ HasRoom(ModelOf[c]) \/ WillMove(ModelOf[c])
    BY <2>2, <2>3, ServiceCallTypes DEF CallsInv, QueueInv, LifecycleInv
  <2>4. ASSUME NEW m \in Models, model[m] = "loading"
        PROVE  worker[m] = "idle" \/ ReceiverGone(m) \/ WillMove(m)
    BY <2>4, WorkerMoves DEF CallsInv, LifecycleInv, ReceiverGone
  <2>5. ASSUME NEW m \in Models, model[m] = "closing"
        PROVE  ReceiverGone(m) \/ HasRoom(m) \/ WillMove(m)
    BY <2>2, <2>5 DEF CallsInv, LifecycleInv
  <2>6. ASSUME NEW m \in Models, model[m] = "joining"
        PROVE  ReceiverGone(m) \/ WillMove(m)
    <3>1. worker[m] = "idle" => queue[m] # <<>>
      BY <2>6 DEF ShutdownPending, Running
    <3>2. worker[m] # "absent"
      BY <2>6 DEF CallsInv, LifecycleInv, Running, Leaving, Dying
    <3> QED BY <3>1, <3>2, WorkerMoves DEF ReceiverGone
  <2> QED BY <2>3, <2>4, <2>5, <2>6, AnswerComes DEF NobodyWaitsInVain
<1> QED BY <1>1, PendingInvariant, CallsInvariant, GateSafety, PTL

-----------------------------------------------------------------------------
(* What an outcome says about MNN.                                         *)

LEMMA EnteredInit == Init => EnteredInv
BY ModelWorkerAssumption, ServiceCallTypes DEF Init, EnteredInv, Unentered, Queued

\* The steps that move a worker and nothing else that counts here.
LEMMA EnteredMove ==
  ASSUME TypeOK, EnteredInv, NEW m \in Models, NEW w, worker' = [worker EXCEPT ![m] = w],
         w \in Unentered => active[m] \notin entered,
         w \in {"native", "saving"} => active[m] \in entered,
         UNCHANGED <<queue, active, verdict, reply, result, entered>>
  PROVE  EnteredInv'
<1>1. \A c \in Calls : Queued(c)' <=> Queued(c)
  BY DEF Queued
<1> QED BY <1>1 DEF EnteredInv, TypeOK

LEMMA EnteredDecide ==
  ASSUME TypeOK, EnteredInv, NEW m \in Models, NEW v, Decide(m, v),
         v \in {"ok", "native"} => active[m] \in entered,
         v \in {"cancelled", "deadline", "poisoned"} => active[m] \notin entered,
         UNCHANGED <<queue, active, reply, result, entered>>
  PROVE  EnteredInv'
<1>1. \A c \in Calls : Queued(c)' <=> Queued(c)
  BY DEF Queued
<1> QED BY <1>1 DEF EnteredInv, TypeOK, Decide, GoTo, Unentered

\* The step that lets a call into MNN: it is at no other place.
LEMMA EnteredAdd ==
  ASSUME TypeOK, PhaseOK, PlaceInv, EnteredInv, NEW m \in Models, active[m] \in Calls,
         NEW w \in {"native", "saving"}, worker' = [worker EXCEPT ![m] = w],
         worker[m] # "replying", entered' = entered \cup {active[m]},
         UNCHANGED <<queue, active, verdict, reply, result>>
  PROVE  EnteredInv'
<1> DEFINE c == active[m]
<1>1. c \in Calls /\ ModelOf[c] = m /\ c # NoCall
  BY ModelWorkerAssumption DEF TypeOK, CallsOf
<1>2. reply[c] = "empty" /\ ~Queued(c) /\ verdict[m] = "none"
  BY <1>1 DEF PlaceInv, PhaseOK
<1>3. \A n \in Models \ {m} : active[n] # c
  BY <1>1 DEF TypeOK, CallsOf
<1>4. /\ worker'[m] = w /\ \A n \in Models \ {m} : worker'[n] = worker[n]
      /\ \A d \in Calls : Queued(d)' <=> Queued(d)
  BY DEF TypeOK, Queued
<1>5. active[m] = c /\ entered' = entered \cup {c} /\ w \notin Unentered
  BY DEF Unentered
<1> HIDE DEF c
<1>6. ASSUME NEW n \in Models
      PROVE  (/\ worker[n] \in Unentered => active[n] \notin entered
              /\ worker[n] \in {"native", "saving"} => active[n] \in entered
              /\ verdict[n] \in {"ok", "native"} => active[n] \in entered
              /\ verdict[n] \in {"cancelled", "deadline", "poisoned"} => active[n] \notin entered)'
  <2>1. CASE n = m
    BY <1>2, <1>4, <1>5, <2>1
  <2>2. CASE n # m
    BY <1>3, <1>4, <1>5, <2>2 DEF EnteredInv
  <2> QED BY <2>1, <2>2
<1>7. ASSUME NEW d \in Calls
      PROVE  (/\ reply[d] = "none" \/ Queued(d) => d \notin entered
              /\ reply[d] \in {"ok", "native"} => d \in entered
              /\ reply[d] \in {"cancelled", "deadline", "poisoned"} => d \notin entered
              /\ result[d] \in {"invalid", "full"} => reply[d] = "none"
              /\ result[d] = "cancelled" => reply[d] \in {"none", "cancelled"}
              /\ result[d] \in {"ok", "native", "poisoned"} => reply[d] = result[d])'
  BY <1>2, <1>4, <1>5 DEF EnteredInv
<1> QED BY <1>6, <1>7 DEF EnteredInv

\* A reply, or the loss of one, goes to a call that had none yet.
LEMMA EnteredAnswer ==
  ASSUME TypeOK, PlaceInv, EnteredInv, NEW m \in Models, active[m] \in Calls,
         NEW answer, answer \notin {"none", "empty"},
         answer \in {"ok", "native"} => active[m] \in entered,
         answer \in {"cancelled", "deadline", "poisoned"} => active[m] \notin entered,
         reply' = [reply EXCEPT ![active[m]] = answer],
         active' = [active EXCEPT ![m] = NoCall],
         verdict'[m] = "none", \A n \in Models \ {m} : verdict'[n] = verdict[n],
         worker'[m] \notin Unentered \cup {"native", "saving"},
         \A n \in Models \ {m} : worker'[n] = worker[n],
         UNCHANGED <<queue, result, entered>>
  PROVE  EnteredInv'
<1> DEFINE c == active[m]
<1>1. c \in Calls /\ ModelOf[c] = m
  BY ModelWorkerAssumption DEF TypeOK, CallsOf
<1>2. reply[c] = "empty"
  BY <1>1 DEF PlaceInv
<1>3. \A d \in Calls : Queued(d)' <=> Queued(d)
  BY DEF Queued
<1>4. \A d \in Calls : reply'[d] = IF d = c THEN answer ELSE reply[d]
  BY DEF TypeOK
<1>5. \A n \in Models \ {m} : active'[n] = active[n]
  BY DEF TypeOK
<1>6. /\ answer \in {"ok", "native"} => c \in entered
      /\ answer \in {"cancelled", "deadline", "poisoned"} => c \notin entered
      /\ UNCHANGED <<result, entered>>
  OBVIOUS
<1> HIDE DEF c
<1>7. ASSUME NEW n \in Models
      PROVE  (/\ worker[n] \in Unentered => active[n] \notin entered
              /\ worker[n] \in {"native", "saving"} => active[n] \in entered
              /\ verdict[n] \in {"ok", "native"} => active[n] \in entered
              /\ verdict[n] \in {"cancelled", "deadline", "poisoned"} => active[n] \notin entered)'
  BY <1>5, <1>6 DEF EnteredInv
<1>8. ASSUME NEW d \in Calls
      PROVE  (/\ reply[d] = "none" \/ Queued(d) => d \notin entered
              /\ reply[d] \in {"ok", "native"} => d \in entered
              /\ reply[d] \in {"cancelled", "deadline", "poisoned"} => d \notin entered
              /\ result[d] \in {"invalid", "full"} => reply[d] = "none"
              /\ result[d] = "cancelled" => reply[d] \in {"none", "cancelled"}
              /\ result[d] \in {"ok", "native", "poisoned"} => reply[d] = result[d])'
  <2>1. CASE d = c
    BY <1>1, <1>2, <1>3, <1>4, <1>6, <2>1 DEF EnteredInv
  <2>2. CASE d # c
    BY <1>3, <1>4, <1>6, <2>2 DEF EnteredInv
  <2> QED BY <2>1, <2>2
<1> QED BY <1>7, <1>8 DEF EnteredInv

LEMMA EnteredWorkerStep ==
  ASSUME TypeOK, PhaseOK, PlaceInv, EnteredInv, NEW m \in Models, WorkerStep(m)
  PROVE  EnteredInv'
<1>1. CASE StartLock(m) \/ StartPoisoned(m) \/ Initialize(m) \/ InitPanic(m)
  BY <1>1, EnteredMove DEF StartLock, StartPoisoned, Initialize, InitPanic, GoTo, Unentered
<1>2. CASE UnwindEngine(m) \/ ExitLock(m) \/ Cleanup(m)
  BY <1>2, EnteredMove DEF UnwindEngine, ExitLock, Cleanup, GoTo, Unentered
<1>3. CASE Lock(m)
  BY <1>3, EnteredMove DEF Lock, GoTo, Unentered, EnteredInv
<1>4. CASE FirstCheck(m) \/ Recheck(m)
  <2>1. active[m] \notin entered /\ UNCHANGED <<queue, active, reply, result, entered>>
    BY <1>4 DEF FirstCheck, Recheck, EnteredInv, Unentered
  <2>2. CASE UNCHANGED verdict /\ \E w \in {"locking", "entering"} : GoTo(m, w)
    BY <2>1, <2>2, EnteredMove DEF GoTo
  <2>3. CASE Decide(m, CheckLive(active[m])) /\ CheckLive(active[m]) # "live"
    <3>1. CheckLive(active[m]) \in {"cancelled", "deadline"}
      BY <2>3, CheckLiveType
    <3> QED BY <2>1, <2>3, <3>1, EnteredDecide
  <2> QED BY <1>4, <2>2, <2>3 DEF FirstCheck, Recheck
<1>5. CASE LockPoisoned(m)
  BY <1>5, EnteredDecide DEF LockPoisoned, EnteredInv, Unentered
<1>6. CASE FinishNative(m) \/ Save(m)
  <2>1. active[m] \in entered /\ UNCHANGED <<queue, active, reply, result, entered>>
    BY <1>6 DEF FinishNative, Save, EnteredInv
  <2>2. PICK v \in {"ok", "native"} : Decide(m, v)
    BY <1>6 DEF FinishNative, Save
  <2> QED BY <2>1, <2>2, EnteredDecide
<1>7. CASE EnterNative(m) \/ SaveLock(m)
  <2>1. active[m] \in Calls /\ worker[m] # "replying"
    BY <1>7 DEF EnterNative, SaveLock, PhaseOK, RunPhases, SavePhases, Calls
  <2>2. /\ \E w \in {"native", "saving"} : worker' = [worker EXCEPT ![m] = w]
        /\ entered' = entered \cup {active[m]}
        /\ UNCHANGED <<queue, active, verdict, reply, result>>
    BY <1>7 DEF EnterNative, SaveLock, GoTo
  <2> QED BY <2>1, <2>2, EnteredAdd
<1>8. CASE Reply(m)
  <2>1. active[m] \in Calls /\ verdict[m] \in Verdicts
    BY <1>8 DEF Reply, PhaseOK, TypeOK
  <2>2. /\ verdict[m] \notin {"none", "empty"}
        /\ verdict[m] \in {"ok", "native"} => active[m] \in entered
        /\ verdict[m] \in {"cancelled", "deadline", "poisoned"} => active[m] \notin entered
    BY <2>1 DEF Verdicts, EnteredInv
  <2>3. /\ verdict'[m] = "none" /\ \A n \in Models \ {m} : verdict'[n] = verdict[n]
        /\ worker'[m] \notin Unentered \cup {"native", "saving"}
        /\ \A n \in Models \ {m} : worker'[n] = worker[n]
    BY <1>8 DEF Reply, GoTo, TypeOK, Unentered
  <2> QED BY <1>8, <2>1, <2>2, <2>3, EnteredAnswer DEF Reply
<1>9. CASE PanicNative(m)
  <2>1. active[m] \in Calls /\ verdict[m] = "none"
    BY <1>9 DEF PanicNative, PhaseOK, RunPhases, Calls
  <2>2. /\ verdict'[m] = "none" /\ \A n \in Models \ {m} : verdict'[n] = verdict[n]
        /\ worker'[m] \notin Unentered \cup {"native", "saving"}
        /\ \A n \in Models \ {m} : worker'[n] = worker[n]
    BY <1>9, <2>1 DEF PanicNative, GoTo, TypeOK, Unentered
  <2>3. /\ reply' = [reply EXCEPT ![active[m]] = "disconnected"]
        /\ active' = [active EXCEPT ![m] = NoCall]
        /\ UNCHANGED <<queue, result, entered>>
    BY <1>9 DEF PanicNative
  <2> QED BY <2>1, <2>2, <2>3, EnteredAnswer
<1>10. CASE Recv(m)
  <2> DEFINE command == Head(queue[m])
  <2>1. /\ UNCHANGED <<verdict, reply, result, entered>>
        /\ queue[m] # <<>> /\ queue' = [queue EXCEPT ![m] = Tail(@)]
        /\ \A n \in Models \ {m} : worker'[n] = worker[n] /\ active'[n] = active[n]
    BY <1>10 DEF Recv, GoTo, TypeOK
  <2>2. QueueTypeOK /\ Distinct
    BY DEF TypeOK, PlaceInv
  <2>3. ASSUME NEW c \in Calls
        PROVE  /\ Queued(c)' => Queued(c)
               /\ ModelOf[c] = m /\ command = c => Queued(c)
    BY <2>1, <2>2, QueuedTail
  <2>4. command \in Calls => ModelOf[command] = m /\ command \notin entered
    <3>1. command \in Calls => ModelOf[command] = m
      BY <2>1, HeadOwn, ModelWorkerAssumption
    <3> HIDE DEF command
    <3> QED BY <2>3, <3>1 DEF EnteredInv
  <2>5. verdict[m] = "none" /\ worker'[m] \notin {"native", "saving"}
    BY <1>10 DEF Recv, PhaseOK, GoTo, TypeOK
  <2>6. worker'[m] \in Unentered => command \in Calls /\ active'[m] = command
    BY <1>10 DEF Recv, GoTo, TypeOK, Unentered, Calls
  <2> HIDE DEF command
  <2> QED BY <2>1, <2>3, <2>4, <2>5, <2>6 DEF EnteredInv
<1>11. CASE DropReceiver(m)
  <2>1. /\ \A n \in Models \ {m} : queue'[n] = queue[n]
        /\ queue'[m] = <<>>
        /\ worker'[m] \notin Unentered \cup {"native", "saving"}
        /\ \A n \in Models \ {m} : worker'[n] = worker[n]
        /\ UNCHANGED <<active, verdict, result, entered>>
    BY <1>11 DEF DropReceiver, GoTo, TypeOK, QueueTypeOK, Unentered
  <2>2. \A c \in Calls :
          reply'[c] = IF ModelOf[c] = m /\ Queued(c) THEN "disconnected" ELSE reply[c]
    BY <1>11 DEF DropReceiver
  <2>3. ASSUME NEW c \in Calls
        PROVE  Queued(c)' => Queued(c)
    <3>1. CASE ModelOf[c] = m
      BY <2>1, <3>1 DEF Queued
    <3>2. CASE ModelOf[c] # m
      BY <2>1, <3>2, ServiceCallTypes DEF Queued
    <3> QED BY <3>1, <3>2
  <2>4. \A c \in Calls : Queued(c) => reply[c] = "empty"
    BY DEF PlaceInv
  <2> QED BY <2>1, <2>2, <2>3, <2>4 DEF EnteredInv
<1> QED BY <1>1, <1>2, <1>3, <1>4, <1>5, <1>6, <1>7, <1>8, <1>9, <1>10, <1>11 DEF WorkerStep

LEMMA EnteredModelStep ==
  ASSUME TypeOK, QueueInv, EnteredInv, NEW m \in Models, ModelStep(m)
  PROVE  EnteredInv'
<1>1. UNCHANGED <<active, verdict, reply, result, entered>>
  BY DEF ModelStep, LoadRejected, Spawn, LoadReturns, DropLast, SendShutdown, Joined
<1>2. CASE UNCHANGED <<queue, worker>>
  <2>1. \A c \in Calls : Queued(c)' <=> Queued(c)
    BY <1>2 DEF Queued
  <2> QED BY <1>1, <1>2, <2>1 DEF EnteredInv
<1>3. CASE Spawn(m)
  BY <1>1, <1>3, EnteredMove DEF Spawn, GoTo, Unentered
<1>4. CASE SendShutdown(m) /\ queue' = [queue EXCEPT ![m] = Append(@, Shutdown)]
  <2>1. QueueTypeOK /\ Shutdown \in Calls \cup {Shutdown}
    BY DEF TypeOK
  <2>2. \A c \in Calls : Queued(c)' <=> Queued(c) \/ (ModelOf[c] = m /\ Shutdown = c)
    BY <1>4, <2>1, QueuedAppend
  <2>3. UNCHANGED worker /\ Shutdown \notin Calls
    BY <1>4, ModelWorkerAssumption DEF SendShutdown
  <2> QED BY <1>1, <2>2, <2>3 DEF EnteredInv
<1> QED BY <1>2, <1>3, <1>4 DEF ModelStep, LoadRejected, LoadReturns, DropLast, SendShutdown, Joined

LEMMA EnteredSend ==
  ASSUME TypeOK, PlaceInv, EnteredInv, NEW c \in Calls, caller[c] \in {"idle", "sending"},
         Send(c), UNCHANGED <<worker, active, verdict, result, entered>>
  PROVE  EnteredInv'
<1>1. reply[c] = "none" /\ result[c] = "none"
  BY DEF PlaceInv
<1>2. ModelOf[c] \in Models /\ c \in Calls \cup {Shutdown}
  BY ServiceCallTypes
<1>3. queue' = [queue EXCEPT ![ModelOf[c]] = Append(@, c)] /\ QueueTypeOK
  BY DEF Send, TypeOK
<1>4. \A d \in Calls : Queued(d)' <=> Queued(d) \/ (ModelOf[d] = ModelOf[c] /\ c = d)
  BY <1>2, <1>3, QueuedAppend
<1>5. \A d \in Calls : reply'[d] = IF d = c THEN "empty" ELSE reply[d]
  BY DEF Send, TypeOK
<1> QED BY <1>1, <1>4, <1>5 DEF EnteredInv

LEMMA EnteredReturn ==
  ASSUME TypeOK, EnteredInv, NEW c \in Calls, NEW v, Return(c, v),
         v \in {"invalid", "full"} => reply[c] = "none",
         v = "cancelled" => reply[c] \in {"none", "cancelled"},
         v \in {"ok", "native", "poisoned"} => reply[c] = v,
         UNCHANGED <<worker, queue, active, verdict, reply, entered>>
  PROVE  EnteredInv'
<1>1. \A d \in Calls : result'[d] = IF d = c THEN v ELSE result[d]
  BY DEF Return, TypeOK
<1>2. \A d \in Calls : Queued(d)' <=> Queued(d)
  BY DEF Queued
<1> QED BY <1>1, <1>2 DEF EnteredInv

LEMMA EnteredCallerStep ==
  ASSUME TypeOK, PlaceInv, EnteredInv, NEW c \in Calls, CallerStep(c)
  PROVE  EnteredInv'
<1>0. UNCHANGED <<worker, active, verdict, entered>>
  BY CallerFrame
<1>1. CASE RejectInvalid(c)
  BY <1>0, <1>1, EnteredReturn DEF RejectInvalid, PlaceInv
<1>2. CASE UNCHANGED <<queue, reply, result>>
  <2>1. \A d \in Calls : Queued(d)' <=> Queued(d)
    BY <1>2 DEF Queued
  <2> QED BY <1>0, <1>2, <2>1 DEF EnteredInv
<1>3. CASE SendBlocking(c)
  <2>1. CASE Return(c, "stopped") /\ UNCHANGED <<queue, reply>>
    BY <1>0, <2>1, EnteredReturn
  <2>2. CASE Send(c) /\ UNCHANGED result
    BY <1>0, <1>3, <2>2, EnteredSend DEF SendBlocking
  <2> QED BY <1>3, <2>1, <2>2 DEF SendBlocking
<1>4. CASE TrySubmit(c)
  <2>1. Admission(c) \in {"cancelled", "deadline", "stopped", "full", "accepted"}
    BY CheckLiveType DEF Admission
  <2>2. reply[c] = "none"
    BY <1>4 DEF TrySubmit, PlaceInv
  <2>3. CASE Return(c, Admission(c)) /\ UNCHANGED <<queue, reply>>
    BY <1>0, <2>1, <2>2, <2>3, EnteredReturn
  <2>4. CASE Send(c) /\ UNCHANGED result
    BY <1>0, <1>4, <2>4, EnteredSend DEF TrySubmit
  <2> QED BY <1>4, <2>3, <2>4 DEF TrySubmit
<1>5. CASE Receive(c)
  <2> DEFINE v == IF reply[c] = "disconnected" THEN "stopped" ELSE reply[c]
  <2>1. Return(c, v) /\ UNCHANGED <<queue, reply>>
    BY <1>5 DEF Receive
  <2>2. reply[c] \in Verdicts \cup {"disconnected"}
    BY <1>5 DEF Receive, PlaceInv, TypeOK
  <2>3. /\ v \in {"invalid", "full"} => reply[c] = "none"
        /\ v = "cancelled" => reply[c] \in {"none", "cancelled"}
        /\ v \in {"ok", "native", "poisoned"} => reply[c] = v
    BY <2>2 DEF Verdicts
  <2> HIDE DEF v
  <2> QED BY <1>0, <2>1, <2>3, EnteredReturn
<1>6. CASE Timeout(c)
  BY <1>0, <1>6, EnteredReturn DEF Timeout
<1>7. CASE DropHandle(c)
  BY <1>0, <1>7, EnteredReturn DEF DropHandle
<1> QED BY <1>1, <1>2, <1>3, <1>4, <1>5, <1>6, <1>7 DEF CallerStep, Call, Wait, Cancel, Expire

\* A refused or skipped request never touched MNN, and a result is reported only
\* for a request MNN saw (check_live, with_gate's error, run_model's results).
THEOREM OutcomesHonest == Spec => []OutcomeHonest
<1>1. Init => EnteredInv
  BY EnteredInit
<1>2. TypeOK /\ PhaseOK /\ CallsInv /\ EnteredInv /\ [Next]_vars => EnteredInv'
  <2> SUFFICES ASSUME TypeOK, PhaseOK, QueueInv, PlaceInv, EnteredInv, [Next]_vars
               PROVE  EnteredInv'
    BY DEF CallsInv
  <2>1. ASSUME UNCHANGED <<worker, queue, active, verdict, reply, result, entered>>
        PROVE  EnteredInv'
    <3>1. \A d \in Calls : Queued(d)' <=> Queued(d)
      BY <2>1 DEF Queued
    <3> QED BY <2>1, <3>1 DEF EnteredInv
  <2> QED BY <2>1, EnteredModelStep, EnteredWorkerStep, EnteredCallerStep, UserFrame DEF Next, vars
<1>3. EnteredInv => OutcomeHonest
  BY DEF EnteredInv, OutcomeHonest
<1> QED BY <1>1, <1>2, <1>3, CallsInvariant, PTL DEF Spec

-----------------------------------------------------------------------------
(* Withdrawn requests.                                                     *)

LEMMA WithdrawInit == Init => WithdrawInv
BY DEF Init, WithdrawInv

LEMMA WithdrawStep ==
  ASSUME TypeOK, PhaseOK, PlaceInv, WithdrawInv, [Next]_vars
  PROVE  WithdrawInv'
<1> USE DEF WithdrawInv
<1>1. ASSUME UNCHANGED <<cancelled, reply>>
      PROVE  WithdrawInv'
  BY <1>1
\* What has been answered stays answered.
<1>2. ASSUME NEW m \in Models, WorkerStep(m)
      PROVE  WithdrawInv'
  <2>1. UNCHANGED cancelled
    BY <1>2 DEF WorkerStep, StartLock, StartPoisoned, Initialize, InitPanic, Recv, FirstCheck,
                Lock, LockPoisoned, Recheck, EnterNative, FinishNative, PanicNative,
                UnwindEngine, DropReceiver, Reply, SaveLock, Save, ExitLock, Cleanup
  <2>2. CASE Reply(m)
    <3>1. verdict[m] \notin {"none", "empty"}
      BY <2>2 DEF Reply, PhaseOK, TypeOK, Verdicts
    <3> QED BY <2>1, <2>2, <3>1 DEF Reply, TypeOK, Calls
  <2>3. CASE PanicNative(m) \/ DropReceiver(m)
    BY <2>1, <2>3 DEF PanicNative, DropReceiver, TypeOK, Calls
  <2> QED BY <1>1, <1>2, <2>2, <2>3
          DEF WorkerStep, StartLock, StartPoisoned, Initialize, InitPanic, Recv, FirstCheck,
              Lock, LockPoisoned, Recheck, EnterNative, FinishNative, UnwindEngine, SaveLock,
              Save, ExitLock, Cleanup
<1>3. ASSUME NEW c \in Calls, CallerStep(c)
      PROVE  WithdrawInv'
  <2>1. CASE Receive(c)
    BY <2>1 DEF Receive, SetCancelled, PlaceInv, TypeOK
  <2>2. CASE Timeout(c) \/ Cancel(c) \/ DropHandle(c)
    <3>1. c \in TryRuns
      BY <2>2 DEF Timeout, Cancel, DropHandle, PlaceInv
    <3> QED BY <2>2, <3>1 DEF Timeout, Cancel, DropHandle, SetCancelled, TypeOK
  \* What is sent had no reply, so its flag, if set, is that of a handle's request.
  <2>3. CASE Send(c) /\ caller[c] \in {"idle", "sending"} /\ UNCHANGED cancelled
    BY <2>3 DEF Send, PlaceInv, TypeOK
  <2> QED BY <1>1, <1>3, <2>1, <2>2, <2>3
          DEF CallerStep, RejectInvalid, Call, SendBlocking, TrySubmit, Wait, Expire
<1> QED BY <1>1, <1>2, <1>3, UserFrame
        DEF Next, vars, ModelStep, LoadRejected, Spawn, LoadReturns, DropLast, SendShutdown, Joined

LEMMA WithdrawInvariant == Spec => []WithdrawInv
<1>1. TypeOK /\ PhaseOK /\ CallsInv /\ WithdrawInv /\ [Next]_vars => WithdrawInv'
  BY WithdrawStep DEF CallsInv
<1> QED BY <1>1, WithdrawInit, CallsInvariant, PTL DEF Spec

\* A request withdrawn in time: it has not entered MNN and the check under the
\* gate is still ahead of it.
Skippable(r) == Withdrawn(r) /\ r \notin entered /\ ~Committed(r)

\* Nothing makes it live again.
LEMMA SkippableStep ==
  ASSUME TypeOK, PhaseOK, NEW r \in TryRuns, Skippable(r), [Next]_vars
  PROVE  Skippable(r)'
<1>0. r \in Runs /\ r \in Calls /\ r \notin Saves /\ ModelOf[r] \in Models /\ Timed \subseteq TryRuns
  BY ModelWorkerAssumption DEF Runs, Calls
<1>1. ASSUME UNCHANGED <<cancelled, expired>>
      PROVE  Withdrawn(r)'
  BY <1>1 DEF Skippable, Withdrawn
<1>2. ASSUME UNCHANGED <<worker, active, entered>>, Withdrawn(r)'
      PROVE  Skippable(r)'
  BY <1>2 DEF Skippable, Committed
<1>3. ASSUME NEW m \in Models, ModelStep(m)
      PROVE  Skippable(r)'
  <2>1. CASE Spawn(m)
    BY <1>0, <1>1, <2>1 DEF Spawn, GoTo, TypeOK, Skippable, Committed
  <2> QED BY <1>1, <1>2, <1>3, <2>1
          DEF ModelStep, LoadRejected, LoadReturns, DropLast, SendShutdown, Joined
<1>4. ASSUME NEW m \in Models, WorkerStep(m)
      PROVE  Skippable(r)'
  <2>1. UNCHANGED <<cancelled, expired>>
    BY <1>4 DEF WorkerStep, StartLock, StartPoisoned, Initialize, InitPanic, Recv, FirstCheck,
                Lock, LockPoisoned, Recheck, EnterNative, FinishNative, PanicNative,
                UnwindEngine, DropReceiver, Reply, SaveLock, Save, ExitLock, Cleanup
  <2>2. Withdrawn(r)'
    BY <1>1, <2>1
  <2> USE <1>0, <2>2 DEF Skippable, Committed, GoTo, Decide, TypeOK
  <2>3. CASE EnterNative(m)
    <3>1. active[m] # r
      BY <2>3, ModelWorkerAssumption DEF EnterNative, CallsOf
    <3> QED BY <2>3, <3>1 DEF EnterNative
  <2>4. CASE SaveLock(m)
    BY <2>4 DEF SaveLock, PhaseOK, SavePhases
  <2>5. CASE Recheck(m)
    <3>1. CheckLive(active[m]) = "live" => active[m] # r
      BY DEF CheckLive, Withdrawn
    <3> QED BY <2>5, <3>1 DEF Recheck
  <2>6. CASE Recv(m) \/ FirstCheck(m) \/ Lock(m) \/ LockPoisoned(m)
    BY <2>6 DEF Recv, FirstCheck, Lock, LockPoisoned
  <2>7. CASE StartLock(m) \/ StartPoisoned(m) \/ Initialize(m) \/ InitPanic(m)
    BY <2>7 DEF StartLock, StartPoisoned, Initialize, InitPanic
  <2>8. CASE FinishNative(m) \/ PanicNative(m) \/ UnwindEngine(m) \/ DropReceiver(m)
    BY <2>8 DEF FinishNative, PanicNative, UnwindEngine, DropReceiver
  <2>9. CASE Reply(m) \/ Save(m) \/ ExitLock(m) \/ Cleanup(m)
    BY <2>9 DEF Reply, Save, ExitLock, Cleanup
  <2> QED BY <1>4, <2>3, <2>4, <2>5, <2>6, <2>7, <2>8, <2>9 DEF WorkerStep
<1>5. ASSUME NEW c \in Calls, CallerStep(c)
      PROVE  Skippable(r)'
  <2>1. Withdrawn(r)'
    BY <1>0, <1>5 DEF CallerStep, RejectInvalid, Call, SendBlocking, TrySubmit, Wait, Receive,
                      Timeout, Cancel, DropHandle, Expire, SetCancelled, TypeOK, Skippable,
                      Withdrawn
  <2> QED BY <1>2, <1>5, <2>1, CallerFrame
<1> QED BY <1>1, <1>2, <1>3, <1>4, <1>5, UserFrame DEF Next, vars

\* A request cancelled, dropped, timed out or expired before the check under the
\* gate never enters MNN, however it is interleaved with the worker afterwards
\* (PendingRun::drop, RunCommand::check_live).
THEOREM WithdrawnSkipped == Spec => WithdrawnNeverRuns
<1> SUFFICES ASSUME NEW r \in TryRuns
             PROVE  Spec => [](Withdrawn(r) /\ r \notin entered /\ ~Committed(r)
                                 => [](r \notin entered))
  BY DEF WithdrawnNeverRuns
<1>1. TypeOK /\ PhaseOK /\ Skippable(r) /\ [Next]_vars => Skippable(r)'
  BY SkippableStep
<1>2. Skippable(r) <=> Withdrawn(r) /\ r \notin entered /\ ~Committed(r)
  BY DEF Skippable
<1> QED BY <1>1, <1>2, TypeCorrectness, PTL DEF Spec
=============================================================================
