--------------------------- MODULE Inference_proofs ---------------------------
(***************************************************************************)
(* For any number of inputs and requests: a worker that serves one request *)
(* after another on one session answers each from its own inputs, and none *)
(* fails for what an earlier one left behind.                              *)
(***************************************************************************)
EXTENDS Inference, Engine_proofs

Tensors ==
  [from : [Inputs -> Values \cup {Garbage}], shapes : [Inputs -> Shapes \cup {Unresolved}],
   extent : Extents]

Serving ==
  /\ stage \in {"idle", "resizing", "writing", "running", "inspecting", "reading"}
  /\ stage # "idle" => request \in Requests /\ life = "open"
  /\ input \in Nat
  /\ answer \in [Requests -> {"none", "error", "ok"}]
  /\ tensors \in [Requests -> Tensors]
  /\ rejected \in [Requests -> Tensors]

\* The session, for the request being served: resized for it when the writes
\* begin, holding the inputs written so far, then all of them, then its outputs.
OwnInput(i) == written[i] /\ content[i] = ValueOf[request][i]

Progress ==
  /\ stage = "resizing" => input = 1
  /\ stage \in {"writing", "running", "inspecting", "reading"} => ready /\ device = ShapeOf[request]
  /\ stage = "writing" =>
       /\ input \in Inputs
       /\ \A k \in Inputs : k < input => OwnInput(OrderOf[request][k])
  /\ stage = "running" => \A i \in Inputs : OwnInput(i)
  /\ stage \in {"inspecting", "reading"} => hasOutput /\ ComputedFor(request, output)
  /\ stage = "reading" => output.extent = "fits"

Answered == OwnOutputs /\ HealthyRunsSucceed

InferenceInv == EngineInv /\ Serving /\ Progress /\ Answered

\* What a request is made of.
LEMMA RequestParts ==
  ASSUME NEW r \in Requests
  PROVE  /\ ShapeOf[r] \in [Inputs -> Shapes]
         /\ ValueOf[r] \in [Inputs -> Values]
         /\ OrderOf[r] \in [Inputs -> Inputs]
         /\ \A i \in Inputs : \E k \in Inputs : OrderOf[r][k] = i
         /\ 1 \in Inputs /\ Inputs \subseteq 0..InputCount
<1>1. ShapeOf[r] \in [Inputs -> Shapes] /\ ValueOf[r] \in [Inputs -> Values]
  BY InferenceAssumption DEF InferenceAssumption
<1>2. OrderOf[r] \in Surjection(Inputs, Inputs)
  BY InferenceAssumption DEF InferenceAssumption, Bijection
<1>3. OrderOf[r] \in [Inputs -> Inputs] /\ \A i \in Inputs : \E k \in Inputs : OrderOf[r][k] = i
  BY <1>2 DEF Surjection
<1>4. 1 \in Inputs /\ Inputs \subseteq 0..InputCount
  BY EngineAssumption DEF EngineAssumption, Inputs
<1> QED BY <1>1, <1>3, <1>4

LEMMA InferenceStarts == InferenceInit => InferenceInv
<1> SUFFICES ASSUME InferenceInit PROVE InferenceInv
  OBVIOUS
<1>1. EngineInv
  BY EngineInit DEF InferenceInit
<1>2. NoOutput \in Tensors
  BY DEF NoOutput, NoContent, NoShapes, Tensors, Extents
<1>3. Serving /\ Progress /\ Answered
  BY <1>2 DEF InferenceInit, Serving, Progress, Answered, OwnOutputs, HealthyRunsSucceed
<1> QED BY <1>1, <1>3 DEF InferenceInv

\* An answer for the request being served leaves those of the others alone.
LEMMA AnswerOne ==
  ASSUME Serving, Answered, request \in Requests, NEW a \in {"error", "ok"},
         NEW outputs \in Tensors, Answer(a, outputs),
         a = "ok" => ComputedFor(request, outputs) /\ outputs.extent = "fits",
         faulted \subseteq faulted',
         \A r \in Requests \ {request} : rejected'[r] = rejected[r],
         a = "error" => \/ request \in faulted'
                        \/ /\ ComputedFor(request, rejected'[request])
                           /\ rejected'[request].extent # "fits"
  PROVE  /\ answer' \in [Requests -> {"none", "error", "ok"}]
         /\ tensors' \in [Requests -> Tensors]
         /\ stage' = "idle"
         /\ Answered'
BY DEF Answer, Serving, Answered, OwnOutputs, HealthyRunsSucceed, ComputedFor

\* After a native call, its request goes on, or is answered with the failure.
LEMMA ContinueOne ==
  ASSUME Serving, Answered, request \in Requests, NEW next,
         next \in {"writing", "running", "inspecting"}, Continue(next),
         last'[2] \in {"ok", "failed"}
  PROVE  /\ answer' \in [Requests -> {"none", "error", "ok"}]
         /\ tensors' \in [Requests -> Tensors]
         /\ rejected' = rejected
         /\ \/ last'[2] = "ok" /\ stage' = next /\ request' = request
            \/ stage' = "idle"
         /\ Answered'
<1>1. CASE last'[2] = "ok"
  BY <1>1 DEF Continue, Serving, Answered, OwnOutputs, HealthyRunsSucceed, ComputedFor
<1>2. CASE last'[2] # "ok"
  <2>1. NoOutput \in Tensors
    BY DEF NoOutput, NoContent, NoShapes, Tensors, Extents
  <2>2. Answer("error", NoOutput) /\ faulted' = faulted \cup {request} /\ rejected' = rejected
    BY <1>2 DEF Continue
  <2> QED BY <2>1, <2>2, AnswerOne
<1> QED BY <1>1, <1>2

LEMMA ResizeServed ==
  ASSUME InferenceInv, ResizeInputs
  PROVE  ResizeStep /\ (Serving /\ Progress /\ Answered)'
<1> USE DEF ResizeInputs, InferenceInv
<1>1. request \in Requests /\ life = "open" /\ input = 1
  BY DEF Serving, Progress
<1>2. ShapeOf[request] \in [Inputs -> Shapes]
  BY <1>1, RequestParts
<1>3. ResizeStep
  BY <1>2 DEF ResizeStep
<1>4. /\ life' = "open"
      /\ last'[2] \in {"ok", "failed"}
      /\ last'[2] = "ok" => ready' /\ device' = ShapeOf[request]
  BY <1>1, <1>2 DEF ResizeThrowsEarly, ResizeKeeps, ResizeSession, ResizeFails, Returns,
                    Changed, sessionVars
<1>5. /\ answer' \in [Requests -> {"none", "error", "ok"}]
      /\ tensors' \in [Requests -> Tensors]
      /\ rejected' = rejected
      /\ \/ last'[2] = "ok" /\ stage' = "writing" /\ request' = request
         \/ stage' = "idle"
      /\ Answered'
  BY <1>1, <1>4, ContinueOne
<1>6. input' = 1 /\ input' \in Inputs /\ \A k \in Inputs : ~(k < input')
  BY <1>1, RequestParts DEF Inputs
<1>7. Serving'
  BY <1>1, <1>4, <1>5, <1>6 DEF Serving
<1>8. Progress'
  BY <1>4, <1>5, <1>6 DEF Progress
<1> QED BY <1>3, <1>5, <1>7, <1>8

\* The bridge accepts every write: the session is ready and has the shapes.
LEMMA WriteServed ==
  ASSUME InferenceInv, WriteInput
  PROVE  WriteStep /\ (Serving /\ Progress /\ Answered)'
<1> DEFINE i == OrderOf[request][input]
           next == IF input = InputCount THEN "running" ELSE "writing"
<1> USE DEF InferenceInv
<1>1. /\ request \in Requests /\ life = "open" /\ ready
      /\ device = ShapeOf[request] /\ input \in Inputs
      /\ \A k \in Inputs : k < input => OwnInput(OrderOf[request][k])
  BY DEF WriteInput, Serving, Progress
<1>2. /\ i \in Inputs /\ i \in 0..InputCount
      /\ ShapeOf[request][i] \in Shapes /\ ValueOf[request][i] \in Values
      /\ ShapeOf[request][i] = device[i]
  BY <1>1, RequestParts
<1>3. \/ Write(i, ShapeOf[request][i], ValueOf[request][i])
      \/ WriteFails(i, ShapeOf[request][i])
  BY <1>1, <1>2 DEF WriteInput, WriteEngineInput, InputIndex, WriteNotReady, WriteRefused
<1>4. WriteStep
  BY <1>2, <1>3 DEF WriteStep
<1>5. /\ life' = "open" /\ ready' = ready /\ device' = device
      /\ last'[2] \in {"ok", "failed"}
  <2>1. CASE Write(i, ShapeOf[request][i], ValueOf[request][i])
    BY <1>1, <2>1 DEF Write, Returns
  <2>2. CASE WriteFails(i, ShapeOf[request][i])
    BY <1>1, <2>2 DEF WriteFails, Returns
  <2> QED BY <1>3, <2>1, <2>2
<1>6. ASSUME last'[2] = "ok"
      PROVE  /\ written' = [written EXCEPT ![i] = TRUE]
             /\ content' = [content EXCEPT ![i] = ValueOf[request][i]]
  BY <1>3, <1>6 DEF Write, WriteFails, Returns
<1>7. Continue(next) /\ next \in {"writing", "running", "inspecting"}
  BY DEF WriteInput
<1>8. /\ answer' \in [Requests -> {"none", "error", "ok"}]
      /\ tensors' \in [Requests -> Tensors]
      /\ rejected' = rejected
      /\ \/ last'[2] = "ok" /\ stage' = next /\ request' = request
         \/ stage' = "idle"
      /\ Answered'
  <2> HIDE DEF next
  <2> QED BY <1>1, <1>5, <1>7, ContinueOne
<1>9. /\ input' \in Inputs
      /\ input # InputCount => input' = input + 1
  BY <1>1, EngineAssumption DEF WriteInput, Inputs, EngineAssumption
<1>10. Serving'
  BY <1>1, <1>5, <1>8, <1>9 DEF Serving, Inputs
<1>11. ASSUME last'[2] = "ok", request' = request
       PROVE  \A k \in Inputs : k < input + 1 => OwnInput(OrderOf[request][k])'
  <2> SUFFICES ASSUME NEW k \in Inputs, k < input + 1
               PROVE  OwnInput(OrderOf[request][k])'
    OBVIOUS
  <2> DEFINE j == OrderOf[request][k]
  <2>1. j \in Inputs /\ written \in [Inputs -> BOOLEAN]
        /\ content \in [Inputs -> Values \cup {Garbage}]
    BY <1>1, RequestParts DEF EngineInv, TypeOK
  <2>2. k = input \/ k < input
    BY <1>1 DEF Inputs
  <2>3. j = i \/ OwnInput(j)
    BY <1>1, <2>2
  <2>4. written'[j] /\ content'[j] = ValueOf[request][j]
    BY <1>2, <1>6, <1>11, <2>1, <2>3 DEF OwnInput
  <2> QED BY <1>11, <2>4 DEF OwnInput
<1>12. Progress'
  <2>1. CASE stage' = "idle"
    BY <2>1 DEF Progress
  <2>2. CASE last'[2] = "ok" /\ stage' = next /\ request' = request
    <3>1. CASE input = InputCount
      <4>1. \A k \in Inputs : k < input + 1
        BY <1>1, <3>1 DEF Inputs
      <4>2. \A n \in Inputs : OwnInput(n)'
        BY <1>1, <1>11, <2>2, <4>1, RequestParts DEF OwnInput
      <4> QED BY <1>1, <1>5, <2>2, <3>1, <4>2 DEF Progress
    <3>2. CASE input # InputCount
      BY <1>1, <1>5, <1>9, <1>11, <2>2, <3>2 DEF Progress, OwnInput
    <3> QED BY <3>1, <3>2
  <2> QED BY <1>8, <2>1, <2>2
<1> QED BY <1>4, <1>8, <1>10, <1>12

LEMMA RunServed ==
  ASSUME InferenceInv, RunSession
  PROVE  RunStep /\ (Serving /\ Progress /\ Answered)'
<1> USE DEF InferenceInv
<1>1. /\ request \in Requests /\ life = "open" /\ ready
      /\ device = ShapeOf[request] /\ \A i \in Inputs : OwnInput(i)
      /\ input \in Nat
  BY DEF RunSession, Serving, Progress
<1>2. content = ValueOf[request]
  BY <1>1, RequestParts DEF OwnInput, EngineInv, TypeOK
<1>3. allocated = ShapeOf[request]
  BY <1>1 DEF EngineInv, ReadyAllocated
<1>4. Run \/ RunFails
  BY <1>1 DEF RunSession, RunRefused, Runnable, OwnInput
<1>5. /\ life' = "open" /\ ready' = ready /\ device' = device
      /\ last'[2] \in {"ok", "failed"}
      /\ last'[2] = "ok" =>
           hasOutput' /\ output'.from = ValueOf[request] /\ output'.shapes = ShapeOf[request]
  <2>1. CASE Run
    BY <1>1, <1>2, <1>3, <2>1 DEF Run, Returns
  <2>2. CASE RunFails
    BY <1>1, <2>2 DEF RunFails, Returns
  <2> QED BY <1>4, <2>1, <2>2
<1>6. /\ answer' \in [Requests -> {"none", "error", "ok"}]
      /\ tensors' \in [Requests -> Tensors]
      /\ rejected' = rejected
      /\ \/ last'[2] = "ok" /\ stage' = "inspecting" /\ request' = request
         \/ stage' = "idle"
      /\ Answered'
  BY <1>1, <1>5, ContinueOne DEF RunSession
<1>7. Serving'
  BY <1>1, <1>5, <1>6 DEF Serving, RunSession
<1>8. Progress'
  BY <1>1, <1>5, <1>6 DEF Progress, ComputedFor
<1> QED BY <1>4, <1>6, <1>7, <1>8 DEF RunStep

\* What is rejected was computed for the request itself; the session is untouched.
LEMMA InspectServed ==
  ASSUME InferenceInv, InspectOutputs
  PROVE  UNCHANGED engineVars /\ (Serving /\ Progress /\ Answered)'
<1> USE DEF InferenceInv
<1>1. /\ request \in Requests /\ life = "open" /\ ready /\ device = ShapeOf[request]
      /\ hasOutput /\ ComputedFor(request, output)
      /\ input \in Nat /\ output \in Tensors /\ NoOutput \in Tensors
  BY DEF InspectOutputs, Serving, Progress, EngineInv, TypeOK, Tensors, NoOutput, NoContent,
         NoShapes, Extents
<1>2. UNCHANGED engineVars /\ UNCHANGED input
  BY DEF InspectOutputs
<1>3. ASSUME Answer("error", NoOutput), faulted' = faulted \cup {request}, UNCHANGED rejected
      PROVE  (Serving /\ Progress /\ Answered)'
  <2>1. /\ answer' \in [Requests -> {"none", "error", "ok"}]
        /\ tensors' \in [Requests -> Tensors] /\ stage' = "idle" /\ Answered'
    BY <1>1, <1>3, AnswerOne
  <2> QED BY <1>1, <1>2, <1>3, <2>1 DEF Serving, Progress
<1>4. ASSUME OutputExtent # "fits", Answer("error", NoOutput), UNCHANGED faulted,
             rejected' = [rejected EXCEPT ![request] = output]
      PROVE  (Serving /\ Progress /\ Answered)'
  <2>1. /\ rejected' \in [Requests -> Tensors]
        /\ rejected'[request] = output
        /\ \A r \in Requests \ {request} : rejected'[r] = rejected[r]
    BY <1>1, <1>4 DEF Serving
  <2>2. ComputedFor(request, rejected'[request]) /\ rejected'[request].extent # "fits"
    BY <1>1, <1>4, <2>1 DEF OutputExtent
  <2>3. /\ answer' \in [Requests -> {"none", "error", "ok"}]
        /\ tensors' \in [Requests -> Tensors] /\ stage' = "idle" /\ Answered'
    BY <1>1, <1>4, <2>1, <2>2, AnswerOne
  <2> QED BY <1>1, <1>2, <2>1, <2>3 DEF Serving, Progress
<1>5. ASSUME OutputExtent = "fits", stage' = "reading",
             UNCHANGED <<request, answer, tensors, faulted, rejected>>
      PROVE  (Serving /\ Progress /\ Answered)'
  <2>1. UNCHANGED <<life, ready, hasOutput, device, output>>
    BY <1>2 DEF engineVars, flags, sessionVars
  <2>2. Serving' /\ Progress'
    BY <1>1, <1>2, <1>5, <2>1 DEF Serving, Progress, OutputExtent, ComputedFor
  <2>3. Answered'
    BY <1>5 DEF Answered, OwnOutputs, HealthyRunsSucceed, ComputedFor
  <2> QED BY <2>2, <2>3
<1> QED BY <1>2, <1>3, <1>4, <1>5 DEF InspectOutputs

LEMMA ReadServed ==
  ASSUME InferenceInv, ReadOutputs
  PROVE  ReadStep /\ (Serving /\ Progress /\ Answered)'
<1> USE DEF InferenceInv
<1>1. /\ request \in Requests /\ life = "open" /\ ready /\ hasOutput
      /\ ComputedFor(request, output) /\ output.extent = "fits"
      /\ input \in Nat
  BY DEF ReadOutputs, Serving, Progress
<1>2. Metadata = output.shapes /\ Metadata = ShapeOf[request]
  BY <1>1 DEF Metadata, ComputedFor
<1>3. Metadata \in [Inputs -> Shapes]
  BY <1>1, <1>2, RequestParts
<1>4. Read(Metadata) \/ ReadFails(Metadata)
  BY <1>1, <1>2 DEF ReadOutputs, ReadRefused
<1>5. ReadStep
  BY <1>3, <1>4 DEF ReadStep
<1>6. life' = life /\ last'[2] \in {"ok", "failed"}
  BY <1>4 DEF Read, ReadFails, Returns
<1>7. output \in Tensors /\ NoOutput \in Tensors
  BY DEF EngineInv, TypeOK, Tensors, NoOutput, NoContent, NoShapes, Extents
<1>8. /\ answer' \in [Requests -> {"none", "error", "ok"}]
      /\ tensors' \in [Requests -> Tensors]
      /\ stage' = "idle"
      /\ Answered'
  <2>1. CASE last'[2] = "ok"
    <3>1. Answer("ok", output) /\ faulted' = faulted /\ rejected' = rejected
      BY <2>1 DEF ReadOutputs
    <3> QED BY <1>1, <1>7, <3>1, AnswerOne
  <2>2. CASE last'[2] = "failed"
    <3>1. Answer("error", NoOutput) /\ faulted' = faulted \cup {request} /\ rejected' = rejected
      BY <2>2 DEF ReadOutputs
    <3> QED BY <1>1, <1>7, <3>1, AnswerOne
  <2> QED BY <1>6, <2>1, <2>2
<1>9. Serving' /\ Progress'
  BY <1>1, <1>8 DEF Serving, Progress, ReadOutputs
<1> QED BY <1>5, <1>8, <1>9

LEMMA InferenceStep ==
  ASSUME InferenceInv, [InferenceNext]_allVars
  PROVE  [Next]_engineVars /\ InferenceInv'
<1> USE DEF InferenceInv
<1>1. CASE UNCHANGED allVars
  BY <1>1, EngineStep DEF allVars, inferenceVars, Serving, Progress, Answered, OwnInput, OwnOutputs,
              HealthyRunsSucceed, ComputedFor, engineVars, flags, sessionVars, staging
<1>2. CASE Load \/ Unload
  <2>1. Next
    BY <1>2 DEF Load, Unload, Next
  <2>2. UNCHANGED inferenceVars /\ (stage = "idle" \/ life = "absent")
    BY <1>2 DEF Load, Unload, Create
  <2>3. Serving' /\ Progress' /\ Answered'
    BY <2>2 DEF inferenceVars, Serving, Progress, Answered, OwnOutputs, HealthyRunsSucceed,
                ComputedFor
  <2> QED BY <2>1, <2>3, EngineStep
<1>3. ASSUME NEW r \in Requests, Begin(r)
      PROVE  [Next]_engineVars /\ InferenceInv'
  <2>1. UNCHANGED engineVars
    BY <1>3 DEF Begin
  <2>2. Serving' /\ Progress' /\ Answered'
    BY <1>3 DEF Begin, Serving, Progress, Answered, OwnOutputs, HealthyRunsSucceed,
                ComputedFor, engineVars
  <2> QED BY <2>1, <2>2, EngineStep
<1>4. CASE ResizeInputs
  BY <1>4, ResizeServed, EngineStep DEF Next
<1>5. CASE WriteInput
  BY <1>5, WriteServed, EngineStep DEF Next
<1>6. CASE RunSession
  BY <1>6, RunServed, EngineStep DEF Next
<1>7. CASE ReadOutputs
  BY <1>7, ReadServed, EngineStep DEF Next
<1>8. CASE InspectOutputs
  BY <1>8, InspectServed, EngineStep
<1> QED BY <1>1, <1>2, <1>3, <1>4, <1>5, <1>6, <1>7, <1>8 DEF InferenceNext

LEMMA InferenceInductive == InferenceSpec => []InferenceInv
<1>1. InferenceInv /\ [InferenceNext]_allVars => InferenceInv'
  BY InferenceStep
<1> QED BY <1>1, InferenceStarts, PTL DEF InferenceSpec

\* A request that is answered with outputs gets those of its own inputs at its own
\* shapes, whatever was served before and whatever failed.
THEOREM AnswersOwned == InferenceSpec => []OwnOutputs
<1>1. InferenceInv => OwnOutputs
  BY DEF InferenceInv, Answered
<1> QED BY <1>1, InferenceInductive, PTL

\* run_model answers a request with an error only for a failure in MNN during the
\* request itself, or for an output of no returnable shape that MNN computed from the
\* request's own inputs: no earlier one leaves the session where a guard trips.
THEOREM HealthyServed == InferenceSpec => []HealthyRunsSucceed
<1>1. InferenceInv => HealthyRunsSucceed
  BY DEF InferenceInv, Answered
<1> QED BY <1>1, InferenceInductive, PTL

\* run_model is one user of the safe Engine API among those of Engine: whatever
\* holds of any such user holds of the worker.
THEOREM WorkerUsesEngine == InferenceSpec => Spec
<1>1. InferenceInit => Init
  BY DEF InferenceInit
<1>2. InferenceInv /\ [InferenceNext]_allVars => [Next]_engineVars
  BY InferenceStep
<1> QED BY <1>1, <1>2, InferenceInductive, PTL DEF InferenceSpec, Spec
=============================================================================
