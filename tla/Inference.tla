------------------------------ MODULE Inference ------------------------------
(***************************************************************************)
(* run_model: the worker of a model serves one request after another on    *)
(* the same native session, stopping at the first error.  Each step is one *)
(* operation of Engine with any of its outcomes, or the inspection of the  *)
(* outputs between inference and reading; the next request starts from     *)
(* whatever state the previous one left behind.                            *)
(***************************************************************************)
EXTENDS Engine, Functions

CONSTANTS
  Requests,  \* accepted inference requests
  ShapeOf,   \* the concrete input shapes of a request
  ValueOf,   \* its input contents
  OrderOf,   \* the order in which the caller listed the inputs
  NoRequest

ASSUME InferenceAssumption ==
  /\ ShapeOf \in [Requests -> [Inputs -> Shapes]]
  /\ ValueOf \in [Requests -> [Inputs -> Values]]
  /\ OrderOf \in [Requests -> Bijection(Inputs, Inputs)]
  /\ NoRequest \notin Requests

VARIABLES
  request,  \* the request being served
  stage,    \* idle, resizing, writing, running, inspecting or reading
  input,    \* the position in the caller's list of the next input to write
  answer,   \* none, error or ok
  tensors,  \* the outputs a request was answered with
  faulted,  \* history: the requests during which an operation failed in MNN
  rejected  \* history: the outputs for whose dimensions a request was refused

inferenceVars == <<request, stage, input, answer, tensors, faulted, rejected>>
allVars == <<engineVars, inferenceVars>>

InferenceInit ==
  /\ Init
  /\ request = NoRequest
  /\ stage = "idle"
  /\ input = 1
  /\ answer = [r \in Requests |-> "none"]
  /\ tensors = [r \in Requests |-> NoOutput]
  /\ faulted = {}
  /\ rejected = [r \in Requests |-> NoOutput]

\* initialize_model, with load-time shapes of any kind.
Load ==
  /\ \E shapes \in [Inputs -> Shapes \cup {Unresolved}] : Create(shapes)
  /\ UNCHANGED inferenceVars

Begin(r) ==
  /\ life = "open"
  /\ stage = "idle"
  /\ answer[r] = "none"
  /\ request' = r
  /\ stage' = "resizing"
  /\ input' = 1
  /\ UNCHANGED <<engineVars, answer, tensors, faulted, rejected>>

Answer(a, outputs) ==
  /\ answer' = [answer EXCEPT ![request] = a]
  /\ tensors' = [tensors EXCEPT ![request] = outputs]
  /\ request' = NoRequest
  /\ stage' = "idle"

\* The `?` after each native call.
Continue(next) ==
  /\ \/ last'[2] = "ok" /\ stage' = next /\ UNCHANGED <<request, answer, tensors>>
     \/ last'[2] # "ok" /\ Answer("error", NoOutput)
  /\ faulted' = IF last'[2] = "failed" THEN faulted \cup {request} ELSE faulted
  /\ UNCHANGED rejected

\* The dimensions of an accepted tensor are within Tensor::new's limits, so the
\* conversions to i32 before this call cannot fail.
ResizeInputs ==
  /\ stage = "resizing"
  /\ \/ ResizeThrowsEarly
     \/ ResizeKeeps(ShapeOf[request])
     \/ ResizeSession(ShapeOf[request])
     \/ ResizeFails(ShapeOf[request])
  /\ Continue("writing")
  /\ UNCHANGED input

WriteEngineInput(index, tensor) ==
  LET shape == ShapeOf[request][tensor] IN
    \/ WriteNotReady(index, shape) \/ WriteRefused(index, shape)
    \/ Write(index, shape, ValueOf[request][tensor]) \/ WriteFails(index, shape)

\* The slot of the tensor at this position, resolved from its name.
InputIndex == OrderOf[request][input]

\* Bug: a tensor is written to the slot of its position in the caller's list.
WriteInputByPosition ==
  /\ stage = "writing"
  /\ WriteEngineInput(input, InputIndex)
  /\ Continue(IF input = InputCount THEN "running" ELSE "writing")
  /\ input' = IF input = InputCount THEN 1 ELSE input + 1

WriteInput ==
  /\ stage = "writing"
  /\ WriteEngineInput(InputIndex, InputIndex)
  /\ Continue(IF input = InputCount THEN "running" ELSE "writing")
  /\ input' = IF input = InputCount THEN 1 ELSE input + 1

RunSession ==
  /\ stage = "running"
  /\ RunRefused \/ Run \/ RunFails
  /\ Continue("inspecting")
  /\ UNCHANGED input

\* The outputs as tensor_infos describes them: a session that is not ready has
\* none with a shape.
Metadata == IF ready THEN output.shapes ELSE NoShapes
OutputExtent == IF ready THEN output.extent ELSE "unresolved"

\* The metadata of the outputs is taken after the inference.  The request fails
\* when engine.outputs reports an error, when TensorInfo::checked finds a shape
\* too large, and when concrete_shape finds one unresolved.  A shape that passes
\* both is one for which resize_output, element_count and Tensor::new succeed.
InspectOutputs ==
  /\ stage = "inspecting"
  /\ UNCHANGED <<engineVars, input>>
  /\ \/ /\ Answer("error", NoOutput)
        /\ faulted' = faulted \cup {request}
        /\ UNCHANGED rejected
     \/ /\ OutputExtent # "fits"
        /\ Answer("error", NoOutput)
        /\ rejected' = [rejected EXCEPT ![request] = output]
        /\ UNCHANGED faulted
     \/ /\ OutputExtent = "fits"
        /\ stage' = "reading"
        /\ UNCHANGED <<request, answer, tensors, faulted, rejected>>

ReadOutputs ==
  /\ stage = "reading"
  /\ ReadRefused(Metadata) \/ Read(Metadata) \/ ReadFails(Metadata)
  /\ IF last'[2] = "ok" THEN Answer("ok", output) ELSE Answer("error", NoOutput)
  /\ faulted' = IF last'[2] = "failed" THEN faulted \cup {request} ELSE faulted
  /\ UNCHANGED <<input, rejected>>

\* The worker ends between two requests.
Unload ==
  /\ stage = "idle"
  /\ Destroy
  /\ UNCHANGED inferenceVars

InferenceNext ==
  \/ Load \/ Unload
  \/ \E r \in Requests : Begin(r)
  \/ ResizeInputs \/ WriteInput \/ RunSession \/ InspectOutputs \/ ReadOutputs
  \/ life = "destroyed" /\ UNCHANGED allVars

InferenceSpec == InferenceInit /\ [][InferenceNext]_allVars

-----------------------------------------------------------------------------

\* Outputs computed from a request's own inputs, at its own shapes.
ComputedFor(r, outputs) == outputs.from = ValueOf[r] /\ outputs.shapes = ShapeOf[r]

\* A successful answer was computed from this request's own inputs, at its own
\* shapes, and has a shape of its own: nothing of an earlier request, successful or
\* failed at any step, and no half-copied tensor, reaches it.
OwnOutputs ==
  \A r \in Requests :
    answer[r] = "ok" => ComputedFor(r, tensors[r]) /\ tensors[r].extent = "fits"

\* run_model never trips a guard of the bridge, and never rejects an output,
\* because of the state an earlier request left: one is answered with outputs
\* unless an operation of its own fails in MNN or for want of staging memory, or
\* MNN infers from its own inputs an output of no shape that can be returned.  (A
\* staging tensor that got no memory keeps failing until its tensor changes shape.)
HealthyRunsSucceed ==
  \A r \in Requests :
    answer[r] = "error" =>
      \/ r \in faulted
      \/ ComputedFor(r, rejected[r]) /\ rejected[r].extent # "fits"
=============================================================================
