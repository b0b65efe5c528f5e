-------------------------------- MODULE Adapter --------------------------------
(***************************************************************************)
(* The InferenceEngine of the OCR adapter, a client that shares a model    *)
(* with others: it takes slices and bare shapes instead of tensors, keeps  *)
(* the declared shapes as unsigned numbers, and relies on the checks of    *)
(* Tensor::new and of the model.  Loading with a configuration is in       *)
(* Configuration.                                                          *)
(***************************************************************************)
EXTENDS Validation

CONSTANTS
  AdapterCalls, \* [method, shape, values, buffer]: the lengths of the two slices
  Results       \* the element counts an output may have

\* A dimension is an i32: cast to usize, a negative one is beyond any element count.
ASSUME AdapterAssumption ==
  /\ \A m \in Models : \A i \in DOMAIN m.inputs : \A k \in DOMAIN m.inputs[i].shape :
       Limit < WordMax + 1 + m.inputs[i].shape[k]
  /\ \A a \in AdapterCalls : a.shape \in Seq(Nat) /\ a.values \in Nat

VARIABLES
  asked, \* the call of the adapter, or NoCall
  reply  \* what the last one returned: none, ok or error

adapterVars == <<asked, reply>>
allVars == <<vars, adapterVars>>

\* from_buffer_with_runtime
Supported == Len(info.inputs) = 1 /\ Len(info.outputs) = 1

\* `d as usize`: an unresolved dimension becomes a huge one.
Unsigned(d) == IF d < 0 THEN WordMax + 1 + d ELSE d

InputShape == [k \in DOMAIN info.inputs[1].shape |-> Unsigned(info.inputs[1].shape[k])]

\* run_raw has no shape of its own.
ShapeAsked(a) == IF a.method = "run_raw" THEN InputShape ELSE a.shape

RequestOf(a) ==
  [inputs |-> <<[name |-> info.inputs[1].name, shape |-> ShapeAsked(a)]>>,
   outputs |-> info.outputs, dynamic |-> a.method = "run_dynamic"]

\* run, run_dynamic or run_raw up to the queue: Tensor::new first.
Ask(a) ==
  /\ Supported
  /\ stage = "idle"
  /\ asked = NoCall
  /\ asked' = a
  /\ reply' = "none"
  /\ IF CheckedElements(ShapeAsked(a)) = a.values THEN Enqueue(RequestOf(a))
     ELSE stage' = "refused" /\ UNCHANGED <<info, device, request>>

Serve == ResizeAndWrite /\ UNCHANGED adapterVars

\* run_raw copies an output of the length of the caller's buffer.
Answer ==
  /\ asked # NoCall
  /\ Return
  /\ \E n \in Results :
       reply' = IF stage = "written" /\ (asked.method = "run_raw" => n = asked.buffer)
                THEN "ok" ELSE "error"
  /\ asked' = NoCall

\* Calls of Model's own methods by the other clients.
Others ==
  /\ asked = NoCall
  /\ \/ stage = "idle" /\ \E c \in Calls : Enqueue(c)
     \/ Return
  /\ UNCHANGED adapterVars

AdapterInit == Init /\ asked = NoCall /\ reply = "none"

AdapterNext == (\E a \in AdapterCalls : Ask(a)) \/ Serve \/ Answer \/ Others

AdapterSpec == AdapterInit /\ [][AdapterNext]_allVars

-----------------------------------------------------------------------------

\* However lengths and shapes were cast and multiplied on the way, a slice is
\* read as a tensor of exactly its length, and run_raw runs at the declared shape
\* or, if the graph leaves a dimension open, not at all.
SliceFitsShape ==
  (asked # NoCall /\ stage \in {"accepted", "written"}) =>
    LET shape == request.inputs[1].shape IN
      /\ FoldLeft(LAMBDA n, d : n * d, 1, shape) = asked.values
      /\ asked.method = "run_raw" => shape = info.inputs[1].shape
=============================================================================
