------------------------------ MODULE Validation ------------------------------
(***************************************************************************)
(* The checks a request passes on its way to MNN: Tensor::new and enqueue  *)
(* in Rust, then the bridge's own checks in C++.  The two layers count     *)
(* elements differently: Rust multiplies with checked_mul and compares at  *)
(* the end, the bridge divides its limit before each product, and a third  *)
(* count, logical_elements, is compared with the length of the data.       *)
(*                                                                         *)
(* MaxRank, Limit and WordMax scale 8, i32::MAX / 4 / 4 and usize::MAX     *)
(* down.  Tensor contents are left out: Tensor::new fixes their length.    *)
(***************************************************************************)
EXTENDS Integers, SequencesExt

CONSTANTS
  MaxRank,  \* the largest rank either layer accepts
  Limit,    \* the largest element count either layer accepts
  WordMax,  \* the largest usize, or size_t
  Models,   \* loadable models: [inputs, outputs], inputs being [name, shape]
  Calls,    \* calls: [inputs, outputs, dynamic]
  NoCall

ASSUME ValidationAssumption ==
  /\ {MaxRank, Limit, WordMax} \subseteq Nat \ {0}
  /\ Limit <= WordMax
  /\ NoCall \notin Calls

\* The bridge takes a model's inputs from a map by name (tensor_list); dimensions
\* are i32 in a model and usize in a call.
ASSUME TensorsAssumption ==
  /\ \A m \in Models :
       /\ m.inputs \in Seq(ToSet(m.inputs))
       /\ \A i \in DOMAIN m.inputs : m.inputs[i].shape \in Seq(Int)
       /\ \A i, j \in DOMAIN m.inputs : m.inputs[i].name = m.inputs[j].name => i = j
  /\ \A c \in Calls :
       /\ c.inputs \in Seq(ToSet(c.inputs))
       /\ \A i \in DOMAIN c.inputs : c.inputs[i].shape \in Seq(Nat)

VARIABLES
  info,    \* the ModelInfo of the loaded model
  device,  \* the present shapes of the session's inputs
  request, \* the call being served
  stage    \* how far it came: idle, refused, accepted, rejected or written

vars == <<info, device, request, stage>>

-----------------------------------------------------------------------------
(* Element counts; 0 stands for None.                                      *)

\* Bug: the product wraps around.
CheckedMulWrapping(n, d) == (n * d) % (WordMax + 1)

CheckedMul(n, d) == IF n * d > WordMax THEN 0 ELSE n * d

\* checked_elements: a None, once there, stays (0 is not a dimension here).
CheckedElements(shape) ==
  LET product == FoldLeft(CheckedMul, 1, shape)
  IN IF Len(shape) > MaxRank \/ 0 \in ToSet(shape) \/ product > Limit
     THEN 0 ELSE product

\* The bridge's logical_elements.
LogicalElements(shape) ==
  FoldLeft(LAMBDA n, d : IF d <= 0 \/ n > WordMax \div d THEN 0 ELSE n * d, 1, shape)

\* The bridge's valid_shape: the quotient is recomputed for each dimension.
ValidShape(shape) ==
  /\ Len(shape) <= MaxRank
  /\ 0 # FoldLeft(LAMBDA n, d : IF n = 0 \/ d <= 0 THEN 0
                                ELSE IF d > Limit \div n THEN 0 ELSE n * d,
                  1, shape)

-----------------------------------------------------------------------------
(* Tensor::new, validate_inputs and the selection of outputs.              *)

NamesOf(tensors) == {tensors[i].name : i \in DOMAIN tensors}

\* The graph slot of a name.
Slot(name) == CHOOSE i \in DOMAIN info.inputs : info.inputs[i].name = name

\* Bug: named inputs are taken to come in graph order.
InputIndexByPosition(c, i) == i

InputIndex(c, i) == Slot(c.inputs[i].name)

\* A call without dynamic may only fill in the unresolved dimensions.
FitsDeclared(declared, shape, dynamic) ==
  dynamic \/ \A k \in DOMAIN shape : declared[k] > 0 => declared[k] = shape[k]

\* Bug: only the missing inputs are looked for.
ValidateInputsLoosely(c) ==
  /\ NamesOf(info.inputs) \subseteq NamesOf(c.inputs)
  /\ NamesOf(c.inputs) \subseteq NamesOf(info.inputs)

\* validate_inputs: every graph input once, with its rank and its fixed dimensions.
ValidateInputs(c) ==
  /\ Cardinality(NamesOf(c.inputs)) = Len(c.inputs)
  /\ NamesOf(c.inputs) = NamesOf(info.inputs)
  /\ \A i \in DOMAIN c.inputs :
       LET declared == info.inputs[Slot(c.inputs[i].name)].shape
           shape == c.inputs[i].shape
       IN Len(declared) = Len(shape) /\ FitsDeclared(declared, shape, c.dynamic)

SelectOutputs(c) ==
  /\ Cardinality(ToSet(c.outputs)) = Len(c.outputs)
  /\ ToSet(c.outputs) \subseteq ToSet(info.outputs)

-----------------------------------------------------------------------------
(* mnn_runtime_resize_inputs and mnn_runtime_write_input_index_f32.         *)

\* The entries run_model builds, [index, shape] in the caller's order.
Entries == [i \in DOMAIN request.inputs |->
              [index |-> InputIndex(request, i), shape |-> request.inputs[i].shape]]

ResizeAccepts(entries) ==
  /\ Len(entries) = Len(device)
  /\ \A i \in DOMAIN entries :
       /\ entries[i].index \in DOMAIN device
       /\ \A j \in 1..(i - 1) : entries[j].index # entries[i].index
       /\ ValidShape(entries[i].shape)
       /\ Len(entries[i].shape) = Len(device[entries[i].index])

Resized(entries) ==
  [k \in DOMAIN device |-> (CHOOSE e \in ToSet(entries) : e.index = k).shape]

\* The length of each tensor's data is the element count of the resized input.
WritesAccept(entries, shapes) ==
  \A e \in ToSet(entries) :
    /\ LogicalElements(shapes[e.index]) # 0
    /\ LogicalElements(shapes[e.index]) = CheckedElements(e.shape)

-----------------------------------------------------------------------------

\* mnn_runtime_engine_create and TensorInfo::checked: resolved shapes are valid.
Loads(m) ==
  \A i \in DOMAIN m.inputs :
    LET shape == m.inputs[i].shape IN
      (\A k \in DOMAIN shape : shape[k] > 0)
        => ValidShape(shape) /\ CheckedElements(shape) # 0

Init ==
  /\ info \in {m \in Models : Loads(m)}
  /\ device = [i \in DOMAIN info.inputs |-> info.inputs[i].shape]
  /\ request = NoCall
  /\ stage = "idle"

\* Tensor::new for each input, then enqueue.
Enqueue(c) ==
  /\ stage = "idle"
  /\ request' = c
  /\ stage' = IF /\ \A i \in DOMAIN c.inputs : CheckedElements(c.inputs[i].shape) # 0
                 /\ ValidateInputs(c)
                 /\ SelectOutputs(c)
              THEN "accepted" ELSE "refused"
  /\ UNCHANGED <<info, device>>

\* run_model up to the session; what may fail inside MNN is left to Engine.
ResizeAndWrite ==
  /\ stage = "accepted"
  /\ device' = IF ResizeAccepts(Entries) THEN Resized(Entries) ELSE device
  /\ stage' = IF ResizeAccepts(Entries) /\ WritesAccept(Entries, device')
              THEN "written" ELSE "rejected"
  /\ UNCHANGED <<info, request>>

\* The call returns; the session keeps its shapes.
Return ==
  /\ stage \in {"refused", "rejected", "written"}
  /\ request' = NoCall
  /\ stage' = "idle"
  /\ UNCHANGED <<info, device>>

Next == (\E c \in Calls : Enqueue(c)) \/ ResizeAndWrite \/ Return

Spec == Init /\ [][Next]_vars

-----------------------------------------------------------------------------

\* The shapes of the present call.
RequestShapes ==
  IF request = NoCall THEN {} ELSE {request.inputs[i].shape : i \in DOMAIN request.inputs}

\* The two layers accept the same shapes and count the same elements, without
\* either ever overflowing: what Rust allocates is what the bridge copies.
LayersAgree ==
  \A shape \in RequestShapes :
    /\ CheckedElements(shape) # 0 <=> ValidShape(shape)
    /\ ValidShape(shape) => LogicalElements(shape) = CheckedElements(shape)

\* A request enqueue has accepted is never rejected by the bridge's own checks,
\* whatever shapes the requests before it left: only MNN itself can refuse it.
NeverRejected == stage # "rejected"

\* A call that is not dynamic runs at the dimensions the graph declares, after
\* dynamic calls that changed them too, and each tensor reaches the input it names.
DeclaredDimensions ==
  stage = "written" =>
    /\ ~request.dynamic =>
         \A k \in DOMAIN device : FitsDeclared(info.inputs[k].shape, device[k], FALSE)
    /\ \A i \in DOMAIN request.inputs :
         device[Slot(request.inputs[i].name)] = request.inputs[i].shape
=============================================================================
