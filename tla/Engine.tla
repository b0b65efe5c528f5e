-------------------------------- MODULE Engine --------------------------------
(***************************************************************************)
(* The native session behind mnn_runtime_sys::Engine: the guards of the    *)
(* C++ bridge around MNN's interpreter, for one engine whose operations    *)
(* arrive one at a time (Engine is neither Send nor Sync).  An operation   *)
(* may fail in MNN, or throw, wherever the bridge calls out.               *)
(*                                                                         *)
(* Shapes and tensor contents are tokens.  A buffer is described by the    *)
(* shape it was made for; the element count the bridge compares is that of *)
(* the shape.                                                              *)
(***************************************************************************)
EXTENDS Naturals

CONSTANTS
  InputCount,  \* the model's inputs are 1..InputCount
  Shapes,      \* the shapes valid_shape accepts, of the right rank
  Values,      \* tensor contents
  Invalid,     \* a shape the bridge refuses: a bad dimension, rank or size
  Unresolved,  \* an unresolved graph dimension; a buffer not allocated
  Garbage      \* contents nobody wrote, or a copy that failed halfway

ASSUME EngineAssumption ==
  /\ InputCount \in Nat \ {0}
  /\ {Invalid, Unresolved} \cap Shapes = {}
  /\ Invalid # Unresolved
  /\ Garbage \notin Values

Inputs == 1..InputCount
NoShapes == [i \in Inputs |-> Unresolved]
NoContent == [i \in Inputs |-> Garbage]

\* What MNN makes of the session's outputs, whose dimensions may depend on the
\* data: shapes the runtime can return, one with a dimension that is zero or
\* unresolved, or one beyond the rank or the size that valid_shape allows.
Extents == {"fits", "unresolved", "oversized"}

VARIABLES
  life,       \* absent, open or destroyed
  ready,      \* MnnRuntimeEngine::ready
  hasOutput,  \* MnnRuntimeEngine::has_output
  written,    \* MnnRuntimeEngine::input_written
  device,     \* the shapes of the session's input tensors
  allocated,  \* the input shapes the session's buffers were last allocated for
  host,       \* the shapes of the host staging tensors, input_hosts
  hollow,     \* the inputs whose staging tensor has no memory behind it
  outputHost, \* the shapes output_hosts were made for
  outputHollow, \* one of them has no memory
  content,    \* what the device input tensors hold
  output,     \* the inputs and shapes the session's outputs were computed from,
              \* and their extent
  last,       \* the operation that has just returned and its status
  since       \* history: the inputs written since the last resize that got past
              \* its checks; no guard reads it

flags == <<ready, hasOutput, written>>
sessionVars == <<device, allocated, content, output>>
inputStaging == <<host, hollow>>
outputStaging == <<outputHost, outputHollow>>
staging == <<host, hollow, outputHost, outputHollow>>
engineVars == <<life, flags, sessionVars, staging, last, since>>

NoOutput == [from |-> NoContent, shapes |-> NoShapes, extent |-> "unresolved"]

Init ==
  /\ life = "absent"
  /\ ready = FALSE
  /\ hasOutput = FALSE
  /\ written = [i \in Inputs |-> FALSE]
  /\ device = NoShapes
  /\ allocated = NoShapes
  /\ host = NoShapes
  /\ hollow = {}
  /\ outputHost = NoShapes
  /\ outputHollow = FALSE
  /\ content = NoContent
  /\ output = NoOutput
  /\ last = <<"none", "ok">>
  /\ since = {}

Returns(operation, status) == last' = <<operation, status>>

\* mnn_runtime_engine_create: a graph whose inputs are all resolved is allocated
\* at once; otherwise allocation waits for the first resize.  A failed creation
\* leaves no engine.
Create(shapes) ==
  /\ life = "absent"
  /\ shapes \in [Inputs -> Shapes \cup {Unresolved}]
  /\ life' = "open"
  /\ device' = shapes
  /\ ready' = \A i \in Inputs : shapes[i] # Unresolved
  /\ allocated' = IF ready' THEN shapes ELSE NoShapes
  /\ Returns("create", "ok")
  /\ UNCHANGED <<hasOutput, written, content, output, staging, since>>

Destroy ==
  /\ life = "open"
  /\ life' = "destroyed"
  /\ Returns("destroy", "ok")
  /\ UNCHANGED <<flags, sessionVars, staging, since>>

-----------------------------------------------------------------------------
(* mnn_runtime_resize_inputs                                               *)

\* Bug: a failed resize is forgotten when the same shapes are asked for again.
ChangedShapesOnly(shapes) == shapes # device

Changed(shapes) == ~ready \/ shapes # device

ResetRequest ==
  /\ hasOutput' = FALSE
  /\ written' = [i \in Inputs |-> FALSE]

\* Bug: dimensions are not checked against the allocation limit.
ValidRankOnly(shapes) == shapes \in [Inputs -> Shapes \cup {Invalid}]

Valid(shapes) == shapes \in [Inputs -> Shapes]

\* Bug: each entry is applied as soon as it has been checked.
ResizeRefusedLate(shapes) ==
  /\ life = "open"
  /\ ~Valid(shapes)
  /\ device' = [i \in Inputs |-> IF \A j \in 1..i : shapes[j] # Invalid
                                THEN shapes[i] ELSE device[i]]
  /\ Returns("resize", "refused")
  /\ UNCHANGED <<life, flags, allocated, content, output, staging, since>>

\* Every entry is checked first; a refusal, or running out of memory while
\* checking, leaves the tensors as they were.
ResizeRefused(shapes) ==
  /\ life = "open"
  /\ ~Valid(shapes)
  /\ Returns("resize", "refused")
  /\ UNCHANGED <<life, flags, sessionVars, staging, since>>

ResizeThrowsEarly ==
  /\ life = "open"
  /\ ready' = FALSE
  /\ Returns("resize", "failed")
  /\ UNCHANGED <<life, hasOutput, written, sessionVars, staging, since>>

\* Bug: with the same shapes there is nothing to resize, so it returns before the
\* inputs and the output of the previous request are forgotten.
ResizeKeepsEarly(shapes) ==
  /\ life = "open"
  /\ Valid(shapes)
  /\ ~Changed(shapes)
  /\ since' = {}
  /\ Returns("resize", "ok")
  /\ UNCHANGED <<life, flags, sessionVars, staging>>

\* The tensors already have these shapes and the session is allocated.
ResizeKeeps(shapes) ==
  /\ life = "open"
  /\ Valid(shapes)
  /\ ~Changed(shapes)
  /\ ResetRequest
  /\ since' = {}
  /\ Returns("resize", "ok")
  /\ UNCHANGED <<life, ready, sessionVars, staging>>

\* resizeTensor on each input, then resizeSession.
ResizeSession(shapes) ==
  /\ life = "open"
  /\ Valid(shapes)
  /\ Changed(shapes)
  /\ ResetRequest
  /\ since' = {}
  /\ ready' = TRUE
  /\ device' = shapes
  /\ allocated' = shapes
  /\ content' = NoContent
  /\ output' = NoOutput
  /\ Returns("resize", "ok")
  /\ UNCHANGED <<life, staging>>

\* Bug: the session counts as ready although it was not allocated.
ResizeFailsReady(shapes) ==
  /\ life = "open"
  /\ Valid(shapes)
  /\ Changed(shapes)
  /\ ResetRequest
  /\ since' = {}
  /\ device' = shapes
  /\ allocated' = NoShapes
  /\ content' = NoContent
  /\ output' = NoOutput
  /\ Returns("resize", "failed")
  /\ UNCHANGED <<life, ready, staging>>

\* MNN throws after some inputs were resized, or cannot allocate the session.
ResizeFails(shapes) ==
  /\ life = "open"
  /\ Valid(shapes)
  /\ Changed(shapes)
  /\ ResetRequest
  /\ since' = {}
  /\ ready' = FALSE
  /\ \E done \in 0..InputCount :
       device' = [i \in Inputs |-> IF i <= done THEN shapes[i] ELSE device[i]]
  /\ allocated' = NoShapes
  /\ content' = NoContent
  /\ output' = NoOutput
  /\ Returns("resize", "failed")
  /\ UNCHANGED <<life, staging>>

-----------------------------------------------------------------------------
(* mnn_runtime_write_input_index_f32: data of a given shape's element count *)

\* Bug: the staging tensor of an earlier shape is used again.
PrepareHostOnce(i) ==
  /\ i \notin hollow
  /\ host' = [host EXCEPT ![i] = IF @ = Unresolved THEN device[i] ELSE @]
  /\ UNCHANGED hollow

\* prepare_host: a staging tensor of another shape is replaced; one of the right
\* shape is used again if it has memory.
PrepareHost(i) ==
  /\ host[i] # device[i] \/ i \notin hollow
  /\ host' = [host EXCEPT ![i] = device[i]]
  /\ hollow' = hollow \ {i}

\* The new staging tensor cannot be constructed, or has no memory and is kept;
\* a hollow one of the right shape is refused for as long as the shape stays.
PrepareHostFails(i) ==
  \/ host[i] # device[i] /\ UNCHANGED inputStaging
  \/ /\ host[i] # device[i]
     /\ host' = [host EXCEPT ![i] = device[i]]
     /\ hollow' = hollow \cup {i}
  \/ host[i] = device[i] /\ i \in hollow /\ UNCHANGED inputStaging

WriteNotReady(i, shape) ==
  /\ life = "open"
  /\ ~ready
  /\ Returns("write", "refused")
  /\ UNCHANGED <<life, flags, sessionVars, staging, since>>

\* No such input, or another element count than the tensor's.
WriteRefused(i, shape) ==
  /\ life = "open"
  /\ ready
  /\ ~(i \in Inputs /\ shape = device[i])
  /\ hasOutput' = FALSE
  /\ Returns("write", "refused")
  /\ UNCHANGED <<life, ready, written, sessionVars, staging, since>>

\* Bug: outputs computed from the replaced contents stay readable.
InvalidateOutputNever == UNCHANGED hasOutput

InvalidateOutput == hasOutput' = FALSE

Write(i, shape, value) ==
  /\ life = "open"
  /\ ready
  /\ i \in Inputs /\ shape = device[i]
  /\ InvalidateOutput
  /\ PrepareHost(i)
  /\ content' = [content EXCEPT ![i] = value]
  /\ written' = [written EXCEPT ![i] = TRUE]
  /\ since' = since \cup {i}
  /\ Returns("write", "ok")
  /\ UNCHANGED <<life, ready, device, allocated, output, outputStaging>>

\* The staging tensor cannot be allocated, or the upload fails and may leave the
\* device tensor half copied.  An earlier successful write still counts.
WriteFails(i, shape) ==
  /\ life = "open"
  /\ ready
  /\ i \in Inputs /\ shape = device[i]
  /\ InvalidateOutput
  /\ \/ PrepareHostFails(i) /\ UNCHANGED content
     \/ PrepareHost(i) /\ content' \in {content, [content EXCEPT ![i] = Garbage]}
  /\ Returns("write", "failed")
  /\ UNCHANGED <<life, ready, written, device, allocated, output, outputStaging, since>>

-----------------------------------------------------------------------------
(* mnn_runtime_run and mnn_runtime_read_output_index_f32                   *)

Runnable == ready /\ \A i \in Inputs : written[i]

RunRefused ==
  /\ life = "open"
  /\ ~Runnable
  /\ hasOutput' = FALSE
  /\ Returns("run", "refused")
  /\ UNCHANGED <<life, ready, written, sessionVars, staging, since>>

\* The dimensions of the outputs are MNN's.
Run ==
  /\ life = "open"
  /\ Runnable
  /\ hasOutput' = TRUE
  /\ \E e \in Extents : output' = [from |-> content, shapes |-> allocated, extent |-> e]
  /\ Returns("run", "ok")
  /\ UNCHANGED <<life, ready, written, device, allocated, content, staging, since>>

\* runSession reports an error or throws, or an output is not f32.
RunFails ==
  /\ life = "open"
  /\ Runnable
  /\ hasOutput' = FALSE
  /\ output' = NoOutput
  /\ Returns("run", "failed")
  /\ UNCHANGED <<life, ready, written, device, allocated, content, staging, since>>

\* A buffer is sized for the output of some input shapes.  No buffer has the
\* count of an output with an unresolved dimension, or of one so large that the
\* count overflows.
ReadRefused(shapes) ==
  /\ life = "open"
  /\ ~hasOutput \/ shapes # output.shapes \/ output.extent # "fits"
  /\ Returns("read", "refused")
  /\ UNCHANGED <<life, flags, sessionVars, staging, since>>

CanRead(shapes) ==
  life = "open" /\ hasOutput /\ shapes = output.shapes /\ output.extent # "unresolved"

\* prepare_host again, for output_hosts.
Read(shapes) ==
  /\ CanRead(shapes)
  /\ output.extent = "fits"
  /\ outputHost # shapes \/ ~outputHollow
  /\ outputHost' = shapes
  /\ outputHollow' = FALSE
  /\ Returns("read", "ok")
  /\ UNCHANGED <<life, flags, sessionVars, inputStaging, since>>

\* prepare_host refuses the shape, there is no staging tensor or one without
\* memory, or the download fails.
ReadFails(shapes) ==
  /\ CanRead(shapes)
  /\ \/ outputHost # shapes /\ UNCHANGED outputStaging
     \/ output.extent = "oversized" /\ UNCHANGED outputStaging
     \/ /\ output.extent = "fits"
        /\ outputHost' = shapes
        /\ outputHollow' \in IF outputHost = shapes THEN {outputHollow} ELSE BOOLEAN
  /\ Returns("read", "failed")
  /\ UNCHANGED <<life, flags, sessionVars, inputStaging, since>>

\* Engine::write_input and read_output look the name up in the metadata first.
NameUnknown(operation) ==
  /\ life = "open"
  /\ Returns(operation, "refused")
  /\ UNCHANGED <<life, flags, sessionVars, staging, since>>

-----------------------------------------------------------------------------
(* Any user of the safe Engine API: every operation, in any order.         *)

ResizeStep ==
  \/ ResizeThrowsEarly
  \/ \E shapes \in [Inputs -> Shapes \cup {Invalid}] :
       ResizeRefused(shapes) \/ ResizeKeeps(shapes) \/ ResizeSession(shapes)
         \/ ResizeFails(shapes)

WriteStep ==
  \E i \in 0..InputCount, shape \in Shapes :
    \/ WriteNotReady(i, shape) \/ WriteRefused(i, shape) \/ WriteFails(i, shape)
    \/ \E value \in Values : Write(i, shape, value)

RunStep == RunRefused \/ Run \/ RunFails

ReadStep ==
  \E shapes \in [Inputs -> Shapes] :
    ReadRefused(shapes) \/ Read(shapes) \/ ReadFails(shapes)

NameStep == NameUnknown("write") \/ NameUnknown("read")

Next ==
  \/ \E shapes \in [Inputs -> Shapes \cup {Unresolved}] : Create(shapes)
  \/ ResizeStep \/ WriteStep \/ RunStep \/ ReadStep \/ NameStep \/ Destroy
  \/ life = "destroyed" /\ UNCHANGED engineVars

Spec == Init /\ [][Next]_engineVars

-----------------------------------------------------------------------------

TypeOK ==
  /\ life \in {"absent", "open", "destroyed"}
  /\ ready \in BOOLEAN
  /\ hasOutput \in BOOLEAN
  /\ written \in [Inputs -> BOOLEAN]
  /\ device \in [Inputs -> Shapes \cup {Unresolved}]
  /\ allocated \in [Inputs -> Shapes \cup {Unresolved}]
  /\ host \in [Inputs -> Shapes \cup {Unresolved}]
  /\ hollow \subseteq Inputs
  /\ outputHost \in [Inputs -> Shapes] \cup {NoShapes}
  /\ outputHollow \in BOOLEAN
  /\ content \in [Inputs -> Values \cup {Garbage}]
  /\ output \in [from : [Inputs -> Values \cup {Garbage}],
                 shapes : [Inputs -> Shapes \cup {Unresolved}],
                 extent : Extents]
  /\ last \in {"none", "create", "resize", "write", "run", "read", "destroy"}
              \X {"ok", "refused", "failed"}
  /\ since \subseteq Inputs

\* A session is only used while its buffers are allocated for the shapes its
\* input tensors declare, whichever resizes failed halfway before: "native resize
\* failures leave the session requiring another successful resize".
ReadyAllocated == ready => device = allocated /\ device \in [Inputs -> Shapes]

\* Readable outputs were computed from the contents the input tensors hold now,
\* with buffers of the shapes they have now.
OutputCurrent ==
  hasOutput => output.from = content /\ output.shapes = device

\* Whatever is inferred from was copied through a staging tensor of the shape its
\* input has now, with memory behind it, in whatever order resizes succeed or fail.
WrittenSinceResize ==
  \A i \in Inputs :
    /\ written[i] => host[i] = device[i] /\ i \notin hollow /\ device[i] = allocated[i]
    /\ hasOutput => written[i]

\* "write every input after resizing before running inference": a session that
\* would run, and one whose outputs can be read, has been given every input since
\* its last resize, one to the same shapes and a failed one included; and a session
\* that has been given them all, with a failed write in between or not, does run.
RunsAfresh ==
  /\ Runnable \/ hasOutput => since = Inputs
  /\ since = Inputs /\ ready => Runnable
=============================================================================
