---------------------------- MODULE Engine_proofs ----------------------------
(***************************************************************************)
(* For any number of inputs and any shapes and contents: whatever order a  *)
(* user calls an engine in, and wherever MNN fails, a session is only used *)
(* with the buffers its tensors declare, outputs are readable only while   *)
(* they belong to the present contents, all written since the last resize. *)
(***************************************************************************)
EXTENDS Engine, TLAPS

\* An engine that has not been created promises nothing yet.
Blank == life = "absent" => ~hasOutput /\ \A i \in Inputs : ~written[i]

\* The flags input_written are the history of the writes since the last resize.
Recorded == \A i \in Inputs : written[i] <=> i \in since

\* Each part needs the others: a run records the shapes of the buffers, which are
\* those of the tensors because the session is ready; a failed write keeps an
\* input counted because its staging tensor was sound; a run needs every input.
EngineInv ==
  TypeOK /\ ReadyAllocated /\ OutputCurrent /\ WrittenSinceResize /\ Blank /\ Recorded

LEMMA EngineInit == Init => EngineInv
<1> SUFFICES ASSUME Init PROVE EngineInv
  OBVIOUS
<1> USE EngineAssumption DEF EngineAssumption, Init, NoShapes, NoContent, NoOutput, Extents
<1>1. TypeOK
  BY DEF TypeOK
<1>2. ReadyAllocated /\ OutputCurrent /\ WrittenSinceResize /\ Blank /\ Recorded
  BY DEF ReadyAllocated, OutputCurrent, WrittenSinceResize, Blank, Recorded
<1> QED BY <1>1, <1>2 DEF EngineInv

\* The shapes of a changed resize, applied to the first tensors only, are shapes.
LEMMA PartialShapes ==
  ASSUME NEW shapes \in [Inputs -> Shapes],
         device \in [Inputs -> Shapes \cup {Unresolved}],
         NEW done \in 0..InputCount
  PROVE  [i \in Inputs |-> IF i <= done THEN shapes[i] ELSE device[i]]
           \in [Inputs -> Shapes \cup {Unresolved}]
OBVIOUS

LEMMA CreatePreserves ==
  ASSUME EngineInv, NEW shapes, Create(shapes)
  PROVE  EngineInv'
<1> USE EngineAssumption DEF EngineAssumption, Create, Returns, EngineInv, flags,
        staging, TypeOK, NoShapes
<1>1. TypeOK'
  <2>1. shapes \in [Inputs -> Shapes \cup {Unresolved}]
    OBVIOUS
  <2>2. allocated' \in [Inputs -> Shapes \cup {Unresolved}]
    OBVIOUS
  <2> QED BY <2>1, <2>2
<1>2. ReadyAllocated'
  BY DEF ReadyAllocated
<1>3. ~hasOutput' /\ \A i \in Inputs : ~written'[i]
  BY DEF Blank
<1>4. OutputCurrent' /\ WrittenSinceResize' /\ Blank' /\ Recorded'
  BY <1>3 DEF OutputCurrent, WrittenSinceResize, Blank, Recorded
<1> QED BY <1>1, <1>2, <1>4

LEMMA ResizePreserves ==
  ASSUME EngineInv, ResizeStep
  PROVE  EngineInv'
<1> USE EngineAssumption DEF EngineAssumption, Returns, EngineInv, flags,
        sessionVars, staging
<1>1. CASE ResizeThrowsEarly
  BY <1>1 DEF ResizeThrowsEarly, TypeOK, ReadyAllocated, OutputCurrent,
              WrittenSinceResize, Blank, Recorded
<1>2. ASSUME NEW shapes \in [Inputs -> Shapes \cup {Invalid}]
      PROVE  /\ ResizeRefused(shapes) => EngineInv'
             /\ ResizeKeeps(shapes) => EngineInv'
             /\ ResizeSession(shapes) => EngineInv'
             /\ ResizeFails(shapes) => EngineInv'
  <2>1. ASSUME ResizeRefused(shapes) PROVE EngineInv'
    BY <2>1 DEF ResizeRefused, TypeOK, ReadyAllocated, OutputCurrent,
                WrittenSinceResize, Blank, Recorded
  <2>2. ASSUME ResizeKeeps(shapes) PROVE EngineInv'
    BY <2>2 DEF ResizeKeeps, ResetRequest, TypeOK, ReadyAllocated, OutputCurrent,
                WrittenSinceResize, Blank, Recorded
  <2>3. ASSUME ResizeSession(shapes) PROVE EngineInv'
    <3> USE DEF ResizeSession, ResetRequest, Valid
    <3>1. TypeOK'
      BY <2>3 DEF TypeOK, NoContent, NoOutput, NoShapes, Extents
    <3>2. ReadyAllocated' /\ OutputCurrent' /\ WrittenSinceResize' /\ Blank' /\ Recorded'
      BY <2>3 DEF ReadyAllocated, OutputCurrent, WrittenSinceResize, Blank, Recorded
    <3> QED BY <3>1, <3>2
  <2>4. ASSUME ResizeFails(shapes) PROVE EngineInv'
    <3> USE DEF ResizeFails, ResetRequest, Valid
    <3>1. device' \in [Inputs -> Shapes \cup {Unresolved}]
      BY <2>4, PartialShapes DEF TypeOK
    <3>2. TypeOK'
      BY <2>4, <3>1 DEF TypeOK, NoContent, NoOutput, NoShapes, Extents
    <3>3. ReadyAllocated' /\ OutputCurrent' /\ WrittenSinceResize' /\ Blank' /\ Recorded'
      BY <2>4 DEF ReadyAllocated, OutputCurrent, WrittenSinceResize, Blank, Recorded
    <3> QED BY <3>2, <3>3
  <2> QED BY <2>1, <2>2, <2>3, <2>4
<1> QED BY <1>1, <1>2 DEF ResizeStep

\* A staging tensor made again leaves those of the other inputs alone.
LEMMA StagingReplaced ==
  ASSUME TypeOK, NEW i \in Inputs, PrepareHost(i)
  PROVE  /\ host' \in [Inputs -> Shapes \cup {Unresolved}]
         /\ hollow' \subseteq Inputs
         /\ host'[i] = device[i] /\ i \notin hollow'
         /\ \A j \in Inputs \ {i} : host'[j] = host[j] /\ (j \in hollow' <=> j \in hollow)
BY DEF TypeOK, PrepareHost

\* An input whose staging tensor is sound keeps it: preparing it cannot fail.
LEMMA StagingFailure ==
  ASSUME TypeOK, NEW i \in Inputs, PrepareHostFails(i)
  PROVE  /\ host' \in [Inputs -> Shapes \cup {Unresolved}]
         /\ hollow' \subseteq Inputs
         /\ ~(host[i] = device[i] /\ i \notin hollow)
         /\ \A j \in Inputs \ {i} : host'[j] = host[j] /\ (j \in hollow' <=> j \in hollow)
BY DEF TypeOK, PrepareHostFails, inputStaging

LEMMA WritePreserves ==
  ASSUME EngineInv, NEW i \in 0..InputCount, NEW shape \in Shapes
  PROVE  /\ WriteNotReady(i, shape) => EngineInv'
         /\ WriteRefused(i, shape) => EngineInv'
         /\ WriteFails(i, shape) => EngineInv'
         /\ \A value \in Values : Write(i, shape, value) => EngineInv'
<1> USE EngineAssumption DEF EngineAssumption, Returns, EngineInv, flags,
        sessionVars, staging, outputStaging
<1>1. ASSUME WriteNotReady(i, shape) PROVE EngineInv'
  BY <1>1 DEF WriteNotReady, TypeOK, ReadyAllocated, OutputCurrent,
              WrittenSinceResize, Blank, Recorded
<1>2. ASSUME WriteRefused(i, shape) PROVE EngineInv'
  BY <1>2 DEF WriteRefused, TypeOK, ReadyAllocated, OutputCurrent,
              WrittenSinceResize, Blank, Recorded
<1>3. ASSUME WriteFails(i, shape) PROVE EngineInv'
  <2> USE <1>3 DEF WriteFails, InvalidateOutput
  <2>1. i \in Inputs /\ (PrepareHostFails(i) \/ PrepareHost(i))
    OBVIOUS
  <2>2. /\ host' \in [Inputs -> Shapes \cup {Unresolved}]
        /\ hollow' \subseteq Inputs
        /\ \A j \in Inputs \ {i} : host'[j] = host[j] /\ (j \in hollow' <=> j \in hollow)
    BY <2>1, StagingReplaced, StagingFailure
  <2>3. content' \in [Inputs -> Values \cup {Garbage}]
    BY DEF TypeOK
  <2>4. TypeOK'
    BY <2>2, <2>3 DEF TypeOK
  <2>5. ASSUME NEW j \in Inputs, written[j]
        PROVE  host'[j] = device[j] /\ j \notin hollow' /\ device[j] = allocated[j]
    <3>1. host[j] = device[j] /\ j \notin hollow /\ device[j] = allocated[j]
      BY <2>5 DEF WrittenSinceResize
    <3>2. CASE j = i
      BY <2>1, <3>1, <3>2, StagingReplaced, StagingFailure
    <3>3. CASE j # i
      BY <2>2, <3>1, <3>3
    <3> QED BY <3>2, <3>3
  <2>6. WrittenSinceResize'
    BY <2>5 DEF WrittenSinceResize
  <2>7. ReadyAllocated' /\ OutputCurrent' /\ Blank' /\ Recorded'
    BY DEF ReadyAllocated, OutputCurrent, Blank, Recorded
  <2> QED BY <2>4, <2>6, <2>7
<1>4. ASSUME NEW value \in Values, Write(i, shape, value) PROVE EngineInv'
  <2> USE <1>4 DEF Write, InvalidateOutput
  <2>1. /\ i \in Inputs
        /\ host' \in [Inputs -> Shapes \cup {Unresolved}]
        /\ hollow' \subseteq Inputs
        /\ host'[i] = device[i] /\ i \notin hollow'
        /\ \A j \in Inputs \ {i} : host'[j] = host[j] /\ (j \in hollow' <=> j \in hollow)
    BY StagingReplaced
  <2>2. TypeOK'
    BY <2>1 DEF TypeOK
  <2>3. \A j \in Inputs \ {i} : written'[j] = written[j]
    BY DEF TypeOK
  <2>4. device = allocated
    BY DEF ReadyAllocated
  <2>5. WrittenSinceResize'
    BY <2>1, <2>3, <2>4 DEF WrittenSinceResize
  <2>6. ReadyAllocated' /\ OutputCurrent' /\ Blank'
    BY DEF ReadyAllocated, OutputCurrent, Blank
  <2>7. written'[i] /\ i \in since' /\ \A j \in Inputs \ {i} : j \in since' <=> j \in since
    BY DEF TypeOK
  <2>8. Recorded'
    BY <2>3, <2>7 DEF Recorded
  <2> QED BY <2>2, <2>5, <2>6, <2>8
<1> QED BY <1>1, <1>2, <1>3, <1>4

LEMMA RunPreserves ==
  ASSUME EngineInv, RunStep
  PROVE  EngineInv'
<1> USE DEF Returns, EngineInv, sessionVars, staging
<1>1. CASE RunRefused
  BY <1>1 DEF RunRefused, TypeOK, ReadyAllocated, OutputCurrent, WrittenSinceResize, Blank, Recorded
<1>2. CASE Run
  <2> USE <1>2 DEF Run, Runnable
  <2>1. TypeOK'
    BY DEF TypeOK
  <2>2. ReadyAllocated' /\ OutputCurrent' /\ WrittenSinceResize' /\ Blank' /\ Recorded'
    BY DEF ReadyAllocated, OutputCurrent, WrittenSinceResize, Blank, Recorded
  <2> QED BY <2>1, <2>2
<1>3. CASE RunFails
  <2> USE <1>3 DEF RunFails
  <2>1. TypeOK'
    BY DEF TypeOK, NoOutput, NoContent, NoShapes, Extents
  <2>2. ReadyAllocated' /\ OutputCurrent' /\ WrittenSinceResize' /\ Blank' /\ Recorded'
    BY DEF ReadyAllocated, OutputCurrent, WrittenSinceResize, Blank, Recorded
  <2> QED BY <2>1, <2>2
<1> QED BY <1>1, <1>2, <1>3 DEF RunStep

\* Reading, looking up a name and dropping the engine leave the session alone.
LEMMA OthersPreserve ==
  ASSUME EngineInv, ReadStep \/ NameStep \/ Destroy
  PROVE  EngineInv'
<1> USE DEF Returns, EngineInv, flags, sessionVars, staging, inputStaging, outputStaging
<1>1. /\ life' = "destroyed" \/ life' = life
      /\ UNCHANGED <<flags, sessionVars, inputStaging, since>>
  BY DEF ReadStep, ReadRefused, Read, ReadFails, CanRead, NameStep, NameUnknown, Destroy
<1>2. TypeOK'
  <2>1. last' \in {"read", "write", "destroy"} \X {"ok", "refused", "failed"}
    BY DEF ReadStep, ReadRefused, Read, ReadFails, NameStep, NameUnknown, Destroy
  <2>2. /\ outputHost' \in [Inputs -> Shapes] \cup {NoShapes}
        /\ outputHollow' \in BOOLEAN
    BY DEF TypeOK, ReadStep, ReadRefused, Read, ReadFails, NameStep, NameUnknown, Destroy
  <2> QED BY <1>1, <2>1, <2>2 DEF TypeOK
<1>3. ReadyAllocated' /\ OutputCurrent' /\ WrittenSinceResize' /\ Blank' /\ Recorded'
  BY <1>1 DEF ReadyAllocated, OutputCurrent, WrittenSinceResize, Blank, Recorded
<1> QED BY <1>2, <1>3

LEMMA EngineStep == EngineInv /\ [Next]_engineVars => EngineInv'
<1> SUFFICES ASSUME EngineInv, [Next]_engineVars PROVE EngineInv'
  OBVIOUS
<1>1. CASE UNCHANGED engineVars
  BY <1>1 DEF engineVars, flags, sessionVars, staging, EngineInv, TypeOK,
              ReadyAllocated, OutputCurrent, WrittenSinceResize, Blank, Recorded
<1>2. ASSUME NEW shapes \in [Inputs -> Shapes \cup {Unresolved}], Create(shapes)
      PROVE  EngineInv'
  BY <1>2, CreatePreserves
<1>3. CASE ResizeStep
  BY <1>3, ResizePreserves
<1>4. CASE WriteStep
  BY <1>4, WritePreserves DEF WriteStep
<1>5. CASE RunStep
  BY <1>5, RunPreserves
<1>6. CASE ReadStep \/ NameStep \/ Destroy
  BY <1>6, OthersPreserve
<1> QED BY <1>1, <1>2, <1>3, <1>4, <1>5, <1>6 DEF Next

LEMMA EngineInductive == Spec => []EngineInv
BY EngineInit, EngineStep, PTL DEF Spec

\* Every engine stays within the types, for any inputs, shapes and contents.
THEOREM EngineTypes == Spec => []TypeOK
<1>1. EngineInv => TypeOK
  BY DEF EngineInv
<1> QED BY <1>1, EngineInductive, PTL

\* "Native resize failures leave the session requiring another successful resize":
\* whichever resizes failed halfway, a session that is used is allocated for the
\* shapes its tensors declare.
THEOREM EngineAllocated == Spec => []ReadyAllocated
<1>1. EngineInv => ReadyAllocated
  BY DEF EngineInv
<1> QED BY <1>1, EngineInductive, PTL

\* read_output only ever returns results of the contents and the shapes the input
\* tensors have now, in whatever order resizes, writes and runs succeed or fail.
THEOREM EngineOutputs == Spec => []OutputCurrent
<1>1. EngineInv => OutputCurrent
  BY DEF EngineInv
<1> QED BY <1>1, EngineInductive, PTL

\* A run only consumes inputs written since the last resize, each through a
\* staging tensor of its present shape that has memory.
THEOREM EngineInputs == Spec => []WrittenSinceResize
<1>1. EngineInv => WrittenSinceResize
  BY DEF EngineInv
<1> QED BY <1>1, EngineInductive, PTL

\* "Write every input after resizing before running inference": no session runs, and
\* no output can be read, unless every input was written since the last resize, a
\* resize to the same shapes or a failed one included.
THEOREM EngineAfresh == Spec => []RunsAfresh
<1>1. ASSUME EngineInv PROVE RunsAfresh
  <2>1. (\A i \in Inputs : written[i]) <=> since = Inputs
    BY <1>1 DEF EngineInv, TypeOK, Recorded
  <2>2. hasOutput => \A i \in Inputs : written[i]
    BY <1>1 DEF EngineInv, WrittenSinceResize
  <2> QED BY <2>1, <2>2 DEF RunsAfresh, Runnable
<1> QED BY <1>1, EngineInductive, PTL
=============================================================================
