----------------------------- MODULE ValidationMC -----------------------------
(* Five models and every call of one or two inputs over a few dimensions:    *)
(* zero, within, at and beyond the limit, and products that leave the word.   *)
EXTENDS Adapter

CONSTANTS left, right, out1, out2

Dimensions == {0, 1, 2, 3, 6, 7, 11}
Shapes == BoundedSeq(Dimensions, 3)
FewShapes == {<<>>, <<2>>, <<1, 2>>, <<2, 1>>, <<2, 3>>, <<2, 4>>}

Input(name, shape) == [name |-> name, shape |-> shape]

SomeModels == {
  [inputs |-> <<Input(left, <<-1, 2>>)>>, outputs |-> <<out1>>],
  [inputs |-> <<Input(left, <<>>)>>, outputs |-> <<out1>>],
  [inputs |-> <<Input(left, <<-1, -1>>)>>, outputs |-> <<out1>>],
  [inputs |-> <<Input(left, <<1, 2>>), Input(right, <<2, 0>>)>>, outputs |-> <<out1, out2>>],
  [inputs |-> <<Input(left, <<4, 2>>)>>, outputs |-> <<out1>>]}

Call(inputs, outputs, dynamic) == [inputs |-> inputs, outputs |-> outputs, dynamic |-> dynamic]

SomeCalls ==
  {Call(<<Input(left, s)>>, <<out1>>, d) : s \in Shapes, d \in BOOLEAN}
  \cup {Call(<<Input(n, s), Input(o, t)>>, outputs, d) :
          n \in {left, right}, o \in {left, right}, s \in FewShapes, t \in FewShapes,
          outputs \in {<<out1>>, <<out2, out1>>, <<out1, out1>>}, d \in BOOLEAN}

\* Slices of the right length, of none, and of the product of two unresolved
\* dimensions wrapped around.
SomeAdapterCalls ==
  [method : {"run", "run_dynamic"}, shape : {<<>>, <<0, 2>>, <<1, 1>>, <<3, 2>>, <<31, 31>>},
   values : {0, 1, 6}, buffer : {0}]
  \cup [method : {"run_raw"}, shape : {<<>>}, values : {0, 1, 2, 6}, buffer : {0, 2}]

SomeResults == {1, 2}
=============================================================================
