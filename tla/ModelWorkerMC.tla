--------------------------- MODULE ModelWorkerMC ---------------------------
(* Instances of ModelWorker for TLC.  Calls are model values; a call's      *)
(* model is the one its definition below gives it.                          *)
EXTENDS ModelWorker, TLC

CONSTANTS m1, m2, b1, t1, s1, u1

\* One model: every kind of call competes for its queue.
OneModel == [c \in Calls |-> m1]

\* Two models: a timed request and a save address m1, the rest m2.
TwoModels == [c \in Calls |-> IF c \in {t1, s1} THEN m1 ELSE m2]
=============================================================================
