-------------------------- MODULE MCGraphSketchDriver --------------------------
(* Instances of the driver, its workers and the work queue for TLC.         *)
EXTENDS GraphSketchDriver

(* Both ends of every edge of the stream.                                   *)
AllUpdates == (1 .. StreamLength) \X {"src", "dst"}
=============================================================================
