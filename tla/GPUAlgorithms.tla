----------------------------- MODULE GPUAlgorithms -----------------------------
(***************************************************************************)
(* The three ways updates take to the CUDA streams and the sketches: a     *)
(* program runs CCGPUSketchAlg, SKGPUSketchAlg or a SketchSubgraph of      *)
(* MCGPUSketchAlg.                                                         *)
(***************************************************************************)
EXTENDS SKGPUSketchAlg, SketchSubgraph

vars == <<ccVars, skVars, gutterVars>>

Init ==
  /\ CCInit /\ SKInit /\ SubgraphInit
  /\ phase \in {"ingest", "store", "gutter"}

Next ==
  \/ CCNext /\ UNCHANGED <<skVars, gutterVars>>
  \/ SKNext /\ UNCHANGED gutterVars
  \/ GutterNext /\ UNCHANGED skVars

Spec == Init /\ [][Next]_vars

(* A host thread that is in a call, and the main thread.                      *)
HostThread(t) ==
  \/ StreamStep(t) /\ UNCHANGED <<algVars, skVars, gutterVars>>
  \/ (Store(t) \/ Work(t)) /\ UNCHANGED gutterVars
  \/ InsertRest(t) /\ UNCHANGED skVars

MainThread ==
  \/ FlushDone /\ UNCHANGED <<skVars, gutterVars>>
  \/ (CpuJoined \/ GpuJoined) /\ UNCHANGED gutterVars
  \/ FlushGutters /\ UNCHANGED skVars

(* The operating system runs the host threads, and the GPU its streams: an    *)
(* operation is taken off a stream by RunOperation only.  When updates come,  *)
(* and when the stream of updates ends, is open.                              *)
Fairness ==
  /\ \A t \in Thread :
       /\ WF_vars(HostThread(t))
       /\ WF_stream(stream[t] # <<>> /\ stream' = [stream EXCEPT ![t] = Tail(@)])
  /\ WF_vars(MainThread)

FairSpec == Spec /\ Fairness

InCall(t) == pc[t] \in {"sync", "apply", "send"} \/ t \in Range(gutter_locks)

(* A thread returns from process_batch and gives its gutter's lock back, and  *)
(* launches and flushes end in a query: no thread waits for ever for its      *)
(* stream, and none is left out of a launch.                                  *)
CallsReturn ==
  /\ \A t \in Thread : InCall(t) ~> ~InCall(t)
  /\ phase \in {"flush", "launch", "cpu", "empty"} ~> phase = "query"
=============================================================================
