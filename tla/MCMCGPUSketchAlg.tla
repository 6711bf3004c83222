--------------------------- MODULE MCMCGPUSketchAlg ---------------------------
(* Instances of MCGPUSketchAlg with its edge store for TLC.                 *)
EXTENDS MCGPUSketchAlg

CONSTANTS t1, t2

OneWorker == {t1}
TwoThreads == {t1, t2}

(* Two edges of vertex 0, one of vertex 1.                                  *)
Edges == {<<0, 1>>, <<0, 2>>, <<1, 2>>}

(* Their depths: one edge stays in subgraph 0.                              *)
MixedDepths == [e \in Edges |-> CASE e = <<0, 1>> -> 0 [] e = <<0, 2>> -> 1 [] OTHER -> 2]

SingleBatches == {<<0, <<1>>>>, <<0, <<2>>>>, <<1, <<2>>>>}

(* Some batches hold several updates, one of them an edge twice.             *)
MixedBatches == {<<0, <<1, 2>>>>, <<0, <<2, 1, 2>>>>, <<0, <<2>>>>, <<1, <<2>>>>}
=============================================================================
