---------------------------- MODULE CCGPUSketchAlg ----------------------------
(***************************************************************************)
(* Connectivity with sketches updated on the GPU                           *)
(* (src/cc_gpu_sketch_alg.cpp, used as in tools/cuda_process_stream.cu):   *)
(* the workers hand their batches to the CUDA streams, the streams are     *)
(* flushed once the stream of updates has ended, and a query then samples  *)
(* sums of sketches as perform_boruvka_round does.                         *)
(***************************************************************************)
EXTENDS CudaStream

CONSTANTS
  Batches,     \* the batches <<src, dsts>> the guttering system may hand over
  MaxBatches   \* bound: batches handed over in a behaviour, for each variant's first phase

VARIABLES
  phase,       \* what the program does: "ingest", "flush", "query", and those of its variants
  vector,      \* history: for each vertex, the indices updated an odd number of times
  batches,     \* history: the number of batches handed over
  sampled      \* the last sample: supernode, round, result, exhaustive result

algVars == <<phase, vector, batches, sampled>>
ccVars  == <<streamVars, algVars>>

ASSUME BatchAssumption ==
  /\ MaxBatches \in [{"ingest", "store", "gutter"} -> Nat]
  /\ \A b \in Batches : /\ b[1] \in Vertex /\ b[2] \in Seq(Vertex)
                        /\ Len(b[2]) \in 1 .. batch_size
                        /\ \A k \in DOMAIN b[2] : concat_pairing_fn(b[1], b[2][k]) \in Index

NotSampled == [supernode |-> {}, round |-> 0, result |-> <<"ZERO">>, all |-> <<"ZERO", {}>>]

CCInit ==
  /\ StreamInit
  /\ batches = 0 /\ sampled = NotSampled
  /\ vector = [v \in Vertex |-> {}]

(* A worker gets a batch from the guttering system.                           *)
HandOver(src, dsts) ==
  /\ batches < MaxBatches[phase]
  /\ batches' = batches + 1
  /\ vector' = [vector EXCEPT ![src] = SymDiff(@,
       {i \in Index : Odd({k \in DOMAIN dsts : concat_pairing_fn(src, dsts[k]) = i})})]
  /\ UNCHANGED <<phase, sampled>>

(* apply_update_batch: small_batch_perc is zero, so every batch of the        *)
(* guttering system is large enough for the GPU.                              *)
apply_update_batch(t, src, dsts) ==
  /\ phase = "ingest"
  /\ HandOver(src, dsts)
  /\ process_batch(t, src, dsts)

(* One thread for each stream flushes it.                                     *)
FlushStreams ==
  /\ \A t \in Thread : pc[t] = "idle"
  /\ phase' = "flush"
  /\ pc' = [t \in Thread |-> "flush"]
  /\ UNCHANGED <<cudaUVM_enabled, sketches, h, d, stream, hostVars, next,
                 vector, batches, sampled>>

(* flush_buffers: prep_query has flushed, so no worker has a batch.  (When it *)
(* finds a cached answer it does not flush, and the query that follows does   *)
(* not look at the sketches.)                                                 *)
flush_buffers == phase = "ingest" /\ FlushStreams

(* The threads are joined and cudaDeviceSynchronize waits for every stream.   *)
FlushDone ==
  /\ phase \in {"flush", "flush_each"}
  /\ \A t \in Thread : pc[t] = "flushed" /\ stream[t] = <<>>
  /\ phase' = "query"
  /\ UNCHANGED <<streamVars, vector, batches, sampled>>

(* A supernode's sketch in a round: in round zero a vertex's own, then the    *)
(* sum of the vertices' sketches over the samples of the round.               *)
Supernode(S, round) ==
  LET Add(v, skt) == range_merge(skt, sketches[v], round, 1)
  IN  IF round = 0 THEN sketches[CHOOSE v \in S : TRUE]
      ELSE FoldSet(Add, zero_contents(NewSketch), S)

(* sample_supernode; the query resets the sample state of the sketches when   *)
(* it ends.                                                                   *)
sample_supernode(S, round) ==
  /\ phase = "query"
  /\ round = 0 => Cardinality(S) = 1
  /\ LET skt == Supernode(S, round)
     IN  sampled' = [supernode |-> S, round |-> round,
                     result |-> sample(skt), all |-> exhaustive_sample(skt)]
  /\ UNCHANGED <<streamVars, phase, vector, batches>>

-----------------------------------------------------------------------------
CCNext ==
  \/ \E t \in Thread, b \in Batches : apply_update_batch(t, b[1], b[2])
  \/ \E t \in Thread : StreamStep(t) /\ UNCHANGED algVars
  \/ \E t \in Thread : RunOperation(t) /\ UNCHANGED algVars
  \/ flush_buffers
  \/ FlushDone
  \/ \E S \in SUBSET Vertex \ {{}}, round \in 0 .. num_samples - 1 : sample_supernode(S, round)

-----------------------------------------------------------------------------
(* The buckets Sketch::update leaves after the given indices.                 *)
BucketsOf(S) ==
  LET Update(i, skt) == update(skt, i) IN FoldSet(Update, NewSketch, S).buckets

(* A stream was flushed that never filled a half: it has no delta sketches,   *)
(* yet flush_buffers_default applies its uninitialized ones to the vertices   *)
(* in h_update_src, which are 0.                                              *)
FirstDamaged == ~cudaUVM_enabled /\ \E t \in Thread : first_buffer[t] /\ pc[t] = "flushed"

(* Before a query each vertex's sketch is the one Sketch::update would have   *)
(* built on the CPU: every update handed over is applied exactly once,        *)
(* whatever the order of the host threads and the GPU, and whichever of the   *)
(* three algorithms feeds the streams.  The one exception is vertex 0, see    *)
(* FirstDamaged.                                                              *)
SketchesExact ==
  phase = "query" =>
    \A v \in Vertex : sketches[v].buckets = BucketsOf(vector[v]) \/ (v = 0 /\ FirstDamaged)

(* What sample and exhaustive_sample answer for a supernode in any round:     *)
(* ZERO iff no index is left in the sum, a single index is always found, and  *)
(* what is returned is an index of the sum.  The Boruvka emulation relies on  *)
(* this.                                                                      *)
SampleSound ==
  LET S   == sampled.supernode
      sum == {i \in Index : Odd({v \in S : i \in vector[v]})}
  IN  (S # {} /\ ~(0 \in S /\ FirstDamaged)) =>
        /\ (sampled.result = <<"ZERO">>) <=> (sum = {})
        /\ Cardinality(sum) = 1 => sampled.result[1] = "GOOD"
        /\ sampled.result[1] = "GOOD" => /\ sampled.result[2] \in sampled.all[2]
                                         /\ sampled.all[2] \subseteq sum
        /\ sampled.result[1] = sampled.all[1]
=============================================================================
