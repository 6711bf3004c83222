---------------------------- MODULE SketchSubgraph ----------------------------
(***************************************************************************)
(* One sketch subgraph of the minimum-cut algorithm (class SketchSubgraph  *)
(* of include/mc_gpu_sketch_alg.h): the workers insert small batches into  *)
(* a gutter for each vertex, a full gutter goes to the worker's CUDA       *)
(* stream while its lock is held, and a flush empties the gutters through  *)
(* stream 0 and then flushes one stream after another.                     *)
(***************************************************************************)
EXTENDS CCGPUSketchAlg

CONSTANT Inserts   \* the batches <<src, dsts>> complete_update_batch may insert

ASSUME InsertAssumption ==
  \A b \in Inserts : /\ b[1] \in Vertex /\ b[2] \in Seq(Vertex)
                     /\ Len(b[2]) \in 1 .. batch_size
                     /\ \A k \in DOMAIN b[2] : concat_pairing_fn(b[1], b[2][k]) \in Index

VARIABLES
  subgraph_gutters,  \* for each vertex, elms and data
  gutter_locks,      \* for each vertex, the worker that holds its lock
  rest,              \* for each worker, what it inserts after the full gutter was sent
  flush_v            \* the vertex whose gutter the flush empties next

gutterVars == <<subgraph_gutters, gutter_locks, rest, flush_v>>

NoThread    == -1
NothingLeft == [src |-> 0, dsts |-> <<>>]

(* initialize.                                                                *)
SubgraphInit ==
  /\ subgraph_gutters = [v \in Vertex |->
       [elms |-> 0, data |-> [k \in 1 .. batch_size |-> 0]]]
  /\ gutter_locks = [v \in Vertex |-> NoThread]
  /\ rest = [t \in Thread |-> NothingLeft]
  /\ flush_v = 0

(* memcpy of dsts into the gutter's data after its first elms elements.       *)
CopyInto(gutter, elms, dsts) ==
  [elms |-> elms + Len(dsts),
   data |-> [k \in 1 .. batch_size |->
               IF k \in elms + 1 .. elms + Len(dsts) THEN dsts[k - elms] ELSE gutter.data[k]]]

(* batch_insert up to the return of process_batch: the gutter's lock is taken *)
(* and kept if the gutter is full.                                            *)
batch_insert(t, src, dsts) ==
  LET gutter   == subgraph_gutters[src]
      capacity == batch_size - gutter.elms
      filled   == CopyInto(gutter, gutter.elms, SubSeq(dsts, 1, Min({Len(dsts), capacity})))
  IN  /\ phase = "gutter" /\ pc[t] = "idle" /\ t \notin Range(gutter_locks)
      /\ gutter_locks[src] = NoThread
      /\ HandOver(src, dsts)
      /\ subgraph_gutters' = [subgraph_gutters EXCEPT ![src] = filled]
      /\ IF Len(dsts) < capacity THEN UNCHANGED <<streamVars, gutter_locks, rest>>
         ELSE /\ process_batch(t, src, filled.data)
              /\ gutter_locks' = [gutter_locks EXCEPT ![src] = t]
              /\ rest' = [rest EXCEPT ![t] =
                   [src |-> src, dsts |-> SubSeq(dsts, capacity + 1, Len(dsts))]]
      /\ UNCHANGED flush_v

(* The rest of batch_insert, after a full gutter was sent.                    *)
InsertRest(t) ==
  /\ pc[t] = "idle" /\ t \in Range(gutter_locks)
  /\ subgraph_gutters' = [subgraph_gutters EXCEPT ![rest[t].src] =
                            CopyInto(@, 0, rest[t].dsts)]
  /\ gutter_locks' = [gutter_locks EXCEPT ![rest[t].src] = NoThread]
  /\ rest' = [rest EXCEPT ![t] = NothingLeft]
  /\ UNCHANGED <<ccVars, flush_v>>

-----------------------------------------------------------------------------
(* flush, called by apply_flush_updates while the workers are paused: one     *)
(* gutter after another goes to stream 0, as far as it is filled.             *)
flush ==
  /\ phase = "gutter" /\ \A t \in Thread : pc[t] = "idle" /\ t \notin Range(gutter_locks)
  /\ phase' = "empty"
  /\ UNCHANGED <<streamVars, vector, batches, sampled, gutterVars>>

SendGutter ==
  /\ phase = "empty" /\ pc[0] = "idle" /\ flush_v < num_nodes
  /\ flush_v' = flush_v + 1
  /\ LET gutter == subgraph_gutters[flush_v]
     IN  IF gutter.elms = 0 THEN UNCHANGED <<streamVars, subgraph_gutters>>
         ELSE /\ process_batch(0, flush_v, SubSeq(gutter.data, 1, gutter.elms))
              /\ subgraph_gutters' = [subgraph_gutters EXCEPT ![flush_v].elms = 0]
  /\ UNCHANGED <<algVars, gutter_locks, rest>>

(* Then the same thread flushes the streams.                                  *)
FlushFirst ==
  /\ phase = "empty" /\ pc[0] = "idle" /\ flush_v = num_nodes
  /\ phase' = "flush_each"
  /\ Goto(0, "flush")
  /\ UNCHANGED <<cudaUVM_enabled, sketches, h, d, stream, hostVars, next,
                 vector, batches, sampled, gutterVars>>

FlushNext(t) ==
  /\ phase = "flush_each" /\ pc[t] = "idle" /\ \A u \in 0 .. t - 1 : pc[u] = "flushed"
  /\ Goto(t, "flush")
  /\ UNCHANGED <<cudaUVM_enabled, sketches, h, d, stream, hostVars, next, algVars, gutterVars>>

FlushGutters == SendGutter \/ FlushFirst \/ \E t \in Thread : FlushNext(t)

GutterNext ==
  \/ \E t \in Thread, b \in Inserts : batch_insert(t, b[1], b[2])
  \/ \E t \in Thread : InsertRest(t)
  \/ flush
  \/ FlushGutters
=============================================================================
