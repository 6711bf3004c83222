------------------------------ MODULE CudaStream ------------------------------
(***************************************************************************)
(* The CUDA streams of the host threads (include/cuda_stream.h).  A host   *)
(* thread collects batches in one half of a pinned buffer; when the half   *)
(* is full it waits for the stream, applies the delta sketches that came   *)
(* back for the other half, queues copies of the half, the kernel and the  *)
(* copy of its delta sketches, and goes on with the other half.  The GPU   *)
(* runs the operations of a stream in order, and reads and writes the      *)
(* host's buffers when it runs them, not when they are queued.  With       *)
(* unified memory (UVM) the kernel updates the sketches itself.            *)
(***************************************************************************)
EXTENDS Sketch

CONSTANTS
  num_host_threads,      \* each host thread has a stream
  num_nodes,
  num_batch_per_buffer,  \* the batches that fill half of the buffer
  batch_size,            \* the most updates in a batch
  Uninitialized          \* what cudaMallocHost and cudaMalloc may leave in a delta sketch

ASSUME StreamAssumption ==
  /\ num_nodes \in Nat \ {0} /\ num_batch_per_buffer \in Nat \ {0}
  /\ batch_size \in Nat \ {0} /\ num_host_threads \in Nat \ {0}
  /\ Uninitialized \subseteq Buckets

VARIABLES
  cudaUVM_enabled,
  sketches,      \* the sketch of every vertex
  h,             \* for each thread, the pinned buffers of the host
  d,             \* for each thread, the buffers of the device
  stream,        \* for each thread, the operations queued for the GPU
  buffer_id, batch_count, batch_offset, first_buffer,  \* as in the class, for each thread
  pc,            \* where each thread is in process_batch or flush_buffers
  next           \* for each thread, the batch whose delta sketch is applied next

hostVars   == <<buffer_id, batch_count, batch_offset, first_buffer>>
streamVars == <<cudaUVM_enabled, sketches, h, d, stream, hostVars, pc, next>>

Thread == 0 .. num_host_threads - 1
Vertex == 0 .. num_nodes - 1
Slot   == 0 .. num_batch_per_buffer - 1
Half   == num_batch_per_buffer * batch_size

NoUpdate == [size |-> 0, src |-> 0, start_index |-> 0]

StreamInit ==
  /\ cudaUVM_enabled \in BOOLEAN
  /\ sketches = [v \in Vertex |-> NewSketch]
  /\ \E left \in Uninitialized :
       /\ h = [t \in Thread |->
                 [edgeUpdates |-> [i \in 0 .. 2 * Half - 1 |-> 0],
                  update      |-> [k \in 0 .. 2 * num_batch_per_buffer - 1 |-> NoUpdate],
                  buckets     |-> [k \in Slot |-> left]]]
       /\ d = [t \in Thread |->
                 [edgeUpdates |-> [i \in 0 .. Half - 1 |-> 0],
                  update      |-> [k \in Slot |-> NoUpdate],
                  buckets     |-> [k \in Slot |-> left]]]
  /\ stream = [t \in Thread |-> <<>>]
  /\ buffer_id = [t \in Thread |-> 0] /\ batch_count = [t \in Thread |-> 0]
  /\ batch_offset = [t \in Thread |-> 0] /\ first_buffer = [t \in Thread |-> TRUE]
  /\ pc = [t \in Thread |-> "idle"] /\ next = [t \in Thread |-> 0]

Goto(t, place) == pc' = [pc EXCEPT ![t] = place]

start_index(t)    == buffer_id[t] * Half
start_batch_id(t) == buffer_id[t] * num_batch_per_buffer
prev_batch_id(t)  == (1 - buffer_id[t]) * num_batch_per_buffer

-----------------------------------------------------------------------------
(* process_batch up to the test of batch_limit: the batch is appended to the  *)
(* current half.                                                              *)
process_batch(t, src, dsts) ==
  /\ pc[t] = "idle"
  /\ h' = [h EXCEPT
       ![t].edgeUpdates = [i \in DOMAIN @ |->
          IF i \in batch_offset[t] .. batch_offset[t] + Len(dsts) - 1
          THEN dsts[i - batch_offset[t] + 1] ELSE @[i]],
       ![t].update[start_batch_id(t) + batch_count[t]] =
          [size |-> Len(dsts), src |-> src, start_index |-> batch_offset[t] - start_index(t)]]
  /\ batch_offset' = [batch_offset EXCEPT ![t] = @ + Len(dsts)]
  /\ batch_count' = [batch_count EXCEPT ![t] = @ + 1]
  /\ Goto(t, IF batch_count[t] + 1 = num_batch_per_buffer THEN "sync" ELSE "idle")
  /\ UNCHANGED <<cudaUVM_enabled, sketches, d, stream, buffer_id, first_buffer, next>>

\* Mutant: the host does not wait for the previous half.
NoWait(t) ==
  /\ pc[t] \in {"sync", "flush", "flush_wait"}
  /\ pc[t] = "flush" => ~cudaUVM_enabled
  /\ Goto(t, CASE pc[t] = "flush"      -> "flush_prev"
               [] pc[t] = "flush_wait" -> "flush_last"
               [] OTHER -> IF cudaUVM_enabled \/ first_buffer[t] THEN "send" ELSE "apply")
  /\ next' = [next EXCEPT ![t] = 0]
  /\ UNCHANGED <<cudaUVM_enabled, sketches, h, d, stream, hostVars>>

(* cudaStreamSynchronize: the thread waits until its stream is empty.         *)
cudaStreamSynchronize(t) ==
  /\ pc[t] \in {"sync", "flush", "flush_wait"}
  /\ pc[t] = "flush" => ~cudaUVM_enabled
  /\ stream[t] = <<>>
  /\ Goto(t, CASE pc[t] = "flush"      -> "flush_prev"
               [] pc[t] = "flush_wait" -> "flush_last"
               [] OTHER -> IF cudaUVM_enabled \/ first_buffer[t] THEN "send" ELSE "apply")
  /\ next' = [next EXCEPT ![t] = 0]
  /\ UNCHANGED <<cudaUVM_enabled, sketches, h, d, stream, hostVars>>

(* The loops over apply_raw_buckets_update, one delta sketch at a time: those *)
(* of the previous half, and at the end of a flush those of the current one. *)
apply_raw_buckets_update(t) ==
  LET last  == pc[t] = "flush_last"
      count == IF last THEN batch_count[t] ELSE num_batch_per_buffer
      slot  == next[t] + IF last THEN start_batch_id(t) ELSE prev_batch_id(t)
      after == CASE pc[t] = "apply" -> "send"
                 [] last            -> "flushed"
                 [] OTHER -> IF batch_count[t] = 0 THEN "flushed" ELSE "flush_send"
  IN  /\ pc[t] \in {"apply", "flush_prev", "flush_last"}
      /\ sketches' = [sketches EXCEPT ![h[t].update[slot].src] =
                        merge_raw_bucket_buffer(@, h[t].buckets[next[t]])]
      /\ next' = [next EXCEPT ![t] = @ + 1]
      /\ Goto(t, IF next[t] + 1 = count THEN after ELSE pc[t])
      /\ UNCHANGED <<cudaUVM_enabled, h, d, stream, hostVars>>

(* The operations queued for the first n batches of the current half; the     *)
(* delta sketches of `back` slots are copied to the host.                     *)
Operations(t, back) ==
  LET n == batch_count[t]
  IN  <<[op |-> "edges",  from |-> start_index(t), n |-> batch_offset[t] - start_index(t)],
        [op |-> "batch",  from |-> start_batch_id(t), n |-> n],
        [op |-> "kernel", from |-> 0, n |-> n]>> \o
      (IF cudaUVM_enabled THEN <<>> ELSE <<[op |-> "back", from |-> 0, n |-> back]>>)

\* Mutant: batch_count is not reset, and the half is sent while it is full.
SendAgain(t) ==
  /\ pc[t] = "send"
  /\ stream' = [stream EXCEPT ![t] = @ \o Operations(t, num_batch_per_buffer)]
  /\ buffer_id' = [buffer_id EXCEPT ![t] = 1 - @]
  /\ batch_offset' = [batch_offset EXCEPT ![t] = (1 - buffer_id[t]) * Half]
  /\ first_buffer' = [first_buffer EXCEPT ![t] = first_buffer[t] /\ cudaUVM_enabled]
  /\ Goto(t, "sync")
  /\ UNCHANGED <<cudaUVM_enabled, sketches, h, d, batch_count, next>>

(* The rest of process_batch: the half is sent, and the halves swap.          *)
Send(t) ==
  /\ pc[t] = "send"
  /\ stream' = [stream EXCEPT ![t] = @ \o Operations(t, num_batch_per_buffer)]
  /\ batch_count' = [batch_count EXCEPT ![t] = 0]
  /\ buffer_id' = [buffer_id EXCEPT ![t] = 1 - @]
  /\ batch_offset' = [batch_offset EXCEPT ![t] = (1 - buffer_id[t]) * Half]
  /\ first_buffer' = [first_buffer EXCEPT ![t] = first_buffer[t] /\ cudaUVM_enabled]
  /\ Goto(t, "idle")
  /\ UNCHANGED <<cudaUVM_enabled, sketches, h, d, next>>

-----------------------------------------------------------------------------
(* flush_buffers_UVM, and the rest of flush_buffers_default after the delta   *)
(* sketches of the previous half: the batches left are sent.                  *)
FlushSend(t) ==
  /\ pc[t] = IF cudaUVM_enabled THEN "flush" ELSE "flush_send"
  /\ stream' = [stream EXCEPT ![t] =
       IF batch_count[t] = 0 THEN @ ELSE @ \o Operations(t, batch_count[t])]
  /\ Goto(t, IF cudaUVM_enabled THEN "flushed" ELSE "flush_wait")
  /\ UNCHANGED <<cudaUVM_enabled, sketches, h, d, hostVars, next>>

-----------------------------------------------------------------------------
(* The GPU runs the first operation of a stream: the copies to the device,    *)
(* the kernel, with one thread block for each batch, and the copy back.       *)
CopyEdges(t, o) ==
  /\ o.op = "edges"
  /\ d' = [d EXCEPT ![t].edgeUpdates = [i \in DOMAIN @ |->
             IF i < o.n THEN h[t].edgeUpdates[o.from + i] ELSE @[i]]]
  /\ UNCHANGED <<sketches, h>>

CopyBatches(t, o) ==
  /\ o.op = "batch"
  /\ d' = [d EXCEPT ![t].update = [k \in Slot |->
             IF k < o.n THEN h[t].update[o.from + k] ELSE @[k]]]
  /\ UNCHANGED <<sketches, h>>

BlockDelta(t, k) ==
  LET u == d[t].update[k]
  IN  DeltaSketch(u.src, d[t].edgeUpdates, u.start_index, u.size)

(* sketchUpdate_default_kernel writes the delta sketches, which go back.      *)
sketchUpdate_default_kernel(t, o) ==
  /\ o.op = "kernel" /\ ~cudaUVM_enabled
  /\ d' = [d EXCEPT ![t].buckets = [k \in Slot |->
             IF k < o.n THEN BlockDelta(t, k) ELSE @[k]]]
  /\ UNCHANGED <<sketches, h>>

(* sketchUpdate_UVM_kernel adds them to the sketches with atomicXor.          *)
sketchUpdate_UVM_kernel(t, o) ==
  LET Add(k, skts) == [skts EXCEPT ![d[t].update[k].src] =
                         merge_raw_bucket_buffer(@, BlockDelta(t, k))]
  IN  /\ o.op = "kernel" /\ cudaUVM_enabled
      /\ sketches' = FoldSet(Add, sketches, 0 .. o.n - 1)
      /\ UNCHANGED <<d, h>>

CopyBack(t, o) ==
  /\ o.op = "back"
  /\ h' = [h EXCEPT ![t].buckets = [k \in Slot |-> IF k < o.n THEN d[t].buckets[k] ELSE @[k]]]
  /\ UNCHANGED <<sketches, d>>

RunOperation(t) ==
  /\ stream[t] # <<>>
  /\ LET o == Head(stream[t])
     IN  \/ CopyEdges(t, o) \/ CopyBatches(t, o)
         \/ sketchUpdate_default_kernel(t, o) \/ sketchUpdate_UVM_kernel(t, o)
         \/ CopyBack(t, o)
  /\ stream' = [stream EXCEPT ![t] = Tail(@)]
  /\ UNCHANGED <<cudaUVM_enabled, hostVars, pc, next>>

StreamStep(t) ==
  cudaStreamSynchronize(t) \/ apply_raw_buckets_update(t) \/ Send(t) \/ FlushSend(t)
=============================================================================
