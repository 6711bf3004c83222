---------------------------- MODULE SKGPUSketchAlg ----------------------------
(***************************************************************************)
(* Connectivity with all updates applied after the stream                  *)
(* (src/sk_gpu_sketch_alg.cpp, used by tools/single_kernel_stream.cu): the *)
(* workers store their batches in one array and three maps, and when the   *)
(* stream has ended the sketches are updated by CPU threads, through the   *)
(* CUDA streams, or by one launch of a kernel with a block for each batch. *)
(***************************************************************************)
EXTENDS CCGPUSketchAlg

CONSTANT num_updates   \* the edges of the stream, each of which is two updates

ASSUME StoreAssumption == num_updates \in Nat

VARIABLES
  h_edgeUpdates, edgeUpdate_offset,
  stored_count,  \* batch_count, the atomic counter of the batch ids
  stored,        \* the three maps from a batch's id, and the batch itself as history
  call,          \* for each worker in apply_update_batch, its locals
  batch_id       \* for each thread of a launch, the batch it does next

skVars == <<h_edgeUpdates, edgeUpdate_offset, stored_count, stored, call, batch_id>>

Position == 0 .. 2 * num_updates - 1

NoCall == [src |-> 0, dsts |-> <<>>, offset |-> 0, id |-> 0]

SKInit ==
  /\ h_edgeUpdates = [i \in Position |-> 0]
  /\ edgeUpdate_offset = 0 /\ stored_count = 0 /\ stored = <<>>
  /\ call = [t \in Thread |-> NoCall] /\ batch_id = [t \in Thread |-> 0]

(* Only pc changes of what belongs to the streams.                            *)
At(t, from, to) ==
  /\ pc[t] = from /\ Goto(t, to)
  /\ UNCHANGED <<cudaUVM_enabled, sketches, h, d, stream, hostVars, next>>

(* apply_update_batch: a region of the array is reserved.  The guttering      *)
(* system hands over no more than the stream's updates.                       *)
ReserveRegion(t, src, dsts) ==
  /\ phase = "store" /\ edgeUpdate_offset + Len(dsts) <= 2 * num_updates
  /\ HandOver(src, dsts)
  /\ At(t, "idle", "fill")
  /\ call' = [call EXCEPT ![t] = [src |-> src, dsts |-> dsts, offset |-> edgeUpdate_offset,
                                  id |-> 0]]
  /\ edgeUpdate_offset' = edgeUpdate_offset + Len(dsts)
  /\ UNCHANGED <<h_edgeUpdates, stored_count, stored, batch_id>>

FillRegion(t) ==
  /\ At(t, "fill", "count")
  /\ h_edgeUpdates' = [i \in Position |->
       IF i \in call[t].offset .. call[t].offset + Len(call[t].dsts) - 1
       THEN call[t].dsts[i - call[t].offset + 1] ELSE h_edgeUpdates[i]]
  /\ UNCHANGED <<edgeUpdate_offset, stored_count, stored, call, batch_id, algVars>>

\* Mutant: the counter is read, and raised only when the batch is recorded.
ReadId(t) ==
  /\ At(t, "count", "record")
  /\ call' = [call EXCEPT ![t].id = stored_count]
  /\ stored_count' = Cardinality(DOMAIN stored) + 1
  /\ UNCHANGED <<h_edgeUpdates, edgeUpdate_offset, stored, batch_id, algVars>>

TakeId(t) ==
  /\ At(t, "count", "record")
  /\ call' = [call EXCEPT ![t].id = stored_count]
  /\ stored_count' = stored_count + 1
  /\ UNCHANGED <<h_edgeUpdates, edgeUpdate_offset, stored, batch_id, algVars>>

(* The inserts under batch_mutex; std::map::insert keeps an older entry.      *)
RecordBatch(t) ==
  LET c == call[t]
  IN  /\ At(t, "record", "idle")
      /\ stored' = [n \in DOMAIN stored \cup {c.id} |->
           IF n \in DOMAIN stored THEN stored[n]
           ELSE [src |-> c.src, size |-> Len(c.dsts), start_index |-> c.offset, dsts |-> c.dsts]]
      /\ call' = [call EXCEPT ![t] = NoCall]
      /\ UNCHANGED <<h_edgeUpdates, edgeUpdate_offset, stored_count, batch_id, algVars>>

-----------------------------------------------------------------------------
(* main after prep_query: the workers have no batch left, and one of the      *)
(* three launches is called.  With GPU and single kernel the program uses     *)
(* unified memory, without GPU it does not.                                   *)
StreamEnded == phase = "store" /\ \A t \in Thread : pc[t] = "idle"

Launch(to) ==
  /\ StreamEnded
  /\ phase' = to
  /\ batch_id' = [t \in Thread |-> t]
  /\ UNCHANGED <<streamVars, vector, batches, sampled,
                 h_edgeUpdates, edgeUpdate_offset, stored_count, stored, call>>

(* The thread's loop over its share of the batches.                           *)
NextBatch(t) ==
  /\ batch_id[t] < stored_count
  /\ batch_id' = [batch_id EXCEPT ![t] = @ + num_host_threads]
  /\ UNCHANGED <<h_edgeUpdates, edgeUpdate_offset, stored_count, stored, call>>

Launched == \A t \in Thread : batch_id[t] >= stored_count

(* The delta sketch of a batch: zeroed, then one update after another.        *)
CpuDelta(b) ==
  LET apply[n \in 0 .. b.size] ==
        IF n = 0 THEN zero_contents(NewSketch)
        ELSE update(apply[n - 1], concat_pairing_fn(b.src, h_edgeUpdates[b.start_index + n - 1]))
  IN  apply[b.size].buckets

(* launch_cpu_update.                                                         *)
launch_cpu_update(t) ==
  /\ phase = "cpu"
  /\ NextBatch(t)
  /\ LET b == stored[batch_id[t]]
     IN  sketches' = [sketches EXCEPT ![b.src] = merge_raw_bucket_buffer(@, CpuDelta(b))]
  /\ UNCHANGED <<cudaUVM_enabled, h, d, stream, hostVars, pc, next, algVars>>

CpuJoined ==
  /\ phase = "cpu" /\ Launched
  /\ phase' = "query"
  /\ UNCHANGED <<streamVars, vector, batches, sampled, skVars>>

(* launch_gpu_update: process_batch reads the batch in the array.             *)
launch_gpu_update(t) ==
  /\ phase = "launch"
  /\ NextBatch(t)
  /\ LET b == stored[batch_id[t]]
     IN  process_batch(t, b.src, [k \in 1 .. b.size |-> h_edgeUpdates[b.start_index + k - 1]])
  /\ UNCHANGED algVars

(* The threads are joined, the device is synchronized, and flush_buffers is   *)
(* called.                                                                    *)
GpuJoined ==
  /\ phase = "launch" /\ Launched /\ \A t \in Thread : stream[t] = <<>>
  /\ FlushStreams
  /\ UNCHANGED skVars

(* single_sketchUpdate_UVM_kernel: block n adds the delta sketch of batch n   *)
(* with atomicXor.                                                            *)
single_sketchUpdate_UVM_kernel(num_blocks) ==
  LET Block(n, skts) == [skts EXCEPT ![stored[n].src] = merge_raw_bucket_buffer(@,
        DeltaSketch(stored[n].src, h_edgeUpdates, stored[n].start_index, stored[n].size))]
  IN  FoldSet(Block, sketches, 0 .. num_blocks - 1)

(* launch_gpu_kernel: the copies and the kernel are waited for.               *)
launch_gpu_kernel ==
  /\ StreamEnded /\ cudaUVM_enabled
  /\ sketches' = single_sketchUpdate_UVM_kernel(stored_count)
  /\ phase' = "query"
  /\ UNCHANGED <<cudaUVM_enabled, h, d, stream, hostVars, pc, next, vector, batches, sampled,
                 skVars>>

-----------------------------------------------------------------------------
Store(t) == FillRegion(t) \/ TakeId(t) \/ RecordBatch(t)

Work(t) == launch_cpu_update(t) \/ launch_gpu_update(t)

main ==
  \/ Launch("launch")
  \/ ~cudaUVM_enabled /\ Launch("cpu")
  \/ launch_gpu_kernel \/ CpuJoined \/ GpuJoined

SKNext ==
  \/ \E t \in Thread, b \in Batches : ReserveRegion(t, b[1], b[2])
  \/ \E t \in Thread : Store(t) \/ Work(t)
  \/ main

-----------------------------------------------------------------------------
Storing == {t \in Thread : pc[t] \in {"fill", "count", "record"}}

(* The regions of the array reserved by a call under way and a stored batch.  *)
CallRegion(t)   == call[t].offset .. call[t].offset + Len(call[t].dsts) - 1
StoredRegion(n) == stored[n].start_index .. stored[n].start_index + stored[n].size - 1

(* What the launches rely on, however the workers' fetch_adds, writes and     *)
(* inserts interleave: no two batches share a position of h_edgeUpdates, no   *)
(* region leaves the array, a recorded batch is in the array as it was handed *)
(* over, and every id below the counter is recorded or about to be, by one    *)
(* worker.                                                                    *)
StoredWhole ==
  /\ \A t, u \in Storing : t # u => CallRegion(t) \cap CallRegion(u) = {}
  /\ \A m, n \in DOMAIN stored : m # n => StoredRegion(m) \cap StoredRegion(n) = {}
  /\ \A t \in Storing, n \in DOMAIN stored : CallRegion(t) \cap StoredRegion(n) = {}
  /\ \A t \in Storing : CallRegion(t) \subseteq Position
  /\ \A n \in DOMAIN stored :
       [k \in 1 .. stored[n].size |-> h_edgeUpdates[stored[n].start_index + k - 1]]
         = stored[n].dsts
  /\ 0 .. stored_count - 1 =
       DOMAIN stored \cup {call[t].id : t \in {u \in Storing : pc[u] = "record"}}
  /\ \A t, u \in Storing : (pc[t] = "record" /\ pc[u] = "record" /\ t # u) =>
       call[t].id # call[u].id
=============================================================================
