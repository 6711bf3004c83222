---------------------------- MODULE GutteringSystem ----------------------------
(***************************************************************************)
(* The guttering system and its work queue, an external library: what the  *)
(* driver and the workers rely on.  Updates collect in gutters, a full     *)
(* gutter is queued as one batch, and get_data hands a batch to a worker.  *)
(***************************************************************************)
EXTENDS Naturals, Sequences, FiniteSets

CONSTANTS QueueSlots      \* the data nodes of the work queue

VARIABLES
  gutter,      \* the updates that wait in gutters
  queue,       \* the batches (sets of updates) that wait for a worker
  taken,       \* the workers that hold a data node
  non_block    \* get_data does not wait on an empty queue

gtsVars == <<gutter, queue, taken, non_block>>

GutteringInit == gutter = {} /\ queue = <<>> /\ taken = {} /\ non_block = FALSE

FreeSlot == Len(queue) + Cardinality(taken) < QueueSlots

(* insert: the update joins its gutter, ...                                 *)
InsertBuffered(s) == gutter' = gutter \cup s /\ UNCHANGED <<queue, taken, non_block>>

(* ... which is queued when full; the caller waits for a free data node.    *)
InsertQueued(s) ==
  /\ FreeSlot
  /\ queue' = Append(queue, gutter \cup s) /\ gutter' = {}
  /\ UNCHANGED <<taken, non_block>>

(* force_flush queues what the gutters hold.                                *)
QueueGutter == gutter # {} /\ InsertQueued({})

set_non_block(b) == non_block' = b /\ UNCHANGED <<gutter, queue, taken>>

(* get_data takes a batch, or answers false: only when it need not wait and *)
(* finds the queue empty.                                                   *)
GetBatch(w) ==
  /\ queue # <<>>
  /\ queue' = Tail(queue) /\ taken' = taken \cup {w}
  /\ UNCHANGED <<gutter, non_block>>

GetNothing == non_block /\ queue = <<>> /\ UNCHANGED gtsVars

get_data_callback(w) == taken' = taken \ {w} /\ UNCHANGED <<gutter, queue, non_block>>
=============================================================================
