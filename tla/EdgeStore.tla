------------------------------- MODULE EdgeStore -------------------------------
(***************************************************************************)
(* The lossless edge store of MCGPUSketchAlg (include/edge_store.h,        *)
(* src/edge_store.cpp).  Host threads insert batches of tagged updates;    *)
(* when the store grows past max_edges it is contracted: cur_subgraph is   *)
(* raised, and the buffers of the vertices are handed, one by one, to the  *)
(* threads that come by, until true_min_subgraph follows.  A critical      *)
(* section under adj_mutex is cut where it reads shared state that the     *)
(* mutex does not protect; so is the one under contract_lock.              *)
(***************************************************************************)
EXTENDS EdgeStoreBuffer

CONSTANTS
  Thread,            \* the host threads
  num_vertices,
  num_subgraphs,
  max_edges,
  start_subgraph,    \* the first level of the store at the start
  MaxOverrun         \* bound: cells read past the end of a batch

VARIABLES
  cur_subgraph, true_min_subgraph, num_edges, needs_contraction,
  adjlist,           \* for each vertex, its sequence of tagged updates
  vertex_contracted,
  adj_mutex,         \* for each vertex, the holder of its lock, or NoThread
  contract_lock,     \* the holder, or NoThread
  pc,                \* for each thread, the step it executes next
  op,                \* for each thread, its arguments and local variables
  first_es,          \* for each thread, its cur_first_es_subgraph
  more_upds          \* for each thread, the TaggedUpdateBatches handed to it

storeData == <<num_edges, adjlist>>
levels    == <<cur_subgraph, true_min_subgraph, needs_contraction>>
locks     == <<adj_mutex, contract_lock>>
storeVars == <<levels, storeData, vertex_contracted, locks, pc, op, first_es,
               more_upds>>

NoThread == "none"

ASSUME StoreAssumption ==
  /\ num_vertices \in Nat \ {0} /\ num_subgraphs \in Nat \ {0}
  /\ max_edges \in Nat /\ start_subgraph \in 0 .. num_subgraphs
  /\ MaxOverrun \in Nat
  /\ NoThread \notin Thread

Vertex == 0 .. num_vertices - 1

NoOp == [src |-> 0, caller |-> 0, updates |-> <<>>, ret |-> <<>>, vertex |-> 0]

(* The constructor; needs_contraction is not initialized.                    *)
StoreInit ==
  /\ cur_subgraph = start_subgraph /\ true_min_subgraph = start_subgraph
  /\ num_edges = 0
  /\ needs_contraction \in 0 .. num_vertices
  /\ adjlist = [v \in Vertex |-> <<>>]
  /\ vertex_contracted = [v \in Vertex |-> TRUE]
  /\ adj_mutex = [v \in Vertex |-> NoThread] /\ contract_lock = NoThread
  /\ pc = [t \in Thread |-> "idle"]
  /\ op = [t \in Thread |-> NoOp] /\ first_es = [t \in Thread |-> 0]
  /\ more_upds = [t \in Thread |-> <<>>]

Goto(t, step) == pc' = [pc EXCEPT ![t] = step]

TaggedUpdateBatch(src, first, data) ==
  [src |-> src, min_subgraph |-> first - 1, first_es_subgraph |-> first,
   dsts_data |-> data]

(* A call returns a batch; its caller only looks at one that is not empty.   *)
Return(t, batch) ==
  /\ more_upds' = IF batch.dsts_data = <<>> THEN more_upds
                  ELSE [more_upds EXCEPT ![t] = Append(@, batch)]
  /\ Goto(t, "complete")

contract_in_progress == true_min_subgraph < cur_subgraph

(* vertex_contract: what stays in the buffer of v, and what it returns.       *)
Keeps(d)   == d[1] >= cur_subgraph
Kept(v)    == SelectSeq(adjlist[v], Keeps)

-----------------------------------------------------------------------------
(* insert_adj_edges, after the batch is sorted: take the lock of src.         *)
LockVertex(t) ==
  /\ pc[t] = "lock"
  /\ adj_mutex[op[t].src] = NoThread
  /\ adj_mutex' = [adj_mutex EXCEPT ![op[t].src] = t]
  /\ first_es' = [first_es EXCEPT ![t] = cur_subgraph]
  /\ Goto(t, "merge")
  /\ UNCHANGED <<levels, storeData, vertex_contracted, contract_lock, op, more_upds>>

(* The cells the merge sees.  The loop that steps over updates for smaller    *)
(* subgraphs has no test for the end of the batch: when it passes the last   *)
(* one it goes on over whatever memory follows, up to a cell that does not   *)
(* look like an update for a smaller subgraph.  [cells, start] are the batch *)
(* with the cells read beyond it and the place where the loop stops.         *)
Cells(updates, first) ==
  LET n == Len(updates)
      skip == Below(updates, first)
      beyond == {d \in (0 .. num_subgraphs) \X Vertex : d[1] >= first}
  IN  IF skip < n THEN {[cells |-> updates, start |-> skip]}
      ELSE {[cells |-> updates \o [k \in 1 .. extra + 1 |-> last],
             start |-> n + extra] : extra \in 0 .. MaxOverrun, last \in beyond}

(* Under the lock: contract the vertex if a contraction is under way and it   *)
(* has not been, keep the batch for the caller if the caller's view of the   *)
(* store was old, merge the batch into the buffer, release the lock.  (A     *)
(* size below zero makes resize throw, which ends the program.)              *)
MergeUpdates(t) ==
  /\ pc[t] = "merge"
  /\ LET src == op[t].src
         first == first_es[t]
         updates == op[t].updates
         contracts == true_min_subgraph < first /\ ~vertex_contracted[src]
         buffer == IF contracts THEN Kept(src) ELSE adjlist[src]
         ret == (IF contracts THEN adjlist[src] ELSE <<>>)
                \o (IF op[t].caller < first THEN updates ELSE <<>>)
     IN  \E c \in Cells(updates, first) :
           LET m == Merge(buffer, c.cells, Len(updates), c.start)
           IN  /\ m.size >= 0
               /\ adjlist' = [adjlist EXCEPT ![src] = m.buffer]
               /\ num_edges' = num_edges + m.out - Len(adjlist[src])
               /\ vertex_contracted' = [vertex_contracted EXCEPT ![src] = @ \/ contracts]
               /\ adj_mutex' = [adj_mutex EXCEPT ![src] = NoThread]
               /\ op' = [op EXCEPT ![t].ret = ret]
  /\ Goto(t, "after")
  /\ UNCHANGED <<levels, contract_lock, first_es, more_upds>>

(* A caller that got nothing to do helps with the contraction.               *)
AfterInsert(t) ==
  /\ pc[t] = "after"
  /\ Goto(t, IF op[t].ret = <<>> /\ true_min_subgraph < first_es[t]
             THEN "claim" ELSE "check")
  /\ UNCHANGED <<levels, storeData, vertex_contracted, locks, op, first_es, more_upds>>

-----------------------------------------------------------------------------
(* vertex_advance_subgraph: claim the next vertex.  needs_contraction is a    *)
(* counter that stays at num_vertices + 1 here: all larger values act alike. *)
ClaimVertex(t) ==
  /\ pc[t] = "claim"
  /\ LET src == needs_contraction
     IN  /\ needs_contraction' = IF src > num_vertices THEN src ELSE src + 1
         /\ \/ /\ src < num_vertices
               /\ op' = [op EXCEPT ![t].vertex = src]
               /\ Goto(t, "probe")
               /\ UNCHANGED more_upds
            \/ /\ src = num_vertices
               /\ Goto(t, "bump")
               /\ UNCHANGED <<op, more_upds>>
            \/ /\ src > num_vertices
               /\ Return(t, TaggedUpdateBatch(0, first_es[t], <<>>))
               /\ UNCHANGED op
  /\ UNCHANGED <<cur_subgraph, true_min_subgraph, storeData, vertex_contracted, locks,
                 first_es>>

\* Mutant: the end of a contraction is not recorded.
CompleteSilently(t) ==
  /\ pc[t] = "bump"
  /\ contract_lock = NoThread
  /\ UNCHANGED true_min_subgraph
  /\ Return(t, TaggedUpdateBatch(0, first_es[t], <<>>))
  /\ UNCHANGED <<cur_subgraph, needs_contraction, storeData, vertex_contracted, locks, op,
                 first_es>>

(* The thread that finds every vertex claimed ends the contraction.           *)
CompleteContraction(t) ==
  /\ pc[t] = "bump"
  /\ contract_lock = NoThread
  /\ true_min_subgraph' = true_min_subgraph + 1
  /\ Return(t, TaggedUpdateBatch(0, first_es[t], <<>>))
  /\ UNCHANGED <<cur_subgraph, needs_contraction, storeData, vertex_contracted, locks, op,
                 first_es>>

(* Under the lock of the claimed vertex: does it need work?                   *)
ProbeVertex(t) ==
  /\ pc[t] = "probe"
  /\ LET v == op[t].vertex
     IN  /\ adj_mutex[v] = NoThread
         /\ \/ /\ adjlist[v] # <<>> /\ ~vertex_contracted[v]
               /\ Goto(t, "advance")
               /\ UNCHANGED vertex_contracted
            \/ /\ adjlist[v] = <<>> \/ vertex_contracted[v]
               /\ vertex_contracted' = [vertex_contracted EXCEPT ![v] = TRUE]
               /\ Goto(t, "claim")
  /\ UNCHANGED <<levels, storeData, locks, op, first_es, more_upds>>

\* Mutant: contracting a vertex does not update num_edges.
AdvanceUncounted(t) ==
  /\ pc[t] = "advance"
  /\ LET v == op[t].vertex
         contracts == ~vertex_contracted[v]
     IN  /\ adj_mutex[v] = NoThread
         /\ adjlist' = IF contracts THEN [adjlist EXCEPT ![v] = Kept(v)] ELSE adjlist
         /\ UNCHANGED num_edges
         /\ vertex_contracted' = [vertex_contracted EXCEPT ![v] = TRUE]
         /\ Return(t, TaggedUpdateBatch(v, first_es[t],
                                        IF contracts THEN adjlist[v] ELSE <<>>))
  /\ UNCHANGED <<levels, locks, op, first_es>>

\* Mutant: only the updates that leave the store are returned.
AdvanceDropped(t) ==
  /\ pc[t] = "advance"
  /\ LET v == op[t].vertex
         contracts == ~vertex_contracted[v]
     IN  /\ adj_mutex[v] = NoThread
         /\ adjlist' = IF contracts THEN [adjlist EXCEPT ![v] = Kept(v)] ELSE adjlist
         /\ num_edges' = num_edges + Len(adjlist'[v]) - Len(adjlist[v])
         /\ vertex_contracted' = [vertex_contracted EXCEPT ![v] = TRUE]
         /\ Return(t, TaggedUpdateBatch(v, first_es[t],
                                        IF contracts
                                        THEN SelectSeq(adjlist[v], LAMBDA d : ~Keeps(d))
                                        ELSE <<>>))
  /\ UNCHANGED <<levels, locks, op, first_es>>

(* The lock is released and taken again: contract the vertex, unless it was   *)
(* contracted in between, and return what its buffer held.                   *)
AdvanceVertex(t) ==
  /\ pc[t] = "advance"
  /\ LET v == op[t].vertex
         contracts == ~vertex_contracted[v]
     IN  /\ adj_mutex[v] = NoThread
         /\ adjlist' = IF contracts THEN [adjlist EXCEPT ![v] = Kept(v)] ELSE adjlist
         /\ num_edges' = num_edges + Len(adjlist'[v]) - Len(adjlist[v])
         /\ vertex_contracted' = [vertex_contracted EXCEPT ![v] = TRUE]
         /\ Return(t, TaggedUpdateBatch(v, first_es[t],
                                        IF contracts THEN adjlist[v] ELSE <<>>))
  /\ UNCHANGED <<levels, locks, op, first_es>>

-----------------------------------------------------------------------------
ReturnInserted(t) ==
  Return(t, TaggedUpdateBatch(op[t].src, first_es[t], op[t].ret))

(* check_if_too_big: the test without the lock.                              *)
CheckSize(t) ==
  /\ pc[t] = "check"
  /\ \/ /\ num_edges < max_edges
        /\ ReturnInserted(t)
     \/ /\ num_edges >= max_edges
        /\ Goto(t, "start")
        /\ UNCHANGED more_upds
  /\ UNCHANGED <<levels, storeData, vertex_contracted, locks, op,
                 first_es>>

\* Mutant: no second test under the lock.
StartUnchecked(t) ==
  /\ pc[t] = "start"
  /\ contract_lock = NoThread
  /\ cur_subgraph <= num_subgraphs
  /\ contract_lock' = t
  /\ vertex_contracted' = [v \in Vertex |-> FALSE]
  /\ Goto(t, "reset")
  /\ UNCHANGED <<levels, storeData, adj_mutex, op, first_es, more_upds>>

(* Under contract_lock: another thread may have started; otherwise no vertex  *)
(* is contracted yet.                                                        *)
StartContraction(t) ==
  /\ pc[t] = "start"
  /\ contract_lock = NoThread
  /\ \/ /\ contract_in_progress
        /\ ReturnInserted(t)
        /\ UNCHANGED <<vertex_contracted, contract_lock>>
     \/ /\ ~contract_in_progress
        /\ cur_subgraph <= num_subgraphs    \* bound: one level past the last
        /\ contract_lock' = t
        /\ vertex_contracted' = [v \in Vertex |-> FALSE]
        /\ Goto(t, "reset")
        /\ UNCHANGED more_upds
  /\ UNCHANGED <<levels, storeData, adj_mutex, op, first_es>>

ResetClaims(t) ==
  /\ pc[t] = "reset"
  /\ needs_contraction' = 0
  /\ Goto(t, "raise")
  /\ UNCHANGED <<cur_subgraph, true_min_subgraph, storeData, vertex_contracted,
                 locks, op, first_es, more_upds>>

RaiseSubgraph(t) ==
  /\ pc[t] = "raise"
  /\ cur_subgraph' = cur_subgraph + 1
  /\ contract_lock' = NoThread
  /\ ReturnInserted(t)
  /\ UNCHANGED <<true_min_subgraph, needs_contraction, storeData, vertex_contracted,
                 adj_mutex, op, first_es>>

StoreStep(t) ==
  \/ LockVertex(t) \/ MergeUpdates(t) \/ AfterInsert(t)
  \/ ClaimVertex(t) \/ CompleteContraction(t) \/ ProbeVertex(t) \/ AdvanceVertex(t)
  \/ CheckSize(t) \/ StartContraction(t) \/ ResetClaims(t) \/ RaiseSubgraph(t)
=============================================================================
