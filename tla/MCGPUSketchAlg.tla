---------------------------- MODULE MCGPUSketchAlg ----------------------------
(***************************************************************************)
(* The minimum-cut algorithm's ingestion (src/mc_gpu_sketch_alg.cpp): each *)
(* update of an edge goes to the sketch subgraphs 0 .. depth of the edge   *)
(* that exist, and to the edge store if the edge is deep enough.  The      *)
(* sketch of a subgraph is linear: it is modelled by the set of edges that *)
(* were applied to it an odd number of times.  The way from                *)
(* complete_update_batch to the sketch (gutters, CUDA streams) only delays *)
(* updates, which apply_flush_updates forces out.                          *)
(***************************************************************************)
EXTENDS EdgeStore

CONSTANTS
  RawDepth,       \* for each <<src, dst>>, the uncapped depth of the edge's hash
  Batches,        \* the batches <<src, dsts>> the guttering system may hand over
  BatchWorker,    \* the threads that get batches from the work queue
  MaxBatches      \* bound: batches handed over in a behaviour

VARIABLES
  cur_subgraphs,  \* the number of initialized sketch subgraphs
  sketch,         \* for each subgraph, the edges applied an odd number of times
  graph,          \* history: the edges with an odd number of updates
  batches,        \* history: the number of batches handed over
  flushing        \* apply_flush_updates is running

algVars == <<cur_subgraphs, sketch, graph, batches, flushing>>
allVars == <<storeVars, algVars>>

ASSUME AlgAssumption == BatchWorker \subseteq Thread /\ MaxBatches \in Nat

Level == 0 .. num_subgraphs + 1

AlgInit ==
  /\ StoreInit
  /\ cur_subgraphs = start_subgraph
  /\ sketch = [g \in Level |-> {}]
  /\ graph = {} /\ batches = 0 /\ flushing = FALSE

Flip(S, T) == (S \ T) \cup (T \ S)

Smaller(a, b) == IF a < b THEN a ELSE b

(* get_index_depth with its two caps: the vector overload of insert_adj_edges *)
(* passes num_subgraphs, apply_update_batch passes num_subgraphs - 1.        *)
StoreTag(src, d)  == <<Smaller(RawDepth[<<src, d>>], num_subgraphs), d>>
SketchTag(src, d) == <<Smaller(RawDepth[<<src, d>>], num_subgraphs - 1), d>>

(* apply_update_batch up to its call of insert_adj_edges: the first level of  *)
(* the store is read once and decides where the updates go.                  *)
apply_update_batch(t, src, dsts) ==
  LET first   == cur_subgraph
      sketched == [k \in DOMAIN dsts |-> SketchTag(src, dsts[k])]
      Stored(d) == d[1] >= first
      updates == IF first = 0 THEN [k \in DOMAIN dsts |-> StoreTag(src, dsts[k])]
                 ELSE SelectSeq(sketched, Stored)
  IN  /\ pc[t] = "idle" /\ ~flushing /\ batches < MaxBatches
      /\ batches' = batches + 1
      /\ graph' = Flip(graph, {<<src, d>> : d \in Odd(dsts)})
      /\ more_upds' = [more_upds EXCEPT ![t] =
           IF first = 0 THEN <<>>
           ELSE <<[src |-> src, min_subgraph |-> 0, first_es_subgraph |-> first,
                   dsts_data |-> sketched]>>]
      /\ op' = [op EXCEPT ![t] = [NoOp EXCEPT !.src = src, !.caller = first,
                                              !.updates = SortSeq(updates, Less)]]
      /\ Goto(t, IF updates = <<>> THEN "complete" ELSE "lock")
      /\ UNCHANGED <<levels, storeData, vertex_contracted, locks, first_es,
                     cur_subgraphs, sketch, flushing>>

(* The edges of a batch that complete_update_batch inserts into subgraph g.   *)
InsertedInto(batch, g) ==
  IF batch.min_subgraph <= g /\ g < batch.first_es_subgraph
  THEN LET Reaches(d) == d[1] >= g
       IN  {<<batch.src, d[2]>> : d \in Odd(SelectSeq(batch.dsts_data, Reaches))}
  ELSE {}

\* Mutant: the subgraph is initialized one level late.
complete_late(t) ==
  /\ pc[t] = "complete" /\ more_upds[t] # <<>>
  /\ LET batch == Head(more_upds[t])
     IN  /\ cur_subgraphs' = IF batch.first_es_subgraph > cur_subgraphs + 1
                             THEN cur_subgraphs + 1 ELSE cur_subgraphs
         /\ sketch' = [g \in Level |-> Flip(sketch[g], InsertedInto(batch, g))]
  /\ more_upds' = [more_upds EXCEPT ![t] = Tail(@)]
  /\ UNCHANGED <<levels, storeData, vertex_contracted, locks, pc, op, first_es,
                 graph, batches, flushing>>

(* complete_update_batch: initialize one more subgraph if the store has       *)
(* contracted past the last one, then insert the updates into the subgraphs. *)
complete_update_batch(t) ==
  /\ pc[t] = "complete" /\ more_upds[t] # <<>>
  /\ LET batch == Head(more_upds[t])
     IN  /\ cur_subgraphs' = IF batch.first_es_subgraph > cur_subgraphs
                             THEN cur_subgraphs + 1 ELSE cur_subgraphs
         /\ sketch' = [g \in Level |-> Flip(sketch[g], InsertedInto(batch, g))]
  /\ more_upds' = [more_upds EXCEPT ![t] = Tail(@)]
  /\ UNCHANGED <<levels, storeData, vertex_contracted, locks, pc, op, first_es,
                 graph, batches, flushing>>

(* Both batches are completed: apply_update_batch returns; a flush thread     *)
(* starts its next round.                                                    *)
Completed(t) ==
  /\ pc[t] = "complete" /\ more_upds[t] = <<>>
  /\ Goto(t, IF flushing THEN "flush" ELSE "idle")
  /\ op' = [op EXCEPT ![t] = NoOp]
  /\ first_es' = [first_es EXCEPT ![t] = 0]
  /\ UNCHANGED <<levels, storeData, vertex_contracted, locks, more_upds, algVars>>

-----------------------------------------------------------------------------
(* apply_flush_updates, called while the workers are paused: every host       *)
(* thread advances vertices until no contraction is under way.               *)
apply_flush_updates ==
  /\ ~flushing /\ \A t \in Thread : pc[t] = "idle"
  /\ flushing' = TRUE
  /\ pc' = [t \in Thread |-> "flush"]
  /\ UNCHANGED <<levels, storeData, vertex_contracted, locks, op, first_es,
                 more_upds, cur_subgraphs, sketch, graph, batches>>

FlushRound(t) ==
  /\ pc[t] = "flush"
  /\ \/ /\ contract_in_progress
        /\ first_es' = [first_es EXCEPT ![t] = cur_subgraph]
        /\ Goto(t, "claim")
     \/ /\ ~contract_in_progress
        /\ Goto(t, "joined")
        /\ UNCHANGED first_es
  /\ UNCHANGED <<levels, storeData, vertex_contracted, locks, op, more_upds, algVars>>

FlushDone ==
  /\ flushing /\ \A t \in Thread : pc[t] = "joined"
  /\ flushing' = FALSE
  /\ pc' = [t \in Thread |-> "idle"]
  /\ UNCHANGED <<levels, storeData, vertex_contracted, locks, op, first_es,
                 more_upds, cur_subgraphs, sketch, graph, batches>>

-----------------------------------------------------------------------------
HostThread(t) ==
  \/ StoreStep(t) /\ UNCHANGED algVars
  \/ complete_update_batch(t) \/ Completed(t) \/ FlushRound(t)

AlgNext ==
  \/ \E t \in BatchWorker, b \in Batches : apply_update_batch(t, b[1], b[2])
  \/ \E t \in Thread : HostThread(t)
  \/ apply_flush_updates
  \/ FlushDone

AlgSpec == AlgInit /\ [][AlgNext]_allVars

(* The operating system runs every thread.  A thread that waits for a mutex   *)
(* gets it if it is free again and again.                                    *)
AlgFairness ==
  /\ \A t \in Thread : SF_allVars(HostThread(t))
  /\ WF_allVars(FlushDone)

AlgFairSpec == AlgSpec /\ AlgFairness

-----------------------------------------------------------------------------
Steps == {"idle", "lock", "merge", "after", "claim", "bump", "probe", "advance",
          "check", "start", "reset", "raise", "complete", "flush", "joined"}

Bumping == {t \in Thread : pc[t] = "bump"}

(* Vertices may be claimed: from the reset of needs_contraction, just before  *)
(* cur_subgraph is raised, to the raise of true_min_subgraph.                *)
Open == contract_in_progress \/ \E t \in Thread : pc[t] = "raise"

(* The accounting of a contraction: true_min_subgraph is at most one level    *)
(* behind cur_subgraph and never ahead; while vertices may be claimed either *)
(* some claim is left or exactly one thread is about to end the contraction, *)
(* even when threads late from the previous one take claims of this one.     *)
ContractionInv ==
  /\ true_min_subgraph <= cur_subgraph /\ cur_subgraph <= true_min_subgraph + 1
  /\ start_subgraph <= true_min_subgraph
  /\ \A t \in Thread : pc[t] \in {"reset", "raise"} <=> contract_lock = t
  /\ contract_lock # NoThread => ~contract_in_progress
  /\ \A t, u \in Bumping : t = u
  /\ Bumping # {} => Open /\ needs_contraction > num_vertices
  /\ Open => needs_contraction <= num_vertices \/ Bumping # {}
  /\ ~Open => needs_contraction > num_vertices \/ cur_subgraph = start_subgraph
  /\ \A t \in Thread :
       /\ first_es[t] <= cur_subgraph
       /\ pc[t] \in {"claim", "probe"} => cur_subgraph > start_subgraph

AllJoined == \A t \in Thread : pc[t] = "joined"

(* The edges a subgraph is made of.                                          *)
InSubgraph(g) == {e \in graph : RawDepth[e] >= g}

(* After apply_flush_updates the sketches below the store's first level hold  *)
(* exactly the edges of their subgraphs.                                     *)
SketchesExact ==
  AllJoined => \A g \in Level : g < cur_subgraph => sketch[g] = InSubgraph(g)

(* get_edges: every entry of every buffer, vertex after vertex.              *)
get_edges ==
  LET edges[n \in 0 .. num_vertices] ==
        IF n = 0 THEN <<>>
        ELSE edges[n - 1] \o [i \in DOMAIN adjlist[n - 1] |-> <<n - 1, adjlist[n - 1][i][2]>>]
  IN  edges[num_vertices]

(* After apply_flush_updates get_edges lists each edge of the store's first   *)
(* level an odd number of times and any other edge an even number, zero or   *)
(* more: no contraction loses or invents an update.  That it lists an edge   *)
(* once and a deleted edge not at all is more than the merge achieves when   *)
(* batches hold several updates (VertexBuffer!BufferSorted).                 *)
StoreParity == AllJoined => Odd(get_edges) = InSubgraph(cur_subgraph)

(* num_edges is the number of entries in the buffers.                        *)
NumEdgesRight == num_edges = Len(get_edges)

(* get_num_sketch_graphs: what tools/min_cut.cu takes for the store's first   *)
(* level when it answers from the store.                                     *)
get_num_sketch_graphs == cur_subgraphs

(* After apply_flush_updates it is that level: for every contraction some     *)
(* call of complete_update_batch has initialized the subgraph the store left. *)
LevelsAgree == AllJoined => get_num_sketch_graphs = cur_subgraph

(* A sketch subgraph is only touched once it is initialized ("do this last so *)
(* that threads only touch params/sketches when initialized").               *)
SubgraphReady ==
  [][\A g \in Level : sketch'[g] # sketch[g] => g < cur_subgraphs']_allVars

(* Every call of apply_update_batch returns, and so does apply_flush_updates. *)
CallsReturn ==
  /\ \A t \in BatchWorker : pc[t] = "lock" ~> pc[t] = "idle"
  /\ flushing ~> ~flushing
=========================
