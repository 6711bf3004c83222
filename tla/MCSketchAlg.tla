------------------------------ MODULE MCSketchAlg ------------------------------
(***************************************************************************)
(* The queries of the minimum-cut algorithm (src/mc_sketch_alg.cpp): a     *)
(* spanning forest of a sketched subgraph, and k disjoint ones, found by   *)
(* deleting each forest from the sketches before the next is computed and  *)
(* putting all of them back at the end.  OpenMP threads share out the      *)
(* sorted adjacency of the forest they delete.                             *)
(***************************************************************************)
EXTENDS FilterSFEdges, FiniteSetsExt

CONSTANTS
  Setups,        \* what a behaviour starts from: the edges of each subgraph and what the
                 \* edge store lists, the number of OpenMP threads, and bounds: queries,
                 \* and updates between them
  Updates,       \* the edges that may be updated, each with the last subgraph it is in
  num_samples,   \* the samples of a sketch
  k,             \* the number of disjoint forests asked for
  SampleFails    \* whether a sample of several edges may fail

ASSUME MCAssumption ==
  /\ num_samples \in Nat \ {0} /\ k \in Nat \ {0} /\ SampleFails \in BOOLEAN
  /\ \A s \in Setups : /\ \A g \in Level : g \in DOMAIN s.graph /\ s.graph[g] \subseteq Edge
                       /\ s.store \in Seq(Edge)
                       /\ s.num_threads \in Nat \ {0} /\ s.calls \in Nat /\ s.updates \in Nat
  /\ Updates \subseteq Edge \X Level

VARIABLES
  graph,            \* history: the edges of each subgraph
  store,            \* what get_edges of the edge store lists, whether or not it is exact
  calls, updates,   \* the queries and updates left
  sample_idx,       \* for each subgraph and vertex, the samples taken from its sketch
  update_locked, dsu, dsu_valid, spanning_forest,
  round, pending,   \* the round, and the supernodes not yet sampled in it
  modified, except, \* whether a sample of the round asks for another, or threw
  asked,            \* the query
  stale,            \* history: dsu_valid though a forest query left something else in dsu
  swallowed,        \* history: calc_spanning_forest caught an exception
  split             \* history: find_root split a supernode in an emulation of this query

graphVars   == <<graph, store, num_threads, updates>>
boruvkaVars == <<update_locked, dsu, spanning_forest, round, pending, modified, except, split>>
queryVars   == <<SFs, todo, phase, asked, graph_id, calls, dsu_valid, stale, swallowed>>
mcVars == <<graphVars, sketches, sample_idx, boruvkaVars, filterVars, queryVars>>

(* The stream has been ingested.  The constructor leaves dsu_valid unset.    *)
MCInit ==
  /\ \E s \in Setups : /\ graph = s.graph /\ store = s.store
                       /\ num_threads = s.num_threads
                       /\ calls = s.calls /\ updates = s.updates
  /\ sketches = [g \in Level |-> [v \in Node |-> Incident(graph[g], v)]]
  /\ sample_idx = [g \in Level |-> [v \in Node |-> 0]]
  /\ update_locked = FALSE /\ dsu = [v \in Node |-> v] /\ spanning_forest = {}
  /\ dsu_valid = FALSE /\ stale = FALSE
  /\ round = 0 /\ pending = {} /\ modified = FALSE /\ except = FALSE /\ split = FALSE
  /\ phase = "idle" /\ asked = "forest" /\ graph_id = 0 /\ swallowed = FALSE
  /\ SFs = <<>> /\ todo = 0 /\ FilterInit

-----------------------------------------------------------------------------
(* pre_insert: while the union-find holds an answer, it is kept up to date.  *)
pre_insert(e) ==
  IF dsu_valid /\ dsu[e[1]] # dsu[e[2]]
  THEN /\ dsu' = Union(dsu, e[1], e[2])
       /\ spanning_forest' = spanning_forest \cup {e}
       /\ UNCHANGED dsu_valid
  ELSE /\ dsu_valid' = (dsu_valid /\ e \notin spanning_forest)
       /\ UNCHANGED <<dsu, spanning_forest>>

(* An update between two queries, with the flush before the next one:        *)
(* MCGPUSketchAlg's apply_update_batch for both ends of the edge.  The       *)
(* subgraphs up to the edge's last one take it, unless update_locked makes   *)
(* the worker throw, which ends the program.                                 *)
apply_update_batch(e, last) ==
  /\ phase = "idle" /\ updates > 0 /\ updates' = updates - 1
  /\ pre_insert(e)
  /\ IF update_locked
     THEN phase' = "crashed" /\ UNCHANGED <<graph, sketches>>
     ELSE /\ graph' = [g \in DOMAIN graph |-> IF g <= last THEN Toggle(graph[g], {e}) ELSE graph[g]]
          /\ sketches' = [g \in Level |-> [v \in Node |->
               IF g <= last /\ v \in {e[1], e[2]} THEN Toggle(sketches[g][v], {e})
               ELSE sketches[g][v]]]
          /\ UNCHANGED phase
  /\ UNCHANGED <<store, num_threads, sample_idx, update_locked, round, pending, modified, except,
                 split, filterVars, SFs, todo, asked, graph_id, calls, stale, swallowed>>

-----------------------------------------------------------------------------
(* k_boruvka_emulation, and boruvka_emulation, up to the first round.        *)
StartEmulation ==
  /\ phase' = "emulate"
  /\ update_locked' = TRUE
  /\ dsu' = [v \in Node |-> v] /\ spanning_forest' = {}
  /\ round' = 0 /\ pending' = {{v} : v \in Node} /\ modified' = FALSE /\ except' = FALSE

Call(query, g) ==
  phase = "idle" /\ asked' = query /\ graph_id' = g

(* connected_components up to the emulation of Boruvka's algorithm on        *)
(* subgraph 0, which is left out if the union-find holds the answer.         *)
connected_components ==
  /\ Call("components", 0)
  /\ IF dsu_valid THEN phase' = "returned" /\ UNCHANGED boruvkaVars
                  ELSE StartEmulation /\ split' = FALSE
  /\ UNCHANGED <<graphVars, sketches, sample_idx, filterVars, SFs, todo, dsu_valid, stale, swallowed>>

(* point_query does the same before it compares two roots.                   *)
point_query == connected_components

calc_spanning_forest(g) ==
  /\ Call("forest", g)
  /\ StartEmulation /\ split' = FALSE
  /\ UNCHANGED <<graphVars, sketches, sample_idx, filterVars, SFs, todo, dsu_valid, stale, swallowed>>

calc_disjoint_spanning_forests(g) ==
  /\ Call("forests", g)
  /\ StartEmulation /\ split' = FALSE
  /\ UNCHANGED <<graphVars, sketches, sample_idx, filterVars, SFs, todo, dsu_valid, stale, swallowed>>

-----------------------------------------------------------------------------
(* The sketch of a supernode.  In round zero it is a vertex's own, sampled   *)
(* where that sketch's cursor stands, which only connected_components and    *)
(* point_query reset; later it is a sum made for the round, sampled at the   *)
(* round's number.                                                           *)
Sum(S) == {e \in Edge : Odd({v \in S : e \in sketches[graph_id][v]})}

Cursor(S) == IF round = 0 THEN sample_idx[graph_id][CHOOSE v \in S : TRUE] ELSE round

OutOfSamples(S) == Cursor(S) >= num_samples

Sampled(S) ==
  sample_idx' = [sample_idx EXCEPT ![graph_id] =
    [v \in Node |-> @[v] + IF round = 0 /\ v \in S THEN 1 ELSE 0]]

SampleThrows(S) ==
  /\ OutOfSamples(S)
  /\ except' = TRUE
  /\ UNCHANGED <<sample_idx, dsu, spanning_forest, modified>>

SampleZero(S) ==
  /\ ~OutOfSamples(S) /\ Sum(S) = {}
  /\ Sampled(S)
  /\ UNCHANGED <<dsu, spanning_forest, modified, except>>

SampleGood(S) ==
  /\ ~OutOfSamples(S)
  /\ Sampled(S)
  /\ \E e \in Sum(S) :
       IF dsu[e[1]] # dsu[e[2]]
       THEN /\ dsu' = Union(dsu, e[1], e[2])
            /\ spanning_forest' = spanning_forest \cup {e}
            /\ modified' = TRUE
       ELSE UNCHANGED <<dsu, spanning_forest, modified>>
  /\ UNCHANGED except

\* Mutant: a failed sample does not ask for another round.
SampleFailIgnored(S) ==
  /\ SampleFails /\ ~OutOfSamples(S) /\ Cardinality(Sum(S)) > 1
  /\ Sampled(S)
  /\ UNCHANGED <<dsu, spanning_forest, modified, except>>

SampleFail(S) ==
  /\ SampleFails /\ ~OutOfSamples(S) /\ Cardinality(Sum(S)) > 1
  /\ Sampled(S)
  /\ modified' = TRUE
  /\ UNCHANGED <<dsu, spanning_forest, except>>

(* perform_k_boruvka_round and perform_boruvka_round, run_k_round_zero and   *)
(* run_round_zero: every supernode of the round is sampled once, in any      *)
(* order; an exception does not stop the others.                             *)
sample_supernode(S) ==
  /\ phase = "emulate" /\ S \in pending
  /\ SampleThrows(S) \/ SampleZero(S) \/ SampleGood(S) \/ SampleFail(S)
  /\ pending' = pending \ {S}
  /\ UNCHANGED <<graphVars, sketches, update_locked, round, split, filterVars, queryVars>>

(* The end of a round that asks for another: the supernodes are the vertices *)
(* of one root, as each of the parallel calls of find_root returns it.       *)
create_merge_instructions ==
  /\ phase = "emulate" /\ pending = {} /\ modified /\ ~except
  /\ round' = round + 1 /\ modified' = FALSE
  /\ \E root \in [Node -> Node] :
       /\ \A v \in Node : root[v] \in Roots(dsu, v)
       /\ pending' = {SetOf(root, v) : v \in Node}
  /\ split' = (split \/ pending' # {SetOf(dsu, v) : v \in Node})
  /\ UNCHANGED <<graphVars, sketches, sample_idx, update_locked, dsu, spanning_forest,
                 except, filterVars, queryVars>>

-----------------------------------------------------------------------------
\* Mutant: the union-find is still taken for the answer.
StartFilterKept(F) == StartThreads(F) /\ UNCHANGED <<dsu_valid, stale>>

(* filter_sf_edges makes the union-find invalid first.                       *)
StartFilter(F) == StartThreads(F) /\ dsu_valid' = FALSE /\ stale' = FALSE

(* A forest is found, or the emulation threw, which calc_spanning_forest     *)
(* catches and drops; update_locked is then left set.                        *)
Emulated == phase = "emulate" /\ pending = {} /\ (except \/ ~modified)

LeaveEmulation ==
  /\ update_locked' = except
  /\ round' = 0 /\ modified' = FALSE /\ except' = FALSE

ForestFound ==
  /\ Emulated /\ asked # "components"
  /\ LeaveEmulation
  /\ swallowed' = (swallowed \/ except)
  /\ IF asked = "forest"
     THEN /\ phase' = "returned"
          /\ stale' = (dsu_valid /\ (graph_id # 0 \/ except))
          /\ UNCHANGED <<SFs, todo, dsu_valid, filterVars>>
     ELSE /\ phase' = "filter"
          /\ SFs' = Append(SFs, spanning_forest) /\ todo' = Len(SFs) + 1
          /\ StartFilter(spanning_forest)
  /\ UNCHANGED <<graphVars, sketches, sample_idx, dsu, spanning_forest, pending, split,
                 asked, graph_id, calls>>

(* boruvka_emulation ends, the sample cursors of subgraph 0 are reset, and   *)
(* an exception goes on to the caller.                                       *)
ComponentsFound ==
  /\ Emulated /\ asked = "components"
  /\ LeaveEmulation
  /\ dsu_valid' = ~except /\ stale' = FALSE
  /\ sample_idx' = [sample_idx EXCEPT ![0] = [v \in Node |-> 0]]
  /\ phase' = IF except THEN "thrown" ELSE "returned"
  /\ UNCHANGED <<graphVars, sketches, dsu, spanning_forest, pending, split, filterVars, SFs, todo,
                 asked, graph_id, calls, swallowed>>

-----------------------------------------------------------------------------
(* A step of a thread of filter_sf_edges.                                    *)
Filter(t) ==
  /\ filter_sf_edges(t)
  /\ UNCHANGED <<graph, store, updates, sample_idx, boruvkaVars, asked, calls, dsu_valid, stale, swallowed>>

LeaveFilter == LeaveThreads /\ UNCHANGED <<dsu_valid, stale>>

NextForest ==
  /\ Filtered /\ phase = "filter" /\ Len(SFs) < k
  /\ StartEmulation /\ UNCHANGED split
  /\ LeaveFilter
  /\ UNCHANGED <<graphVars, sketches, sample_idx, SFs, todo, asked, graph_id, calls, swallowed>>

\* Mutant: the forest deleted last is not put back.
RevertButLast ==
  /\ Filtered /\ (phase = "revert" \/ Len(SFs) = k)
  /\ LET n == IF phase = "filter" THEN 1 ELSE todo + 1
     IN  IF n < Len(SFs)
         THEN phase' = "revert" /\ todo' = n /\ StartFilter(SFs[n])
         ELSE phase' = "returned" /\ LeaveFilter /\ UNCHANGED todo
  /\ UNCHANGED <<graphVars, sketches, sample_idx, boruvkaVars, SFs, asked, graph_id, calls,
                 swallowed>>

(* All forests are found and deleted: they are put back, one after another.  *)
Revert ==
  /\ Filtered /\ (phase = "revert" \/ Len(SFs) = k)
  /\ LET n == IF phase = "filter" THEN 1 ELSE todo + 1
     IN  IF n <= Len(SFs)
         THEN phase' = "revert" /\ todo' = n /\ StartFilter(SFs[n])
         ELSE phase' = "returned" /\ LeaveFilter /\ UNCHANGED todo
  /\ UNCHANGED <<graphVars, sketches, sample_idx, boruvkaVars, SFs, asked, graph_id, calls,
                 swallowed>>

(* The caller has the answer, or the exception, and may ask again.           *)
Return ==
  /\ phase \in {"returned", "thrown"} /\ phase' = "idle"
  /\ SFs' = <<>> /\ todo' = 0
  /\ UNCHANGED <<graphVars, sketches, sample_idx, boruvkaVars, filterVars, asked, graph_id,
                 calls, dsu_valid, stale, swallowed>>

QueryStep ==
  \/ \E S \in pending : sample_supernode(S)
  \/ create_merge_instructions \/ ForestFound \/ ComponentsFound
  \/ NextForest \/ Revert

Queries ==
  \/ /\ calls > 0 /\ calls' = calls - 1
     /\ \/ connected_components \/ point_query
        \/ \E g \in Level : calc_spanning_forest(g) \/ calc_disjoint_spanning_forests(g)
  \/ Return
  \/ \E u \in Updates : apply_update_batch(u[1], u[2])

-----------------------------------------------------------------------------
(* The forests were properly found and deleted: no exception was dropped, no *)
(* supernode was split, each forest was deleted from all sketches, and       *)
(* nothing was read outside edges.                                           *)
Proper ==
  ~swallowed /\ ~split /\ ~outside /\ \A n \in DOMAIN SFs, v \in Node : Deletes(SFs[n], v)

(* calc_disjoint_spanning_forests returns a certificate of the cuts smaller  *)
(* than k: a cut of the subgraph has as many edges in the forests, or k.     *)
Certificate ==
  (phase = "returned" /\ asked = "forests" /\ Proper) =>
    LET found == UNION {SFs[n] : n \in DOMAIN SFs}
    IN  /\ found \subseteq graph[graph_id]
        /\ \A S \in SUBSET Node :
             Cardinality(Cut(found, S)) >= Min({k, Cardinality(Cut(graph[graph_id], S))})

(* A query leaves the sketches of all subgraphs as they were, even where it  *)
(* went wrong on the way: each forest is put back just as it was deleted.    *)
SketchesRestored ==
  (phase \in {"idle", "returned", "thrown"} /\ ~outside) =>
    \A g \in Level, v \in Node : sketches[g][v] = Incident(graph[g], v)

(* connected_components and point_query answer for the graph as it is,       *)
(* whether from an emulation or from the union-find that updates have kept   *)
(* up to date since, whatever forests were asked for in between.  Excepted   *)
(* are a union-find filled by an emulation that split a supernode, and a     *)
(* calc_spanning_forest of another subgraph, or one that dropped an          *)
(* exception, which leaves dsu_valid set over what it computed.              *)
AnswerCurrent ==
  (phase = "returned" /\ asked = "components" /\ ~stale /\ ~split /\ ~outside) =>
    ComponentsOf(dsu, graph[0])
=============================================================================
