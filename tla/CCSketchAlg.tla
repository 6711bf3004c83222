----------------------------- MODULE CCSketchAlg -----------------------------
(***************************************************************************)
(* The connectivity algorithm of src/cc_sketch_alg.cpp as its callers see  *)
(* it: stream threads run pre_insert, which keeps a union-find and a       *)
(* spanning forest up to date while no forest edge is deleted; workers     *)
(* apply the updates to the sketches later; and the caller queries between *)
(* two stretches of the stream.  A union is one step (DisjointSetUnionMT   *)
(* implements UnionFind) and so is the Boruvka emulation, whose result is  *)
(* what module Boruvka shows of it: any spanning forest of the sketched    *)
(* graph, or one that stops short where find_root splits a supernode.      *)
(***************************************************************************)
EXTENDS Connectivity, FiniteSets, Sequences

CONSTANTS
  StreamThread,
  Free,           \* the holder of a mutex nobody holds
  SaveCode,       \* the query codes given to prep_query before write_binary
  K,              \* the k of calc_disjoint_spanning_forests
  MaxUpdates      \* bound on the updates of the stream

ASSUME StreamAssumption ==
  /\ IsFiniteSet(StreamThread) /\ Free \notin StreamThread
  /\ SaveCode \subseteq {"CONNECTIVITY", "KSPANNINGFORESTS"}
  /\ K \in Nat /\ MaxUpdates \in Nat

VARIABLES
  graph,                 \* history: the edges updated an odd number of times
  gutters,               \* for each vertex, the updates on their way to its sketch
  sketches,              \* for each vertex, the edges its sketch holds
  dsu,                   \* for each vertex, the name of its set
  spanning_forest,
  spanning_forest_mtx,   \* for each vertex, the holder of its mutex
  dsu_valid, shared_dsu_valid, update_locked,
  pc, upd,               \* for each stream thread, its place in pre_insert and its edge
  phase,                 \* what the caller is doing
  SFs, todo,             \* calc_disjoint_spanning_forests: the forests, and those
                         \* whose edges have still to be deleted or inserted again
  before,                \* history: the graph when that call began
  updates,               \* history: the number of updates so far
  early,                 \* history: dsu or one of SFs is from an emulation that
                         \* ended with edges left to join its supernodes
  lost                   \* history: write_binary left updates behind in the gutters

eagerVars  == <<dsu, spanning_forest>>
validVars  == <<dsu_valid, shared_dsu_valid, early>>
threadVars == <<pc, upd, spanning_forest_mtx>>
peelVars   == <<SFs, todo, before>>
ccVars == <<graph, gutters, sketches, eagerVars, validVars, update_locked, threadVars,
            phase, peelVars, updates, lost>>

Singletons == [v \in Node |-> v]
NoEdges    == [v \in Node |-> {}]

(* A new algorithm: the answer for the empty graph is at hand.               *)
Init ==
  /\ graph = {} /\ gutters = NoEdges /\ sketches = NoEdges
  /\ dsu = Singletons /\ spanning_forest = {}
  /\ spanning_forest_mtx = [v \in Node |-> Free]
  /\ dsu_valid = TRUE /\ shared_dsu_valid = TRUE /\ update_locked = FALSE
  /\ pc = [t \in StreamThread |-> "idle"]
  /\ upd = [t \in StreamThread |-> <<0, 0>>]
  /\ phase = "stream" /\ SFs = <<>> /\ todo = <<>> /\ before = {}
  /\ updates = 0 /\ early = FALSE /\ lost = FALSE

Idle == \A t \in StreamThread : pc[t] = "idle"

Goto(t, place) == pc' = [pc EXCEPT ![t] = place]

-----------------------------------------------------------------------------
(* pre_insert, by a stream thread.                                           *)

(* The test of dsu_valid, read without a lock.                               *)
pre_insert(t, e) ==
  /\ phase = "stream" /\ pc[t] = "idle" /\ updates < MaxUpdates
  /\ updates' = updates + 1
  /\ upd' = [upd EXCEPT ![t] = e]
  /\ IF dsu_valid THEN Goto(t, "lock") /\ UNCHANGED graph
     ELSE Goto(t, "insert") /\ graph' = Toggle(graph, {e})
  /\ UNCHANGED <<gutters, sketches, eagerVars, validVars, update_locked,
                 spanning_forest_mtx, phase, peelVars, lost>>

LockForest(t) ==
  /\ pc[t] = "lock" /\ spanning_forest_mtx[upd[t][1]] = Free
  /\ spanning_forest_mtx' = [spanning_forest_mtx EXCEPT ![upd[t][1]] = t]
  /\ Goto(t, "merge")
  /\ UNCHANGED <<graph, gutters, sketches, eagerVars, validVars, update_locked, upd,
                 phase, peelVars, updates, lost>>

Unlock(t) == spanning_forest_mtx' = [spanning_forest_mtx EXCEPT ![upd[t][1]] = Free]

\* Mutant: the deletion of a forest edge goes unnoticed.
MergeEdgeOnly(t) ==
  LET e == upd[t]
  IN  /\ pc[t] = "merge"
      /\ graph' = Toggle(graph, {e})
      /\ dsu' = Union(dsu, e[1], e[2])
      /\ IF dsu[e[1]] # dsu[e[2]] THEN Goto(t, "link") /\ UNCHANGED spanning_forest_mtx
         ELSE Goto(t, "insert") /\ Unlock(t)
      /\ UNCHANGED <<gutters, sketches, spanning_forest, validVars, update_locked, upd,
                     phase, peelVars, updates, lost>>

(* dsu.merge, and the lookup in the forest that the mutex protects.          *)
MergeEdge(t) ==
  LET e == upd[t]
  IN  /\ pc[t] = "merge"
      /\ graph' = Toggle(graph, {e})
      /\ dsu' = Union(dsu, e[1], e[2])
      /\ IF dsu[e[1]] # dsu[e[2]] THEN Goto(t, "link") /\ UNCHANGED spanning_forest_mtx
         ELSE IF e \in spanning_forest THEN Goto(t, "invalidate") /\ UNCHANGED spanning_forest_mtx
         ELSE Goto(t, "insert") /\ Unlock(t)
      /\ UNCHANGED <<gutters, sketches, spanning_forest, validVars, update_locked, upd,
                     phase, peelVars, updates, lost>>

\* Mutant: returns with the mutex held.
AddToForestLocked(t) ==
  /\ pc[t] = "link"
  /\ spanning_forest' = spanning_forest \cup {upd[t]}
  /\ Goto(t, "insert")
  /\ UNCHANGED <<graph, gutters, sketches, dsu, validVars, update_locked, upd,
                 spanning_forest_mtx, phase, peelVars, updates, lost>>

AddToForest(t) ==
  /\ pc[t] = "link"
  /\ spanning_forest' = spanning_forest \cup {upd[t]}
  /\ Unlock(t) /\ Goto(t, "insert")
  /\ UNCHANGED <<graph, gutters, sketches, dsu, validVars, update_locked, upd, phase,
                 peelVars, updates, lost>>

Invalidate(t) ==
  /\ pc[t] = "invalidate"
  /\ dsu_valid' = FALSE
  /\ Goto(t, "share")
  /\ UNCHANGED <<graph, gutters, sketches, eagerVars, shared_dsu_valid, early, update_locked,
                 upd, spanning_forest_mtx, phase, peelVars, updates, lost>>

ShareInvalid(t) ==
  /\ pc[t] = "share"
  /\ shared_dsu_valid' = FALSE
  /\ Unlock(t) /\ Goto(t, "insert")
  /\ UNCHANGED <<graph, gutters, sketches, eagerVars, dsu_valid, early, update_locked, upd,
                 phase, peelVars, updates, lost>>

\* Mutant: an edge goes to the sketch of one end only.
OneHalf(f, e) == [f EXCEPT ![e[1]] = Toggle(@, {e})]

(* Both halves of an update.                                                 *)
Halves(f, e) == [f EXCEPT ![e[1]] = Toggle(@, {e}), ![e[2]] = Toggle(@, {e})]

(* The stream thread hands the update to the guttering system, one half      *)
(* after the other; the halves concern different sketches, and one step      *)
(* stands for both.                                                          *)
InsertGutter(t) ==
  /\ pc[t] = "insert"
  /\ gutters' = Halves(gutters, upd[t])
  /\ Goto(t, "idle") /\ upd' = [upd EXCEPT ![t] = <<0, 0>>]
  /\ UNCHANGED <<graph, sketches, eagerVars, validVars, update_locked,
                 spanning_forest_mtx, phase, peelVars, updates, lost>>

-----------------------------------------------------------------------------
(* apply_update_batch, by a worker: the delta sketch of a batch is merged    *)
(* into the sketch of its vertex under that sketch's mutex.                  *)
apply_update_batch(v, batch) ==
  /\ ~update_locked /\ batch \subseteq gutters[v] /\ batch # {}
  /\ sketches' = [sketches EXCEPT ![v] = Toggle(@, batch)]
  /\ gutters' = [gutters EXCEPT ![v] = @ \ batch]
  /\ UNCHANGED <<graph, eagerVars, validVars, update_locked, threadVars, phase,
                 peelVars, updates, lost>>

(* UpdateLockedException leaves the worker's thread: the program ends.       *)
UpdateLocked ==
  /\ update_locked /\ gutters # NoEdges /\ phase # "terminated"
  /\ phase' = "terminated"
  /\ UNCHANGED <<graph, gutters, sketches, eagerVars, validVars, update_locked,
                 threadVars, peelVars, updates, lost>>

-----------------------------------------------------------------------------
(* The caller's queries, made when the stream threads have been joined.      *)

Flushed == [v \in Node |-> Toggle(sketches[v], gutters[v])]

(* A flush that has updates to apply does not return while they are locked.  *)
CanFlush == update_locked => gutters = NoEdges

has_cached_query(code) == code = "CONNECTIVITY" /\ shared_dsu_valid

(* GraphSketchDriver::prep_query: with no cached answer the gutters are      *)
(* flushed and the workers done before it returns.                           *)
prep_query(code) ==
  /\ phase = "stream" /\ Idle
  /\ IF has_cached_query(code) THEN UNCHANGED <<gutters, sketches>>
     ELSE /\ CanFlush
          /\ gutters' = NoEdges /\ sketches' = Flushed
  /\ phase' = IF code = "CONNECTIVITY" THEN "query" ELSE "peel"
  /\ before' = graph
  /\ UNCHANGED <<graph, eagerVars, validVars, update_locked, threadVars, SFs, todo,
                 updates, lost>>

(* The graph the sketches describe, an edge by the sketches of its two ends. *)
Sketched == {e \in Edge : e \in sketches[e[1]] /\ e \in sketches[e[2]]}

(* boruvka_emulation: the union-find and the forest are built anew.  It ends  *)
(* with a round that joins nothing.  Then no edge leaves a supernode that    *)
(* was sampled whole; one of five or more vertices may have been sampled in  *)
(* parts, when find_root returned different vertices for its members, and    *)
(* its samples may all have led from one part to another.                    *)
boruvka_emulation ==
  /\ spanning_forest' \in SUBSET Sketched /\ Forest(spanning_forest')
  /\ dsu' \in [Node -> Node] /\ Named(dsu') /\ ComponentsOf(dsu', spanning_forest')
  /\ \A v \in Node : SoundRoots(dsu', v) => Cut(Sketched, SetOf(dsu', v)) = {}
  /\ early' = ((SFs # <<>> /\ early) \/ ~SpanningForestOf(spanning_forest', Sketched))
  /\ dsu_valid' = TRUE /\ shared_dsu_valid' = TRUE /\ update_locked' = FALSE

(* A sketch that is out of samples throws: what was found so far stays in    *)
(* the forest and the union-find, and nothing resets update_locked.          *)
BoruvkaThrows ==
  /\ spanning_forest' \in SUBSET Sketched /\ Forest(spanning_forest')
  /\ dsu' \in [Node -> Node] /\ Named(dsu') /\ ComponentsOf(dsu', spanning_forest')
  /\ update_locked' = TRUE
  /\ UNCHANGED validVars

(* connected_components, calc_spanning_forest and point_query; this last one *)
(* tests dsu_valid, which agrees with shared_dsu_valid between updates.      *)
connected_components ==
  /\ phase = "query" /\ phase' = "answered"
  /\ IF shared_dsu_valid THEN UNCHANGED <<eagerVars, validVars, update_locked>>
     ELSE boruvka_emulation
  /\ UNCHANGED <<graph, gutters, sketches, threadVars, peelVars, updates, lost>>

QueryThrows ==
  /\ phase = "query" /\ phase' = "stream"
  /\ ~shared_dsu_valid /\ BoruvkaThrows
  /\ UNCHANGED <<graph, gutters, sketches, threadVars, peelVars, updates, lost>>

Resume ==
  /\ phase \in {"answered", "peeled"} /\ phase' = "stream"
  /\ SFs' = <<>>
  /\ UNCHANGED <<graph, gutters, sketches, eagerVars, validVars, update_locked,
                 threadVars, todo, before, updates, lost>>

-----------------------------------------------------------------------------
(* update: pre_insert and both sketches, with nothing else running.          *)
Update(e) ==
  LET joins == dsu_valid /\ dsu[e[1]] # dsu[e[2]]
      spoils == dsu_valid /\ ~joins /\ e \in spanning_forest
  IN  /\ graph' = Toggle(graph, {e})
      /\ sketches' = Halves(sketches, e)
      /\ dsu' = IF joins THEN Union(dsu, e[1], e[2]) ELSE dsu
      /\ spanning_forest' = IF joins THEN spanning_forest \cup {e} ELSE spanning_forest
      /\ dsu_valid' = (dsu_valid /\ ~spoils)
      /\ shared_dsu_valid' = (shared_dsu_valid /\ ~spoils)
      /\ UNCHANGED early

(* update called by the program itself, which must not do so while workers   *)
(* have updates to apply.                                                    *)
update(e) ==
  /\ phase = "stream" /\ Idle /\ gutters = NoEdges /\ updates < MaxUpdates
  /\ updates' = updates + 1
  /\ Update(e)
  /\ UNCHANGED <<gutters, update_locked, threadVars, phase, peelVars, lost>>

(* calc_disjoint_spanning_forests: a forest is found and its edges deleted,  *)
(* K times over.                                                             *)
PeelForest ==
  /\ phase = "peel" /\ todo = <<>> /\ Len(SFs) < K
  /\ IF shared_dsu_valid THEN UNCHANGED <<eagerVars, validVars, update_locked>>
     ELSE boruvka_emulation
  /\ SFs' = Append(SFs, spanning_forest')
  /\ todo' = <<spanning_forest'>>
  /\ UNCHANGED <<graph, gutters, sketches, threadVars, phase, before, updates, lost>>

PeelThrows ==
  /\ phase = "peel" /\ todo = <<>> /\ Len(SFs) < K /\ ~shared_dsu_valid
  /\ BoruvkaThrows
  /\ phase' = "stream" /\ SFs' = <<>>
  /\ UNCHANGED <<graph, gutters, sketches, threadVars, todo, before, updates, lost>>

(* The edges are deleted one by one; later the forests' edges are inserted   *)
(* again, forest by forest.                                                  *)
UpdateForest(e) ==
  /\ phase \in {"peel", "restore"} /\ todo # <<>> /\ e \in Head(todo)
  /\ Update(e)
  /\ todo' = [todo EXCEPT ![1] = @ \ {e}]
  /\ UNCHANGED <<gutters, update_locked, threadVars, phase, SFs, before, updates, lost>>

NextForest ==
  /\ phase \in {"peel", "restore"} /\ todo # <<>> /\ Head(todo) = {}
  /\ todo' = Tail(todo)
  /\ phase' = IF phase = "restore" /\ Len(todo) = 1 THEN "peeled" ELSE phase
  /\ UNCHANGED <<graph, gutters, sketches, eagerVars, validVars, update_locked,
                 threadVars, SFs, before, updates, lost>>

\* Mutant: the first forest is not inserted again.
RestoreRest ==
  /\ phase = "peel" /\ todo = <<>> /\ Len(SFs) = K
  /\ todo' = Tail(SFs)
  /\ phase' = IF K <= 1 THEN "peeled" ELSE "restore"
  /\ UNCHANGED <<graph, gutters, sketches, eagerVars, validVars, update_locked,
                 threadVars, SFs, before, updates, lost>>

Restore ==
  /\ phase = "peel" /\ todo = <<>> /\ Len(SFs) = K
  /\ todo' = SFs
  /\ phase' = IF K = 0 THEN "peeled" ELSE "restore"
  /\ UNCHANGED <<graph, gutters, sketches, eagerVars, validVars, update_locked,
                 threadVars, SFs, before, updates, lost>>

-----------------------------------------------------------------------------
(* prep_query, write_binary, and a new process that starts from the file.    *)
Reheat(code) ==
  /\ phase = "stream" /\ Idle /\ (has_cached_query(code) \/ CanFlush)
  /\ sketches' = IF has_cached_query(code) THEN sketches ELSE Flushed
  /\ gutters' = NoEdges
  /\ dsu' = Singletons /\ spanning_forest' = {}
  /\ dsu_valid' = FALSE /\ shared_dsu_valid' = FALSE /\ update_locked' = FALSE
  /\ lost' = (lost \/ (has_cached_query(code) /\ gutters # NoEdges))
  /\ UNCHANGED <<graph, early, threadVars, phase, peelVars, updates>>

StreamStep(t) ==
  \/ LockForest(t) \/ MergeEdge(t) \/ AddToForest(t) \/ Invalidate(t)
  \/ ShareInvalid(t) \/ InsertGutter(t)

Next ==
  \/ \E t \in StreamThread : StreamStep(t) \/ \E e \in Edge : pre_insert(t, e)
  \/ \E v \in Node : \E batch \in SUBSET gutters[v] : apply_update_batch(v, batch)
  \/ UpdateLocked
  \/ \E code \in {"CONNECTIVITY", "KSPANNINGFORESTS"} : prep_query(code)
  \/ connected_components \/ QueryThrows \/ Resume
  \/ \E e \in Edge : update(e) \/ UpdateForest(e)
  \/ PeelForest \/ PeelThrows \/ NextForest \/ Restore
  \/ \E code \in SaveCode : Reheat(code)

Spec == Init /\ [][Next]_ccVars

(* A stream thread that has begun an update keeps running, and a mutex that  *)
(* is released again and again is acquired in the end.                       *)
Fairness == \A t \in StreamThread : WF_ccVars(StreamStep(t)) /\ SF_ccVars(LockForest(t))

FairSpec == Spec /\ Fairness

-----------------------------------------------------------------------------
(* Whenever the stream threads are at rest, a valid union-find and forest    *)
(* are exact for every update the stream has delivered, also those still in  *)
(* the gutters: this is what lets prep_query skip the flush and              *)
(* connected_components return at once, and what a query leaves behind.      *)
(* Except after an emulation that ended early, and for updates that          *)
(* write_binary has lost.                                                    *)
AnswerExact ==
  Idle /\ (shared_dsu_valid \/ phase = "answered") /\ ~early /\ ~lost =>
    ComponentsOf(dsu, graph) /\ SpanningForestOf(spanning_forest, graph)

(* Unless write_binary came before a flush, no update is lost or applied     *)
(* twice: with the stream threads at rest, the sketch of a vertex and what   *)
(* its gutter holds make up the vertex's edges.                              *)
SketchesExact ==
  Idle /\ ~lost => \A v \in Node : Toggle(sketches[v], gutters[v]) = Incident(graph, v)

(* calc_disjoint_spanning_forests returns forests each of which spans what   *)
(* the earlier ones left, and leaves the graph as it found it, with the same *)
(* exceptions.                                                               *)
ForestsPeeled ==
  phase = "peeled" /\ ~early /\ ~lost =>
    /\ graph = before /\ Len(SFs) = K
    /\ \A i \in 1 .. K :
         SpanningForestOf(SFs[i], before \ UNION {SFs[j] : j \in 1 .. i - 1})

(* pre_insert returns: no stream thread waits for ever for a mutex.          *)
UpdatesReturn == \A t \in StreamThread : pc[t] # "idle" ~> pc[t] = "idle"
=============================================================================
