# A TLA+ verification of GraphZeppelin

GraphZeppelin answers connectivity and minimum-cut queries on a graph given as
a stream of edge insertions and deletions. This directory keeps TLA+
specifications of its concurrent core next to the code, the TLC models that
check them and proofs that TLAPS checks. Paths are relative to the repository.

## The system

| Part | State | Operations | What is hard |
| --- | --- | --- | --- |
| Union-find (`include/dsu.h`) | `parent`, `priority` | `find_root`, `merge`, `reset` | no locks; threads halve the paths others are on |
| Query results (`src/return_types.cpp`) | `parent_arr`, `num_cc` | constructor, `is_connected`, `get_component_sets` | OpenMP threads share the union-find |
| Worker threads (`include/worker_thread_group.h`) | `do_pause`, `paused`, `shutdown` per worker, a condition variable | `do_work`, `flush_workers`, `resume_workers`, destructor | plain flags and one condition variable for two directions |
| Driver (`include/graph_sketch_driver.h`) | stream position, workers | `process_stream_until`, `prep_query`, destructor | queries must see every update, and no worker at work |
| Guttering system (external) | gutters, bounded queue, non-blocking mode | `insert`, `force_flush`, `get_data`, `get_data_callback`, `set_non_block` | a full queue blocks the stream |
| Edge store (`src/edge_store.cpp`) | a buffer per vertex, `cur_subgraph`, `true_min_subgraph`, claims | `insert_adj_edges`, `vertex_advance_subgraph`, `check_if_too_big` | contraction in small pieces by whichever threads come by |
| Minimum cut on the GPU (`src/mc_gpu_sketch_alg.cpp`) | sketch subgraphs, edge store | `apply_update_batch`, `complete_update_batch`, `apply_flush_updates` | a decision taken on a level of the store that then changes |
| Connectivity (`src/cc_sketch_alg.cpp`) | sketches, union-find, spanning forest, `dsu_valid`, `update_locked` | `pre_insert`, `apply_update_batch`, Boruvka rounds, queries | eager union-find against the sketches; parallel merges |
| Minimum-cut queries (`src/mc_sketch_alg.cpp`) | sketches per subgraph, their sample cursors, union-find, `dsu_valid` | `connected_components`, `point_query`, `calc_spanning_forest`, `filter_sf_edges`, `calc_disjoint_spanning_forests` | threads share out the adjacency of a forest to delete; samples are used up; queries share one union-find |
| Minimum-cut program (`tools/min_cut.cu`) | the subgraph reached | a loop of queries and cuts | which subgraph gives the answer |
| Sketch subgraph (`include/mc_gpu_sketch_alg.h`) | a gutter and a lock per vertex, CUDA streams | `batch_insert`, `flush` | a lock held while a stream is waited for |
| Updates applied at the end (`src/sk_gpu_sketch_alg.cpp`) | one array of updates, maps from batch ids | `apply_update_batch`, three launches | regions and ids are taken in separate atomic steps |
| CUDA streams (`include/cuda_stream.h`) | two buffers per stream | `process_batch`, `flush_buffers` | a copy in flight while its buffer is refilled |
| Sketches (`src/sketch.cpp`, `include/bucket.h`) | buckets, sample cursor | `update`, `merge`, `range_merge`, `sample` | linearity; a column may be sampled once |

The stream threads insert updates into the guttering system, which hands full
gutters as batches to the workers; these call the algorithm. A query flushes the
gutters, pauses the workers and runs on the sketches. The union-find is used
by the stream threads (eager queries), by the rounds of a query and by its result.

## Modules

* `UnionFind`: what a union-find promises, one atomic step per operation.
  `DisjointSetUnionMT`: `DisjointSetUnion_MT` with one step per atomic access;
  C++ does not fix the order of the operands of `!=`, nor does the model. The history
  variable `rep` records the partition; it changes only at a successful
  compare-exchange. It gives the refinement mapping to `UnionFind`
  (`INSTANCE UnionFind WITH rep <- rep`; constants and call variables have the same names).
* `ConnectedComponentsAnswer`: the parallel constructor of
  `ConnectedComponents` on top of `DisjointSetUnionMT`.
* `GutteringSystem` (external), `WorkerThreadGroup`, `GraphSketchDriver`: the
  last composes the other two. Each worker has a program counter through
  `do_work`; waiting on the condition variable is testing, blocking, being
  woken (by `notify_all` or spuriously) and retaking the mutex. The driver's thread has one
  through `flush_workers`, `resume_workers` and the destructor.
* `EdgeStoreBuffer`: the in-place merge of `insert_adj_edges` as a function.
  `VertexBuffer`: one vertex under a sequence of batches. `EdgeStore`: the
  store with all its threads; `get_edges` lists every entry of its buffers, also one that
  is there twice. A critical section is cut where it reads state its
  mutex does not protect. `MCGPUSketchAlg` composes it with the algorithm. A sketch is linear, so it is the
  set of edges applied to it an odd number of times.
* `Connectivity`: what linked, component and spanning forest mean, without recursion:
  two vertices are linked when no set closed under the edges separates them.
  `Boruvka`: `boruvka_emulation` with its OpenMP threads, from one barrier to the next: each
  thread walks its part of `merge_instr`, samples the supernodes that lie within
  it and adds up the others in `global_merges`; then come the steps of the counting sort
  in `create_merge_instructions`. `CCSketchAlg`: the algorithm around
  it. Stream threads run `pre_insert`, one step per access to shared state under or
  outside the mutex; workers apply batches at any time; the caller queries between
  stretches of the stream, and a query may throw. There the emulation is one step
  whose result is any forest such that no edge leaves a set of fewer than five vertices, as
  `Boruvka` gives it; on a small graph that is a spanning forest. `find_root`, called in
  parallel, may stop short of the root of a larger set (`Roots`, `SoundRoots` of
  `Connectivity`). Two history variables record what the properties except: `early`, an
  emulation that ended so, and `lost`, a `write_binary` with updates left in the gutters.
* `Sketch`: a sketch as buckets, each the set of indices added to it an odd number of times,
  with `update`, `range_merge`, `sample` and the kernels' way to build a delta sketch.
  `CudaStream`: the two halves of a host thread's buffer and the operations queued on its
  CUDA stream, which the GPU runs later and in order, reading the host's memory as it is
  then; with and without unified memory. `CCGPUSketchAlg`: workers that feed the streams,
  the flush, and samples of sums of sketches as a query takes them.
* `SKGPUSketchAlg`: the algorithm that only stores batches during the stream. A worker's
  `apply_update_batch` is four steps: the `fetch_add` that reserves a region, the copy,
  the `fetch_add` that takes an id, the inserts under the mutex. Then one of three launches
  builds the sketches. `SketchSubgraph`: the gutters between the minimum-cut algorithm and
  its CUDA streams, with the lock of a gutter that is kept while the full gutter is sent.
  Both extend `CCGPUSketchAlg`, whose streams they use; `GPUAlgorithms` is a program that
  runs any one of the three.
* `MCSketchAlg`: the minimum-cut algorithm's queries on the sketches of several subgraphs,
  with updates between them. A round samples each
  supernode once, in any order (`Boruvka` shows this of the same code in
  `cc_sketch_alg.cpp`); between rounds `create_merge_instructions` groups the vertices by what
  `find_root` returns, and the history variable `split` records that this was not the
  partition of the union-find. `FilterSFEdges`, which it extends, is `filter_sf_edges`, with a
  program counter per OpenMP thread: the test and loop for a vertex shared with the previous
  thread, those for the next, and the loop without a mutex. What is read outside the
  adjacency is any vertex of `Beyond`, or none. `MinCut` adds the loop of `tools/min_cut.cu`, which either runs alone or not at
  all, with the list of edges that the store returns; VieCut is the definition of a minimum cut.
* The other modules `MC*`: the instances for TLC. `*Proofs`: theorems.

Definitions that are marked as mutants are deliberately wrong variants; replacing the
definition that follows by one makes a property fail.

## Runs

| Run | Shows |
| --- | --- |
| `MCDisjointSetUnion` | acyclic, partition kept, refines `UnionFind`, joined sets stay joined, every call returns |
| `MCConnectedComponents` | the number of components is right, connected means connected |
| `MCConnectedComponentsChain` | *fails*: a component is split, see below |
| `MCGraphSketchDriver` | no batch is applied during a query, every update is applied at most once, the first flush returns and is complete |
| `MCVertexBuffer` | *fails*: a batch of two updates leaves the buffer unsorted, see below |
| `MCMCGPUSketchAlg` | one worker, two flush threads: sketches are exact, the store lists exactly the edges of its level an odd number of times, its count is the length of that list, and it begins at the level behind the last sketch |
| `MCMCGPUSketchAlgTwo` | two workers: contractions are accounted for, calls return |
| `MCMCGPUSketchAlgSketches` | *fails* with two workers, see below |
| `MCBoruvka` | each supernode is added up completely and sampled once a round; merge instructions are a permutation grouped by root; the forest is always a forest; at the return no edge leaves a set in which `find_root` is sound; the call ends |
| `MCCCSketchAlg` | a cached or computed answer is exact for every update delivered; no update is doubled, or lost but by `write_binary`; disjoint forests are peeled and put back; `pre_insert` returns |
| `MCGPUAlgorithms` | for each of the three algorithms, with and without unified memory: before a query the sketches are those of `Sketch::update`; stored batches are whole; samples of supernodes are sound; no thread waits for ever |
| `MCMinCut` | when exactly `filter_sf_edges` deletes a forest; no race on a sketch; properly deleted forests certify all cuts below `k`; the sketches come back as they were; cached components are current; the loop stops at the right subgraph and prints its cut, from a sketch or from a store without repeated edges; queries return |

Bounds. The union-find has 3 nodes, enough for a path to be halved while it is
linked, and 2 threads; priorities are all equal there (the id decides), and the
theorems cover the others. The constructor of the answer has 5 and 6 nodes, since a stale
test needs a path of four parents. The driver has 2 workers, a stream of 2 updates, 3 calls, so that a resume
follows a flush, and a queue of 1 slot, so that it fills up.
The edge store has 3 vertices, 3 edges of different depths and
`max_edges` of 1 or 2, so that every few updates start a contraction; `MaxBatches`
allows up to 6 batches, two contractions in a row. `MaxOverrun` bounds
how far a read past a batch goes. `needs_contraction` saturates one past
`num_vertices`, beyond which the code does not tell values apart.
The emulation has 4 vertices and 3 threads, so that a supernode spans several parts and a
thread has several supernodes, on graphs that need two or three rounds, and 3 samples, so
that it can run out of them. The algorithm has 3 vertices, hence cycles, 2 stream threads
and `MaxUpdates` of 4: an edge can join, be deleted from the forest and return, and
peeling finds two forests. The GPU has 2 host threads, 2 batches in a half and batches of 1 or 2 updates;
`MaxBatches` allows 5 batches straight to the streams, so that a stream swaps its halves twice and
flushes a half in part, and 4 when they are stored or go through gutters. `num_updates` of
3 gives an array of 6 positions, which those batches can fill. Gutters hold 2 updates, so a batch fills
one, goes past its end or stays for the flush (`SomeInserts`). Sketches have 2 samples of 2 columns of 2 buckets, with
hash depths that make samples collide, fail and succeed. The minimum-cut queries have 4
vertices, 2 sketched subgraphs and 1 in the store, `k` = 2 forests and 2 samples, and
five setups: a star with 4 threads and one call, since its center's run in the adjacency then holds
two bounds; a triangle with 2 threads, three calls of any kind and one update, so that
samples run out within a query and between queries and a cached answer is changed; and
three times the loop, which answers 1 * 2^1 from the second sketched subgraph (a path below a
cycle), 1 * 2^2 from the store (a path below two cycles), and 1 * 2^2, where the minimum
cut is 0, from a store that lists a deleted edge twice. One vertex of the store takes batches of up to 3
updates (`MaxBatch`) into a buffer of up to 5 (`MaxBuffer`).

Fairness. Each thread is scheduled (weak fairness), as OpenMP and the system do; one that waits for a mutex
gets it when it is free again and again, and a `compare_exchange_weak` that is
tried for ever succeeds (strong fairness). The GPU runs what is queued on each stream.
The main thread goes on with a launch, a flush or a query it has begun. Nothing is assumed of the
caller: that the stream goes on or that a query is asked.

## What the failing runs show

* `ConnectedComponents` stores what `find_root` returns under concurrent
  halving, which need not be a root: connected vertices are reported as separate.
* A contraction is declared complete when every vertex is claimed, not contracted. A worker
  claims vertex 0, whose buffer holds (0,2), and is overtaken before it contracts it; another
  ends the contraction and inserts (0,2) again, which goes to sketch 0 and to the old buffer, where it
  cancels the stored update. The late contraction finds the buffer empty: the first update
  is lost, and sketch 0 holds an edge that the graph does not.
* The merge of `insert_adj_edges` swaps a larger value of the buffer into the batch
  without keeping the batch in order. A buffer with one update of subgraph 1 and a batch of two updates
  of subgraph 0 end as 0, 1, 0, which the code's own test for `VERIFY_SAMPLES_F` refuses. An update
  may then miss the equal entry it should cancel, and `get_edges` lists a deleted edge twice. What
  survives is parity, and `StoreParity` claims no more.

Further disagreements met while modelling, which earlier instances of these models
reproduced but for which no run is kept: a worker told that the queue is empty just before `set_non_block(false)` may
act on it during the next flush, and `prep_query` returns with updates queued
(`FlushComplete` of `GraphSketchDriver` with 1 worker, 1 update, 3 calls, 2 slots); a worker still in its wait when the next flush
begins, since `resume_workers` cleared `paused` from outside, stays there without
reporting paused, and `flush_workers` polls for ever (`FlushReturns` of `GraphSketchDriver`
with 1 worker, 1 update, 3 calls); `flush_buffers_default` has no test of `first_buffer`,
so a stream that never filled a half applies uninitialized delta sketches to vertex 0
(`SketchesExact` and `SampleSound` except exactly this case); a second `flush_buffers`
applies batches again; built with `L0_SAMPLING`, CPU and GPU build different sketches
(`SketchesExact` with `L0_SAMPLING = TRUE`); the destructor of `WorkerThreadGroup` notifies
without the mutex, so the wake-up can be lost; an insert that chose its updates before a
contraction may read past its batch (`StoreParity` with two workers); `complete_update_batch`
initializes one subgraph where two may be missing, so that the store is ahead of the sketches
(`SubgraphReady` and `LevelsAgree` with two workers); `tools/min_cut.cu` cuts the store's list as it
is, and prints 4 instead of 0 where a deleted edge is listed twice (`MinCutAnswer` excepts
a store with repeated edges; the setup is in the run); `write_binary` after
`prep_query(CONNECTIVITY)` with a cached answer saves sketches that lack the updates
still in the gutters, in the order of calls of `test/cc_alg_test.cpp:110-122` (the exception
`lost` of `SketchesExact`, which the run reaches); the two call sites of `get_index_depth` cap the depth differently.

In `filter_sf_edges` both threads at a bound inside a vertex's run apply the whole run on
their side of it. With two, four, ... bounds in a run it is applied an even number of
times and the vertex keeps the edges, so the next forest may use them again and the
forests are not disjoint (`FilterEffect`; a star of 3 edges and 4 threads). At the ends of the adjacency
the loops read outside it. Every such failure needs three threads or more
(`FilterEffect`). `calc_spanning_forest` drops exceptions, and only `connected_components`
and `point_query` reset sample cursors, those of subgraph 0: once `num_samples` forests were computed
on a subgraph, each further one is empty, and `update_locked` stays set, so that the next
batch ends the program. `Certificate` and `MinCutAnswer` therefore speak of forests that
were properly found (`Proper`). `calc_spanning_forest` of a subgraph other than 0, or one that
dropped an exception, overwrites the union-find without clearing `dsu_valid`;
`connected_components` then returns what it left there (the exception `stale` of
`AnswerCurrent`; `filter_sf_edges` does clear the flag).

Two more were read off the code and are not in a model. The constructor of
`GraphSketchDriver` prints "Setting number of stream threads to 1" for a stream that is not
thread safe, but assigns its parameter, which hides the member of the same name
(`include/graph_sketch_driver.h:117`). And `tools/cuda_process_stream.cu` calls
`prep_query(CONNECTIVITY)`, which does not flush while the eager union-find is valid, and
then `flush_buffers`, while the workers may still be feeding the streams; the answer
comes from the union-find then, not from the sketches.

## Proofs

All theorems hold for any values of the constants that satisfy the named assumptions.

* `DisjointSetUnionProofs` (assumption `DSUAssumption`: nodes are `0..N-1`,
  priorities numbers). `DSUInv` adds to acyclicity and partition that each register of a
  running `find_root` is empty or holds a node of the set of its argument, above
  it: without that, the store of a stale grandparent could not be shown safe. From
  it follow `Acyclic`, `PartitionKept`, `LinkedStaysLinked` and the
  refinement `UnionFindSpec`. For `ConnectedComponentsAnswer`, `AnswerInv` says that a
  stored answer is in the set of its vertex, and is the vertex itself exactly for a root, and that `temp_cc`
  counts those. `find_root` climbs from its argument and a set's root is above its other
  vertices (`RootsOnTop`), so no other vertex is answered by itself: `ConnectedSound`, `SizeRight`.
* `IngestionProofs`, of the driver (`GroupAssumption`, `DriverAssumption`): types;
  `QuiescentInv`, which says where each worker is while its `paused` flag is set and what
  the driver may conclude; from it, that no batch is applied during a query.
  `PlaceInv` gives each update its one place, from which `UpdateOnce` follows by counting;
  `FirstInv` says that before the first flush no worker has found the queue empty, and that once
  the flush has queued the gutters, a worker past `get_data` has: `FirstFlushComplete`.
  Of `MCGPUSketchAlg` (`StoreAssumption`, `AlgAssumption`): `ContractionInv`. The invariant
  counts the threads about to end a contraction, and opens the claims from the reset of
  `needs_contraction` on, since a late thread may take the last claim before
  `cur_subgraph` is raised.

* `ConnectivityProofs`: what an edge does to components and forests, for any graph.
  `BoruvkaProofs` (`BoruvkaAssumption`): `ForestKept` at every step of the emulation. Its
  invariant adds that each local and global sketch holds edges of the graph only.
* `CCSketchAlgProofs` (`StreamAssumption`): `AnswerExact` and `SketchesExact`, which claim
  nothing after an update was `lost` by `write_binary` and, the first, after an emulation that
  ended `early`; `SmallGraphTheorem`: with fewer than five vertices none does. The invariant `CCInv` has to
  speak of the moments between two accesses: the forest together with the edges being
  linked is exact unless some thread is about to invalidate it; only the holder
  of a vertex's mutex is in the locked section; the two flags differ only
  while a thread is between the two assignments; and an edge's presence in
  sketch and gutter differs from the graph by the parity of the updates in flight.
  `PeelingInv` follows the forests of `calc_disjoint_spanning_forests` through
  the peeling and the restoring updates: `ForestsPeeled`.

* `GPUAlgorithmsProofs`, of `Sketch` (`SketchAssumption`): `update`, `range_merge` and
  `merge_raw_bucket_buffer` each add vectors, over the buckets a sample looks at
  (`Reflects`), and `SampleTheorem`: a sketch that reflects a vector answers ZERO iff the
  vector is zero, always finds a lone index and never returns an index outside the
  vector. The first good bucket is found by well-foundedness of `<`. The emulation relies on it.
  Of `SKGPUSketchAlg` (its `StoreAssumption`, `StreamAssumption`):
  `StoredWhole`, for every behaviour of `GPUAlgorithms`. The invariant `StoreInv` says that all
  regions lie below `edgeUpdate_offset` and apart from each other (`RegionsApart`), which makes the
  next reservation disjoint from them; that a region holds its batch from the copy on,
  not only once it is recorded (`RegionsFilled`); and that the ids below the counter are
  those of stored batches and of workers about to record one (`IdsTaken`). All other
  steps are shown to store nothing (`Quiet`).

* `FilterSFEdgesProofs` (`VertexAssumption`, `FilterAssumption`): what `filter_sf_edges` does, with any
  number of threads. The sorted adjacency lists each edge both ways and each vertex's run in one
  piece (`Positions`, `Contiguous`), and the bounds of the threads rise through it
  (`BoundsRise`). `ThreadInv` says for each place of a thread which positions are still its
  own; `MutexInv`, that a mutex is only held for a run split by one of its holder's
  bounds; `EffectInv`, that a position differs from `before` iff it was applied an odd
  number of times, which is counted by the bounds inside its run that the thread on
  its side has dealt with. `NoRace` and `FilterEffect` follow, and that one or two threads
  read nothing outside the adjacency (`TwoThreads`): the bound of two threads is in the middle,
  and no run is longer than half.
* `MinCutProofs` (also `MCAssumption`, `GraphsAssumption`): `NoRace`, `FilterEffect`,
  `SketchesRestored`, `AnswerCurrent` and `Certificate` for any graph, `k`, number of
  threads, forests, updates and queries. All follow from `MCInv`. `RestoreInv` describes
  the sketches in the middle of a query: an edge is there iff it is in the graph, but for the
  parity of the forests now deleted that hold it *and* that `filter_sf_edges` did delete; it
  needs no disjoint forests, so the sketches are restored also where deleting
  failed. `PeelInv` and `EmulationInv` say, for forests that were deleted, that each
  is a forest of what the earlier ones leave and, unless `split`, links all of it, since the sum of a
  supernode's sketches is its cut; `CertInv`, that `n` forests hold `n` edges of each cut
  or all of it; `ValidInv`, that a valid union-find is that of subgraph 0. After a read
  outside the adjacency `MCInv` claims nothing. `AnswerCurrent` and `Certificate` except queries in
  which `find_root` split a supernode, and `SmallGraphTheorem` says that with fewer than five
  vertices there are none.

`FiniteSetFacts` are the facts about finite sets and cardinality that these two modules need.
Their lemmas assume them, and `FactsHold` derives them at the end of `MinCutProofs`, where the
library's theorems are first in scope; the theorems assume nothing of the kind. `USE`
at the head of a module gives the order in which the provers are tried.

Checked by TLC only. The provers have no fairness reasoning, so liveness is. They have no
induction over data, so are `MinCutAnswer` (the value of a cut is a sum over a set), what the
merge computes (a recursive function of the buffer) and with it what the GPU
algorithm's sketches, store and count hold. For the exactness of the streams' sketches, and for
`QueryExact`, `InstructionsExact` and `SupernodesWhole` of the emulation's rounds, no inductive
invariant has been worked out.

## Limits of the models

* `Boruvka` and `FilterSFEdges` divide exactly where the code multiplies and rounds doubles. Evaluating the
  expressions of `get_ith_partition` shows that this differs for some sizes (25 vertices
  and 11 threads end at 26); and `Boruvka` assumes at most as many threads as vertices.
* `find_root` in `create_merge_instructions` runs in parallel and may stop short
  of the root in a set of five or more vertices. `Boruvka`, `CCSketchAlg` and `MCSketchAlg`
  allow it. `ForestKept` is proved for it, the other theorems except what follows from
  it, and the runs have at most four vertices, where it cannot happen. That a set of five is needed is read
  off `include/dsu.h`; `MCConnectedComponentsChain` shows the effect.
* `CCGPUSketchAlg` flushes once, after the last batch and a `prep_query` that flushed. One content stands
  for whatever uninitialized memory holds, the same in all delta sketches of a behaviour. A
  kernel is one step: its thread blocks write with atomic operations, or to
  delta sketches of their own.
* `SketchSubgraph` has one subgraph, since subgraphs share nothing; the contraction that
  moves edges into it is in `MCGPUSketchAlg`, where the way to a subgraph's sketches is a
  channel that delivers by the flush. Both together are out of TLC's reach.
* In `MCSketchAlg` an update reaches the sketches in one step, with the flush that
  precedes a query; the ways it takes there are those of the modules above. A read past
  the end of the adjacency adds at most one edge.
* A checksum never takes several edges for one. Without NDEBUG `range_merge` asserts where
  the model, like the release build, lets the next `sample` throw.
* `CCSketchAlg` is the default build (not `NO_EAGER_DSU`). Its flush is complete; what can
  go wrong with it is the subject of `GraphSketchDriver`. The value a query returns is
  copied from the union-find by `ConnectedComponentsAnswer`.
* `update` is not called while workers have updates of the same sketches, as its comment
  leaves to the caller.

## Not modelled

* Hashing, checksums and sizes computed in floating point: arithmetic, given as constants.
* The sharing of a kernel's work among the threads of a block, and
  `single_sketchUpdate_default_kernel`, whose only caller always has unified memory.
* `update_subgraph`, `apply_update_batch` and `apply_update_batch_single_graph` of
  `MCSketchAlg`, which nothing calls.
* `tools/k_connectivity.cu` and `tools/og_k_connectivity.cpp`: they include
  `k_connected_graph.h`, which is not in the repository.
* The serial union-find, configuration, the verifier, stream generators, converters,
  benchmarks and tests; VieCut, GraphStream and the guttering library are external.
