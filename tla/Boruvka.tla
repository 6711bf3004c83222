------------------------------- MODULE Boruvka -------------------------------
(***************************************************************************)
(* boruvka_emulation of src/cc_sketch_alg.cpp: rounds in which OpenMP      *)
(* threads add up the sketches of each supernode, sample an edge that      *)
(* leaves it and join the two sides, and between the rounds a parallel     *)
(* counting sort that lays out the supernodes for the next one.  A sketch  *)
(* is the set of edges it holds, so adding two is their exclusive or; a    *)
(* union is one step (DisjointSetUnionMT implements UnionFind).            *)
(***************************************************************************)
EXTENDS Connectivity, Sequences, FiniteSets

CONSTANTS
  num_threads,
  num_samples,    \* the samples a sketch holds, one for each round
  InputGraph      \* the graphs the sketches may hold

Thread == 0 .. num_threads - 1

ASSUME BoruvkaAssumption ==
  /\ num_threads \in 1 .. num_vertices
  /\ num_samples \in Nat \ {0}
  /\ InputGraph \in SUBSET SUBSET Edge

VARIABLES
  graph,                  \* what the sketches hold
  dsu,                    \* for each vertex, the root of its set
  spanning_forest,
  merge_instr,            \* position -> [root, child]
  cur_round, modified, except,
  stage,                  \* the parallel region that runs, or how the call ended
  pc, idx,                \* for each thread, its place and its position in merge_instr
  local_sketch, root_from_left,
  global_merges,          \* for each thread, [sketch, needed, done]
  local_ccs, local_cc_idx,\* create_merge_instructions: for each thread, its
  cc_prefix,              \* children by root, and where they start among the root's
  sampled                 \* history: for each root, the samples of it in this round

roundVars  == <<modified, except>>
threadVars == <<pc, idx, local_sketch, root_from_left, global_merges>>
instrVars  == <<local_ccs, local_cc_idx, cc_prefix>>
bVars == <<graph, dsu, spanning_forest, merge_instr, cur_round, roundVars, stage,
           threadVars, instrVars, sampled>>

(* get_ith_partition: thread t has the positions First(t) .. End(t) - 1.      *)
First(t) == (num_vertices * t + num_threads - 1) \div num_threads
End(t)   == First(t + 1)

get_partition_idx(i) == (i * num_threads) \div num_vertices

Unset == num_vertices + 1     \* num_merge_needed = -1, the largest size_t
NoGlobal == [sketch |-> {}, needed |-> Unset, done |-> 0]
NoCounts == [v \in Node |-> 0]
NoCcs    == [t \in Thread |-> [v \in Node |-> <<>>]]
Uncounted == -1

Init ==
  /\ graph \in InputGraph
  /\ dsu = [v \in Node |-> v] /\ spanning_forest = {}
  /\ merge_instr = [v \in Node |-> [root |-> v, child |-> v]]
  /\ cur_round = 0 /\ modified = FALSE /\ except = FALSE
  /\ stage = "round"
  /\ pc = [t \in Thread |-> "run"] /\ idx = [t \in Thread |-> First(t)]
  /\ local_sketch = [t \in Thread |-> {}]
  /\ root_from_left = [t \in Thread |-> FALSE]
  /\ global_merges = [t \in Thread |-> NoGlobal]
  /\ local_ccs = NoCcs
  /\ local_cc_idx = [t \in Thread |-> [v \in Node |-> Uncounted]] /\ cc_prefix = NoCounts
  /\ sampled = NoCounts

Goto(t, place) == pc' = [pc EXCEPT ![t] = place]

-----------------------------------------------------------------------------
(* Sketch::sample: nothing is left of an empty sketch, a single edge is      *)
(* always found, and of several edges any one may be found or none.          *)
Samples(skt) ==
  CASE skt = {}              -> {<<"ZERO", <<0, 0>>>>}
    [] Cardinality(skt) = 1  -> {<<"GOOD", e>> : e \in skt}
    [] OTHER                 -> {<<"GOOD", e>> : e \in skt} \cup {<<"FAIL", <<0, 0>>>>}

\* Mutant: the edge is kept whether or not it joined two sets.
FoundAlways(e) ==
  /\ dsu' = Join(dsu, dsu[e[1]], dsu[e[2]])
  /\ spanning_forest' = spanning_forest \cup {e}
  /\ modified' = (modified \/ dsu[e[1]] # dsu[e[2]])

(* An edge between two sets joins them, either root becoming the other's.    *)
Found(e) ==
  LET v == dsu[e[1]]
      w == dsu[e[2]]
  IN  IF v = w THEN UNCHANGED <<dsu, spanning_forest, modified>>
      ELSE /\ dsu' \in {Join(dsu, v, w), Join(dsu, w, v)}
           /\ spanning_forest' = spanning_forest \cup {e}
           /\ modified' = TRUE

\* Mutant: a sample that fails does not call for another round.
SampleFailIgnored(root, skt) ==
  /\ sampled' = [sampled EXCEPT ![root] = @ + 1]
  /\ UNCHANGED except
  /\ \E s \in Samples(skt) :
       IF s[1] = "GOOD" THEN Found(s[2]) ELSE UNCHANGED <<dsu, spanning_forest, modified>>

sample_supernode(root, skt) ==
  /\ sampled' = [sampled EXCEPT ![root] = @ + 1]
  /\ IF cur_round >= num_samples
     THEN except' = TRUE /\ UNCHANGED <<dsu, spanning_forest, modified>>
     ELSE /\ UNCHANGED except
          /\ \E s \in Samples(skt) :
               \/ s[1] = "ZERO" /\ UNCHANGED <<dsu, spanning_forest, modified>>
               \/ s[1] = "FAIL" /\ modified' = TRUE /\ UNCHANGED <<dsu, spanning_forest>>
               \/ s[1] = "GOOD" /\ Found(s[2])

-----------------------------------------------------------------------------
(* perform_boruvka_round                                                     *)

(* The positions from i on, within the thread's part, that have i's root.    *)
Run(t, i) ==
  {j \in i .. End(t) - 1 : \A k \in i .. j : merge_instr[k].root = merge_instr[i].root}

(* range_merge of the sketches of these positions.                           *)
SketchOf(positions) ==
  {e \in graph : Cardinality({j \in positions : merge_instr[j].child \in {e[1], e[2]}}) % 2 = 1}

RootAt(t) == merge_instr[idx[t]].root

Exits(t) == End(t) < num_vertices /\ merge_instr[End(t) - 1].root = merge_instr[End(t)].root

find_last_partition_of_root(root) ==
  LET last == CHOOSE j \in Node : /\ merge_instr[j].root = root
                                  /\ \A k \in j + 1 .. num_vertices - 1 : merge_instr[k].root # root
  IN  get_partition_idx(last)

(* The thread's next root reaches from its run's start to its end.           *)
Last(t) == End(t) - 1 \in Run(t, idx[t])

Global(t) == IF Last(t) THEN find_last_partition_of_root(RootAt(t)) ELSE t

(* The thread has dealt with a root and goes on to the next.                 *)
Advance(t) ==
  LET next == idx[t] + Cardinality(Run(t, idx[t]))
  IN  /\ idx' = [idx EXCEPT ![t] = next]
      /\ Goto(t, IF next = End(t) THEN "wait" ELSE "run")
      /\ local_sketch' = [local_sketch EXCEPT ![t] = {}]
      /\ root_from_left' = [root_from_left EXCEPT ![t] = FALSE]

(* run_round_zero: every vertex is a supernode and samples its own sketch.   *)
run_round_zero(t) ==
  /\ stage = "round" /\ cur_round = 0 /\ pc[t] = "run"
  /\ sample_supernode(idx[t], Incident(graph, idx[t]))
  /\ Advance(t)
  /\ UNCHANGED <<graph, merge_instr, cur_round, stage, global_merges, instrVars>>

(* The sketches of a root are added up; all of it lies in this thread's part, *)
(* and the thread samples it by itself.                                      *)
QueryLocal(t) ==
  /\ stage = "round" /\ cur_round > 0 /\ pc[t] = "run"
  /\ ~root_from_left[t] /\ ~(Last(t) /\ Exits(t))
  /\ sample_supernode(RootAt(t), SketchOf(Run(t, idx[t])))
  /\ Advance(t)
  /\ UNCHANGED <<graph, merge_instr, cur_round, stage, global_merges, instrVars>>

\* Mutant: the first thread does not count itself.
AddUpWithoutSelf(t) ==
  /\ stage = "round" /\ cur_round > 0 /\ pc[t] = "run"
  /\ root_from_left[t] \/ (Last(t) /\ Exits(t))
  /\ local_sketch' = [local_sketch EXCEPT ![t] = SketchOf(Run(t, idx[t]))]
  /\ global_merges' = IF root_from_left[t] THEN global_merges
                      ELSE [global_merges EXCEPT ![Global(t)].needed = Global(t) - t]
  /\ Goto(t, "merge")
  /\ UNCHANGED <<graph, dsu, spanning_forest, merge_instr, cur_round, roundVars, stage,
                 idx, root_from_left, instrVars, sampled>>

(* A part of the root lies with other threads.  The first of them says how   *)
(* many there are.                                                           *)
AddUp(t) ==
  /\ stage = "round" /\ cur_round > 0 /\ pc[t] = "run"
  /\ root_from_left[t] \/ (Last(t) /\ Exits(t))
  /\ local_sketch' = [local_sketch EXCEPT ![t] = SketchOf(Run(t, idx[t]))]
  /\ global_merges' = IF root_from_left[t] THEN global_merges
                      ELSE [global_merges EXCEPT ![Global(t)].needed = Global(t) - t + 1]
  /\ Goto(t, "merge")
  /\ UNCHANGED <<graph, dsu, spanning_forest, merge_instr, cur_round, roundVars, stage,
                 idx, root_from_left, instrVars, sampled>>

(* The last to add its part to the global sketch g samples it.               *)
merge_global(t, g) ==
  LET global == global_merges[g]
      done == global.done + 1
  IN  /\ stage = "round" /\ pc[t] = "merge" /\ g = Global(t)
      /\ global_merges' = [global_merges EXCEPT ![g] =
           [sketch |-> Toggle(global.sketch, local_sketch[t]),
            needed |-> global.needed, done |-> done]]
      /\ IF done >= global.needed
         THEN Goto(t, "query") /\ UNCHANGED <<idx, local_sketch, root_from_left>>
         ELSE Advance(t)
      /\ UNCHANGED <<graph, dsu, spanning_forest, merge_instr, cur_round, roundVars,
                     stage, instrVars, sampled>>

QueryGlobal(t, g) ==
  /\ stage = "round" /\ pc[t] = "query" /\ g = Global(t)
  /\ sample_supernode(RootAt(t), global_merges[g].sketch)
  /\ Advance(t)
  /\ UNCHANGED <<graph, merge_instr, cur_round, stage, global_merges, instrVars>>

-----------------------------------------------------------------------------
(* find_root called while other threads halve the same paths: in a set of    *)
(* fewer than five vertices no path is long enough for it to stop short of   *)
(* the root (ConnectedComponentsAnswer), in a larger one it may.             *)
find_root(v) == Roots(dsu, v)

(* The round is over when all threads are.  Without an exception and with    *)
(* something modified the threads go on to create_merge_instructions, each   *)
(* grouping the children of its part by root.                                *)
EndRound ==
  /\ stage = "round" /\ \A t \in Thread : pc[t] = "wait"
  /\ IF ~except /\ modified
     THEN /\ stage' = "count"
          /\ \E root \in [Node -> Node] :
               /\ \A v \in Node : root[v] \in find_root(v)
               /\ local_ccs' = [t \in Thread |-> [r \in Node |->
                    LET part  == [k \in 1 .. End(t) - First(t) |-> merge_instr[First(t) + k - 1].child]
                        In(v) == root[v] = r
                    IN  SelectSeq(part, In)]]
          /\ local_cc_idx' = [t \in Thread |-> [v \in Node |-> Uncounted]]
          /\ cc_prefix' = NoCounts
     ELSE /\ stage' = IF except THEN "thrown" ELSE "done"
          /\ UNCHANGED instrVars
  /\ UNCHANGED <<graph, dsu, spanning_forest, merge_instr, cur_round, roundVars,
                 threadVars, sampled>>

Uncaptured(t, r) == local_ccs[t][r] # <<>> /\ local_cc_idx[t][r] = Uncounted

(* The atomic capture: t reserves room for its children of r.                *)
Capture(t, r) ==
  /\ stage = "count" /\ Uncaptured(t, r)
  /\ local_cc_idx' = [local_cc_idx EXCEPT ![t][r] = cc_prefix[r]]
  /\ cc_prefix' = [cc_prefix EXCEPT ![r] = @ + Len(local_ccs[t][r])]
  /\ UNCHANGED <<graph, dsu, spanning_forest, merge_instr, cur_round, roundVars, stage,
                 threadVars, local_ccs, sampled>>

(* The prefix sums, between barriers: each thread sums its own part, one     *)
(* thread sums the parts' totals, each thread adds the total before its part. *)
PrefixSum ==
  LET part[i \in Node] ==
        cc_prefix[i] + IF \E t \in Thread : i = First(t) THEN 0 ELSE part[i - 1]
      range_sums[t \in Thread] ==
        IF t = 0 THEN 0 ELSE part[End(t - 1) - 1] + range_sums[t - 1]
  IN  /\ stage = "count" /\ \A t \in Thread, r \in Node : ~Uncaptured(t, r)
      /\ cc_prefix' = [i \in Node |-> part[i] + range_sums[get_partition_idx(i)]]
      /\ stage' = "write" /\ pc' = [t \in Thread |-> "write"]
      /\ UNCHANGED <<graph, dsu, spanning_forest, merge_instr, cur_round, roundVars,
                     idx, local_sketch, root_from_left, global_merges, local_ccs,
                     local_cc_idx, sampled>>

\* Mutant: the prefix sum is taken as exclusive.
PlacementExclusive(t, r) == local_cc_idx[t][r] + cc_prefix[r]

(* Where t puts its children of r.                                           *)
Placement(t, r) == local_cc_idx[t][r] + (IF r > 0 THEN cc_prefix[r - 1] ELSE 0)

\* Mutant: the last barrier is one that the first thread does not reach.
WriteInstrWithoutFirst(t) ==
  /\ stage = "write" /\ pc[t] = "write" /\ t > 0
  /\ Goto(t, "wait")
  /\ UNCHANGED <<graph, dsu, spanning_forest, merge_instr, cur_round, roundVars, stage, idx,
                 local_sketch, root_from_left, global_merges, instrVars, sampled>>

WriteInstr(t) ==
  LET here(r, p) == p - Placement(t, r) + 1 \in DOMAIN local_ccs[t][r]
  IN  /\ stage = "write" /\ pc[t] = "write"
      /\ merge_instr' = [p \in Node |->
           IF \E r \in Node : here(r, p)
           THEN LET r == CHOOSE r \in Node : here(r, p)
                IN  [root |-> r, child |-> local_ccs[t][r][p - Placement(t, r) + 1]]
           ELSE merge_instr[p]]
      /\ Goto(t, "wait")
      /\ UNCHANGED <<graph, dsu, spanning_forest, cur_round, roundVars, stage, idx,
                     local_sketch, root_from_left, global_merges, instrVars, sampled>>

NextRound ==
  /\ stage = "write" /\ \A t \in Thread : pc[t] = "wait"
  /\ cur_round' = cur_round + 1
  /\ modified' = FALSE /\ except' = FALSE
  /\ stage' = "round"
  /\ pc' = [t \in Thread |-> "run"] /\ idx' = [t \in Thread |-> First(t)]
  /\ local_sketch' = [t \in Thread |-> {}]
  /\ root_from_left' = [t \in Thread |->
       First(t) > 0 /\ merge_instr[First(t) - 1].root = merge_instr[First(t)].root]
  /\ global_merges' = [t \in Thread |-> NoGlobal]
  /\ sampled' = NoCounts
  /\ UNCHANGED <<graph, dsu, spanning_forest, merge_instr, instrVars>>

RoundStep(t) ==
  \/ run_round_zero(t) \/ QueryLocal(t) \/ AddUp(t)
  \/ \E g \in Thread : merge_global(t, g) \/ QueryGlobal(t, g)

ThreadStep(t) == RoundStep(t) \/ (\E r \in Node : Capture(t, r)) \/ WriteInstr(t)

Barrier == EndRound \/ PrefixSum \/ NextRound

Next == Barrier \/ \E t \in Thread : ThreadStep(t)

Spec == Init /\ [][Next]_bVars

(* OpenMP runs every thread of the team until the region is over.            *)
Fairness == WF_bVars(Barrier) /\ \A t \in Thread : WF_bVars(ThreadStep(t))

FairSpec == Spec /\ Fairness

-----------------------------------------------------------------------------
(* At every moment, also when an exception ends the call, the forest holds   *)
(* edges of the graph and no cycle, and the union-find's sets are exactly    *)
(* the trees: sample_supernode adds an edge only when its merge succeeded.   *)
ForestKept ==
  /\ spanning_forest \subseteq graph /\ Forest(spanning_forest)
  /\ ComponentsOf(dsu, spanning_forest)

(* When a round modifies nothing the rounds end, and then no edge leaves a   *)
(* set whose sketches find_root kept together: if they all are so small, the *)
(* sets are the connected components.  A larger set may be left unfinished,  *)
(* when the parts it was split into sample edges between each other.         *)
QueryExact ==
  stage = "done" =>
    \A v \in Node : SoundRoots(dsu, v) => Cut(graph, SetOf(dsu, v)) = {}

(* create_merge_instructions lists every vertex once, with its root, and the *)
(* vertices of a root next to each other in the order of the roots.          *)
InstructionsExact ==
  stage = "round" /\ (\A t \in Thread : idx[t] = First(t) /\ pc[t] = "run") =>
    /\ \A v \in Node : \E p \in Node : merge_instr[p] = [root |-> dsu[v], child |-> v]
    /\ \A p, q \in Node : p < q => merge_instr[p].root <= merge_instr[q].root

(* However the threads share the supernodes out, a sketch that several of    *)
(* them add up is complete when it is sampled, and every supernode is        *)
(* sampled once in a round; num_merge_done stays within num_merge_needed.    *)
SupernodesWhole ==
  /\ \A t \in Thread : pc[t] = "query" =>
       global_merges[Global(t)].sketch =
         Cut(graph, {merge_instr[p].child : p \in {q \in Node : merge_instr[q].root = RootAt(t)}})
  /\ stage \in {"count", "done"} =>
       \A r \in Node : sampled[r] = IF \E p \in Node : merge_instr[p].root = r THEN 1 ELSE 0
  /\ \A t \in Thread : global_merges[t].done <= global_merges[t].needed

(* The emulation ends, with an answer or with an exception.                  *)
Terminates == <>(stage \in {"done", "thrown"})
=============================================================================
