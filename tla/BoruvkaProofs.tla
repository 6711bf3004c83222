---------------------------- MODULE BoruvkaProofs ----------------------------
(* ForestKept holds for every graph, number of threads and of samples.        *)
EXTENDS Boruvka, ConnectivityProofs

(* The provers in the order they are tried, with their limits in seconds.    *)
USE ZenonT(3), SMTT(20), ZenonT(20)

(* The record of a global merge, its sketch holding edges of the graph.      *)
GlobalOK(r) ==
  r = [sketch |-> r.sketch, needed |-> r.needed, done |-> r.done] /\ r.sketch \subseteq graph

(* Sketches are sums of edges of the graph, so that only such are sampled.   *)
SketchInv ==
  /\ graph \in SUBSET Edge
  /\ local_sketch \in [Thread -> SUBSET graph]
  /\ global_merges = [g \in Thread |-> global_merges[g]]
  /\ \A g \in Thread : GlobalOK(global_merges[g])

BoruvkaInv == SketchInv /\ dsu \in [Node -> Node] /\ ForestKept

(* sample_supernode: an edge that joins two sets joins two trees.            *)
LEMMA SampleKeeps ==
  ASSUME NEW root, NEW skt, skt \subseteq graph, graph \in SUBSET Edge,
         dsu \in [Node -> Node], ForestKept, graph' = graph, sample_supernode(root, skt)
  PROVE  dsu' \in [Node -> Node] /\ ForestKept'
<1>1. CASE UNCHANGED <<dsu, spanning_forest>>
  BY <1>1 DEF ForestKept
<1>2. CASE ~UNCHANGED <<dsu, spanning_forest>>
  <2>1. PICK e \in skt : Found(e)
    BY <1>2 DEF sample_supernode, Samples
  <2>2. e \in graph /\ e \in Edge /\ e[1] \in Node /\ e[2] \in Node
        /\ e = <<e[1], e[2]>> /\ spanning_forest \in SUBSET Edge
    BY DEF Edge, ForestKept
  <2>3. /\ dsu[e[1]] # dsu[e[2]] /\ spanning_forest' = spanning_forest \cup {e}
        /\ \/ dsu' = Join(dsu, dsu[e[1]], dsu[e[2]])
           \/ dsu' = Join(dsu, dsu[e[2]], dsu[e[1]])
    BY <1>2, <2>1 DEF Found
  <2>4. ~Linked(spanning_forest, e[1], e[2])
    BY <2>2, <2>3 DEF ForestKept, ComponentsOf
  <2>5. Forest(spanning_forest')
    BY <2>2, <2>3, <2>4, ForestGrows DEF ForestKept
  <2>6. dsu' \in [Node -> Node] /\ ComponentsOf(dsu', spanning_forest')
    <3>1. ComponentsOf(dsu, spanning_forest)
      BY DEF ForestKept
    <3>2. CASE dsu' = Join(dsu, dsu[e[1]], dsu[e[2]])
      BY ONLY <2>2, <2>3, <3>1, <3>2, dsu \in [Node -> Node], JoinComponents
    <3>3. CASE dsu' = Join(dsu, dsu[e[2]], dsu[e[1]])
      BY ONLY <2>2, <2>3, <3>1, <3>3, dsu \in [Node -> Node], JoinComponents
    <3> QED BY <2>3, <3>2, <3>3
  <2>7. spanning_forest' \subseteq graph'
    BY <2>2, <2>3 DEF ForestKept
  <2> QED BY <2>5, <2>6, <2>7 DEF ForestKept
<1> QED BY <1>1, <1>2

(* The count of arrivals in a global merge says nothing of its sketch.       *)
LEMMA NeededOK ==
  ASSUME NEW r, GlobalOK(r), NEW n
  PROVE  GlobalOK([r EXCEPT !.needed = n])
<1>1. r = [sketch |-> r.sketch, needed |-> r.needed, done |-> r.done] /\ r.sketch \subseteq graph
  BY DEF GlobalOK
<1>2. [r EXCEPT !.needed = n] = [sketch |-> r.sketch, needed |-> n, done |-> r.done]
  BY <1>1
<1> QED BY <1>1, <1>2 DEF GlobalOK

(* What else the steps do to the sketches.                                   *)
LEMMA RoundKeepsSketches ==
  ASSUME SketchInv, NEW t \in Thread, RoundStep(t)
  PROVE  SketchInv'
<1>1. CASE run_round_zero(t)
  BY <1>1 DEF run_round_zero, Advance, SketchInv, GlobalOK
<1>2. CASE QueryLocal(t)
  BY <1>2 DEF QueryLocal, Advance, SketchInv, GlobalOK
<1>3. CASE AddUp(t)
  <2>1. SketchOf(Run(t, idx[t])) \in SUBSET graph
    BY DEF SketchOf
  <2>2. local_sketch' \in [Thread -> SUBSET graph] /\ graph' = graph
    BY <1>3, <2>1 DEF AddUp, SketchInv
  <2>3. \/ global_merges' = global_merges
        \/ global_merges' = [global_merges EXCEPT ![Global(t)] =
                               [@ EXCEPT !.needed = Global(t) - t + 1]]
    BY <1>3 DEF AddUp
  <2>4. global_merges' = [g \in Thread |-> global_merges'[g]]
    BY <2>3 DEF SketchInv
  <2>5. ASSUME NEW g \in Thread PROVE GlobalOK(global_merges'[g])
    <3>1. GlobalOK(global_merges[g])
      BY DEF SketchInv
    <3>2. GlobalOK([global_merges[g] EXCEPT !.needed = Global(t) - t + 1])
      BY <3>1, NeededOK
    <3>3. \/ global_merges'[g] = global_merges[g]
          \/ global_merges'[g] = [global_merges[g] EXCEPT !.needed = Global(t) - t + 1]
      BY <2>3 DEF SketchInv
    <3> QED BY <3>1, <3>2, <3>3
  <2> QED BY <2>2, <2>4, <2>5 DEF SketchInv, GlobalOK
<1>4. ASSUME NEW g \in Thread, merge_global(t, g) PROVE SketchInv'
  <2>1. Toggle(global_merges[g].sketch, local_sketch[t]) \subseteq graph
    BY DEF SketchInv, GlobalOK, Toggle
  <2>2. local_sketch' \in [Thread -> SUBSET graph] /\ graph' = graph
    BY <1>4 DEF merge_global, Advance, SketchInv, GlobalOK
  <2> DEFINE new == [sketch |-> Toggle(global_merges[g].sketch, local_sketch[t]),
                     needed |-> global_merges[g].needed, done |-> global_merges[g].done + 1]
  <2>3. global_merges' = [global_merges EXCEPT ![g] = new]
    BY <1>4 DEF merge_global
  <2>4. global_merges' = [h \in Thread |-> global_merges'[h]]
    BY <2>3 DEF SketchInv
  <2>5. GlobalOK(new)
    BY <2>1 DEF GlobalOK
  <2>6. \A h \in Thread : GlobalOK(global_merges'[h])
    BY <2>3, <2>5 DEF SketchInv
  <2> QED BY <2>2, <2>4, <2>6 DEF SketchInv, GlobalOK
<1>5. ASSUME NEW g \in Thread, QueryGlobal(t, g) PROVE SketchInv'
  BY <1>5 DEF QueryGlobal, Advance, SketchInv, GlobalOK
<1> QED BY <1>1, <1>2, <1>3, <1>4, <1>5 DEF RoundStep

(* A thread's step in a round keeps the forest.                              *)
LEMMA RoundKeepsForest ==
  ASSUME BoruvkaInv, NEW t \in Thread, RoundStep(t)
  PROVE  dsu' \in [Node -> Node] /\ ForestKept'
<1> USE DEF BoruvkaInv
<1>0. graph \in SUBSET Edge
  BY DEF SketchInv
<1>1. CASE run_round_zero(t)
  <2>1. Incident(graph, idx[t]) \subseteq graph
    BY DEF Incident
  <2> QED BY <1>0, <1>1, <2>1, SampleKeeps DEF run_round_zero
<1>2. CASE QueryLocal(t)
  <2>1. SketchOf(Run(t, idx[t])) \subseteq graph
    BY DEF SketchOf
  <2> QED BY <1>0, <1>2, <2>1, SampleKeeps DEF QueryLocal
<1>3. CASE AddUp(t)
  BY <1>3 DEF AddUp, ForestKept
<1>4. ASSUME NEW g \in Thread, merge_global(t, g) PROVE dsu' \in [Node -> Node] /\ ForestKept'
  BY <1>4 DEF merge_global, ForestKept
<1>5. ASSUME NEW g \in Thread, QueryGlobal(t, g) PROVE dsu' \in [Node -> Node] /\ ForestKept'
  <2>1. global_merges[g].sketch \subseteq graph
    BY DEF SketchInv, GlobalOK
  <2> QED BY <1>0, <1>5, <2>1, SampleKeeps DEF QueryGlobal
<1> QED BY <1>1, <1>2, <1>3, <1>4, <1>5 DEF RoundStep

(* A query starts with every vertex a supernode of its own and no forest.    *)
LEMMA BoruvkaInit == ASSUME Init PROVE BoruvkaInv
<1> USE DEF Init
<1>1. SketchInv
  BY BoruvkaAssumption DEF SketchInv, GlobalOK, NoGlobal
<1>2. dsu \in [Node -> Node] /\ Forest(spanning_forest) /\ spanning_forest \subseteq graph
  BY DEF Forest
<1>3. ComponentsOf(dsu, spanning_forest)
  <2>1. \A v \in Node : dsu[v] = v
    OBVIOUS
  <2>2. \A v, w \in Node : Linked({}, v, w) => v = w
    <3> SUFFICES ASSUME NEW v \in Node, NEW w \in Node, Linked({}, v, w) PROVE v = w
      OBVIOUS
    <3>1. {v} \in SUBSET Node /\ Closed({v}, {})
      BY DEF Closed
    <3> QED BY <3>1 DEF Linked
  <2>3. \A v \in Node : Linked({}, v, v)
    BY DEF Linked
  <2> QED BY <2>1, <2>2, <2>3 DEF ComponentsOf
<1> QED BY <1>1, <1>2, <1>3 DEF BoruvkaInv, ForestKept

(* Steps outside the rounds leave the union-find and the forest alone.       *)
LEMMA BoruvkaStep ==
  ASSUME BoruvkaInv, [Next]_bVars
  PROVE  BoruvkaInv'
<1>1. ASSUME NEW t \in Thread, RoundStep(t) PROVE BoruvkaInv'
  BY <1>1, RoundKeepsSketches, RoundKeepsForest DEF BoruvkaInv
<1>2. CASE UNCHANGED <<graph, dsu, spanning_forest, local_sketch, global_merges>>
  BY <1>2 DEF BoruvkaInv, SketchInv, GlobalOK, ForestKept
<1>3. CASE NextRound
  <2>1. UNCHANGED <<graph, dsu, spanning_forest>>
    BY <1>3 DEF NextRound
  <2>2. SketchInv'
    BY <1>3, <2>1 DEF NextRound, SketchInv, GlobalOK, BoruvkaInv, NoGlobal
  <2> QED BY <2>1, <2>2 DEF BoruvkaInv, ForestKept
<1>4. CASE EndRound \/ PrefixSum \/ (\E t \in Thread : WriteInstr(t) \/ \E r \in Node : Capture(t, r))
  BY <1>2, <1>4 DEF EndRound, PrefixSum, WriteInstr, Capture, threadVars
<1> QED BY <1>1, <1>2, <1>3, <1>4 DEF Next, Barrier, ThreadStep, bVars, threadVars

(* At every moment of the emulation, in every interleaving of its threads    *)
(* and whatever the samples give, the forest is a forest of the graph and    *)
(* the union-find holds its trees.                                           *)
THEOREM ForestTheorem == Spec => []ForestKept
<1>1. BoruvkaInv => ForestKept
  BY DEF BoruvkaInv
<1> QED BY <1>1, BoruvkaInit, BoruvkaStep, PTL DEF Spec
=============================================================================
