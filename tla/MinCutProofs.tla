----------------------------- MODULE MinCutProofs -----------------------------
(***************************************************************************)
(* The queries of the minimum-cut algorithm, for any graph, any number of  *)
(* threads and any k: that a query restores the sketches, that the         *)
(* components reported are those of the graph, and that k disjoint forests *)
(* certify small cuts.                                                     *)
(***************************************************************************)
EXTENDS MinCut, FilterSFEdgesProofs, ConnectivityProofs

(* The provers in the order they are tried, with their limits in seconds.    *)
USE ZenonT(3), SMTT(20), ZenonT(20)

Phases == {"idle", "emulate", "filter", "revert", "returned", "thrown", "crashed"}

MCTypes ==
  /\ FilterTypes
  /\ \A g \in Level : g \in DOMAIN graph /\ graph[g] \subseteq Edge
  /\ dsu \in [Node -> Node] /\ spanning_forest \in SUBSET Edge
  /\ pending \in SUBSET SUBSET Node
  /\ modified \in BOOLEAN /\ except \in BOOLEAN /\ dsu_valid \in BOOLEAN
  /\ stale \in BOOLEAN /\ swallowed \in BOOLEAN /\ split \in BOOLEAN
  /\ phase \in Phases /\ asked \in {"components", "forest", "forests"}

(* What is set where in a query.                                             *)
PhaseInv ==
  /\ ~FilterPhase => \A t \in Thread : pc[t] = "done"
  /\ FilterPhase => /\ asked = "forests" /\ ~dsu_valid /\ todo \in DOMAIN SFs
                    /\ edges = get_sorted_adjacency(SFs[todo])
  /\ phase = "filter" => todo = Len(SFs) /\ Len(SFs) <= k
  /\ phase = "revert" => Len(SFs) = k
  /\ phase = "emulate" /\ asked = "forests" => Len(SFs) < k
  /\ phase = "returned" /\ asked = "forests" => Len(SFs) = k
  /\ phase = "returned" /\ asked = "components" => dsu_valid
  /\ phase = "idle" \/ asked # "forests" => SFs = <<>>
  /\ asked = "components" => graph_id = 0

-----------------------------------------------------------------------------
(* The forests that are deleted from the subgraph's sketches now, or were    *)
(* when filter_sf_edges was called.                                          *)
Removed ==
  CASE phase = "emulate" -> 1 .. Len(SFs)
    [] phase = "filter"  -> 1 .. todo - 1
    [] phase = "revert"  -> todo .. Len(SFs)
    [] OTHER             -> {}

(* filter_sf_edges takes the edges of forest n out of v's sketch.            *)
Deleted(n, v) == Deletes(SFs[n], v)

Out(N, v, e) == {n \in N : Deleted(n, v) /\ e \in Incident(SFs[n], v)}

RestoreInv ==
  /\ \A g \in Level, v \in Node : g # graph_id => sketches[g][v] = Incident(graph[g], v)
  /\ \A v \in Node, e \in Edge :
       e \in (IF FilterPhase THEN before[v] ELSE sketches[graph_id][v])
         <=> ~(e \in Incident(graph[graph_id], v) <=> Odd(Out(Removed, v, e)))

-----------------------------------------------------------------------------
(* All of the forests found were deleted from all sketches.                  *)
AllDeleted == \A n \in DOMAIN SFs, v \in Node : Deleted(n, v)

(* The edges of the subgraph that are in none of the first n forests.        *)
Rest(n) == graph[graph_id] \ UNION {SFs[j] : j \in 1 .. n}

PeelInv ==
  AllDeleted =>
    \A n \in DOMAIN SFs :
      /\ SFs[n] \subseteq Rest(n - 1)
      /\ ~swallowed /\ ~split => \A e \in Rest(n - 1) : Linked(SFs[n], e[1], e[2])

Supernodes == {{w \in Node : dsu[w] = dsu[v]} : v \in Node}

EmulationInv ==
  phase = "emulate" /\ AllDeleted =>
    LET left == Rest(Len(SFs))
    IN  /\ spanning_forest \subseteq left /\ Forest(spanning_forest)
        /\ ComponentsOf(dsu, spanning_forest)
        /\ ~modified /\ ~except /\ ~split =>
             /\ pending \subseteq Supernodes
             /\ \A S \in Supernodes \ pending : Cut(left, S) = {}

ValidInv ==
  dsu_valid /\ ~stale /\ ~split /\ phase \in {"idle", "returned", "thrown"} =>
    EagerOK(dsu, spanning_forest, graph[0])

(* The forests found hold as many edges of every cut as there are forests,   *)
(* or all of its edges.                                                      *)
CertInv ==
  AllDeleted /\ ~swallowed /\ ~split =>
    \A S \in SUBSET Node :
      LET found == UNION {SFs[n] : n \in 1 .. Len(SFs)}
      IN  Cardinality(Cut(found, S)) >= Len(SFs) \/ Cut(graph[graph_id], S) \subseteq found

-----------------------------------------------------------------------------
CoreInv ==
  /\ MCTypes /\ PhaseInv /\ FilterInv /\ RestoreInv
  /\ PeelInv /\ EmulationInv /\ ValidInv /\ CertInv

(* The whole of it, as long as nothing was read outside edges, which two     *)
(* threads never do.                                                         *)
MCInv ==
  /\ outside \in BOOLEAN
  /\ num_threads <= 2 => ~outside
  /\ ~outside => CoreInv
-----------------------------------------------------------------------------
(* filter_sf_edges is running on one of the forests.                         *)
LEMMA RunningHolds ==
  ASSUME CoreInv, FilterPhase
  PROVE  Running
<1>1. MCTypes /\ PhaseInv /\ FilterInv
  BY DEF CoreInv
<1>2. FilterTypes
  BY <1>1 DEF MCTypes
<1>3. todo \in DOMAIN SFs /\ edges = get_sorted_adjacency(SFs[todo])
  BY <1>1 DEF PhaseInv
<1> QED BY <1>1, <1>2, <1>3 DEF Running

(* Which forests filter_sf_edges takes out depends on nothing else.          *)
LEMMA DeletedKept ==
  ASSUME num_threads' = num_threads, NEW n, SFs'[n] = SFs[n], NEW v
  PROVE  Deleted(n, v)' <=> Deleted(n, v)
BY DEF Deleted, Deletes, BoundsWithin, Odd

(* The forests that are out of a sketch, while no forest is changed.         *)
LEMMA OutKept ==
  ASSUME num_threads' = num_threads, NEW N, \A n \in N : SFs'[n] = SFs[n], NEW v, NEW e
  PROVE  Out(N, v, e)' = Out(N, v, e)
<1>1. \A n \in N : Deleted(n, v)' <=> Deleted(n, v)
  BY DeletedKept
<1> QED BY <1>1 DEF Out

(* No forest is deleted before the first one is found.                       *)
LEMMA OutNone ==
  ASSUME FiniteSetFacts, NEW v, NEW e
  PROVE  Out({}, v, e) = {} /\ ~Odd(Out({}, v, e))
<1>1. Out({}, v, e) = {}
  BY DEF Out
<1> QED BY <1>1, OddEmpty

(* Where no forest is deleted, the sketches are those of the graph.          *)
LEMMA QuietSketches ==
  ASSUME FiniteSetFacts, MCTypes, ~FilterPhase, Removed = {}
  PROVE  RestoreInv <=> \A g \in Level, v \in Node : sketches[g][v] = Incident(graph[g], v)
<1>1. \A v \in Node, e \in Edge : ~Odd(Out(Removed, v, e))
  BY OutNone
<1>2. graph_id \in Level /\ \A v \in Node : /\ sketches[graph_id][v] \in SUBSET Edge
                                            /\ Incident(graph[graph_id], v) \in SUBSET Edge
  BY DEF MCTypes, FilterTypes, Incident
<1>3. (\A v \in Node, e \in Edge : e \in sketches[graph_id][v] <=> e \in Incident(graph[graph_id], v))
        <=> \A v \in Node : sketches[graph_id][v] = Incident(graph[graph_id], v)
  BY <1>2
<1> QED BY <1>1, <1>2, <1>3 DEF RestoreInv

(* The forests that are out of the sketches when filter_sf_edges returns.    *)
Remaining == IF phase = "filter" THEN 1 .. todo ELSE todo + 1 .. Len(SFs)

(* When filter_sf_edges returns, one forest more is deleted, or one less.    *)
LEMMA FilterToggles ==
  ASSUME FiniteSetFacts, Running, RestoreInv, Filtered, NEW v \in Node, NEW e \in Edge
  PROVE  e \in sketches[graph_id][v]
           <=> ~(e \in Incident(graph[graph_id], v) <=> Odd(Out(Remaining, v, e)))
<1>1. todo \in 1 .. Len(SFs) /\ todo \in Nat /\ Len(SFs) \in Nat
  BY DEF Running, PhaseInv, MCTypes, FilterTypes
<1>2. \A N \in SUBSET (1 .. Len(SFs)) : IsFiniteSet(Out(N, v, e))
  <2>1. IsFiniteSet(1 .. Len(SFs))
    BY <1>1, FiniteInterval
  <2>2. \A N \in SUBSET (1 .. Len(SFs)) : Out(N, v, e) \in SUBSET (1 .. Len(SFs))
    BY DEF Out
  <2> QED BY <2>1, <2>2, FiniteSubset
<1>3. e \in before[v] <=> ~(e \in Incident(graph[graph_id], v) <=> Odd(Out(Removed, v, e)))
  BY DEF RestoreInv, Running
<1>4. e \in sketches[graph_id][v]
        <=> ~(e \in before[v] <=> Deleted(todo, v) /\ e \in Incident(SFs[todo], v))
  BY FilterDone DEF Toggle, Deleted
<1>5. Odd(Out(Remaining, v, e))
        <=> ~(Odd(Out(Removed, v, e)) <=> Deleted(todo, v) /\ e \in Incident(SFs[todo], v))
  <2>1. CASE phase = "filter"
    <3>1. Removed = 1 .. todo - 1 /\ Remaining = 1 .. todo
      BY <2>1 DEF Removed, Remaining
    <3>2. Remaining = Removed \cup {todo} /\ todo \notin Removed /\ Removed \in SUBSET (1 .. Len(SFs))
      BY <1>1, <3>1
    <3>3. Out(Remaining, v, e) = IF Deleted(todo, v) /\ e \in Incident(SFs[todo], v)
                                 THEN Out(Removed, v, e) \cup {todo} ELSE Out(Removed, v, e)
      BY <3>2 DEF Out
    <3>4. todo \notin Out(Removed, v, e)
      BY <3>2 DEF Out
    <3> QED BY <1>2, <3>2, <3>3, <3>4, OddAdds
  <2>2. CASE phase = "revert"
    <3>1. Removed = todo .. Len(SFs) /\ Remaining = todo + 1 .. Len(SFs)
      BY <2>2 DEF Removed, Remaining
    <3>2. Removed = Remaining \cup {todo} /\ todo \notin Remaining /\ Remaining \in SUBSET (1 .. Len(SFs))
      BY <1>1, <3>1
    <3>3. Out(Removed, v, e) = IF Deleted(todo, v) /\ e \in Incident(SFs[todo], v)
                               THEN Out(Remaining, v, e) \cup {todo} ELSE Out(Remaining, v, e)
      BY <3>2 DEF Out
    <3>4. todo \notin Out(Remaining, v, e)
      BY <3>2 DEF Out
    <3> QED BY <1>2, <3>2, <3>3, <3>4, OddAdds
  <2> QED BY <2>1, <2>2 DEF Running, FilterPhase
<1> QED BY <1>3, <1>4, <1>5

-----------------------------------------------------------------------------
(* The same facts after a step.                                              *)
LEMMA QuietNext ==
  ASSUME FiniteSetFacts
  PROVE  MCTypes' /\ (~FilterPhase)' /\ (Removed = {})' =>
           (RestoreInv' <=> (\A g \in Level, v \in Node : sketches[g][v] = Incident(graph[g], v))')
<1>1. MCTypes /\ ~FilterPhase /\ Removed = {} =>
        (RestoreInv <=> \A g \in Level, v \in Node : sketches[g][v] = Incident(graph[g], v))
  BY QuietSketches
<1> QED BY <1>1, PTL

(* The forests found so far, while none is found.                            *)
LEMMA PeelFrame ==
  ASSUME UNCHANGED <<num_threads, SFs, swallowed>>, split => split',
         graph'[graph_id'] = graph[graph_id]
  PROVE  /\ AllDeleted' <=> AllDeleted
         /\ \A n : Rest(n)' = Rest(n)
         /\ PeelInv => PeelInv'
         /\ CertInv => CertInv'
<1>1. \A n, v : Deleted(n, v)' <=> Deleted(n, v)
  BY DeletedKept
<1>2. AllDeleted' <=> AllDeleted
  BY <1>1 DEF AllDeleted
<1>3. \A n : Rest(n)' = Rest(n)
  BY DEF Rest
<1>4. PeelInv => PeelInv'
  BY <1>2, <1>3 DEF PeelInv
<1>5. CertInv => CertInv'
  BY <1>2 DEF CertInv
<1> QED BY <1>2, <1>3, <1>4, <1>5

(* Before the first forest is found there is nothing to say of them.         *)
LEMMA NoForests ==
  ASSUME FiniteSetFacts, SFs = <<>>
  PROVE  AllDeleted /\ PeelInv /\ CertInv
<1>1. DOMAIN SFs = {} /\ Len(SFs) = 0
  OBVIOUS
<1>2. AllDeleted /\ PeelInv
  BY <1>1 DEF AllDeleted, PeelInv
<1>3. CertInv
  <2> DEFINE found == UNION {SFs[n] : n \in 1 .. Len(SFs)}
  <2> SUFFICES ASSUME NEW S \in SUBSET Node PROVE Cardinality(Cut(found, S)) >= Len(SFs)
    BY DEF CertInv
  <2>1. found = {}
    BY <1>1
  <2>2. Cut(found, S) = {}
    BY <2>1 DEF Cut
  <2>3. Cardinality(Cut(found, S)) = 0
    BY <2>2, FiniteEmpty
  <2> QED BY <1>1, <2>3
<1> QED BY <1>2, <1>3

(* The forests are disjoint parts of the subgraph.                           *)
LEMMA ForestsApart ==
  ASSUME MCTypes, AllDeleted, PeelInv
  PROVE  /\ \A n \in DOMAIN SFs : SFs[n] \in SUBSET Edge /\ SFs[n] \subseteq graph[graph_id]
         /\ \A m, n \in DOMAIN SFs : m # n => SFs[m] \cap SFs[n] = {}
<1>1. \A n \in DOMAIN SFs : n \in 1 .. Len(SFs) /\ SFs[n] \in SUBSET Edge
  BY DEF MCTypes, FilterTypes
<1>2. \A n \in DOMAIN SFs : SFs[n] \subseteq Rest(n - 1)
  BY DEF PeelInv
<1>3. \A m, n \in DOMAIN SFs : m < n => SFs[m] \cap SFs[n] = {}
  <2> TAKE m, n \in DOMAIN SFs
  <2> HAVE m < n
  <2>1. m \in 1 .. n - 1
    BY <1>1
  <2>2. SFs[m] \cap Rest(n - 1) = {}
    BY <2>1 DEF Rest
  <2> QED BY <1>2, <2>2
<1>4. \A n \in DOMAIN SFs : SFs[n] \subseteq graph[graph_id]
  BY <1>2 DEF Rest
<1>5. \A m, n \in DOMAIN SFs : m # n => m < n \/ n < m
  BY <1>1
<1> QED BY <1>1, <1>3, <1>4, <1>5

(* While the next forest is computed the sketches are those of the edges in  *)
(* no forest yet.                                                            *)
LEMMA SketchesOfRest ==
  ASSUME FiniteSetFacts,
         MCTypes, phase = "emulate", AllDeleted, RestoreInv, PeelInv, NEW v \in Node
  PROVE  sketches[graph_id][v] = Incident(Rest(Len(SFs)), v)
<1> DEFINE G == graph[graph_id]
           N == 1 .. Len(SFs)
<1>1. N = DOMAIN SFs /\ Removed = N /\ ~FilterPhase
  BY DEF MCTypes, FilterTypes, Removed, FilterPhase
<1>2. /\ \A n \in N : SFs[n] \in SUBSET Edge /\ SFs[n] \subseteq G
      /\ \A m, n \in N : m # n => SFs[m] \cap SFs[n] = {}
  BY <1>1, ForestsApart
<1>3. G \in SUBSET Edge /\ sketches[graph_id][v] \in SUBSET Edge
  BY DEF MCTypes, FilterTypes
<1>4. Rest(Len(SFs)) = G \ UNION {SFs[n] : n \in N}
  BY DEF Rest
<1>5. ASSUME NEW e \in Edge
      PROVE  e \in sketches[graph_id][v] <=> e \in Incident(Rest(Len(SFs)), v)
  <2>1. e \in sketches[graph_id][v] <=> ~(e \in Incident(G, v) <=> Odd(Out(N, v, e)))
    BY <1>1 DEF RestoreInv
  <2>2. Out(N, v, e) = {n \in N : e \in SFs[n] /\ (v = e[1] \/ v = e[2])}
    BY <1>1 DEF Out, Incident, AllDeleted
  <2>3. CASE (v = e[1] \/ v = e[2]) /\ \E n \in N : e \in SFs[n]
    <3>1. PICK n \in N : e \in SFs[n]
      BY <2>3
    <3>2. Out(N, v, e) = {} \cup {n}
      BY <1>2, <2>2, <2>3, <3>1
    <3>3. Odd({} \cup {n})
      BY OddEmpty, OddAdds, FiniteEmpty
    <3>4. e \in Incident(G, v) /\ e \notin Rest(Len(SFs))
      BY <1>2, <1>4, <2>3, <3>1 DEF Incident
    <3> QED BY <2>1, <3>2, <3>3, <3>4 DEF Incident
  <2>4. CASE ~((v = e[1] \/ v = e[2]) /\ \E n \in N : e \in SFs[n])
    <3>1. Out(N, v, e) = {}
      BY <2>2, <2>4
    <3>2. e \in Incident(G, v) <=> e \in Incident(Rest(Len(SFs)), v)
      BY <1>4, <2>4 DEF Incident
    <3> QED BY <2>1, <3>1, <3>2, OddEmpty
  <2> QED BY <2>3, <2>4
<1>6. Incident(Rest(Len(SFs)), v) \in SUBSET Edge
  BY <1>3, <1>4 DEF Incident
<1> QED BY <1>3, <1>5, <1>6

(* The sketch of a supernode holds the edges that leave it.                  *)
LEMMA SumIsCut ==
  ASSUME FiniteSetFacts,
         NEW G \in SUBSET Edge, \A v \in Node : sketches[graph_id][v] = Incident(G, v),
         NEW S \in SUBSET Node
  PROVE  Sum(S) = Cut(G, S)
<1>1. ASSUME NEW e \in Edge PROVE e \in Sum(S) <=> e \in Cut(G, S)
  <2> DEFINE T == {v \in S : e \in sketches[graph_id][v]}
  <2>1. e \in Sum(S) <=> Odd(T)
    BY DEF Sum
  <2>2. T = {v \in S : e \in G /\ (v = e[1] \/ v = e[2])}
    BY DEF Incident
  <2>3. e[1] # e[2] /\ e[1] \in Node /\ e[2] \in Node
    BY VertexAssumption DEF Edge, Node
  <2>4. Odd({} \cup {e[1]}) /\ Odd({} \cup {e[2]}) /\ IsFiniteSet({} \cup {e[1]})
    BY OddEmpty, OddAdds, FiniteEmpty, FiniteAdd
  <2>5. ~Odd(({} \cup {e[1]}) \cup {e[2]})
    BY <2>3, <2>4, OddAdds
  <2> HIDE DEF T
  <2>6. CASE e \notin G
    <3>1. T = {} /\ e \notin Cut(G, S)
      BY <2>2, <2>6 DEF Cut
    <3> QED BY <2>1, <3>1, OddEmpty
  <2>7. CASE e \in G /\ e[1] \in S /\ e[2] \in S
    <3>1. T = ({} \cup {e[1]}) \cup {e[2]} /\ e \notin Cut(G, S)
      BY <2>2, <2>7 DEF Cut
    <3> QED BY <2>1, <2>5, <3>1
  <2>8. CASE e \in G /\ e[1] \in S /\ e[2] \notin S
    <3>1. T = {} \cup {e[1]} /\ e \in Cut(G, S)
      BY <2>2, <2>8 DEF Cut
    <3> QED BY <2>1, <2>4, <3>1
  <2>9. CASE e \in G /\ e[1] \notin S /\ e[2] \in S
    <3>1. T = {} \cup {e[2]} /\ e \in Cut(G, S)
      BY <2>2, <2>9 DEF Cut
    <3> QED BY <2>1, <2>4, <3>1
  <2>10. CASE e \in G /\ e[1] \notin S /\ e[2] \notin S
    <3>1. T = {} /\ e \notin Cut(G, S)
      BY <2>2, <2>10 DEF Cut
    <3> QED BY <2>1, <3>1, OddEmpty
  <2> QED BY <2>6, <2>7, <2>8, <2>9, <2>10
<1>2. Sum(S) \in SUBSET Edge /\ Cut(G, S) \in SUBSET Edge
  BY DEF Sum, Cut
<1> QED BY <1>1, <1>2

-----------------------------------------------------------------------------
(* A step of a thread of filter_sf_edges.                                    *)
LEMMA FilterKeeps ==
  ASSUME FiniteSetFacts, CoreInv, NEW t \in Thread, Filter(t), ~outside'
  PROVE  CoreInv'
<1>0. filter_sf_edges(t) /\ FilterPhase
  BY DEF Filter, filter_sf_edges, FilterPhase
<1>1. Running /\ MCTypes /\ PhaseInv /\ RestoreInv /\ PeelInv /\ CertInv
  BY <1>0, RunningHolds DEF CoreInv
<1>2. Moved
  BY <1>0, <1>1, FilterMoves
<1>3. UNCHANGED <<graph, num_threads, dsu, spanning_forest, pending, modified, except, SFs, todo,
                  asked, graph_id, dsu_valid, stale, swallowed, split, edges, before>>
  <2>1. UNCHANGED filterRest
    BY <1>0 DEF filter_sf_edges, TestLeft, Up, TestRight, Down, Middle
  <2> QED BY <2>1 DEF Filter, filterRest, boruvkaVars
<1>4. Thread' = Thread /\ phase' = phase /\ FilterPhase /\ FilterPhase'
  BY <1>0, <1>2, <1>3 DEF Thread, Moved, FilterPhase
<1>5. MCTypes'
  <2>1. FilterTypes'
    BY <1>1, <1>2, <1>3, <1>4 DEF MCTypes, FilterTypes, Moved
  <2> QED BY <1>1, <1>3, <1>4, <2>1 DEF MCTypes
<1>6. PhaseInv'
  BY <1>1, <1>3, <1>4 DEF PhaseInv, FilterPhase
<1>7. FilterInv'
  BY <1>2, <1>4 DEF FilterInv, Moved
<1>8. RestoreInv'
  <2>1. Removed' = Removed
    BY <1>3, <1>4 DEF Removed
  <2>2. \A v, e : Out(Removed, v, e)' = Out(Removed, v, e)
    BY <1>3, <2>1, OutKept DEF Out, Deleted, Deletes, BoundsWithin, Odd
  <2> QED BY <1>1, <1>2, <1>3, <1>4, <2>1, <2>2 DEF RestoreInv, Moved, Odd
<1>9. PeelInv' /\ CertInv'
  BY <1>1, <1>3, PeelFrame
<1>10. EmulationInv' /\ ValidInv'
  BY <1>4 DEF EmulationInv, ValidInv, FilterPhase
<1> QED BY <1>5, <1>6, <1>7, <1>8, <1>9, <1>10 DEF CoreInv

-----------------------------------------------------------------------------
(* What steps within the emulation leave alone.                              *)
LEMMA EmulationFrame ==
  ASSUME CoreInv, phase = "emulate", UNCHANGED <<graphVars, sketches, filterVars, queryVars>>,
         split => split'
  PROVE  /\ PhaseInv' /\ FilterInv' /\ RestoreInv' /\ PeelInv' /\ CertInv' /\ ValidInv'
         /\ AllDeleted' <=> AllDeleted
         /\ \A n : Rest(n)' = Rest(n)
<1>1. MCTypes /\ PhaseInv /\ FilterInv /\ RestoreInv /\ PeelInv /\ CertInv
  BY DEF CoreInv
<1>2. UNCHANGED <<graph, num_threads, sketches, SFs, todo, asked, graph_id, dsu_valid, stale,
                  swallowed, edges, start, end, pc, mutex, before, phase>>
  BY DEF graphVars, filterVars, queryVars
<1>3. ~FilterPhase /\ ~FilterPhase' /\ Thread' = Thread /\ Removed' = Removed
  BY <1>2 DEF FilterPhase, Thread, Removed
<1>4. PhaseInv'
  BY <1>1, <1>2, <1>3 DEF PhaseInv, FilterPhase
<1>5. FilterInv'
  <2>1. MutexInv /\ \A t \in Thread : pc[t] = "done"
    BY <1>1, <1>3 DEF FilterInv, PhaseInv
  <2>2. MutexInv'
    BY <1>2, <2>1, MutexIdle
  <2> QED BY <1>3, <2>2 DEF FilterInv
<1>6. RestoreInv'
  <2>1. \A v, e : Out(Removed, v, e)' = Out(Removed, v, e)
    BY <1>2, <1>3, OutKept DEF Out, Deleted, Deletes, BoundsWithin, Odd
  <2> QED BY <1>1, <1>2, <1>3, <2>1 DEF RestoreInv, Odd
<1>7. /\ PeelInv' /\ CertInv' /\ (AllDeleted' <=> AllDeleted)
      /\ \A n : Rest(n)' = Rest(n)
  BY <1>1, <1>2, PeelFrame
<1>8. ValidInv'
  BY <1>2 DEF ValidInv
<1> QED BY <1>4, <1>5, <1>6, <1>7, <1>8

(* The supernodes of the union-find are the vertices of one name.            *)
LEMMA SupernodeOf ==
  ASSUME dsu \in [Node -> Node], NEW S \in Supernodes
  PROVE  /\ S \in SUBSET Node
         /\ \A v \in S, w \in Node : w \in S <=> dsu[w] = dsu[v]
BY DEF Supernodes

(* An edge that leaves a supernode joins two of them.                        *)
LEMMA CutJoins ==
  ASSUME dsu \in [Node -> Node], NEW S \in Supernodes, NEW G \in SUBSET Edge, NEW e \in Cut(G, S)
  PROVE  e \in G /\ e \in Edge /\ dsu[e[1]] # dsu[e[2]]
<1>1. e \in G /\ e \in Edge /\ e[1] \in Node /\ e[2] \in Node /\ ~(e[1] \in S <=> e[2] \in S)
  BY DEF Cut, Edge
<1> QED BY <1>1, SupernodeOf

(* Supernodes that no edge leaves contain every edge.                        *)
LEMMA NoCutsLeft ==
  ASSUME dsu \in [Node -> Node], NEW G \in SUBSET Edge, \A S \in Supernodes : Cut(G, S) = {}
  PROVE  \A e \in G : dsu[e[1]] = dsu[e[2]]
<1> TAKE e \in G
<1>1. e[1] \in Node /\ e[2] \in Node
  BY DEF Edge
<1>2. PICK S \in Supernodes : S = {w \in Node : dsu[w] = dsu[e[1]]}
  BY <1>1 DEF Supernodes
<1>3. e \notin Cut(G, S) /\ e[1] \in S
  BY <1>1, <1>2
<1>4. e[2] \in S
  BY <1>3 DEF Cut
<1> QED BY <1>2, <1>4

(* A supernode is sampled.                                                   *)
LEMMA SampleKeeps ==
  ASSUME FiniteSetFacts, CoreInv, NEW S \in pending, sample_supernode(S)
  PROVE  CoreInv'
<1> DEFINE left == Rest(Len(SFs))
<1>1. /\ MCTypes /\ EmulationInv /\ RestoreInv /\ PeelInv
      /\ phase = "emulate" /\ phase' = "emulate"
  BY DEF CoreInv, sample_supernode, queryVars
<1>2. UNCHANGED <<graphVars, sketches, filterVars, queryVars, split>> /\ pending' = pending \ {S}
  BY DEF sample_supernode
<1>3. UNCHANGED <<graph, num_threads, sketches, SFs, todo, asked, graph_id, dsu_valid, stale,
                  swallowed, start, end, pc, mutex, before, phase>>
  BY <1>2 DEF graphVars, filterVars, queryVars
<1>4. /\ PhaseInv' /\ FilterInv' /\ RestoreInv' /\ PeelInv' /\ CertInv' /\ ValidInv'
      /\ (AllDeleted' <=> AllDeleted)
      /\ \A n : Rest(n)' = Rest(n)
  BY <1>1, <1>2, EmulationFrame
<1>5. /\ dsu \in [Node -> Node] /\ spanning_forest \in SUBSET Edge /\ Sum(S) \in SUBSET Edge
      /\ modified \in BOOLEAN /\ except \in BOOLEAN /\ S \in SUBSET Node
      /\ pending' \in SUBSET SUBSET Node
      /\ left \in SUBSET Edge
  <2>1. graph[graph_id] \in SUBSET Edge
    BY <1>1 DEF MCTypes, FilterTypes
  <2> QED BY <1>1, <1>2, <2>1 DEF MCTypes, FilterTypes, Sum, Rest
<1>6. \/ /\ UNCHANGED <<dsu, spanning_forest, modified>> /\ except' = TRUE
      \/ UNCHANGED <<dsu, spanning_forest, except>> /\ modified' = TRUE
      \/ UNCHANGED <<dsu, spanning_forest, modified, except>> /\ Sum(S) = {}
      \/ \E e \in Sum(S) : /\ dsu[e[1]] = dsu[e[2]]
                           /\ UNCHANGED <<dsu, spanning_forest, modified, except>>
      \/ \E e \in Sum(S) : /\ dsu[e[1]] # dsu[e[2]]
                           /\ dsu' = Union(dsu, e[1], e[2])
                           /\ spanning_forest' = spanning_forest \cup {e}
                           /\ modified' = TRUE /\ except' = except
  BY DEF sample_supernode, SampleThrows, SampleZero, SampleGood, SampleFail
<1>7. dsu' \in [Node -> Node] /\ spanning_forest' \in SUBSET Edge
      /\ modified' \in BOOLEAN /\ except' \in BOOLEAN
  <2>1. dsu' = dsu \/ \E e \in Sum(S) : dsu' = Union(dsu, e[1], e[2])
    BY <1>6
  <2>2. dsu' \in [Node -> Node]
    BY <1>5, <2>1, UnionWithin
  <2>3. spanning_forest' = spanning_forest \/ \E e \in Sum(S) : spanning_forest' = spanning_forest \cup {e}
    BY <1>6
  <2>4. modified' \in {modified, TRUE} /\ except' \in {except, TRUE}
    BY <1>6
  <2> QED BY <1>5, <2>2, <2>3, <2>4
<1>8. MCTypes'
  <2>1. Thread' = Thread
    BY <1>3 DEF Thread
  <2> QED BY <1>1, <1>2, <1>3, <1>5, <1>7, <2>1 DEF MCTypes, FilterTypes
<1>9. EmulationInv'
  <2> SUFFICES ASSUME AllDeleted
               PROVE  /\ spanning_forest' \subseteq left /\ Forest(spanning_forest')
                      /\ ComponentsOf(dsu', spanning_forest')
                      /\ ~modified' /\ ~except' /\ ~split =>
                           /\ pending' \subseteq Supernodes'
                           /\ \A T \in Supernodes' \ pending' : Cut(left, T) = {}
    <3>1. Rest(Len(SFs))' = Rest(Len(SFs))
      BY <1>3 DEF Rest
    <3> QED BY <1>2, <1>4, <3>1 DEF EmulationInv
  <2>1. /\ spanning_forest \subseteq left /\ Forest(spanning_forest)
        /\ ComponentsOf(dsu, spanning_forest)
        /\ ~modified /\ ~except /\ ~split =>
             /\ pending \subseteq Supernodes
             /\ \A T \in Supernodes \ pending : Cut(left, T) = {}
    BY <1>1 DEF EmulationInv
  <2>2. Sum(S) = Cut(left, S)
    BY <1>1, <1>5, SketchesOfRest, SumIsCut
  <2>3. Sum(S) \subseteq left
    BY <2>2 DEF Cut
  <2> HIDE DEF left
  <2>4. CASE UNCHANGED <<dsu, spanning_forest, modified, except>>
    <3>1. Supernodes' = Supernodes
      BY <2>4 DEF Supernodes
    <3>2. ~modified /\ ~except /\ ~split => Cut(left, S) = {}
      <4>1. CASE Sum(S) = {}
        BY <4>1, <2>2
      <4>2. CASE \E e \in Sum(S) : dsu[e[1]] = dsu[e[2]]
        <5>1. ASSUME ~modified, ~except, ~split PROVE FALSE
          <6>1. S \in Supernodes
            BY <2>1, <5>1
          <6> QED BY <1>5, <2>2, <4>2, <6>1, CutJoins
        <5> QED BY <5>1
      <4>3. CASE modified \/ except
        BY <4>3
      <4> QED BY <1>6, <2>4, <4>1, <4>2, <4>3
    <3> QED BY <1>2, <2>1, <2>4, <3>1, <3>2
  <2>5. CASE UNCHANGED <<dsu, spanning_forest>> /\ (modified' = TRUE \/ except' = TRUE)
    BY <2>1, <2>5
  <2>6. CASE \E e \in Sum(S) : /\ dsu[e[1]] # dsu[e[2]]
                               /\ dsu' = Union(dsu, e[1], e[2])
                               /\ spanning_forest' = spanning_forest \cup {e}
                               /\ modified' = TRUE
    <3>1. PICK e \in Sum(S) : /\ dsu[e[1]] # dsu[e[2]]
                              /\ dsu' = Union(dsu, e[1], e[2])
                              /\ spanning_forest' = spanning_forest \cup {e}
                              /\ modified' = TRUE
      BY <2>6
    <3>2. ComponentsOf(dsu', spanning_forest') /\ Forest(spanning_forest')
      BY <1>5, <2>1, <3>1, UnionGrows
    <3>3. spanning_forest' \subseteq left
      BY <2>1, <2>3, <3>1
    <3> QED BY <3>1, <3>2, <3>3
  <2> QED BY <1>6, <2>4, <2>5, <2>6
<1> QED BY <1>4, <1>8, <1>9 DEF CoreInv

(* A round ends and the next one begins.                                     *)
LEMMA RoundKeeps ==
  ASSUME CoreInv, create_merge_instructions
  PROVE  CoreInv'
<1>1. /\ MCTypes /\ EmulationInv
      /\ phase = "emulate" /\ phase' = "emulate"
  BY DEF CoreInv, create_merge_instructions, queryVars
<1>2. /\ UNCHANGED <<graphVars, sketches, filterVars, queryVars>>
      /\ UNCHANGED <<dsu, spanning_forest, except>> /\ modified' = FALSE
      /\ split' = (split \/ pending' # Supernodes)
      /\ \E root : pending' = {SetOf(root, v) : v \in Node}
  BY DEF create_merge_instructions, Supernodes, SetOf
<1>3. UNCHANGED <<graph, num_threads, sketches, SFs, todo, asked, graph_id, dsu_valid, stale,
                  swallowed, start, end, pc, mutex, before, phase>>
  BY <1>2 DEF graphVars, filterVars, queryVars
<1>4. /\ PhaseInv' /\ FilterInv' /\ RestoreInv' /\ PeelInv' /\ CertInv' /\ ValidInv'
      /\ (AllDeleted' <=> AllDeleted)
      /\ \A n : Rest(n)' = Rest(n)
  BY <1>1, <1>2, EmulationFrame
<1>5. /\ split' \in BOOLEAN /\ (~split' => ~split /\ pending' = Supernodes')
      /\ pending' \in SUBSET SUBSET Node
  <2>1. Supernodes' = Supernodes
    BY <1>2 DEF Supernodes
  <2>2. split \in BOOLEAN
    BY <1>1 DEF MCTypes
  <2>3. pending' \in SUBSET SUBSET Node
    BY <1>2 DEF SetOf
  <2> QED BY <1>2, <2>1, <2>2, <2>3
<1>6. MCTypes'
  <2>1. Thread' = Thread
    BY <1>3 DEF Thread
  <2> QED BY <1>1, <1>2, <1>3, <1>5, <2>1 DEF MCTypes, FilterTypes
<1>7. EmulationInv'
  <2>1. Rest(Len(SFs))' = Rest(Len(SFs))
    BY <1>3 DEF Rest
  <2> QED BY <1>1, <1>2, <1>4, <1>5, <2>1 DEF EmulationInv
<1> QED BY <1>4, <1>6, <1>7 DEF CoreInv

-----------------------------------------------------------------------------
(* Boruvka's algorithm starts from single vertices.                          *)
LEMMA EmulationStarts ==
  ASSUME StartEmulation
  PROVE  /\ EmulationInv' /\ phase' = "emulate"
         /\ dsu' \in [Node -> Node] /\ spanning_forest' \in SUBSET Edge
         /\ pending' \in SUBSET SUBSET Node /\ modified' = FALSE /\ except' = FALSE
<1>1. /\ dsu' = [v \in Node |-> v] /\ spanning_forest' = {} /\ pending' = {{v} : v \in Node}
      /\ phase' = "emulate" /\ modified' = FALSE /\ except' = FALSE
  BY DEF StartEmulation
<1>2. dsu' \in [Node -> Node] /\ spanning_forest' \in SUBSET Edge /\ pending' \in SUBSET SUBSET Node
  BY <1>1
<1>3. Supernodes' = pending'
  <2>1. \A v \in Node : {w \in Node : dsu'[w] = dsu'[v]} = {v}
    BY <1>1
  <2> QED BY <1>1, <2>1 DEF Supernodes
<1>4. Forest(spanning_forest')
  BY <1>1 DEF Forest
<1>5. ComponentsOf(dsu', spanning_forest')
  <2> SUFFICES ASSUME NEW v \in Node, NEW w \in Node PROVE v = w <=> Linked({}, v, w)
    BY <1>1 DEF ComponentsOf
  <2>1. v = w => Linked({}, v, w)
    BY DEF Linked
  <2>2. {v} \in SUBSET Node /\ Closed({v}, {})
    BY DEF Closed
  <2>3. Linked({}, v, w) => w \in {v}
    BY <2>2 DEF Linked
  <2> QED BY <2>1, <2>3
<1>6. EmulationInv'
  BY <1>1, <1>3, <1>4, <1>5 DEF EmulationInv
<1> QED BY <1>1, <1>2, <1>6

(* The same after a step.                                                    *)
LEMMA NoForestsNext ==
  ASSUME FiniteSetFacts
  PROVE  (SFs = <<>>)' => AllDeleted' /\ PeelInv' /\ CertInv'
<1>1. SFs = <<>> => AllDeleted /\ PeelInv /\ CertInv
  BY NoForests
<1> QED BY <1>1, PTL

(* A query is called: nothing is left of an earlier one.                     *)
LEMMA CallFrame ==
  ASSUME FiniteSetFacts,
         CoreInv, phase = "idle", phase' \in {"emulate", "returned"}, graph_id' \in Level,
         asked' \in {"components", "forest", "forests"}, asked' = "components" => graph_id' = 0,
         phase' = "returned" => asked' = "components" /\ dsu_valid,
         dsu' \in [Node -> Node], spanning_forest' \in SUBSET Edge,
         pending' \in SUBSET SUBSET Node, modified' \in BOOLEAN, except' \in BOOLEAN,
         split' \in BOOLEAN,
         UNCHANGED <<graphVars, sketches, filterVars, SFs, todo, dsu_valid, stale, swallowed>>
  PROVE  MCTypes' /\ PhaseInv' /\ FilterInv' /\ RestoreInv' /\ PeelInv' /\ CertInv'
<1>1. MCTypes /\ PhaseInv /\ FilterInv /\ RestoreInv
  BY DEF CoreInv
<1>2. UNCHANGED <<graph, num_threads, sketches, SFs, todo, dsu_valid, stale,
                  swallowed, edges, start, end, pc, mutex, before>>
  BY DEF graphVars, filterVars
<1>3. ~FilterPhase /\ ~FilterPhase' /\ Thread' = Thread
  BY <1>2 DEF FilterPhase, Thread
<1>4. SFs = <<>> /\ Len(SFs) = 0
  BY <1>1 DEF PhaseInv
<1>5. MCTypes'
  <2>1. phase' \in Phases
    BY DEF Phases
  <2> QED BY <1>1, <1>2, <1>3, <2>1 DEF MCTypes, FilterTypes
<1>6. PhaseInv'
  BY <1>1, <1>2, <1>3, <1>4, MCAssumption DEF PhaseInv
<1>7. FilterInv'
  <2>1. MutexInv /\ \A t \in Thread : pc[t] = "done"
    BY <1>1, <1>3 DEF FilterInv, PhaseInv
  <2>2. MutexInv'
    BY <1>2, <2>1, MutexIdle
  <2> QED BY <1>3, <2>2 DEF FilterInv
<1>8. Removed = {} /\ Removed' = {}
  <2>1. 1 .. Len(SFs') = {}
    BY <1>2, <1>4
  <2> QED BY <2>1 DEF Removed
<1>9. \A g \in Level, v \in Node : sketches[g][v] = Incident(graph[g], v)
  BY <1>1, <1>3, <1>8, QuietSketches
<1>10. RestoreInv'
  BY <1>2, <1>3, <1>5, <1>8, <1>9, QuietNext
<1>11. PeelInv' /\ CertInv'
  BY <1>2, <1>4, NoForestsNext
<1> QED BY <1>5, <1>6, <1>7, <1>10, <1>11

(* The queries for forests.                                                  *)
LEMMA ForestCallKeeps ==
  ASSUME FiniteSetFacts,
         CoreInv, NEW g \in Level, calc_spanning_forest(g) \/ calc_disjoint_spanning_forests(g)
  PROVE  CoreInv'
<1>1. /\ StartEmulation /\ split' = FALSE /\ phase = "idle" /\ graph_id' = g /\ asked' \in {"forest", "forests"}
      /\ UNCHANGED <<graphVars, sketches, filterVars, SFs, todo, dsu_valid, stale, swallowed>>
  BY DEF calc_spanning_forest, calc_disjoint_spanning_forests, Call
<1>2. /\ EmulationInv' /\ phase' = "emulate"
      /\ dsu' \in [Node -> Node] /\ spanning_forest' \in SUBSET Edge
      /\ pending' \in SUBSET SUBSET Node /\ modified' = FALSE /\ except' = FALSE
  BY <1>1, EmulationStarts
<1>3. MCTypes' /\ PhaseInv' /\ FilterInv' /\ RestoreInv' /\ PeelInv' /\ CertInv'
  BY <1>1, <1>2, CallFrame
<1>4. ValidInv'
  BY <1>2 DEF ValidInv
<1> QED BY <1>2, <1>3, <1>4 DEF CoreInv

(* The queries for components.                                               *)
LEMMA ComponentsCallKeeps ==
  ASSUME FiniteSetFacts, CoreInv, connected_components
  PROVE  CoreInv'
<1>1. /\ phase = "idle" /\ graph_id' = 0 /\ asked' = "components"
      /\ UNCHANGED <<graphVars, sketches, filterVars, SFs, todo, dsu_valid, stale, swallowed>>
  BY DEF connected_components, Call
<1>2. 0 \in Level
  BY FilterAssumption DEF Level
<1>3. CASE dsu_valid
  <2>1. phase' = "returned" /\ UNCHANGED <<dsu, spanning_forest, pending, modified, except, split>>
    BY <1>3 DEF connected_components, boruvkaVars
  <2>2. /\ dsu \in [Node -> Node] /\ spanning_forest \in SUBSET Edge
        /\ pending \in SUBSET SUBSET Node /\ modified \in BOOLEAN /\ except \in BOOLEAN
        /\ split \in BOOLEAN
    BY DEF CoreInv, MCTypes, FilterTypes
  <2>3. MCTypes' /\ PhaseInv' /\ FilterInv' /\ RestoreInv' /\ PeelInv' /\ CertInv'
    BY <1>1, <1>2, <1>3, <2>1, <2>2, CallFrame
  <2>4. EmulationInv'
    BY <2>1 DEF EmulationInv
  <2>5. ValidInv'
    BY <1>1, <2>1 DEF CoreInv, ValidInv, graphVars
  <2> QED BY <2>3, <2>4, <2>5 DEF CoreInv
<1>4. CASE ~dsu_valid
  <2>1. StartEmulation /\ split' = FALSE
    BY <1>4 DEF connected_components
  <2>2. /\ EmulationInv' /\ phase' = "emulate"
        /\ dsu' \in [Node -> Node] /\ spanning_forest' \in SUBSET Edge
        /\ pending' \in SUBSET SUBSET Node /\ modified' = FALSE /\ except' = FALSE
    BY <2>1, EmulationStarts
  <2>3. MCTypes' /\ PhaseInv' /\ FilterInv' /\ RestoreInv' /\ PeelInv' /\ CertInv'
    BY <1>1, <1>2, <2>1, <2>2, CallFrame
  <2>4. ValidInv'
    BY <2>2 DEF ValidInv
  <2> QED BY <2>2, <2>3, <2>4 DEF CoreInv
<1> QED BY <1>3, <1>4

-----------------------------------------------------------------------------
(* What an emulation has found when it ends.                                 *)
LEMMA EmulationEnds ==
  ASSUME CoreInv, Emulated, AllDeleted
  PROVE  /\ spanning_forest \subseteq Rest(Len(SFs)) /\ Forest(spanning_forest)
         /\ ComponentsOf(dsu, spanning_forest)
         /\ ~except /\ ~split => \A e \in Rest(Len(SFs)) : dsu[e[1]] = dsu[e[2]]
<1> DEFINE left == Rest(Len(SFs))
<1>1. /\ spanning_forest \subseteq left /\ Forest(spanning_forest)
      /\ ComponentsOf(dsu, spanning_forest)
      /\ ~except /\ ~split => \A S \in Supernodes : Cut(left, S) = {}
  BY DEF CoreInv, EmulationInv, Emulated
<1>2. graph[graph_id] \in SUBSET Edge /\ dsu \in [Node -> Node]
  BY DEF CoreInv, MCTypes, FilterTypes
<1>3. left \in SUBSET Edge
  BY <1>2 DEF Rest
<1> HIDE DEF left
<1>4. ~except /\ ~split => \A e \in left : dsu[e[1]] = dsu[e[2]]
  BY <1>1, <1>2, <1>3, NoCutsLeft
<1> QED BY <1>1, <1>4 DEF left

(* A query for components or one forest ends.                                *)
LEMMA EmulationLeaves ==
  ASSUME FiniteSetFacts,
         CoreInv, Emulated, asked # "forests", phase' \in {"returned", "thrown"},
         UNCHANGED <<graphVars, sketches, dsu, spanning_forest, pending, split, asked, graph_id,
                     SFs, todo, filterVars>>,
         modified' \in BOOLEAN, except' \in BOOLEAN, dsu_valid' \in BOOLEAN, stale' \in BOOLEAN,
         swallowed' \in BOOLEAN,
         phase' = "returned" /\ asked = "components" => dsu_valid',
         dsu_valid' /\ ~stale' => graph_id = 0 /\ ~except
  PROVE  CoreInv'
<1>1. MCTypes /\ PhaseInv /\ FilterInv /\ RestoreInv /\ phase = "emulate"
  BY DEF CoreInv, Emulated
<1>2. UNCHANGED <<graph, num_threads, sketches, SFs, todo, edges, start, end, pc, mutex, before,
                  dsu, spanning_forest, pending, split, asked, graph_id>>
  BY DEF graphVars, filterVars
<1>3. ~FilterPhase /\ ~FilterPhase' /\ Thread' = Thread
  BY <1>1, <1>2 DEF FilterPhase, Thread
<1>4. SFs = <<>> /\ Len(SFs) = 0
  BY <1>1 DEF PhaseInv
<1>5. MCTypes'
  <2>1. phase' \in Phases
    BY DEF Phases
  <2> QED BY <1>1, <1>2, <1>3, <2>1 DEF MCTypes, FilterTypes
<1>6. PhaseInv'
  BY <1>1, <1>2, <1>3, <1>4 DEF PhaseInv
<1>7. FilterInv'
  <2>1. MutexInv /\ \A t \in Thread : pc[t] = "done"
    BY <1>1, <1>3 DEF FilterInv, PhaseInv
  <2>2. MutexInv'
    BY <1>2, <2>1, MutexIdle
  <2> QED BY <1>3, <2>2 DEF FilterInv
<1>8. Removed = {} /\ Removed' = {}
  <2>1. 1 .. Len(SFs) = {}
    BY <1>4
  <2> QED BY <1>1, <2>1 DEF Removed
<1>9. \A g \in Level, v \in Node : sketches[g][v] = Incident(graph[g], v)
  BY <1>1, <1>3, <1>8, QuietSketches
<1>10. RestoreInv'
  BY <1>2, <1>3, <1>5, <1>8, <1>9, QuietNext
<1>11. PeelInv' /\ CertInv'
  BY <1>2, <1>4, NoForestsNext
<1>12. EmulationInv'
  BY DEF EmulationInv
<1>13. ValidInv'
  <2>1. Rest(Len(SFs)) = graph[graph_id]
    <3>1. 1 .. Len(SFs) = {}
      BY <1>4
    <3> QED BY <3>1 DEF Rest
  <2>2. ASSUME dsu_valid', ~stale', ~split' PROVE EagerOK(dsu, spanning_forest, graph[0])
    <3>1. AllDeleted
      BY <1>4, NoForests
    <3> QED BY <1>2, <2>1, <2>2, <3>1, EmulationEnds DEF EagerOK
  <2> QED BY <1>2, <2>2 DEF ValidInv
<1> QED BY <1>5, <1>6, <1>7, <1>10, <1>11, <1>12, <1>13 DEF CoreInv

(* A query for components ends.                                              *)
LEMMA ComponentsKeeps ==
  ASSUME FiniteSetFacts, CoreInv, ComponentsFound
  PROVE  CoreInv'
<1>1. MCTypes /\ PhaseInv
  BY DEF CoreInv
<1>2. /\ Emulated /\ asked = "components" /\ modified' = FALSE /\ except' = FALSE
      /\ dsu_valid' = ~except /\ stale' = FALSE
      /\ phase' = IF except THEN "thrown" ELSE "returned"
      /\ swallowed' = swallowed
      /\ UNCHANGED <<graphVars, sketches, dsu, spanning_forest, pending, split, asked, graph_id,
                     SFs, todo, filterVars>>
  BY DEF ComponentsFound, LeaveEmulation
<1>3. swallowed' \in BOOLEAN /\ graph_id = 0 /\ except \in BOOLEAN
  BY <1>1, <1>2 DEF MCTypes, FilterTypes, PhaseInv
<1>4. phase' \in {"returned", "thrown"} /\ (phase' = "returned" => ~except)
  BY <1>2, <1>3
<1>5. dsu_valid' \in BOOLEAN
  BY <1>2, <1>3
<1> QED BY <1>2, <1>3, <1>4, <1>5, EmulationLeaves

-----------------------------------------------------------------------------
(* A path between the sides of a cut has an edge in it.                      *)
LEMMA CutCrossed ==
  ASSUME NEW F \in SUBSET Edge, NEW e \in Edge, NEW S \in SUBSET Node,
         ~(e[1] \in S <=> e[2] \in S), Linked(F, e[1], e[2])
  PROVE  \E f \in F : f \in Cut(F, S)
<1>1. e[1] \in Node /\ e[2] \in Node /\ \A f \in F : f[1] \in Node /\ f[2] \in Node
  BY DEF Edge
<1>2. SUFFICES ASSUME Closed(S, F) PROVE FALSE
  BY DEF Cut, Closed
<1>3. Closed(Node \ S, F)
  BY <1>1, <1>2 DEF Closed
<1>4. Node \ S \in SUBSET Node
  OBVIOUS
<1> QED BY <1>1, <1>2, <1>3, <1>4 DEF Linked

(* A forest that spans the edges that are left adds an edge to every cut of  *)
(* which not all edges are found.                                            *)
LEMMA CutGrows ==
  ASSUME FiniteSetFacts,
         NEW G \in SUBSET Edge, NEW found \in SUBSET Edge, NEW F \in SUBSET Edge, NEW n \in Nat,
         F \subseteq G \ found, \A e \in G \ found : Linked(F, e[1], e[2]),
         NEW S \in SUBSET Node, Cardinality(Cut(found, S)) >= n \/ Cut(G, S) \subseteq found
  PROVE  Cardinality(Cut(found \cup F, S)) >= n + 1 \/ Cut(G, S) \subseteq found \cup F
<1>1. SUFFICES ASSUME ~(Cut(G, S) \subseteq found \cup F)
               PROVE  Cardinality(Cut(found \cup F, S)) >= n + 1
  OBVIOUS
<1>2. PICK e \in Cut(G, S) : e \notin found
  BY <1>1
<1>3. e \in G \ found /\ e \in Edge /\ ~(e[1] \in S <=> e[2] \in S)
  BY <1>2 DEF Cut
<1>4. PICK f \in F : f \in Cut(F, S)
  BY <1>3, CutCrossed
<1>5. Cardinality(Cut(found, S)) >= n
  BY <1>1
<1>6. f \notin Cut(found, S) /\ Cut(found, S) \cup {f} \subseteq Cut(found \cup F, S)
  BY <1>4 DEF Cut
<1>7. IsFiniteSet(Cut(found \cup F, S)) /\ IsFiniteSet(Cut(found, S))
  <2>1. Cut(found \cup F, S) \in SUBSET Edge /\ Cut(found, S) \in SUBSET Edge
    BY DEF Cut
  <2> QED BY <2>1, EdgesFinite, FiniteSubset
<1>8. Cardinality(Cut(found, S) \cup {f}) = Cardinality(Cut(found, S)) + 1
  BY <1>6, <1>7, FiniteAdd
<1>9. Cardinality(Cut(found, S) \cup {f}) <= Cardinality(Cut(found \cup F, S))
  BY <1>6, <1>7, FiniteSubset
<1>10. Cardinality(Cut(found, S)) \in Nat /\ Cardinality(Cut(found \cup F, S)) \in Nat
  BY <1>7, FiniteCount
<1> QED BY <1>5, <1>8, <1>9, <1>10

(* A forest is added to the ones found, properly or not.                     *)
LEMMA ForestAdded ==
  ASSUME FiniteSetFacts, CoreInv, Emulated, SFs' = Append(SFs, spanning_forest),
         UNCHANGED <<graph, num_threads, graph_id, split>>, swallowed' = (swallowed \/ except)
  PROVE  /\ SFs' \in Seq(SUBSET Edge) /\ Len(SFs') = Len(SFs) + 1 /\ Len(SFs) \in Nat
         /\ DOMAIN SFs' = 1 .. Len(SFs) + 1
         /\ \A n \in 1 .. Len(SFs) : SFs'[n] = SFs[n]
         /\ SFs'[Len(SFs) + 1] = spanning_forest
         /\ PeelInv' /\ CertInv'
<1>1. /\ SFs \in Seq(SUBSET Edge) /\ spanning_forest \in SUBSET Edge /\ swallowed \in BOOLEAN
      /\ except \in BOOLEAN /\ graph[graph_id] \in SUBSET Edge /\ dsu \in [Node -> Node]
  BY DEF CoreInv, MCTypes, FilterTypes
<1>2. /\ SFs' \in Seq(SUBSET Edge) /\ Len(SFs') = Len(SFs) + 1 /\ Len(SFs) \in Nat
      /\ DOMAIN SFs' = 1 .. Len(SFs) + 1 /\ DOMAIN SFs = 1 .. Len(SFs)
      /\ \A n \in 1 .. Len(SFs) : SFs'[n] = SFs[n]
      /\ SFs'[Len(SFs) + 1] = spanning_forest
  BY <1>1
<1> DEFINE l == Len(SFs)
           found == UNION {SFs[n] : n \in 1 .. l}
<1>3. found \in SUBSET Edge /\ Rest(l) = graph[graph_id] \ found
  BY <1>1, <1>2 DEF Rest
<1>4. UNION {SFs'[n] : n \in 1 .. Len(SFs')} = found \cup spanning_forest
  BY <1>2
<1>5. \A n \in 0 .. l : Rest(n)' = Rest(n)
  <2> TAKE n \in 0 .. l
  <2>1. \A j \in 1 .. n : SFs'[j] = SFs[j]
    BY <1>2
  <2> QED BY <2>1 DEF Rest
<1>6. AllDeleted' => AllDeleted
  <2>1. \A n \in DOMAIN SFs, v \in Node : Deleted(n, v)' <=> Deleted(n, v)
    BY <1>2, DeletedKept
  <2>2. DOMAIN SFs \subseteq DOMAIN SFs'
    BY <1>2
  <2> QED BY <2>1, <2>2 DEF AllDeleted
<1>7. ASSUME AllDeleted
      PROVE  /\ spanning_forest \subseteq Rest(l)
             /\ ~swallowed' /\ ~split => \A e \in Rest(l) : Linked(spanning_forest, e[1], e[2])
  <2>1. /\ spanning_forest \subseteq Rest(l) /\ ComponentsOf(dsu, spanning_forest)
        /\ ~except /\ ~split => \A e \in Rest(l) : dsu[e[1]] = dsu[e[2]]
    BY <1>7, EmulationEnds
  <2>2. \A e \in Rest(l) : e[1] \in Node /\ e[2] \in Node
    BY <1>1, <1>3 DEF Edge
  <2> QED BY <2>1, <2>2 DEF ComponentsOf
<1>8. PeelInv'
  <2> SUFFICES ASSUME AllDeleted', NEW n \in 1 .. l + 1
               PROVE  /\ SFs'[n] \subseteq Rest(n - 1)'
                      /\ ~swallowed' /\ ~split => \A e \in Rest(n - 1)' : Linked(SFs'[n], e[1], e[2])
    BY <1>2 DEF PeelInv
  <2>1. n - 1 \in 0 .. l
    BY <1>2
  <2>2. Rest(n - 1)' = Rest(n - 1)
    BY <1>5, <2>1
  <2>3. CASE n = l + 1
    <3>1. n - 1 = l
      BY <1>2, <2>3
    <3> QED BY <1>2, <1>6, <1>7, <2>2, <2>3, <3>1
  <2>4. CASE n # l + 1
    <3>1. n \in DOMAIN SFs /\ SFs'[n] = SFs[n]
      BY <1>2, <2>4
    <3>2. PeelInv
      BY DEF CoreInv
    <3> QED BY <1>6, <2>2, <3>1, <3>2 DEF PeelInv
  <2> QED BY <2>3, <2>4
<1>9. CertInv'
  <2> SUFFICES ASSUME AllDeleted', ~swallowed', ~split, NEW S \in SUBSET Node
               PROVE  \/ Cardinality(Cut(found \cup spanning_forest, S)) >= l + 1
                      \/ Cut(graph[graph_id], S) \subseteq found \cup spanning_forest
    BY <1>2, <1>4 DEF CertInv
  <2>1. Cardinality(Cut(found, S)) >= l \/ Cut(graph[graph_id], S) \subseteq found
    <3>1. CertInv
      BY DEF CoreInv
    <3> QED BY <1>6, <3>1 DEF CertInv
  <2>2. /\ spanning_forest \subseteq graph[graph_id] \ found
        /\ \A e \in graph[graph_id] \ found : Linked(spanning_forest, e[1], e[2])
    BY <1>3, <1>6, <1>7
  <2> HIDE DEF found, l
  <2>3. l \in Nat
    BY <1>2 DEF l
  <2> QED BY <1>1, <1>3, <2>1, <2>2, <2>3, CutGrows
<1> QED BY <1>2, <1>8, <1>9

(* A forest is found: the query ends, or the forest is deleted.              *)
LEMMA ForestKeeps ==
  ASSUME FiniteSetFacts, CoreInv, ForestFound
  PROVE  CoreInv'
<1>1. MCTypes /\ PhaseInv /\ FilterInv /\ RestoreInv
  BY DEF CoreInv
<1>2. /\ Emulated /\ asked # "components" /\ modified' = FALSE /\ except' = FALSE
      /\ swallowed' = (swallowed \/ except)
      /\ UNCHANGED <<graphVars, sketches, dsu, spanning_forest, pending, split, asked, graph_id>>
  BY DEF ForestFound, LeaveEmulation
<1>3. /\ swallowed \in BOOLEAN /\ dsu_valid \in BOOLEAN /\ except \in BOOLEAN
      /\ asked \in {"components", "forest", "forests"}
  BY <1>1 DEF MCTypes, FilterTypes
<1>4. swallowed' \in BOOLEAN
  BY <1>2, <1>3
<1>5. CASE asked = "forest"
  <2>1. /\ phase' = "returned" /\ UNCHANGED <<SFs, todo, dsu_valid, filterVars>>
        /\ stale' = (dsu_valid /\ (graph_id # 0 \/ except))
    BY <1>5 DEF ForestFound
  <2>2. stale' \in BOOLEAN
    BY <1>3, <2>1
  <2>3. dsu_valid' /\ ~stale' => graph_id = 0 /\ ~except
    BY <2>1
  <2> QED BY <1>2, <1>3, <1>4, <1>5, <2>1, <2>2, <2>3, EmulationLeaves
<1>6. CASE asked = "forests"
  <2>1. /\ phase' = "filter" /\ SFs' = Append(SFs, spanning_forest) /\ todo' = Len(SFs) + 1
        /\ StartFilter(spanning_forest)
    BY <1>2, <1>6 DEF ForestFound
  <2>2. /\ UNCHANGED <<graph, num_threads, graph_id, sketches, asked, dsu, spanning_forest, pending,
                     split>>
        /\ phase = "emulate"
    BY <1>2 DEF graphVars, Emulated
  <2>3. /\ SFs' \in Seq(SUBSET Edge) /\ Len(SFs') = Len(SFs) + 1 /\ Len(SFs) \in Nat
        /\ DOMAIN SFs' = 1 .. Len(SFs) + 1
        /\ \A n \in 1 .. Len(SFs) : SFs'[n] = SFs[n]
        /\ SFs'[Len(SFs) + 1] = spanning_forest
        /\ PeelInv' /\ CertInv'
    BY <1>2, <2>1, <2>2, ForestAdded
  <2>4. ~FilterPhase /\ FilterPhase' /\ Thread' = Thread
    BY <2>1, <2>2 DEF FilterPhase, Thread
  <2>5. spanning_forest \in SUBSET Edge /\ MutexInv /\ \A t \in Thread : pc[t] = "done"
    BY <1>1, <2>4 DEF FilterInv, PhaseInv, MCTypes, FilterTypes
  <2>6. /\ MutexInv' /\ EffectInv' /\ \A t \in Thread' : ThreadInv(t)'
        /\ edges' = get_sorted_adjacency(spanning_forest)
        /\ start' \in [Thread' -> Nat] /\ end' \in [Thread' -> Nat]
        /\ pc' \in [Thread' -> Places] /\ mutex' \in [Node -> Int]
        /\ before' = sketches[graph_id] /\ before' \in [Node -> SUBSET Edge]
    BY <1>1, <2>1, <2>2, <2>5, StartMoves DEF StartFilter, MCTypes
  <2>7. dsu_valid' = FALSE /\ stale' = FALSE
    BY <2>1 DEF StartFilter, StartThreads
  <2>8. MCTypes'
    <3>1. phase' \in Phases /\ todo' \in Nat
      BY <2>1, <2>3 DEF Phases
    <3>2. num_threads \in Nat \ {0} /\ sketches \in [Level -> [Node -> SUBSET Edge]] /\ graph_id \in Level
      BY <1>1 DEF MCTypes, FilterTypes
    <3>3. FilterTypes'
      BY <2>2, <2>3, <2>6, <3>1, <3>2 DEF FilterTypes
    <3> QED BY <1>1, <1>2, <1>4, <2>2, <2>7, <3>1, <3>3 DEF MCTypes
  <2>9. PhaseInv'
    <3>1. Len(SFs) < k
      BY <1>1, <1>6, <2>2 DEF PhaseInv
    <3>2. todo' \in DOMAIN SFs' /\ todo' = Len(SFs') /\ Len(SFs') <= k
      BY <2>1, <2>3, <3>1, MCAssumption
    <3> QED BY <1>6, <2>1, <2>2, <2>3, <2>4, <2>6, <2>7, <3>2 DEF PhaseInv
  <2>10. FilterInv'
    BY <2>6 DEF FilterInv
  <2>11. RestoreInv'
    <3>1. Removed = 1 .. Len(SFs) /\ Removed' = 1 .. Len(SFs)
      BY <2>1, <2>2, <2>3 DEF Removed
    <3>2. \A v : \A n \in 1 .. Len(SFs) : Deleted(n, v)' <=> Deleted(n, v)
      BY <2>2, <2>3, DeletedKept
    <3>3. \A v, e : Out(Removed, v, e)' = Out(Removed, v, e)
      BY <2>3, <3>1, <3>2 DEF Out
    <3> QED BY <1>1, <2>2, <2>4, <2>6, <3>1, <3>3 DEF RestoreInv, Odd
  <2>12. EmulationInv' /\ ValidInv'
    BY <2>1 DEF EmulationInv, ValidInv
  <2> QED BY <2>3, <2>8, <2>9, <2>10, <2>11, <2>12 DEF CoreInv
<1> QED BY <1>2, <1>3, <1>5, <1>6

-----------------------------------------------------------------------------
(* filter_sf_edges returns: what does not depend on what comes next.         *)
LEMMA LeaveFrame ==
  ASSUME FiniteSetFacts,
         CoreInv, Filtered, phase' \in {"emulate", "returned"}, LeaveFilter,
         UNCHANGED <<graphVars, sketches, SFs, todo, asked, graph_id, swallowed, split>>,
         phase' = "emulate" => Len(SFs) < k, phase' = "returned" => Len(SFs) = k,
         Removed' = Remaining,
         dsu' \in [Node -> Node], spanning_forest' \in SUBSET Edge,
         pending' \in SUBSET SUBSET Node, modified' \in BOOLEAN, except' \in BOOLEAN
  PROVE  MCTypes' /\ PhaseInv' /\ FilterInv' /\ RestoreInv' /\ PeelInv' /\ CertInv'
<1>0. FilterPhase /\ \A t \in Thread : pc[t] = "done"
  BY DEF Filtered, FilterPhase
<1>1. /\ MCTypes /\ PhaseInv /\ FilterInv /\ RestoreInv /\ PeelInv /\ CertInv /\ Running
      /\ FilterPhase /\ \A t \in Thread : pc[t] = "done"
  BY <1>0, RunningHolds DEF CoreInv
<1>2. /\ UNCHANGED <<graph, num_threads, sketches, SFs, todo, asked, graph_id, swallowed,
                     split, pc, mutex, dsu_valid, stale>>
      /\ before' = sketches[graph_id]
      /\ start' = [t \in Thread |-> 0] /\ end' = [t \in Thread |-> 0]
  BY DEF graphVars, LeaveFilter, LeaveThreads
<1>3. ~FilterPhase' /\ Thread' = Thread
  BY <1>2 DEF FilterPhase, Thread
<1>4. MCTypes'
  <2>1. phase' \in Phases
    BY DEF Phases
  <2>2. start' \in [Thread -> Nat] /\ end' \in [Thread -> Nat]
    BY <1>2
  <2>3. before' \in [Node -> SUBSET Edge]
    BY <1>1, <1>2 DEF MCTypes, FilterTypes
  <2> QED BY <1>1, <1>2, <1>3, <2>1, <2>2, <2>3 DEF MCTypes, FilterTypes
<1>5. PhaseInv'
  BY <1>1, <1>2, <1>3 DEF PhaseInv
<1>6. FilterInv'
  <2>1. MutexInv'
    BY <1>1, <1>2, MutexIdle DEF FilterInv
  <2> QED BY <1>3, <2>1 DEF FilterInv
<1>7. RestoreInv'
  <2>1. \A v, e : Out(Removed, v, e)' = Out(Remaining, v, e)
    BY <1>2 DEF Out, Deleted, Deletes, BoundsWithin, Odd
  <2>2. \A v \in Node, e \in Edge :
          e \in sketches[graph_id][v]
            <=> ~(e \in Incident(graph[graph_id], v) <=> Odd(Out(Remaining, v, e)))
    BY <1>1, FilterToggles
  <2> QED BY <1>1, <1>2, <1>3, <2>1, <2>2 DEF RestoreInv, Odd
<1>8. PeelInv' /\ CertInv'
  BY <1>1, <1>2, PeelFrame
<1> QED BY <1>4, <1>5, <1>6, <1>7, <1>8

(* The next forest is looked for.                                            *)
LEMMA NextForestKeeps ==
  ASSUME FiniteSetFacts, CoreInv, NextForest
  PROVE  CoreInv'
<1>1. /\ Filtered /\ phase = "filter" /\ Len(SFs) < k /\ StartEmulation /\ LeaveFilter
      /\ UNCHANGED <<graphVars, sketches, SFs, todo, asked, graph_id, swallowed, split>>
  BY DEF NextForest
<1>2. /\ EmulationInv' /\ phase' = "emulate"
      /\ dsu' \in [Node -> Node] /\ spanning_forest' \in SUBSET Edge
      /\ pending' \in SUBSET SUBSET Node /\ modified' = FALSE /\ except' = FALSE
  BY <1>1, EmulationStarts
<1>3. Removed' = Remaining
  BY <1>1, <1>2 DEF CoreInv, PhaseInv, Removed, Remaining
<1>4. MCTypes' /\ PhaseInv' /\ FilterInv' /\ RestoreInv' /\ PeelInv' /\ CertInv'
  BY <1>1, <1>2, <1>3, LeaveFrame
<1>5. ValidInv'
  BY <1>2 DEF ValidInv
<1> QED BY <1>2, <1>4, <1>5 DEF CoreInv

(* The forests are put back.                                                 *)
LEMMA RevertKeeps ==
  ASSUME FiniteSetFacts, CoreInv, Revert
  PROVE  CoreInv'
<1> DEFINE n == IF phase = "filter" THEN 1 ELSE todo + 1
<1>1. /\ MCTypes /\ PhaseInv /\ FilterInv /\ RestoreInv /\ PeelInv /\ CertInv /\ Running
      /\ FilterPhase /\ Filtered /\ \A t \in Thread : pc[t] = "done"
  <2>1. FilterPhase /\ Filtered /\ \A t \in Thread : pc[t] = "done"
    BY DEF Revert, Filtered, FilterPhase
  <2> QED BY <2>1, RunningHolds DEF CoreInv
<1>2. /\ UNCHANGED <<graphVars, sketches, SFs, asked, graph_id, swallowed>>
      /\ UNCHANGED <<graph, num_threads, dsu, spanning_forest, pending, modified, except, split>>
  BY DEF Revert, graphVars, boruvkaVars
<1>3. /\ asked = "forests" /\ todo \in 1 .. Len(SFs) /\ Len(SFs) \in Nat /\ Len(SFs) = k
      /\ phase \in {"filter", "revert"}
      /\ phase = "filter" => todo = Len(SFs)
  BY <1>1 DEF PhaseInv, MCTypes, FilterTypes, Revert, FilterPhase
<1>4. CASE n <= Len(SFs)
  <2>1. phase' = "revert" /\ todo' = n /\ StartFilter(SFs[n])
    BY <1>4 DEF Revert
  <2>2. n \in 1 .. Len(SFs) /\ n \in DOMAIN SFs /\ n \in Nat
    BY <1>1, <1>3, <1>4 DEF MCTypes, FilterTypes
  <2> HIDE DEF n
  <2>3. SFs[n] \in SUBSET Edge /\ MutexInv
    BY <1>1, <2>2 DEF MCTypes, FilterTypes, FilterInv
  <2>4. /\ MutexInv' /\ EffectInv' /\ \A t \in Thread' : ThreadInv(t)'
        /\ edges' = get_sorted_adjacency(SFs[n])
        /\ start' \in [Thread' -> Nat] /\ end' \in [Thread' -> Nat]
        /\ pc' \in [Thread' -> Places] /\ mutex' \in [Node -> Int]
        /\ before' = sketches[graph_id] /\ before' \in [Node -> SUBSET Edge]
    BY <1>1, <1>2, <2>1, <2>3, StartMoves DEF StartFilter, MCTypes
  <2>5. dsu_valid' = FALSE /\ stale' = FALSE
    BY <2>1 DEF StartFilter, StartThreads
  <2>6. MCTypes'
    <3>1. phase' \in Phases
      BY <2>1 DEF Phases
    <3> QED BY <1>1, <1>2, <2>1, <2>2, <2>4, <2>5, <3>1 DEF MCTypes, FilterTypes
  <2>7. PhaseInv'
    BY <1>2, <1>3, <2>1, <2>2, <2>4, <2>5 DEF PhaseInv, FilterPhase
  <2>8. FilterInv'
    BY <2>4 DEF FilterInv
  <2>9. RestoreInv'
    <3>1. Removed' = Remaining /\ FilterPhase'
      BY <1>2, <1>3, <2>1 DEF Removed, Remaining, n, FilterPhase
    <3>2. \A v, e : Out(Removed, v, e)' = Out(Remaining, v, e)
      BY <1>2, <3>1 DEF Out, Deleted, Deletes, BoundsWithin, Odd
    <3>3. \A v \in Node, e \in Edge :
            e \in sketches[graph_id][v]
              <=> ~(e \in Incident(graph[graph_id], v) <=> Odd(Out(Remaining, v, e)))
      BY <1>1, FilterToggles
    <3> QED BY <1>1, <1>2, <2>4, <3>1, <3>2, <3>3 DEF RestoreInv, Odd
  <2>10. PeelInv' /\ CertInv'
    BY <1>1, <1>2, PeelFrame
  <2>11. EmulationInv' /\ ValidInv'
    BY <2>1 DEF EmulationInv, ValidInv
  <2> QED BY <2>6, <2>7, <2>8, <2>9, <2>10, <2>11 DEF CoreInv
<1>5. CASE ~(n <= Len(SFs))
  <2>1. phase' = "returned" /\ LeaveFilter /\ todo' = todo
    BY <1>5 DEF Revert
  <2>2. phase = "revert" /\ todo = Len(SFs)
    BY <1>3, <1>5, MCAssumption
  <2>3. Removed' = {} /\ Remaining = {}
    BY <1>3, <2>1, <2>2 DEF Removed, Remaining
  <2>4. /\ dsu \in [Node -> Node] /\ spanning_forest \in SUBSET Edge
        /\ pending \in SUBSET SUBSET Node /\ modified \in BOOLEAN /\ except \in BOOLEAN
    BY <1>1 DEF MCTypes, FilterTypes
  <2>5. MCTypes' /\ PhaseInv' /\ FilterInv' /\ RestoreInv' /\ PeelInv' /\ CertInv'
    BY <1>1, <1>2, <1>3, <2>1, <2>3, <2>4, LeaveFrame
  <2>6. EmulationInv'
    BY <2>1 DEF EmulationInv
  <2>7. ~dsu_valid'
    BY <1>1, <2>1 DEF PhaseInv, LeaveFilter, LeaveThreads
  <2>8. ValidInv'
    BY <2>7 DEF ValidInv
  <2> QED BY <2>5, <2>6, <2>8 DEF CoreInv
<1> QED BY <1>4, <1>5

(* The caller takes the answer.                                              *)
LEMMA ReturnKeeps ==
  ASSUME FiniteSetFacts, CoreInv, Return
  PROVE  CoreInv'
<1>1. MCTypes /\ PhaseInv /\ FilterInv /\ RestoreInv /\ ValidInv
  BY DEF CoreInv
<1>2. /\ phase \in {"returned", "thrown"} /\ phase' = "idle" /\ SFs' = <<>> /\ todo' = 0
      /\ UNCHANGED <<graph, num_threads, sketches, dsu, spanning_forest, pending, modified, except,
                     edges, start, end, pc, mutex, before, asked, graph_id, dsu_valid, stale,
                     swallowed, split>>
  BY DEF Return, graphVars, boruvkaVars, filterVars
<1>3. ~FilterPhase /\ ~FilterPhase' /\ Thread' = Thread
  BY <1>2 DEF FilterPhase, Thread
<1>4. MCTypes'
  <2>1. phase' \in Phases /\ SFs' \in Seq(SUBSET Edge)
    BY <1>2 DEF Phases
  <2> QED BY <1>1, <1>2, <1>3, <2>1 DEF MCTypes, FilterTypes
<1>5. PhaseInv'
  BY <1>1, <1>2, <1>3 DEF PhaseInv
<1>6. FilterInv'
  <2>1. MutexInv /\ \A t \in Thread : pc[t] = "done"
    BY <1>1, <1>3 DEF FilterInv, PhaseInv
  <2>2. MutexInv'
    BY <1>2, <2>1, MutexIdle
  <2> QED BY <1>3, <2>2 DEF FilterInv
<1>7. Removed = {} /\ Removed' = {}
  BY <1>2 DEF Removed
<1>8. \A g \in Level, v \in Node : sketches[g][v] = Incident(graph[g], v)
  BY <1>1, <1>3, <1>7, QuietSketches
<1>9. RestoreInv'
  BY <1>2, <1>3, <1>4, <1>7, <1>8, QuietNext
<1>10. PeelInv' /\ CertInv'
  BY <1>2, NoForestsNext
<1>11. EmulationInv'
  BY <1>2 DEF EmulationInv
<1>12. ValidInv'
  BY <1>1, <1>2 DEF ValidInv
<1> QED BY <1>4, <1>5, <1>6, <1>9, <1>10, <1>11, <1>12 DEF CoreInv

-----------------------------------------------------------------------------
(* An update toggles the edge in the sketches of its ends.                   *)
LEMMA IncidentToggled ==
  ASSUME NEW G \in SUBSET Edge, NEW e \in Edge, NEW v \in Node
  PROVE  Incident(Toggle(G, {e}), v) =
           IF v \in {e[1], e[2]} THEN Toggle(Incident(G, v), {e}) ELSE Incident(G, v)
<1>1. CASE v \in {e[1], e[2]}
  BY <1>1 DEF Incident, Toggle
<1>2. CASE v \notin {e[1], e[2]}
  BY <1>2 DEF Incident, Toggle
<1> QED BY <1>1, <1>2

(* pre_insert keeps a union-find that holds the answer up to date.           *)
LEMMA PreInsertKeeps ==
  ASSUME MCTypes, NEW e \in Edge, pre_insert(e)
  PROVE  /\ dsu' \in [Node -> Node] /\ spanning_forest' \in SUBSET Edge /\ dsu_valid' \in BOOLEAN
         /\ dsu_valid' => dsu_valid
         /\ dsu_valid' /\ EagerOK(dsu, spanning_forest, graph[0]) =>
              EagerOK(dsu', spanning_forest', Toggle(graph[0], {e}))
<1>1. /\ dsu \in [Node -> Node] /\ spanning_forest \in SUBSET Edge /\ dsu_valid \in BOOLEAN
      /\ graph[0] \in SUBSET Edge
  BY FilterAssumption DEF MCTypes, FilterTypes, Level
<1>2. CASE dsu_valid /\ dsu[e[1]] # dsu[e[2]]
  <2>1. /\ dsu' = Union(dsu, e[1], e[2]) /\ spanning_forest' = spanning_forest \cup {e}
        /\ dsu_valid' = dsu_valid
    BY <1>2 DEF pre_insert
  <2>2. dsu' \in [Node -> Node]
    BY <1>1, <2>1, UnionWithin
  <2>3. EagerOK(dsu, spanning_forest, graph[0]) =>
          EagerOK(dsu', spanning_forest', Toggle(graph[0], {e}))
    BY <1>1, <1>2, <2>1, EagerJoin
  <2> QED BY <1>1, <2>1, <2>2, <2>3
<1>3. CASE ~(dsu_valid /\ dsu[e[1]] # dsu[e[2]])
  <2>1. /\ dsu_valid' = (dsu_valid /\ e \notin spanning_forest)
        /\ UNCHANGED <<dsu, spanning_forest>>
    BY <1>3 DEF pre_insert
  <2>2. dsu_valid' /\ EagerOK(dsu, spanning_forest, graph[0]) =>
          EagerOK(dsu', spanning_forest', Toggle(graph[0], {e}))
    BY <1>1, <1>3, <2>1, EagerWithin
  <2>3. dsu_valid' \in BOOLEAN /\ (dsu_valid' => dsu_valid)
    BY <1>1, <2>1
  <2> QED BY <1>1, <2>1, <2>2, <2>3
<1> QED BY <1>2, <1>3

(* An update between two queries.                                            *)
LEMMA UpdateKeeps ==
  ASSUME FiniteSetFacts,
         CoreInv, NEW e \in Edge, NEW last \in Level, apply_update_batch(e, last)
  PROVE  CoreInv'
<1>1. MCTypes /\ PhaseInv /\ FilterInv /\ RestoreInv /\ ValidInv
  BY DEF CoreInv
<1>2. /\ phase = "idle" /\ pre_insert(e)
      /\ UNCHANGED <<num_threads, pending, modified, except, edges, start, end, pc, mutex, before,
                     SFs, todo, asked, graph_id, stale, swallowed, split>>
  BY DEF apply_update_batch, filterVars
<1>3. \/ phase' = "crashed" /\ UNCHANGED <<graph, sketches>>
      \/ /\ phase' = phase
         /\ graph' = [g \in DOMAIN graph |-> IF g <= last THEN Toggle(graph[g], {e}) ELSE graph[g]]
         /\ sketches' = [g \in Level |-> [v \in Node |->
              IF g <= last /\ v \in {e[1], e[2]} THEN Toggle(sketches[g][v], {e})
              ELSE sketches[g][v]]]
  BY DEF apply_update_batch
<1>4. /\ dsu' \in [Node -> Node] /\ spanning_forest' \in SUBSET Edge /\ dsu_valid' \in BOOLEAN
      /\ dsu_valid' => dsu_valid
      /\ dsu_valid' /\ EagerOK(dsu, spanning_forest, graph[0]) =>
           EagerOK(dsu', spanning_forest', Toggle(graph[0], {e}))
  BY <1>1, <1>2, PreInsertKeeps
<1>5. phase' \in {"idle", "crashed"} /\ ~FilterPhase /\ ~FilterPhase' /\ Thread' = Thread
  BY <1>2, <1>3 DEF FilterPhase, Thread
<1>6. Removed = {} /\ Removed' = {}
  BY <1>2, <1>5 DEF Removed
<1>7. \A g \in Level, v \in Node : sketches[g][v] = Incident(graph[g], v)
  BY <1>1, <1>5, <1>6, QuietSketches
<1>8. \A g \in Level : g \in DOMAIN graph /\ graph[g] \in SUBSET Edge
  BY <1>1 DEF MCTypes, FilterTypes
<1>9. \A g \in Level : g \in DOMAIN graph' /\ graph'[g] \in SUBSET Edge
  BY <1>3, <1>8 DEF Toggle
<1>10. /\ sketches' \in [Level -> [Node -> SUBSET Edge]]
       /\ \A g \in Level, v \in Node : sketches'[g][v] = Incident(graph'[g], v)
  <2>1. CASE UNCHANGED <<graph, sketches>>
    BY <1>1, <1>7, <2>1 DEF MCTypes, FilterTypes
  <2>2. CASE /\ graph' = [g \in DOMAIN graph |->
                            IF g <= last THEN Toggle(graph[g], {e}) ELSE graph[g]]
             /\ sketches' = [g \in Level |-> [v \in Node |->
                  IF g <= last /\ v \in {e[1], e[2]} THEN Toggle(sketches[g][v], {e})
                  ELSE sketches[g][v]]]
    <3>1. \A g \in Level, v \in Node : sketches[g][v] \in SUBSET Edge
      BY <1>1 DEF MCTypes, FilterTypes
    <3>2. sketches' \in [Level -> [Node -> SUBSET Edge]]
      BY <2>2, <3>1 DEF Toggle
    <3>3. ASSUME NEW g \in Level, NEW v \in Node PROVE sketches'[g][v] = Incident(graph'[g], v)
      <4>1. /\ sketches[g][v] = Incident(graph[g], v)
            /\ graph'[g] = IF g <= last THEN Toggle(graph[g], {e}) ELSE graph[g]
            /\ sketches'[g][v] = IF g <= last /\ v \in {e[1], e[2]}
                                 THEN Toggle(sketches[g][v], {e}) ELSE sketches[g][v]
        BY <1>7, <1>8, <2>2
      <4>2. Incident(Toggle(graph[g], {e}), v) =
              IF v \in {e[1], e[2]} THEN Toggle(Incident(graph[g], v), {e}) ELSE Incident(graph[g], v)
        BY <1>8, IncidentToggled
      <4> QED BY <4>1, <4>2
    <3> QED BY <3>2, <3>3
  <2> QED BY <1>3, <2>1, <2>2
<1>11. MCTypes'
  <2>1. phase' \in Phases
    BY <1>5 DEF Phases
  <2>2. \A g \in Level : g \in DOMAIN graph' /\ graph'[g] \subseteq Edge
    BY <1>9
  <2> QED BY <1>1, <1>2, <1>4, <1>5, <1>10, <2>1, <2>2 DEF MCTypes, FilterTypes
<1>12. PhaseInv'
  BY <1>1, <1>2, <1>5 DEF PhaseInv
<1>13. FilterInv'
  <2>1. MutexInv /\ \A t \in Thread : pc[t] = "done"
    BY <1>1, <1>5 DEF FilterInv, PhaseInv
  <2>2. MutexInv'
    BY <1>2, <2>1, MutexIdle
  <2> QED BY <1>5, <2>2 DEF FilterInv
<1>14. RestoreInv'
  BY <1>5, <1>6, <1>10, <1>11, QuietNext
<1>15. PeelInv' /\ CertInv'
  BY <1>1, <1>2, NoForestsNext DEF PhaseInv
<1>16. EmulationInv'
  BY <1>5 DEF EmulationInv
<1>17. ValidInv'
  <2>1. 0 \in Level /\ 0 <= last
    BY FilterAssumption DEF Level
  <2>2. phase' = "idle" => graph'[0] = Toggle(graph[0], {e})
    BY <1>2, <1>3, <1>8, <2>1
  <2>3. dsu_valid' /\ ~stale' /\ ~split' => EagerOK(dsu, spanning_forest, graph[0])
    BY <1>1, <1>2, <1>4 DEF ValidInv
  <2> QED BY <1>4, <1>5, <2>2, <2>3 DEF ValidInv
<1> QED BY <1>11, <1>12, <1>13, <1>14, <1>15, <1>16, <1>17 DEF CoreInv

-----------------------------------------------------------------------------
(* The loop of tools/min_cut.cu looks at an edge store: no query is changed. *)
LEMMA StutterKeeps ==
  ASSUME CoreInv, UNCHANGED mcVars
  PROVE  CoreInv'
<1>1. UNCHANGED <<graph, num_threads, sketches, dsu, spanning_forest, pending, modified, except,
                  edges, start, end, pc, mutex, before, SFs, todo, phase, asked, graph_id,
                  dsu_valid, stale, swallowed, split>>
  BY DEF mcVars, graphVars, boruvkaVars, filterVars, queryVars
<1>2. Thread' = Thread /\ (FilterPhase' <=> FilterPhase) /\ Removed' = Removed
  BY <1>1 DEF Thread, FilterPhase, Removed
<1>3. MCTypes'
  BY <1>1, <1>2 DEF CoreInv, MCTypes, FilterTypes
<1>4. PhaseInv'
  BY <1>1, <1>2 DEF CoreInv, PhaseInv
<1>5. FilterInv'
  <2>1. \A b : Split(b)' <=> Split(b)
    BY <1>1 DEF Split, BoundAt, Src
  <2>2. MutexInv'
    BY <1>1, <1>2, <2>1 DEF CoreInv, FilterInv, MutexInv, BoundAt, Src
  <2>3. \A t : ThreadInv(t)' <=> ThreadInv(t)
    BY <1>1, <2>1 DEF ThreadInv, Pos, AboveLeft, BelowRight, BoundAt, Src
  <2>4. \A i : Applied(i)' <=> Applied(i)
    <3>1. \A i : Bounds(i)' = Bounds(i)
      BY <1>1, <2>1 DEF Bounds, BoundAt, Src
    <3>2. \A i : Crossed(i)' = Crossed(i)
      BY <1>1, <3>1 DEF Crossed, BoundAt
    <3>3. \A t, i : InMiddle(t, i)' <=> InMiddle(t, i)
      BY <1>1, <2>1 DEF InMiddle, AboveLeft, BelowRight, BoundAt, Src
    <3> QED BY <1>2, <3>1, <3>2, <3>3 DEF Applied, Odd
  <2>5. EffectInv' <=> EffectInv
    BY <1>1, <2>4 DEF EffectInv, Pos, AtPosition, Src
  <2> QED BY <1>2, <2>2, <2>3, <2>5 DEF CoreInv, FilterInv
<1>6. RestoreInv'
  <2>1. \A v, e : Out(Removed, v, e)' = Out(Removed, v, e)
    BY <1>1, <1>2 DEF Out, Deleted, Deletes, BoundsWithin, Odd
  <2> QED BY <1>1, <1>2, <2>1 DEF CoreInv, RestoreInv, Odd
<1>7. PeelInv' /\ CertInv' /\ (AllDeleted' <=> AllDeleted) /\ Rest(Len(SFs))' = Rest(Len(SFs))
  <2>1. Rest(Len(SFs))' = Rest(Len(SFs))
    BY <1>1 DEF Rest
  <2> QED BY <1>1, <2>1, PeelFrame DEF CoreInv
<1>8. EmulationInv'
  BY <1>1, <1>7 DEF CoreInv, EmulationInv, Supernodes
<1>9. ValidInv'
  BY <1>1 DEF CoreInv, ValidInv
<1> QED BY <1>3, <1>4, <1>5, <1>6, <1>7, <1>8, <1>9 DEF CoreInv

(* The stream has been ingested and nothing was asked.                       *)
LEMMA InitHolds ==
  ASSUME FiniteSetFacts, Init
  PROVE  MCInv
<1>1. MCInit
  BY DEF Init
<1>2. /\ num_threads \in Nat \ {0} /\ \A g \in Level : g \in DOMAIN graph /\ graph[g] \subseteq Edge
  BY <1>1, MCAssumption DEF MCInit
<1>3. /\ sketches = [g \in Level |-> [v \in Node |-> Incident(graph[g], v)]]
      /\ dsu = [v \in Node |-> v] /\ spanning_forest = {}
      /\ dsu_valid = FALSE /\ stale = FALSE
      /\ pending = {} /\ modified = FALSE /\ except = FALSE
      /\ SFs = <<>> /\ todo = 0 /\ before = sketches[0]
      /\ start = [t \in Thread |-> 0] /\ end = [t \in Thread |-> 0]
      /\ pc = [t \in Thread |-> "done"] /\ mutex = [v \in Node |-> NoOne]
      /\ phase = "idle" /\ asked = "forest" /\ graph_id = 0
      /\ swallowed = FALSE /\ split = FALSE /\ outside = FALSE
  BY <1>1 DEF MCInit, FilterInit
<1>4. 0 \in Level /\ ~FilterPhase /\ Removed = {}
  BY <1>3, FilterAssumption DEF Level, FilterPhase, Removed
<1>5. MCTypes
  <2>1. sketches \in [Level -> [Node -> SUBSET Edge]]
    BY <1>2, <1>3 DEF Incident
  <2>2. before \in [Node -> SUBSET Edge]
    BY <1>3, <1>4, <2>1
  <2>3. dsu \in [Node -> Node] /\ mutex \in [Node -> Int] /\ SFs \in Seq(SUBSET Edge) /\ todo \in Nat
    BY <1>3 DEF NoOne
  <2>4. start \in [Thread -> Nat] /\ end \in [Thread -> Nat] /\ pc \in [Thread -> Places]
    BY <1>3 DEF Places
  <2>5. phase \in Phases /\ asked \in {"components", "forest", "forests"} /\ graph_id \in Level
    BY <1>3, <1>4 DEF Phases
  <2> QED BY <1>2, <1>3, <2>1, <2>2, <2>3, <2>4, <2>5 DEF MCTypes, FilterTypes
<1>6. PhaseInv
  BY <1>3, <1>4 DEF PhaseInv
<1>7. FilterInv
  <2>1. ASSUME NEW v \in Node, NEW t \in Thread PROVE mutex[v] # t
    BY <1>2, <1>3 DEF NoOne, Thread
  <2> QED BY <1>4, <2>1 DEF FilterInv, MutexInv
<1>8. RestoreInv
  BY <1>3, <1>4, <1>5, QuietSketches
<1>9. PeelInv /\ CertInv
  BY <1>3, NoForests
<1>10. EmulationInv /\ ValidInv
  BY <1>3 DEF EmulationInv, ValidInv
<1> QED BY <1>3, <1>5, <1>6, <1>7, <1>8, <1>9, <1>10 DEF MCInv, CoreInv

(* Only a thread of filter_sf_edges reads outside edges, and two do not.     *)
LEMMA FilterStep ==
  ASSUME FiniteSetFacts, MCInv, NEW t \in Thread, Filter(t)
  PROVE  MCInv'
<1>0. filter_sf_edges(t) /\ FilterPhase
  BY DEF Filter, filter_sf_edges, FilterPhase
<1>1. outside' \in BOOLEAN /\ (outside => outside') /\ num_threads' = num_threads
  <2>1. num_threads' = num_threads /\ outside \in BOOLEAN
    BY <1>0 DEF MCInv, filter_sf_edges, TestLeft, Up, TestRight, Down, Middle, filterRest
  <2>2. CASE TestLeft(t)
    BY <2>1, <2>2 DEF TestLeft
  <2>3. CASE Up(t)
    BY <2>1, <2>3 DEF Up
  <2>4. CASE Down(t)
    BY <2>1, <2>4 DEF Down
  <2>5. CASE TestRight(t) \/ Middle(t)
    BY <2>1, <2>5 DEF TestRight, Middle
  <2> QED BY <1>0, <2>1, <2>2, <2>3, <2>4, <2>5 DEF filter_sf_edges
<1>2. ~outside' => CoreInv'
  BY <1>1, FilterKeeps DEF MCInv
<1>3. ASSUME num_threads <= 2 PROVE ~outside'
  <2>1. ~outside /\ CoreInv
    BY <1>3 DEF MCInv
  <2>2. Running
    BY <1>0, <2>1, RunningHolds
  <2> QED BY <1>0, <1>3, <2>1, <2>2, TwoThreads DEF filter_sf_edges
<1> QED BY <1>1, <1>2, <1>3 DEF MCInv

(* Every step keeps the invariant.                                           *)
LEMMA StepKeeps ==
  ASSUME FiniteSetFacts, MCInv, [Next]_vars
  PROVE  MCInv'
<1>1. ASSUME UNCHANGED <<outside, num_threads>>, CoreInv => CoreInv' PROVE MCInv'
  BY <1>1 DEF MCInv
<1>2. ASSUME NEW S \in pending, sample_supernode(S) PROVE MCInv'
  BY <1>1, <1>2, SampleKeeps DEF sample_supernode, filterVars, graphVars
<1>3. ASSUME create_merge_instructions PROVE MCInv'
  BY <1>1, <1>3, RoundKeeps DEF create_merge_instructions, filterVars, graphVars
<1>4. ASSUME ForestFound PROVE MCInv'
  <2>1. UNCHANGED <<outside, num_threads>>
    BY <1>4 DEF ForestFound, StartFilter, StartThreads, filterVars, graphVars
  <2> QED BY <1>1, <1>4, <2>1, ForestKeeps
<1>5. ASSUME ComponentsFound PROVE MCInv'
  BY <1>1, <1>5, ComponentsKeeps DEF ComponentsFound, filterVars, graphVars
<1>6. ASSUME NextForest PROVE MCInv'
  BY <1>1, <1>6, NextForestKeeps DEF NextForest, LeaveFilter, LeaveThreads, graphVars
<1>7. ASSUME Revert PROVE MCInv'
  <2>1. UNCHANGED <<outside, num_threads>>
    BY <1>7 DEF Revert, StartFilter, StartThreads, LeaveFilter, LeaveThreads, graphVars
  <2> QED BY <1>1, <1>7, <2>1, RevertKeeps
<1>8. ASSUME connected_components PROVE MCInv'
  BY <1>1, <1>8, ComponentsCallKeeps DEF connected_components, filterVars, graphVars
<1>9. ASSUME NEW g \in Level, calc_spanning_forest(g) \/ calc_disjoint_spanning_forests(g)
      PROVE  MCInv'
  BY <1>1, <1>9, ForestCallKeeps
     DEF calc_spanning_forest, calc_disjoint_spanning_forests, filterVars, graphVars
<1>10. ASSUME Return PROVE MCInv'
  BY <1>1, <1>10, ReturnKeeps DEF Return, filterVars, graphVars
<1>11. ASSUME NEW u \in Updates, apply_update_batch(u[1], u[2]) PROVE MCInv'
  <2>1. u[1] \in Edge /\ u[2] \in Level
    BY MCAssumption
  <2>2. UNCHANGED <<outside, num_threads>>
    BY <1>11 DEF apply_update_batch, filterVars
  <2> QED BY <1>1, <1>11, <2>1, <2>2, UpdateKeeps
<1>12. ASSUME UNCHANGED mcVars PROVE MCInv'
  BY <1>1, <1>12, StutterKeeps DEF mcVars, filterVars, graphVars
<1>13. CASE QueryStep
  BY <1>13, <1>2, <1>3, <1>4, <1>5, <1>6, <1>7 DEF QueryStep
<1>14. CASE main_forests
  <2>1. level \in Level /\ calc_disjoint_spanning_forests(level)
    BY <1>14, FilterAssumption, GraphsAssumption DEF main_forests, InLoop, Level
  <2> QED BY <1>9, <2>1
<1>15. CASE main_decide
  BY <1>10, <1>15 DEF main_decide
<1>16. CASE main_store \/ UNCHANGED vars
  BY <1>12, <1>16 DEF main_store, vars
<1>17. CASE Queries
  BY <1>8, <1>9, <1>10, <1>11, <1>17 DEF Queries, point_query
<1>18. CASE \E t \in Thread : Filter(t)
  BY <1>18, FilterStep
<1> QED BY <1>13, <1>14, <1>15, <1>16, <1>17, <1>18 DEF Next, Step

-----------------------------------------------------------------------------
(* What the invariant says of NoRace.                                        *)
LEMMA NoRaceFollows ==
  ASSUME FiniteSetFacts
  PROVE  MCInv => NoRace
<1>1. FilterPhase /\ ~outside /\ MCInv => Running
  BY RunningHolds DEF MCInv
<1>2. ~(FilterPhase /\ ~outside) => NoRace
  BY DEF NoRace, FilterPhase
<1> QED BY <1>1, <1>2, NoRaceHolds

(* What the invariant says of FilterEffect.                                  *)
LEMMA FilterEffectFollows ==
  ASSUME FiniteSetFacts
  PROVE  MCInv => FilterEffect
<1> SUFFICES ASSUME MCInv, Filtered
             PROVE  /\ num_threads <= 2 => ~outside
                    /\ ~outside => \A v \in Node : sketches[graph_id][v] =
                         IF Deletes(SFs[todo], v) THEN Toggle(before[v], Incident(SFs[todo], v))
                         ELSE before[v]
  BY DEF FilterEffect
<1>1. num_threads <= 2 => ~outside
  BY DEF MCInv
<1>2. ~outside => Running
  BY RunningHolds DEF MCInv, Filtered, FilterPhase
<1> QED BY <1>1, <1>2, FilterDone

(* What the invariant says of SketchesRestored.                              *)
LEMMA SketchesRestoredFollows ==
  ASSUME FiniteSetFacts
  PROVE  MCInv => SketchesRestored
<1> SUFFICES ASSUME MCInv, phase \in {"idle", "returned", "thrown"}, ~outside
             PROVE  \A g \in Level, v \in Node : sketches[g][v] = Incident(graph[g], v)
  BY DEF SketchesRestored
<1>1. MCTypes /\ RestoreInv
  BY DEF MCInv, CoreInv
<1>2. ~FilterPhase /\ Removed = {}
  BY DEF FilterPhase, Removed
<1> QED BY <1>1, <1>2, QuietSketches

(* What the invariant says of AnswerCurrent.                                 *)
LEMMA AnswerCurrentFollows ==
  ASSUME FiniteSetFacts
  PROVE  MCInv => AnswerCurrent
<1> SUFFICES ASSUME MCInv, phase = "returned", asked = "components", ~stale, ~split,
                    ~outside
             PROVE  ComponentsOf(dsu, graph[0])
  BY DEF AnswerCurrent
<1>1. MCTypes /\ PhaseInv /\ ValidInv
  BY DEF MCInv, CoreInv
<1>2. EagerOK(dsu, spanning_forest, graph[0])
  BY <1>1 DEF PhaseInv, ValidInv
<1>3. 0 \in Level
  BY FilterAssumption DEF Level
<1>4. dsu \in [Node -> Node] /\ spanning_forest \in SUBSET Edge /\ graph[0] \in SUBSET Edge
  BY <1>1, <1>3 DEF MCTypes, FilterTypes
<1> QED BY <1>2, <1>4, ForestSpans DEF EagerOK

(* What the invariant says of Certificate.                                   *)
LEMMA CertificateFollows ==
  ASSUME FiniteSetFacts
  PROVE  MCInv => Certificate
<1> DEFINE found == UNION {SFs[n] : n \in DOMAIN SFs}
           G == graph[graph_id]
<1> SUFFICES ASSUME MCInv, phase = "returned", asked = "forests", Proper
             PROVE  /\ found \subseteq G
                    /\ \A S \in SUBSET Node :
                         Cardinality(Cut(found, S)) >= Min({k, Cardinality(Cut(G, S))})
  BY DEF Certificate
<1>1. MCTypes /\ PhaseInv /\ PeelInv /\ CertInv /\ AllDeleted /\ ~swallowed /\ ~split
  BY DEF MCInv, CoreInv, Proper, AllDeleted, Deleted
<1>2. Len(SFs) = k /\ DOMAIN SFs = 1 .. Len(SFs)
  BY <1>1 DEF PhaseInv, MCTypes, FilterTypes
<1>3. \A n \in DOMAIN SFs : SFs[n] \in SUBSET Edge /\ SFs[n] \subseteq G
  BY <1>1, ForestsApart
<1>4. found \subseteq G /\ found \in SUBSET Edge /\ G \in SUBSET Edge
  BY <1>1, <1>3 DEF MCTypes, FilterTypes
<1>5. ASSUME NEW S \in SUBSET Node
      PROVE  Cardinality(Cut(found, S)) >= Min({k, Cardinality(Cut(G, S))})
  <2>1. Cardinality(Cut(found, S)) >= k \/ Cut(G, S) \subseteq found
    BY <1>1, <1>2 DEF CertInv
  <2> HIDE DEF found, G
  <2>2. /\ Cut(found, S) \in SUBSET Edge /\ Cut(G, S) \in SUBSET Edge
        /\ Cut(G, S) \subseteq found => Cut(G, S) \subseteq Cut(found, S)
    BY <1>4 DEF Cut
  <2>3. /\ Cardinality(Cut(found, S)) \in Nat /\ Cardinality(Cut(G, S)) \in Nat
        /\ IsFiniteSet(Cut(found, S)) /\ k \in Nat
    BY <2>2, EdgesFinite, MCAssumption
  <2>4. Cut(G, S) \subseteq found => Cardinality(Cut(G, S)) <= Cardinality(Cut(found, S))
    BY <2>2, <2>3, FiniteSubset
  <2>5. \A a, b \in Nat : Min({a, b}) <= a /\ Min({a, b}) <= b /\ Min({a, b}) \in Nat
    <3> TAKE a, b \in Nat
    <3>1. \E x \in {a, b} : \A y \in {a, b} : x <= y
      OBVIOUS
    <3>2. Min({a, b}) \in {a, b} /\ \A y \in {a, b} : Min({a, b}) <= y
      BY <3>1 DEF Min
    <3> QED BY <3>2
  <2>6. LET m == Min({k, Cardinality(Cut(G, S))})
        IN  m \in Nat /\ m <= k /\ m <= Cardinality(Cut(G, S))
    BY <2>3, <2>5
  <2> QED BY <2>1, <2>3, <2>4, <2>6
<1> QED BY <1>4, <1>5

(* On fewer than five vertices the sets of a union-find are small enough for *)
(* find_root to return their roots.                                          *)
LEMMA SmallSets ==
  ASSUME FiniteSetFacts, num_vertices < 5, NEW rep, NEW v
  PROVE  Roots(rep, v) = {rep[v]}
<1>1. 0 \in Int /\ num_vertices - 1 \in Int /\ ~(0 > num_vertices - 1)
  BY VertexAssumption
<1>2. IsFiniteSet(Node) /\ Cardinality(Node) = num_vertices - 1 - 0 + 1
  BY <1>1, FiniteInterval DEF Node
<1>3. SetOf(rep, v) \in SUBSET Node
  BY DEF SetOf
<1>4. Cardinality(SetOf(rep, v)) <= Cardinality(Node) /\ Cardinality(SetOf(rep, v)) \in Nat
  BY <1>2, <1>3, FiniteSubset, FiniteCount
<1>5. SoundRoots(rep, v)
  BY <1>2, <1>4, VertexAssumption DEF SoundRoots
<1> QED BY <1>5 DEF Roots

(* So no step splits a supernode there.                                      *)
LEMMA SmallSteps ==
  ASSUME FiniteSetFacts, num_vertices < 5, ~split, [Next]_vars
  PROVE  ~split'
<1>1. ASSUME create_merge_instructions PROVE ~split'
  <2>1. PICK root \in [Node -> Node] : /\ \A v \in Node : root[v] \in Roots(dsu, v)
                                       /\ pending' = {SetOf(root, v) : v \in Node}
    BY <1>1 DEF create_merge_instructions
  <2>2. \A v \in Node : root[v] = dsu[v]
    BY <2>1, SmallSets
  <2>3. \A v \in Node : SetOf(root, v) = SetOf(dsu, v)
    BY <2>2 DEF SetOf
  <2>4. pending' = {SetOf(dsu, v) : v \in Node}
    BY <2>1, <2>3
  <2> QED BY <1>1, <2>4 DEF create_merge_instructions
<1>2. CASE QueryStep
  BY <1>1, <1>2 DEF QueryStep, sample_supernode, ForestFound, ComponentsFound, NextForest, Revert,
                    boruvkaVars
<1>3. CASE main_forests \/ main_decide \/ main_store \/ UNCHANGED vars
  BY <1>3 DEF main_forests, calc_disjoint_spanning_forests, main_decide, Return, main_store, vars,
              mcVars, boruvkaVars
<1>4. CASE Queries
  BY <1>4 DEF Queries, connected_components, point_query, calc_spanning_forest,
              calc_disjoint_spanning_forests, Return, apply_update_batch, boruvkaVars
<1>5. CASE \E t \in Thread : Filter(t)
  BY <1>5 DEF Filter, boruvkaVars
<1> QED BY <1>2, <1>3, <1>4, <1>5 DEF Next, Step

-----------------------------------------------------------------------------
(* The library's theorems come with a FiniteSets of their own: both are      *)
(* compared with the definitions written out.                                *)
Finite(S) == \E s \in Seq(S) : \A e \in S : \E n \in 1 .. Len(s) : s[n] = e

Count(S) ==
  LET CS[T \in SUBSET S] == IF T = {} THEN 0 ELSE 1 + CS[T \ {CHOOSE x : x \in T}]
  IN  CS[S]

(* IsFiniteSet, as the model uses it.                                        *)
LEMMA FiniteHere == \A S : IsFiniteSet(S) <=> Finite(S)
BY Zenon DEF IsFiniteSet, Finite

(* Cardinality, as the model uses it.                                        *)
LEMMA CountHere == \A S : Cardinality(S) = Count(S)
BY Zenon DEF Cardinality, Count

LOCAL INSTANCE FiniteSetTheorems
LOCAL INSTANCE WellFoundedInduction

(* IsFiniteSet, as the library's theorems use it.                            *)
LEMMA FiniteThere == \A S : IsFiniteSet(S) <=> Finite(S)
BY Zenon DEF IsFiniteSet, Finite

(* Cardinality, as the library's theorems use it.                            *)
LEMMA CountThere == \A S : Cardinality(S) = Count(S)
BY Zenon DEF Cardinality, Count

(* The facts about finite sets hold.                                         *)
LEMMA FactsHold == FiniteSetFacts
<1>1. EmptyFact
  BY FS_EmptySet, FiniteHere, CountHere, FiniteThere, CountThere DEF EmptyFact
<1>2. IntervalFact
  BY FS_Interval, FiniteHere, CountHere, FiniteThere, CountThere DEF IntervalFact
<1>3. CountFact
  BY FS_CardinalityType, FiniteHere, CountHere, FiniteThere, CountThere DEF CountFact
<1>4. SubsetFact
  BY FS_Subset, FiniteHere, CountHere, FiniteThere, CountThere DEF SubsetFact
<1>5. AddFact
  BY FS_AddElement, FiniteHere, CountHere, FiniteThere, CountThere DEF AddFact
<1>6. DifferenceFact
  BY FS_Difference, FiniteHere, CountHere, FiniteThere, CountThere DEF DifferenceFact
<1>7. ProductFact
  BY FS_Product, FiniteHere, CountHere, FiniteThere, CountThere DEF ProductFact
<1>8. InjectionFact
  <2> SUFFICES ASSUME NEW S, NEW T, NEW f, Finite(T), f \in [S -> T],
                      \A x, y \in S : f[x] = f[y] => x = y
               PROVE  /\ Finite(S) /\ Count(S) <= Count(T)
                      /\ Count(S) = Count(T) => \A y \in T : \E x \in S : f[x] = y
    BY FiniteHere, CountHere DEF InjectionFact
  <2>1. f \in Injection(S, T)
    BY DEF Injection, IsInjective
  <2>2. IsFiniteSet(T)
    BY FiniteThere
  <2>3. /\ IsFiniteSet(S) /\ Cardinality(S) <= Cardinality(T)
        /\ Cardinality(S) = Cardinality(T) => f \in Surjection(S, T)
    BY <2>1, <2>2, FS_Injection
  <2>4. ASSUME f \in Surjection(S, T) PROVE \A y \in T : \E x \in S : f[x] = y
    BY <2>4 DEF Surjection
  <2> QED BY <2>3, <2>4, FiniteThere, CountThere
<1>9. LeastFact
  <2> SUFFICES ASSUME NEW T \in SUBSET Nat, T # {}
               PROVE  \E x \in T : \A y \in T : x <= y
    BY Zenon DEF LeastFact
  <2> DEFINE R == {p \in Nat \X Nat : p[1] < p[2]}
  <2>1. IsWellFoundedOn(R, Nat)
    <3>1. OpToRel(<, Nat) = R
      BY Zenon DEF OpToRel
    <3> QED BY <3>1, NatLessThanWellFounded, Zenon
  <2>2. PICK x \in T : \A y \in T : ~(<<y, x>> \in R)
    BY <2>1, WFMin, Zenon
  <2>3. ASSUME NEW y \in T PROVE x <= y
    <3>1. x \in Nat /\ y \in Nat /\ (y < x => <<y, x>> \in R)
      OBVIOUS
    <3>2. ~(<<y, x>> \in R)
      BY <2>2, Zenon
    <3> QED BY <3>1, <3>2
  <2> QED BY <2>3
<1> QED BY <1>1, <1>2, <1>3, <1>4, <1>5, <1>6, <1>7, <1>8, <1>9, Zenon DEF FiniteSetFacts

-----------------------------------------------------------------------------
(* What holds of the queries in every behaviour.                             *)
THEOREM InvariantTheorem == Spec => []MCInv
<1>1. Init => MCInv
  BY FactsHold, InitHolds
<1>2. MCInv /\ [Next]_vars => MCInv'
  BY FactsHold, StepKeeps
<1> QED BY <1>1, <1>2, PTL DEF Spec

(* For any number of threads: where filter_sf_edges updates a sketch without *)
(* its mutex, no other thread updates that sketch, as long as all reads are  *)
(* within the adjacency.                                                     *)
THEOREM NoRaceTheorem == Spec => []NoRace
<1>1. MCInv => NoRace
  BY FactsHold, NoRaceFollows
<1> QED BY <1>1, InvariantTheorem, PTL

(* What filter_sf_edges has done to a sketch when its threads have returned, *)
(* for any number of threads, and that two threads never read outside the    *)
(* adjacency.                                                                *)
THEOREM FilterTheorem == Spec => []FilterEffect
<1>1. MCInv => FilterEffect
  BY FactsHold, FilterEffectFollows
<1> QED BY <1>1, InvariantTheorem, PTL

(* A query of k disjoint forests puts back into the sketches just what it    *)
(* took out of them, even from runs that were deleted an even number of      *)
(* times, so the sketches between queries are those of the graph.            *)
THEOREM RestoreTheorem == Spec => []SketchesRestored
<1>1. MCInv => SketchesRestored
  BY FactsHold, SketchesRestoredFollows
<1> QED BY <1>1, InvariantTheorem, PTL

(* The components reported are those of the graph as it is, whether from an  *)
(* emulation or from the union-find that updates have kept up to date, but   *)
(* for the cases AnswerCurrent names: an emulation in which find_root split  *)
(* a supernode is one of them.                                               *)
THEOREM AnswerTheorem == Spec => []AnswerCurrent
<1>1. MCInv => AnswerCurrent
  BY FactsHold, AnswerCurrentFollows
<1> QED BY <1>1, InvariantTheorem, PTL

(* The k disjoint forests hold k edges of every cut of the subgraph, or all  *)
(* of them, so the minimum cut of the forests is that of the subgraph when   *)
(* it is smaller than k; if all were found without a split supernode or a    *)
(* dropped exception, and deleted whole.                                     *)
THEOREM CertificateTheorem == Spec => []Certificate
<1>1. MCInv => Certificate
  BY FactsHold, CertificateFollows
<1> QED BY <1>1, InvariantTheorem, PTL

(* On fewer than five vertices find_root splits no supernode, so neither     *)
(* AnswerCurrent nor Certificate leaves anything out on that account.        *)
THEOREM SmallGraphTheorem == num_vertices < 5 => (Spec => []~split)
<1> SUFFICES ASSUME num_vertices < 5 PROVE Spec => []~split
  OBVIOUS
<1>1. Init => ~split
  BY DEF Init, MCInit
<1>2. ~split /\ [Next]_vars => ~split'
  BY FactsHold, SmallSteps
<1> QED BY <1>1, <1>2, PTL DEF Spec
=============================================================================
