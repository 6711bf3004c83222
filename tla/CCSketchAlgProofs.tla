-------------------------- MODULE CCSketchAlgProofs --------------------------
(***************************************************************************)
(* AnswerExact, SketchesExact and ForestsPeeled for any number of vertices *)
(* and stream threads; with fewer than five vertices no emulation of       *)
(* Boruvka's algorithm ends early.                                         *)
(***************************************************************************)
EXTENDS CCSketchAlg, ConnectivityProofs, FiniteSetTheorems

(* The provers in the order they are tried, with their limits in seconds.    *)
USE ZenonT(3), SMTT(20), ZenonT(20)

Places == {"idle", "lock", "merge", "link", "invalidate", "share", "insert"}

Types ==
  /\ graph \in SUBSET Edge /\ spanning_forest \in SUBSET Edge /\ dsu \in [Node -> Node]
  /\ gutters \in [Node -> SUBSET Edge] /\ sketches \in [Node -> SUBSET Edge]
  /\ spanning_forest_mtx \in [Node -> StreamThread \cup {Free}]
  /\ dsu_valid \in BOOLEAN /\ shared_dsu_valid \in BOOLEAN
  /\ pc \in [StreamThread -> Places] /\ upd \in [StreamThread -> Node \X Node]
  /\ \A t \in StreamThread : pc[t] # "idle" => upd[t] \in Edge

(* A thread works on the forest of a vertex only while it holds its mutex.   *)
MutexInv ==
  \A t \in StreamThread :
    pc[t] \in {"merge", "link", "invalidate", "share"} => spanning_forest_mtx[upd[t][1]] = t

(* Queries run between the stretches of the stream, on flushed sketches      *)
(* unless the answer is at hand.                                             *)
PhaseInv ==
  /\ phase \notin {"stream", "terminated"} => Idle
  /\ phase \in {"peel", "restore"} => gutters = NoEdges
  /\ phase = "query" /\ ~shared_dsu_valid => gutters = NoEdges
  /\ phase = "answered" => shared_dsu_valid

(* The two flags agree except between their two assignments.                 *)
SharedInv ==
  /\ dsu_valid => shared_dsu_valid
  /\ shared_dsu_valid => dsu_valid \/ \E t \in StreamThread : pc[t] = "share"
  /\ \A t \in StreamThread : pc[t] = "share" => ~dsu_valid

(* The edges that have joined two sets and are not yet in the forest.        *)
Links == {e \in Edge : \E t \in StreamThread : pc[t] = "link" /\ upd[t] = e}

EagerInv ==
  dsu_valid /\ ~early /\ (\A t \in StreamThread : pc[t] # "invalidate") =>
    EagerOK(dsu, spanning_forest \cup Links, graph)

(* The threads between the union for e and its insertion in the gutters.     *)
InFlight(e) ==
  {t \in StreamThread : pc[t] \in {"link", "invalidate", "share", "insert"} /\ upd[t] = e}

Odd(S) == Cardinality(S) % 2 = 1

SketchInv ==
  \A v \in Node, e \in Edge :
    e \in Toggle(sketches[v], gutters[v])
      <=> (v = e[1] \/ v = e[2]) /\ ~(e \in graph <=> Odd(InFlight(e)))

CCInv == Types /\ MutexInv /\ PhaseInv /\ SharedInv /\ EagerInv /\ SketchInv

-----------------------------------------------------------------------------
(* One thread more or less changes the parity.                               *)
LEMMA OddFlips ==
  ASSUME NEW S \in SUBSET StreamThread, NEW t \in StreamThread, t \notin S
  PROVE  Odd(S \cup {t}) <=> ~Odd(S)
<1>1. IsFiniteSet(S)
  BY StreamAssumption, FS_Subset
<1>2. Cardinality(S) \in Nat /\ Cardinality(S \cup {t}) = Cardinality(S) + 1
  BY <1>1, FS_CardinalityType, FS_AddElement
<1>3. \A n \in Nat : (n + 1) % 2 = 1 <=> ~(n % 2 = 1)
  OBVIOUS
<1> QED BY <1>2, <1>3 DEF Odd

(* No update in flight is an even number of them.                            *)
LEMMA EmptyNotOdd == ~Odd({})
BY FS_EmptySet DEF Odd

-----------------------------------------------------------------------------
(* What a move of thread t within pre_insert does to the edges being linked  *)
(* and to the updates in flight.                                             *)
LEMMA MoveOfThread ==
  ASSUME Types, NEW t \in StreamThread, NEW place \in Places, Goto(t, place), UNCHANGED upd,
         upd[t] \in Edge
  PROVE  /\ pc' \in [StreamThread -> Places] /\ pc'[t] = place
         /\ \A s \in StreamThread : s # t => pc'[s] = pc[s]
         /\ place = "link" => Links' = Links \cup {upd[t]}
         /\ place # "link" /\ pc[t] # "link" => Links' = Links
         /\ place # "link" => Links \subseteq Links' \cup {upd[t]} /\ Links' \subseteq Links
         /\ \A e \in Edge : e # upd[t] => InFlight(e)' = InFlight(e)
         /\ place \in {"link", "invalidate", "share", "insert"} =>
              InFlight(upd[t])' = InFlight(upd[t]) \cup {t}
<1>1. /\ pc' \in [StreamThread -> Places] /\ pc'[t] = place
      /\ \A s \in StreamThread : s # t => pc'[s] = pc[s]
  BY DEF Types, Goto
<1>2. upd' = upd
  OBVIOUS
<1>3. place = "link" => Links' = Links \cup {upd[t]}
  BY <1>1, <1>2 DEF Links
<1>4. place # "link" /\ pc[t] # "link" => Links' = Links
  BY <1>1, <1>2 DEF Links
<1>5. place # "link" => Links \subseteq Links' \cup {upd[t]} /\ Links' \subseteq Links
  BY <1>1, <1>2 DEF Links
<1>6. \A e \in Edge : e # upd[t] => InFlight(e)' = InFlight(e)
  BY <1>1, <1>2 DEF InFlight
<1>7. place \in {"link", "invalidate", "share", "insert"} =>
        InFlight(upd[t])' = InFlight(upd[t]) \cup {t}
  BY <1>1, <1>2 DEF InFlight
<1> QED BY <1>1, <1>3, <1>4, <1>5, <1>6, <1>7

(* LockForest.                                                               *)
LEMMA LockForestKeeps ==
  ASSUME CCInv, NEW t \in StreamThread, LockForest(t)
  PROVE  CCInv'
<1> USE DEF CCInv
<1>0. /\ pc[t] = "lock" /\ spanning_forest_mtx[upd[t][1]] = Free /\ Goto(t, "merge")
      /\ spanning_forest_mtx' = [spanning_forest_mtx EXCEPT ![upd[t][1]] = t]
      /\ UNCHANGED <<graph, gutters, sketches, dsu, spanning_forest, dsu_valid,
                      shared_dsu_valid, early, upd, phase>>
  BY DEF LockForest, eagerVars, validVars
<1>1. upd[t] \in Edge /\ upd[t][1] \in Node
  BY <1>0 DEF Types, Edge
<1>2. /\ pc' \in [StreamThread -> Places] /\ pc'[t] = "merge"
      /\ \A s \in StreamThread : s # t => pc'[s] = pc[s]
      /\ Links' = Links /\ \A e \in Edge : e # upd[t] => InFlight(e)' = InFlight(e)
  BY <1>0, <1>1, MoveOfThread DEF Places
<1>3. InFlight(upd[t])' = InFlight(upd[t])
  BY <1>0, <1>2 DEF InFlight
<1>4. Types'
  BY <1>0, <1>1, <1>2 DEF Types
<1>5. MutexInv'
  BY <1>0, <1>1, <1>2, StreamAssumption DEF MutexInv, Types
<1>6. PhaseInv'
  BY <1>0, <1>2 DEF PhaseInv, Idle
<1>7. SharedInv'
  BY <1>0, <1>2 DEF SharedInv
<1>8. EagerInv'
  BY <1>0, <1>2 DEF EagerInv
<1>9. SketchInv'
  BY <1>0, <1>2, <1>3 DEF SketchInv
<1> QED BY <1>4, <1>5, <1>6, <1>7, <1>8, <1>9

(* MergeEdge: the mutex keeps the edge out of the forest's pending edges.    *)
LEMMA MergeEdgeKeeps ==
  ASSUME CCInv, NEW t \in StreamThread, MergeEdge(t)
  PROVE  CCInv'
<1> USE DEF CCInv
<1> DEFINE e == upd[t]
           F == spanning_forest \cup Links
<1>0. /\ pc[t] = "merge" /\ graph' = Toggle(graph, {e}) /\ dsu' = Union(dsu, e[1], e[2])
      /\ UNCHANGED <<gutters, sketches, spanning_forest, dsu_valid, shared_dsu_valid, early, upd, phase>>
  BY DEF MergeEdge, validVars
<1>1. e \in Edge /\ e[1] \in Node /\ e[2] \in Node /\ spanning_forest_mtx[e[1]] = t
  BY <1>0 DEF Types, Edge, MutexInv
<1>2. PICK place \in {"link", "invalidate", "insert"} :
        /\ Goto(t, place)
        /\ place = "link" <=> dsu[e[1]] # dsu[e[2]]
        /\ place = "insert" => e \notin spanning_forest
        /\ IF place = "insert" THEN Unlock(t) ELSE UNCHANGED spanning_forest_mtx
  BY DEF MergeEdge
<1>3. /\ pc' \in [StreamThread -> Places] /\ pc'[t] = place
      /\ \A s \in StreamThread : s # t => pc'[s] = pc[s]
      /\ place = "link" => Links' = Links \cup {e}
      /\ place # "link" => Links' = Links
      /\ \A f \in Edge : f # e => InFlight(f)' = InFlight(f)
      /\ InFlight(e)' = InFlight(e) \cup {t}
  BY <1>0, <1>1, <1>2, MoveOfThread DEF Places
<1>4. Types'
  <2>1. graph' \in SUBSET Edge
    BY <1>0, <1>1 DEF Types, Toggle
  <2>2. dsu' \in [Node -> Node]
    BY <1>0, <1>1, UnionWithin DEF Types
  <2>3. spanning_forest_mtx' \in [Node -> StreamThread \cup {Free}]
    BY <1>1, <1>2 DEF Types, Unlock
  <2> QED BY <1>0, <1>1, <1>3, <2>1, <2>2, <2>3 DEF Types
<1>5. MutexInv'
  BY <1>0, <1>1, <1>2, <1>3 DEF MutexInv, Types, Unlock, Edge
<1>6. PhaseInv'
  BY <1>0 DEF PhaseInv, Idle
<1>7. SharedInv'
  BY <1>0, <1>3 DEF SharedInv
<1>8. EagerInv'
  <2> SUFFICES ASSUME dsu_valid, ~early, \A s \in StreamThread : pc'[s] # "invalidate"
               PROVE  EagerOK(dsu', spanning_forest' \cup Links', graph')
    BY <1>0 DEF EagerInv
  <2>1. place # "invalidate" /\ \A s \in StreamThread : pc[s] # "invalidate"
    BY <1>0, <1>3
  <2>2. EagerOK(dsu, F, graph) /\ F \in SUBSET Edge
    BY <2>1 DEF EagerInv, Types, Links
  <2>3. dsu \in [Node -> Node] /\ graph \in SUBSET Edge
    BY DEF Types
  <2>4. CASE place = "link"
    <3>1. EagerOK(Union(dsu, e[1], e[2]), F \cup {e}, Toggle(graph, {e}))
      BY <1>1, <1>2, <2>2, <2>3, <2>4, EagerJoin
    <3>2. spanning_forest' \cup Links' = F \cup {e}
      BY <1>0, <1>3, <2>4
    <3> QED BY <1>0, <3>1, <3>2
  <2>5. CASE place = "insert"
    <3>1. e \notin F
      BY <1>0, <1>1, <1>2, <2>5 DEF Links, MutexInv
    <3>2. EagerOK(dsu, F, Toggle(graph, {e})) /\ dsu' = dsu
      BY <1>0, <1>1, <1>2, <2>2, <2>3, <2>5, <3>1, EagerWithin, UnionWithin
    <3>3. spanning_forest' \cup Links' = F
      BY <1>0, <1>3, <2>5
    <3> QED BY <1>0, <3>2, <3>3
  <2> QED BY <2>1, <2>4, <2>5
<1>9. SketchInv'
  <2>1. Odd(InFlight(e))' <=> ~Odd(InFlight(e))
    <3>1. InFlight(e) \in SUBSET StreamThread /\ t \notin InFlight(e)
      BY <1>0 DEF InFlight
    <3>2. Odd(InFlight(e) \cup {t}) <=> ~Odd(InFlight(e))
      BY <3>1, OddFlips
    <3> QED BY <1>3, <3>2 DEF Odd
  <2>2. ASSUME NEW v \in Node, NEW f \in Edge
        PROVE  (f \in Toggle(sketches[v], gutters[v])
                 <=> (v = f[1] \/ v = f[2]) /\ ~(f \in graph <=> Odd(InFlight(f))))'
    <3>1. CASE f = e
      <4>1. f \in graph' <=> f \notin graph
        BY <1>0, <3>1 DEF Toggle
      <4> QED BY <1>0, <1>1, <2>1, <3>1, <4>1 DEF SketchInv
    <3>2. CASE f # e
      <4>1. f \in graph' <=> f \in graph
        BY <1>0, <3>2 DEF Toggle
      <4>2. Odd(InFlight(f))' <=> Odd(InFlight(f))
        BY <1>3, <3>2 DEF Odd
      <4> QED BY <1>0, <4>1, <4>2 DEF SketchInv
    <3> QED BY <3>1, <3>2
  <2> QED BY <2>2 DEF SketchInv
<1> QED BY <1>4, <1>5, <1>6, <1>7, <1>8, <1>9

(* AddToForest, Invalidate and ShareInvalid: the rest of the locked section. *)
LEMMA LockedKeeps ==
  ASSUME CCInv, NEW t \in StreamThread, AddToForest(t) \/ Invalidate(t) \/ ShareInvalid(t)
  PROVE  CCInv'
<1> USE DEF CCInv
<1> DEFINE e == upd[t]
<1>0. /\ pc[t] \in {"link", "invalidate", "share"}
      /\ UNCHANGED <<graph, gutters, sketches, dsu, early, upd, phase>>
      /\ spanning_forest' = IF pc[t] = "link" THEN spanning_forest \cup {e} ELSE spanning_forest
      /\ dsu_valid' = IF pc[t] = "invalidate" THEN FALSE ELSE dsu_valid
      /\ shared_dsu_valid' = IF pc[t] = "share" THEN FALSE ELSE shared_dsu_valid
      /\ Goto(t, IF pc[t] = "invalidate" THEN "share" ELSE "insert")
      /\ IF pc[t] = "invalidate" THEN UNCHANGED spanning_forest_mtx ELSE Unlock(t)
  BY DEF AddToForest, Invalidate, ShareInvalid, eagerVars, validVars
<1>1. e \in Edge /\ e[1] \in Node /\ e[2] \in Node /\ spanning_forest_mtx[e[1]] = t
  BY <1>0 DEF Types, Edge, MutexInv
<1> DEFINE place == IF pc[t] = "invalidate" THEN "share" ELSE "insert"
<1>2. place \in Places /\ place \in {"share", "insert"}
  BY DEF Places
<1>3. /\ pc' \in [StreamThread -> Places] /\ pc'[t] = place
      /\ \A s \in StreamThread : s # t => pc'[s] = pc[s]
      /\ pc[t] # "link" => Links' = Links
      /\ Links \subseteq Links' \cup {e} /\ Links' \subseteq Links
      /\ \A f \in Edge : f # e => InFlight(f)' = InFlight(f)
      /\ InFlight(e)' = InFlight(e) \cup {t}
  <2> HIDE DEF place
  <2> QED BY <1>0, <1>1, <1>2, MoveOfThread DEF place
<1>4. \A f \in Edge : InFlight(f)' = InFlight(f)
  BY <1>0, <1>3 DEF InFlight
<1>5. Types'
  <2>1. spanning_forest_mtx' \in [Node -> StreamThread \cup {Free}]
    BY <1>0, <1>1 DEF Types, Unlock
  <2>2. spanning_forest' \in SUBSET Edge /\ dsu_valid' \in BOOLEAN /\ shared_dsu_valid' \in BOOLEAN
    BY <1>0, <1>1 DEF Types
  <2> QED BY <1>0, <1>1, <1>3, <2>1, <2>2 DEF Types
<1>6. MutexInv'
  BY <1>0, <1>1, <1>3 DEF MutexInv, Types, Unlock, Edge
<1>7. PhaseInv'
  BY <1>0 DEF PhaseInv, Idle
<1>8. SharedInv'
  <2>1. CASE pc[t] = "share"
    <3>1. dsu_valid' = dsu_valid /\ shared_dsu_valid' = FALSE
      BY <1>0, <2>1
    <3>2. ~dsu_valid
      BY <2>1 DEF SharedInv
    <3> QED BY <3>1, <3>2 DEF SharedInv
  <2>2. CASE pc[t] = "invalidate"
    BY <1>0, <1>3, <2>2 DEF SharedInv
  <2>3. CASE pc[t] = "link"
    BY <1>0, <1>3, <2>3 DEF SharedInv
  <2> QED BY <1>0, <2>1, <2>2, <2>3
<1>9. EagerInv'
  <2> SUFFICES ASSUME dsu_valid', ~early', \A s \in StreamThread : pc'[s] # "invalidate"
               PROVE  EagerOK(dsu', spanning_forest' \cup Links', graph')
    BY DEF EagerInv
  <2>1. dsu_valid /\ ~early /\ \A s \in StreamThread : pc[s] # "invalidate"
    BY <1>0, <1>3
  <2>2. e \in Links <=> pc[t] = "link" \/ \E s \in StreamThread : s # t /\ pc[s] = "link" /\ upd[s] = e
    BY <1>1 DEF Links
  <2>3. spanning_forest' \cup Links' = spanning_forest \cup Links
    BY <1>0, <1>3, <2>2
  <2> QED BY <1>0, <2>1, <2>3 DEF EagerInv
<1>10. SketchInv'
  BY <1>0, <1>4 DEF SketchInv
<1> QED BY <1>5, <1>6, <1>7, <1>8, <1>9, <1>10

(* Both halves of an update flip the edge at its two ends and nowhere else.  *)
LEMMA HalvesFlip ==
  ASSUME NEW f \in [Node -> SUBSET Edge], NEW e \in Edge
  PROVE  /\ Halves(f, e) \in [Node -> SUBSET Edge]
         /\ \A v \in Node, g \in Edge :
              g \in Halves(f, e)[v] <=>
                IF g = e /\ (v = e[1] \/ v = e[2]) THEN g \notin f[v] ELSE g \in f[v]
<1>1. e[1] \in Node /\ e[2] \in Node /\ e[1] # e[2]
  BY DEF Edge, Node
<1>2. \A v \in Node : Halves(f, e)[v] = IF v = e[1] \/ v = e[2] THEN Toggle(f[v], {e}) ELSE f[v]
  BY <1>1 DEF Halves
<1>3. \A S \in SUBSET Edge : Toggle(S, {e}) \in SUBSET Edge
  BY DEF Toggle
<1>4. Halves(f, e) \in [Node -> SUBSET Edge]
  BY <1>1, <1>3 DEF Halves
<1> QED BY <1>2, <1>4 DEF Toggle

(* InsertGutter: the update leaves the thread and enters both gutters.       *)
LEMMA InsertGutterKeeps ==
  ASSUME CCInv, NEW t \in StreamThread, InsertGutter(t)
  PROVE  CCInv'
<1> USE DEF CCInv
<1>a. pc[t] = "insert" /\ 0 \in Node /\ gutters \in [Node -> SUBSET Edge]
  <2>1. 0 \in Node
    BY VertexAssumption DEF Node
  <2> QED BY <2>1 DEF InsertGutter, Types
<1>1. PICK e \in Edge : e = upd[t]
  BY <1>a DEF Types
<1>0. /\ pc[t] = "insert" /\ gutters' = Halves(gutters, e)
      /\ pc' = [pc EXCEPT ![t] = "idle"] /\ upd' = [upd EXCEPT ![t] = <<0, 0>>]
      /\ UNCHANGED <<graph, sketches, dsu, spanning_forest, dsu_valid, shared_dsu_valid, early,
                      spanning_forest_mtx, phase>>
  BY <1>1 DEF InsertGutter, eagerVars, validVars, Goto
<1>2. /\ pc' \in [StreamThread -> Places] /\ pc'[t] = "idle"
      /\ upd' \in [StreamThread -> Node \X Node]
      /\ \A s \in StreamThread : s # t => pc'[s] = pc[s] /\ upd'[s] = upd[s]
  BY <1>0, <1>a DEF Types, Places
<1>3. Links' = Links
  BY <1>0, <1>2 DEF Links
<1>4. Types'
  <2>1. gutters' \in [Node -> SUBSET Edge]
    BY <1>0, <1>a, HalvesFlip
  <2> QED BY <1>0, <1>2, <2>1 DEF Types
<1>5. MutexInv'
  BY <1>0, <1>2 DEF MutexInv
<1>6. PhaseInv'
  BY <1>0 DEF PhaseInv, Idle
<1>7. SharedInv'
  BY <1>0, <1>2 DEF SharedInv
<1>8. EagerInv'
  BY <1>0, <1>2, <1>3 DEF EagerInv
<1>9. SketchInv'
  <2>1. Odd(InFlight(e))' <=> ~Odd(InFlight(e))
    <3>1. InFlight(e)' \in SUBSET StreamThread /\ t \notin InFlight(e)'
      BY <1>2 DEF InFlight
    <3>2. InFlight(e) = InFlight(e)' \cup {t}
      BY <1>0, <1>1, <1>2 DEF InFlight
    <3>3. Odd(InFlight(e)' \cup {t}) <=> ~Odd(InFlight(e)')
      BY <3>1, OddFlips
    <3> QED BY <3>2, <3>3 DEF Odd
  <2>2. ASSUME NEW v \in Node, NEW f \in Edge
        PROVE  (f \in Toggle(sketches[v], gutters[v])
                 <=> (v = f[1] \/ v = f[2]) /\ ~(f \in graph <=> Odd(InFlight(f))))'
    <3>0. f \in gutters'[v] <=>
            IF f = e /\ (v = e[1] \/ v = e[2]) THEN f \notin gutters[v] ELSE f \in gutters[v]
      BY <1>0, <1>a, HalvesFlip
    <3>1. /\ f \in Toggle(sketches[v], gutters[v]) <=> ~(f \in sketches[v] <=> f \in gutters[v])
          /\ f \in Toggle(sketches[v], gutters[v])' <=> ~(f \in sketches[v] <=> f \in gutters'[v])
      BY <1>0 DEF Toggle
    <3>2. f \in Toggle(sketches[v], gutters[v])
            <=> (v = f[1] \/ v = f[2]) /\ ~(f \in graph <=> Odd(InFlight(f)))
      BY DEF SketchInv
    <3>3. CASE f = e
      BY <1>0, <2>1, <3>0, <3>1, <3>2, <3>3
    <3>4. CASE f # e
      <4>1. InFlight(f)' = InFlight(f)
        BY <1>0, <1>1, <1>2, <3>4 DEF InFlight
      <4>2. Odd(InFlight(f))' <=> Odd(InFlight(f))
        BY <4>1 DEF Odd
      <4> QED BY <1>0, <3>0, <3>1, <3>2, <3>4, <4>2
    <3> QED BY <3>3, <3>4
  <2> QED BY <2>2 DEF SketchInv
<1> QED BY <1>4, <1>5, <1>6, <1>7, <1>8, <1>9

(* pre_insert: without a valid union-find the update is on its way at once.  *)
LEMMA PreInsertKeeps ==
  ASSUME CCInv, NEW t \in StreamThread, NEW e \in Edge, pre_insert(t, e)
  PROVE  CCInv'
<1> USE DEF CCInv
<1>0. /\ phase = "stream" /\ pc[t] = "idle" /\ upd' = [upd EXCEPT ![t] = e]
      /\ pc' = [pc EXCEPT ![t] = IF dsu_valid THEN "lock" ELSE "insert"]
      /\ graph' = IF dsu_valid THEN graph ELSE Toggle(graph, {e})
      /\ UNCHANGED <<gutters, sketches, dsu, spanning_forest, dsu_valid, shared_dsu_valid, early,
                      spanning_forest_mtx, phase>>
  BY DEF pre_insert, eagerVars, validVars, Goto
<1>1. /\ pc' \in [StreamThread -> Places] /\ pc'[t] = IF dsu_valid THEN "lock" ELSE "insert"
      /\ upd' \in [StreamThread -> Node \X Node] /\ upd'[t] = e
      /\ \A s \in StreamThread : s # t => pc'[s] = pc[s] /\ upd'[s] = upd[s]
  BY <1>0 DEF Types, Places, Edge
<1>2. Links' = Links
  BY <1>0, <1>1 DEF Links
<1>3. Types'
  <2>1. graph' \in SUBSET Edge
    BY <1>0 DEF Types, Toggle
  <2> QED BY <1>0, <1>1, <2>1 DEF Types
<1>4. MutexInv'
  BY <1>0, <1>1 DEF MutexInv
<1>5. PhaseInv'
  BY <1>0 DEF PhaseInv
<1>6. SharedInv'
  BY <1>0, <1>1 DEF SharedInv
<1>7. EagerInv'
  BY <1>0, <1>1, <1>2 DEF EagerInv
<1>8. SketchInv'
  <2>1. CASE dsu_valid
    <3>1. \A f \in Edge : InFlight(f)' = InFlight(f)
      BY <1>0, <1>1, <2>1 DEF InFlight
    <3> QED BY <1>0, <2>1, <3>1 DEF SketchInv
  <2>2. CASE ~dsu_valid
    <3>1. InFlight(e)' = InFlight(e) \cup {t} /\ t \notin InFlight(e)
      BY <1>0, <1>1, <2>2 DEF InFlight
    <3>2. Odd(InFlight(e) \cup {t}) <=> ~Odd(InFlight(e))
      <4>1. InFlight(e) \in SUBSET StreamThread
        BY DEF InFlight
      <4> QED BY <3>1, <4>1, OddFlips
    <3>3. \A f \in Edge : f # e => InFlight(f)' = InFlight(f)
      BY <1>0, <1>1, <2>2 DEF InFlight
    <3>4. \A f \in Edge : f \in graph' <=> IF f = e THEN f \notin graph ELSE f \in graph
      BY <1>0, <2>2 DEF Toggle
    <3>5. \A f \in Edge : (f \in graph <=> Odd(InFlight(f)))' <=> (f \in graph <=> Odd(InFlight(f)))
      BY <3>1, <3>2, <3>3, <3>4 DEF Odd
    <3> QED BY <1>0, <3>5 DEF SketchInv
  <2> QED BY <2>1, <2>2
<1> QED BY <1>3, <1>4, <1>5, <1>6, <1>7, <1>8

-----------------------------------------------------------------------------
(* A step that leaves the stream threads alone leaves the updates in flight. *)
LEMMA ThreadsRest ==
  ASSUME CCInv, UNCHANGED <<pc, upd, spanning_forest_mtx>>
  PROVE  /\ MutexInv' /\ Links' = Links /\ (Idle' <=> Idle)
         /\ \A e \in Edge : Odd(InFlight(e))' <=> Odd(InFlight(e))
         /\ Idle => Links = {} /\ \A e \in Edge : ~Odd(InFlight(e))
<1>1. MutexInv'
  BY DEF CCInv, MutexInv
<1>2. Links' = Links /\ (Idle' <=> Idle)
  BY DEF Links, Idle
<1>3. \A e \in Edge : InFlight(e)' = InFlight(e)
  BY DEF InFlight
<1>4. ASSUME Idle PROVE Links = {} /\ \A e \in Edge : InFlight(e) = {}
  BY <1>4 DEF Idle, Links, InFlight
<1> QED BY <1>1, <1>2, <1>3, <1>4, EmptyNotOdd DEF Odd

(* Steps that change neither the graph, the union-find nor the flags.        *)
LEMMA QuietKeeps ==
  ASSUME CCInv, UNCHANGED <<graph, dsu, spanning_forest, dsu_valid, shared_dsu_valid, early,
                            pc, upd, spanning_forest_mtx>>,
         gutters' \in [Node -> SUBSET Edge], sketches' \in [Node -> SUBSET Edge],
         \A v \in Node : Toggle(sketches[v], gutters[v])' = Toggle(sketches[v], gutters[v]),
         PhaseInv'
  PROVE  CCInv'
<1> USE DEF CCInv
<1>1. MutexInv' /\ Links' = Links /\ \A e \in Edge : Odd(InFlight(e))' <=> Odd(InFlight(e))
  BY ThreadsRest
<1>2. Types' /\ SharedInv'
  BY DEF Types, SharedInv
<1>3. EagerInv'
  BY <1>1 DEF EagerInv
<1>4. SketchInv'
  BY <1>1 DEF SketchInv
<1> QED BY <1>1, <1>2, <1>3, <1>4

(* apply_update_batch: what leaves a gutter enters the sketch.               *)
LEMMA BatchKeeps ==
  ASSUME CCInv, NEW v \in Node, NEW batch \in SUBSET gutters[v], apply_update_batch(v, batch)
  PROVE  CCInv'
<1> USE DEF CCInv
<1>0. /\ batch # {} /\ sketches' = [sketches EXCEPT ![v] = Toggle(@, batch)]
      /\ gutters' = [gutters EXCEPT ![v] = @ \ batch]
      /\ UNCHANGED <<graph, dsu, spanning_forest, dsu_valid, shared_dsu_valid, early, pc, upd,
                      spanning_forest_mtx, phase>>
  BY DEF apply_update_batch, eagerVars, validVars, threadVars
<1>1. sketches \in [Node -> SUBSET Edge] /\ gutters \in [Node -> SUBSET Edge] /\ batch \in SUBSET Edge
  BY DEF Types
<1>2. gutters' \in [Node -> SUBSET Edge] /\ sketches' \in [Node -> SUBSET Edge]
  <2>1. Toggle(sketches[v], batch) \in SUBSET Edge /\ gutters[v] \ batch \in SUBSET Edge
    BY <1>1 DEF Toggle
  <2> QED BY <1>0, <1>1, <2>1
<1>3. \A w \in Node : Toggle(sketches[w], gutters[w])' = Toggle(sketches[w], gutters[w])
  <2> TAKE w \in Node
  <2>1. CASE w = v
    <3>1. sketches'[w] = Toggle(sketches[v], batch) /\ gutters'[w] = gutters[v] \ batch
      BY <1>0, <1>1, <2>1
    <3>2. Toggle(Toggle(sketches[v], batch), gutters[v] \ batch) = Toggle(sketches[v], gutters[v])
      BY DEF Toggle
    <3>3. Toggle(sketches'[w], gutters'[w]) = Toggle(sketches[w], gutters[w])
      BY <2>1, <3>1, <3>2
    <3> QED BY <3>3 DEF Toggle
  <2>2. CASE w # v
    <3>1. sketches'[w] = sketches[w] /\ gutters'[w] = gutters[w]
      BY <1>0, <1>1, <2>2
    <3> QED BY <3>1 DEF Toggle
  <2> QED BY <2>1, <2>2
<1>4. gutters # NoEdges
  BY <1>0 DEF NoEdges
<1>5. PhaseInv'
  BY <1>0, <1>4 DEF PhaseInv, Idle
<1> QED BY <1>0, <1>2, <1>3, <1>5, QuietKeeps

(* A flush puts every queued update into the sketches.                       *)
LEMMA FlushExact ==
  ASSUME Types
  PROVE  /\ NoEdges \in [Node -> SUBSET Edge] /\ Flushed \in [Node -> SUBSET Edge]
         /\ \A v \in Node : Toggle(Flushed[v], NoEdges[v]) = Toggle(sketches[v], gutters[v])
<1>1. NoEdges \in [Node -> SUBSET Edge]
  BY DEF NoEdges
<1>2. \A v \in Node : Toggle(sketches[v], gutters[v]) \in SUBSET Edge
  BY DEF Types, Toggle
<1>3. \A S : Toggle(S, {}) = S
  BY DEF Toggle
<1> QED BY <1>1, <1>2, <1>3 DEF Flushed, NoEdges

(* prep_query.                                                               *)
LEMMA PrepQueryKeeps ==
  ASSUME CCInv, NEW code \in {"CONNECTIVITY", "KSPANNINGFORESTS"}, prep_query(code)
  PROVE  CCInv'
<1> USE DEF CCInv
<1>0. /\ Idle /\ phase' = IF code = "CONNECTIVITY" THEN "query" ELSE "peel"
      /\ IF code = "CONNECTIVITY" /\ shared_dsu_valid THEN UNCHANGED <<gutters, sketches>>
         ELSE gutters' = NoEdges /\ sketches' = Flushed
      /\ UNCHANGED <<graph, dsu, spanning_forest, dsu_valid, shared_dsu_valid, early, pc, upd,
                      spanning_forest_mtx>>
  BY DEF prep_query, has_cached_query, eagerVars, validVars, threadVars
<1>1. /\ gutters' \in [Node -> SUBSET Edge] /\ sketches' \in [Node -> SUBSET Edge]
      /\ \A v \in Node : Toggle(sketches'[v], gutters'[v]) = Toggle(sketches[v], gutters[v])
  BY <1>0, FlushExact DEF Types
<1>2. PhaseInv'
  BY <1>0 DEF PhaseInv, Idle
<1>3. \A v \in Node : Toggle(sketches[v], gutters[v])' = Toggle(sketches[v], gutters[v])
  BY <1>1 DEF Toggle
<1> QED BY <1>0, <1>1, <1>2, <1>3, QuietKeeps

(* UpdateLocked, Resume, NextForest and Restore.                             *)
LEMMA CallerMovesOn ==
  ASSUME CCInv, UpdateLocked \/ Resume \/ NextForest \/ Restore
  PROVE  CCInv'
<1> USE DEF CCInv
<1>0. /\ UNCHANGED <<graph, gutters, sketches, dsu, spanning_forest, dsu_valid,
                      shared_dsu_valid, early, pc, upd, spanning_forest_mtx>>
      /\ \/ phase' \in {"stream", "terminated"}
         \/ phase \in {"peel", "restore"} /\ phase' \in {"peel", "restore", "peeled"}
  BY DEF UpdateLocked, Resume, NextForest, Restore, eagerVars, validVars, threadVars
<1>1. PhaseInv'
  BY <1>0 DEF PhaseInv, Idle
<1>2. gutters' \in [Node -> SUBSET Edge] /\ sketches' \in [Node -> SUBSET Edge]
  BY <1>0 DEF Types
<1>3. \A v \in Node : Toggle(sketches[v], gutters[v])' = Toggle(sketches[v], gutters[v])
  BY <1>0 DEF Toggle
<1> QED BY <1>0, <1>1, <1>2, <1>3, QuietKeeps

(* What a query samples is the graph the stream has delivered.               *)
LEMMA SketchedIsGraph ==
  ASSUME CCInv, Idle, gutters = NoEdges
  PROVE  Sketched = graph
<1> USE DEF CCInv
<1>1. \A e \in Edge : InFlight(e) = {}
  BY DEF Idle, InFlight
<1>2. \A e \in Edge : ~Odd(InFlight(e))
  BY <1>1, EmptyNotOdd
<1>3. \A v \in Node, e \in Edge : e \in sketches[v] <=> e \in Toggle(sketches[v], gutters[v])
  BY DEF NoEdges, Toggle
<1>4. \A v \in Node, e \in Edge : e \in sketches[v] <=> (v = e[1] \/ v = e[2]) /\ e \in graph
  BY <1>2, <1>3 DEF SketchInv
<1>5. \A e \in Edge : e[1] \in Node /\ e[2] \in Node
  BY DEF Edge
<1>6. graph \in SUBSET Edge
  BY DEF Types
<1> QED BY <1>4, <1>5, <1>6 DEF Sketched

(* connected_components and the queries of calc_disjoint_spanning_forests,   *)
(* whether the emulation succeeds, is not needed, or throws.                 *)
LEMMA QueryKeeps ==
  ASSUME CCInv, connected_components \/ QueryThrows \/ PeelForest \/ PeelThrows
  PROVE  CCInv'
<1> USE DEF CCInv
<1>0. /\ UNCHANGED <<graph, gutters, sketches, pc, upd, spanning_forest_mtx>>
      /\ phase \in {"query", "peel"}
      /\ \/ /\ shared_dsu_valid
            /\ UNCHANGED <<dsu, spanning_forest, dsu_valid, shared_dsu_valid, early>>
            /\ phase' \in {"answered", phase}
         \/ ~shared_dsu_valid /\ boruvka_emulation /\ phase' \in {"answered", phase}
         \/ ~shared_dsu_valid /\ BoruvkaThrows /\ phase' = "stream"
  BY DEF connected_components, QueryThrows, PeelForest, PeelThrows, eagerVars, validVars, threadVars
<1>1. /\ MutexInv' /\ Links' = Links /\ (Idle' <=> Idle)
      /\ \A e \in Edge : Odd(InFlight(e))' <=> Odd(InFlight(e))
      /\ Idle => Links = {}
  BY <1>0, ThreadsRest
<1>2. Idle /\ (~shared_dsu_valid => gutters = NoEdges)
  BY <1>0 DEF PhaseInv
<1>3. SketchInv'
  BY <1>0, <1>1 DEF SketchInv
<1>4. CASE shared_dsu_valid
  <2>1. UNCHANGED <<dsu, spanning_forest, dsu_valid, shared_dsu_valid, early>> /\ phase' \in {"answered", phase}
    BY <1>0, <1>4
  <2>2. Types' /\ SharedInv' /\ PhaseInv'
    BY <1>0, <1>1, <1>2, <1>4, <2>1 DEF Types, SharedInv, PhaseInv
  <2>3. EagerInv'
    BY <1>0, <1>1, <2>1 DEF EagerInv
  <2> QED BY <1>1, <1>3, <2>2, <2>3
<1>5. CASE ~shared_dsu_valid /\ boruvka_emulation /\ phase' \in {"answered", phase}
  <2>1. Sketched = graph /\ graph \in SUBSET Edge
    BY <1>2, <1>5, SketchedIsGraph DEF Types
  <2>2. /\ spanning_forest' \in SUBSET Edge
        /\ ~early' => SpanningForestOf(spanning_forest', graph)
        /\ dsu' \in [Node -> Node] /\ ComponentsOf(dsu', spanning_forest')
        /\ dsu_valid' = TRUE /\ shared_dsu_valid' = TRUE
    BY <1>5, <2>1 DEF boruvka_emulation
  <2>3. ASSUME ~early' PROVE EagerOK(dsu', spanning_forest', graph)
    <3>1. \A e \in graph : dsu'[e[1]] = dsu'[e[2]]
      <4> SUFFICES ASSUME NEW e \in graph PROVE dsu'[e[1]] = dsu'[e[2]]
        OBVIOUS
      <4>1. e[1] \in Node /\ e[2] \in Node /\ Linked(spanning_forest', e[1], e[2])
        BY <2>1, <2>2, <2>3 DEF Edge, SpanningForestOf
      <4> QED BY <2>2, <4>1 DEF ComponentsOf
    <3> QED BY <2>2, <2>3, <3>1 DEF EagerOK, SpanningForestOf
  <2>4. Types' /\ PhaseInv'
    BY <1>0, <1>1, <1>2, <1>5, <2>2 DEF Types, PhaseInv
  <2>5. SharedInv'
    BY <1>0, <1>2, <2>2 DEF SharedInv, Idle
  <2>6. spanning_forest' \cup Links' = spanning_forest'
    BY <1>1, <1>2
  <2>7. EagerInv'
    BY <1>0, <2>3, <2>6 DEF EagerInv
  <2> QED BY <1>1, <1>3, <2>4, <2>5, <2>7
<1>6. CASE ~shared_dsu_valid /\ BoruvkaThrows /\ phase' = "stream"
  <2>1. /\ spanning_forest' \in SUBSET Edge /\ dsu' \in [Node -> Node]
        /\ UNCHANGED <<dsu_valid, shared_dsu_valid, early>>
    BY <1>6 DEF BoruvkaThrows, Sketched, validVars
  <2>2. ~dsu_valid
    BY <1>6 DEF SharedInv
  <2>3. Types' /\ SharedInv' /\ PhaseInv'
    BY <1>0, <1>6, <2>1 DEF Types, SharedInv, PhaseInv
  <2>4. EagerInv'
    BY <2>1, <2>2 DEF EagerInv
  <2> QED BY <1>1, <1>3, <2>3, <2>4
<1> QED BY <1>0, <1>4, <1>5, <1>6

(* update, by the program and by calc_disjoint_spanning_forests.             *)
LEMMA UpdateKeeps ==
  ASSUME CCInv, NEW e \in Edge, update(e) \/ UpdateForest(e)
  PROVE  CCInv'
<1> USE DEF CCInv
<1>0. /\ Update(e) /\ UNCHANGED <<gutters, pc, upd, spanning_forest_mtx, phase>>
      /\ phase \in {"stream", "peel", "restore"} /\ Idle /\ gutters = NoEdges
  BY DEF update, UpdateForest, PhaseInv, threadVars
<1>1. /\ MutexInv' /\ Links' = Links /\ (Idle' <=> Idle)
      /\ \A f \in Edge : Odd(InFlight(f))' <=> Odd(InFlight(f))
      /\ Links = {} /\ \A f \in Edge : ~Odd(InFlight(f))
  BY <1>0, ThreadsRest
<1>2. /\ graph' = Toggle(graph, {e}) /\ sketches' = Halves(sketches, e)
      /\ graph \in SUBSET Edge /\ spanning_forest \in SUBSET Edge /\ dsu \in [Node -> Node]
      /\ sketches \in [Node -> SUBSET Edge] /\ dsu_valid \in BOOLEAN /\ shared_dsu_valid \in BOOLEAN
  BY <1>0 DEF Update, Types
<1> DEFINE joins == dsu_valid /\ dsu[e[1]] # dsu[e[2]]
           spoils == dsu_valid /\ ~joins /\ e \in spanning_forest
<1>3. /\ dsu' = IF joins THEN Union(dsu, e[1], e[2]) ELSE dsu
      /\ spanning_forest' = IF joins THEN spanning_forest \cup {e} ELSE spanning_forest
      /\ dsu_valid' = (dsu_valid /\ ~spoils)
      /\ shared_dsu_valid' = (shared_dsu_valid /\ ~spoils)
      /\ UNCHANGED early
  BY <1>0 DEF Update
<1>4. Types'
  <2>1. graph' \in SUBSET Edge /\ sketches' \in [Node -> SUBSET Edge]
    BY <1>2, HalvesFlip DEF Toggle
  <2>2. dsu' \in [Node -> Node] /\ spanning_forest' \in SUBSET Edge
    BY <1>2, <1>3, UnionWithin
  <2>3. dsu_valid' \in BOOLEAN /\ shared_dsu_valid' \in BOOLEAN
    BY <1>3
  <2> QED BY <1>0, <2>1, <2>2, <2>3 DEF Types
<1>5. PhaseInv'
  BY <1>0, <1>1 DEF PhaseInv
<1>6. SharedInv'
  BY <1>0, <1>2, <1>3 DEF SharedInv, Idle
<1>7. EagerInv'
  <2> SUFFICES ASSUME dsu_valid', ~early' PROVE EagerOK(dsu', spanning_forest', graph')
    BY <1>1 DEF EagerInv
  <2>1. dsu_valid /\ ~early /\ ~spoils
    BY <1>3
  <2>2. EagerOK(dsu, spanning_forest, graph)
    <3>1. spanning_forest \cup Links = spanning_forest
      BY <1>1
    <3> QED BY <1>0, <2>1, <3>1 DEF EagerInv, Idle
  <2>3. CASE joins
    BY <1>2, <1>3, <2>2, <2>3, EagerJoin
  <2>4. CASE ~joins
    BY <1>2, <1>3, <2>1, <2>2, <2>4, EagerWithin
  <2> QED BY <2>3, <2>4
<1>8. SketchInv'
  <2>1. ASSUME NEW v \in Node, NEW f \in Edge
        PROVE  (f \in Toggle(sketches[v], gutters[v])
                 <=> (v = f[1] \/ v = f[2]) /\ ~(f \in graph <=> Odd(InFlight(f))))'
    <3>1. f \in sketches'[v] <=>
            IF f = e /\ (v = e[1] \/ v = e[2]) THEN f \notin sketches[v] ELSE f \in sketches[v]
      BY <1>2, HalvesFlip
    <3>2. gutters[v] = {} /\ gutters'[v] = {}
      BY <1>0 DEF NoEdges
    <3>3. f \in graph' <=> IF f = e THEN f \notin graph ELSE f \in graph
      BY <1>2 DEF Toggle
    <3>4. f \in sketches[v] <=> (v = f[1] \/ v = f[2]) /\ f \in graph
      BY <1>1, <3>2 DEF SketchInv, Toggle
    <3>5. f \in sketches'[v] <=> (v = f[1] \/ v = f[2]) /\ f \in graph'
      BY <3>1, <3>3, <3>4
    <3>6. f \in Toggle(sketches[v], gutters[v])' <=> f \in sketches'[v]
      BY <3>2 DEF Toggle
    <3>7. ~Odd(InFlight(f))'
      BY <1>1
    <3> QED BY <3>5, <3>6, <3>7
  <2> QED BY <2>1 DEF SketchInv
<1> QED BY <1>1, <1>4, <1>5, <1>6, <1>7, <1>8

(* write_binary with nothing left in the gutters, and the process that reads *)
(* the file.                                                                 *)
LEMMA ReheatKeeps ==
  ASSUME CCInv, NEW code \in SaveCode, Reheat(code), ~lost'
  PROVE  CCInv'
<1> USE DEF CCInv
<1>0. /\ phase = "stream" /\ gutters' = NoEdges
      /\ sketches' = Flushed \/ (gutters = NoEdges /\ sketches' = sketches)
      /\ dsu' = Singletons /\ spanning_forest' = {} /\ dsu_valid' = FALSE /\ shared_dsu_valid' = FALSE
      /\ UNCHANGED <<graph, pc, upd, spanning_forest_mtx, phase>>
  BY DEF Reheat, threadVars
<1>1. MutexInv' /\ \A e \in Edge : Odd(InFlight(e))' <=> Odd(InFlight(e))
  BY <1>0, ThreadsRest
<1>2. /\ gutters' \in [Node -> SUBSET Edge] /\ sketches' \in [Node -> SUBSET Edge]
      /\ \A v \in Node : Toggle(sketches'[v], gutters'[v]) = Toggle(sketches[v], gutters[v])
  BY <1>0, FlushExact DEF Types
<1>3. Types'
  BY <1>0, <1>2 DEF Types, Singletons
<1>4. PhaseInv' /\ SharedInv' /\ EagerInv'
  BY <1>0 DEF PhaseInv, SharedInv, EagerInv
<1>5. SketchInv'
  BY <1>0, <1>1, <1>2 DEF SketchInv, Toggle
<1> QED BY <1>1, <1>3, <1>4, <1>5

(* A new algorithm: no edges, and every vertex alone.                        *)
LEMMA CCInit == ASSUME Init PROVE CCInv
<1> USE DEF Init
<1>1. Types
  BY VertexAssumption DEF Types, Places, NoEdges, Singletons, Node
<1>2. MutexInv /\ PhaseInv /\ SharedInv
  BY DEF MutexInv, PhaseInv, SharedInv, Idle
<1>3. Links = {} /\ \A e \in Edge : InFlight(e) = {}
  BY DEF Links, InFlight
<1>4. EagerInv
  <2>1. \A v, w \in Node : Linked({}, v, w) => v = w
    <3> SUFFICES ASSUME NEW v \in Node, NEW w \in Node, Linked({}, v, w) PROVE v = w
      OBVIOUS
    <3>1. {v} \in SUBSET Node /\ Closed({v}, {})
      BY DEF Closed
    <3> QED BY <3>1 DEF Linked
  <2>2. \A v \in Node : Linked({}, v, v)
    BY DEF Linked
  <2>3. ComponentsOf(Singletons, {})
    BY <2>1, <2>2 DEF ComponentsOf, Singletons
  <2>4. Forest({})
    BY DEF Forest
  <2>5. spanning_forest \cup Links = {}
    BY <1>3
  <2> QED BY <2>3, <2>4, <2>5 DEF EagerInv, EagerOK
<1>5. SketchInv
  BY <1>3, EmptyNotOdd DEF SketchInv, NoEdges, Toggle
<1> QED BY <1>1, <1>2, <1>4, <1>5 DEF CCInv

(* Every step keeps the invariant.                                           *)
LEMMA CCStep ==
  ASSUME CCInv, [Next]_ccVars, ~lost'
  PROVE  CCInv'
<1>1. CASE UNCHANGED ccVars
  <2>1. UNCHANGED <<graph, dsu, spanning_forest, dsu_valid, shared_dsu_valid, early, pc, upd,
                    spanning_forest_mtx, gutters, sketches, phase>>
    BY <1>1 DEF ccVars, eagerVars, validVars, threadVars
  <2>2. PhaseInv' /\ gutters' \in [Node -> SUBSET Edge] /\ sketches' \in [Node -> SUBSET Edge]
    BY <2>1 DEF CCInv, PhaseInv, Types, Idle
  <2>3. \A v \in Node : Toggle(sketches[v], gutters[v])' = Toggle(sketches[v], gutters[v])
    BY <2>1 DEF Toggle
  <2> QED BY <2>1, <2>2, <2>3, QuietKeeps
<1>2. ASSUME NEW t \in StreamThread, StreamStep(t) PROVE CCInv'
  BY <1>2, LockForestKeeps, MergeEdgeKeeps, LockedKeeps, InsertGutterKeeps DEF StreamStep
<1>3. ASSUME NEW t \in StreamThread, NEW e \in Edge, pre_insert(t, e) PROVE CCInv'
  BY <1>3, PreInsertKeeps
<1>4. ASSUME NEW v \in Node, NEW batch \in SUBSET gutters[v], apply_update_batch(v, batch)
      PROVE  CCInv'
  BY <1>4, BatchKeeps
<1>5. CASE UpdateLocked \/ Resume \/ NextForest \/ Restore
  BY <1>5, CallerMovesOn
<1>6. ASSUME NEW code \in {"CONNECTIVITY", "KSPANNINGFORESTS"}, prep_query(code) PROVE CCInv'
  BY <1>6, PrepQueryKeeps
<1>7. CASE connected_components \/ QueryThrows \/ PeelForest \/ PeelThrows
  BY <1>7, QueryKeeps
<1>8. ASSUME NEW e \in Edge, update(e) \/ UpdateForest(e) PROVE CCInv'
  BY <1>8, UpdateKeeps
<1>9. ASSUME NEW code \in SaveCode, Reheat(code) PROVE CCInv'
  BY <1>9, ReheatKeeps
<1> QED BY <1>1, <1>2, <1>3, <1>4, <1>5, <1>6, <1>7, <1>8, <1>9 DEF Next

(* The invariant gives the two properties.                                   *)
LEMMA CCImplies ==
  ASSUME CCInv
  PROVE  AnswerExact /\ SketchesExact
<1> USE DEF CCInv
<1>0. ASSUME Idle PROVE Links = {} /\ \A e \in Edge : InFlight(e) = {}
  BY <1>0 DEF Idle, Links, InFlight
<1>1. ASSUME Idle, shared_dsu_valid \/ phase = "answered", ~early
      PROVE  ComponentsOf(dsu, graph) /\ SpanningForestOf(spanning_forest, graph)
  <2>1. dsu_valid /\ spanning_forest \cup Links = spanning_forest
    BY <1>0, <1>1 DEF SharedInv, PhaseInv, Idle
  <2>2. EagerOK(dsu, spanning_forest, graph)
    BY <1>1, <2>1 DEF EagerInv, Idle
  <2>3. dsu \in [Node -> Node] /\ graph \in SUBSET Edge /\ spanning_forest \in SUBSET Edge
    BY DEF Types
  <2> QED BY <2>2, <2>3, ForestSpans DEF EagerOK
<1>2. ASSUME Idle, NEW v \in Node PROVE Toggle(sketches[v], gutters[v]) = Incident(graph, v)
  <2>1. \A e \in Edge : e \in Toggle(sketches[v], gutters[v]) <=> (v = e[1] \/ v = e[2]) /\ e \in graph
    BY <1>0, <1>2, EmptyNotOdd DEF SketchInv
  <2>2. Toggle(sketches[v], gutters[v]) \subseteq Edge /\ graph \subseteq Edge
    BY DEF Types, Toggle
  <2> QED BY <2>1, <2>2 DEF Incident
<1> QED BY <1>1, <1>2 DEF AnswerExact, SketchesExact

(* Updates that are lost stay lost, and emulations alone decide on early.     *)
LEMMA LostStays ==
  ASSUME [Next]_ccVars
  PROVE  /\ lost => lost'
         /\ ~(boruvka_emulation /\ (connected_components \/ PeelForest)) => early' = early
<1>1. CASE UNCHANGED ccVars
  BY <1>1 DEF ccVars, validVars
<1>2. ASSUME NEW t \in StreamThread, StreamStep(t) \/ \E e \in Edge : pre_insert(t, e)
      PROVE  lost' = lost /\ early' = early
  BY <1>2
  DEF StreamStep, LockForest, MergeEdge, AddToForest, Invalidate, ShareInvalid, InsertGutter,
      pre_insert, validVars
<1>3. ASSUME NEW v \in Node, NEW batch \in SUBSET gutters[v], apply_update_batch(v, batch)
      PROVE  lost' = lost /\ early' = early
  BY <1>3 DEF apply_update_batch, validVars
<1>4. ASSUME NEW code, prep_query(code) PROVE lost' = lost /\ early' = early
  BY <1>4 DEF prep_query, validVars
<1>5. CASE UpdateLocked \/ QueryThrows \/ Resume \/ PeelThrows \/ NextForest \/ Restore
  BY <1>5
  DEF UpdateLocked, QueryThrows, Resume, PeelThrows, NextForest, Restore, BoruvkaThrows, validVars
<1>6. ASSUME NEW e \in Edge, update(e) \/ UpdateForest(e) PROVE lost' = lost /\ early' = early
  BY <1>6 DEF update, UpdateForest, Update
<1>7. CASE connected_components \/ PeelForest
  BY <1>7 DEF connected_components, PeelForest, validVars
<1>8. ASSUME NEW code \in SaveCode, Reheat(code) PROVE (lost => lost') /\ early' = early
  BY <1>8 DEF Reheat
<1> QED BY <1>1, <1>2, <1>3, <1>4, <1>5, <1>6, <1>7, <1>8 DEF Next

(* Whatever the stream threads, workers and queries do, a cached or computed *)
(* answer is exact for the updates delivered, for any number of vertices and *)
(* threads, unless the emulation it comes from ended early or write_binary   *)
(* lost an update.                                                           *)
THEOREM AnswerTheorem == Spec => []AnswerExact
<1>1. Init => (~lost => CCInv)
  BY CCInit
<1>2. (~lost => CCInv) /\ [Next]_ccVars => (~lost => CCInv)'
  BY CCStep, LostStays
<1>3. (~lost => CCInv) => AnswerExact
  BY CCImplies DEF AnswerExact
<1> QED BY <1>1, <1>2, <1>3, PTL DEF Spec

(* No update is lost between pre_insert and the sketches, nor applied twice, *)
(* until write_binary leaves one behind, however the emulations end.         *)
THEOREM SketchesTheorem == Spec => []SketchesExact
<1>1. Init => (~lost => CCInv)
  BY CCInit
<1>2. (~lost => CCInv) /\ [Next]_ccVars => (~lost => CCInv)'
  BY CCStep, LostStays
<1>3. (~lost => CCInv) => SketchesExact
  BY CCImplies DEF SketchesExact
<1> QED BY <1>1, <1>2, <1>3, PTL DEF Spec

(* On fewer than five vertices find_root splits no supernode, so every       *)
(* emulation that ends finds a spanning forest.                              *)
LEMMA SmallEmulation ==
  ASSUME num_vertices < 5, boruvka_emulation, ~early
  PROVE  ~early'
<1>1. /\ spanning_forest' \in SUBSET Sketched /\ Forest(spanning_forest')
      /\ dsu' \in [Node -> Node] /\ ComponentsOf(dsu', spanning_forest')
      /\ Sketched \in SUBSET Edge
  BY DEF boruvka_emulation, Sketched
<1>2. ASSUME NEW e \in Sketched PROVE dsu'[e[1]] = dsu'[e[2]]
  <2>1. e[1] \in Node /\ e[2] \in Node
    BY <1>1 DEF Edge
  <2> DEFINE S == SetOf(dsu', e[1])
  <2>2. IsFiniteSet(Node) /\ Cardinality(Node) = num_vertices
    <3>1. 0 \in Int /\ num_vertices - 1 \in Int /\ 0 <= num_vertices - 1
      BY VertexAssumption
    <3>2. IsFiniteSet(0 .. num_vertices - 1)
          /\ Cardinality(0 .. num_vertices - 1) = (num_vertices - 1) - 0 + 1
      BY <3>1, FS_Interval
    <3> QED BY <3>2, VertexAssumption DEF Node
  <2>3. S \in SUBSET Node
    BY DEF SetOf
  <2>4. Cardinality(S) \in Nat /\ Cardinality(S) <= Cardinality(Node)
    BY <2>2, <2>3, FS_Subset, FS_CardinalityType
  <2>5. SoundRoots(dsu', e[1])
    BY <2>2, <2>4, VertexAssumption DEF SoundRoots
  <2>6. Cut(Sketched, S) = {}
    BY <2>1, <2>5 DEF boruvka_emulation
  <2>7. e[1] \in S <=> e[2] \in S
    BY <2>6 DEF Cut
  <2> QED BY <2>1, <2>7 DEF SetOf
<1>3. SpanningForestOf(spanning_forest', Sketched)
  BY <1>1, <1>2, ForestSpans
<1> QED BY <1>3 DEF boruvka_emulation

(* So on fewer than five vertices no answer is excused by AnswerExact and    *)
(* ForestsPeeled as the result of an emulation that ended early.             *)
THEOREM SmallGraphTheorem == num_vertices < 5 => (Spec => []~early)
<1> SUFFICES ASSUME num_vertices < 5 PROVE Spec => []~early
  OBVIOUS
<1>1. Init => ~early
  BY DEF Init
<1>2. ~early /\ [Next]_ccVars => ~early'
  BY LostStays, SmallEmulation
<1> QED BY <1>1, <1>2, PTL DEF Spec

-----------------------------------------------------------------------------
(* calc_disjoint_spanning_forests.  Forest i spans what its predecessors     *)
(* left of the graph the call began with.                                    *)
Rest(n)    == before \ UNION {SFs[j] : j \in 1 .. n}
Spanned(i) == SpanningForestOf(SFs[i], Rest(i - 1))

(* The edges of the last forest that are not yet deleted are still there.    *)
PeelInv ==
  /\ Len(SFs) <= K
  /\ todo = <<>> => graph = Rest(Len(SFs))
  /\ todo # <<>> => /\ Len(todo) = 1 /\ Len(SFs) > 0 /\ todo[1] \subseteq SFs[Len(SFs)]
                    /\ graph = Rest(Len(SFs)) \cup todo[1]

(* The edges missing are those of a part of one forest and of all later ones. *)
RestoreInv ==
  /\ Len(SFs) = K /\ Len(todo) \in 1 .. K
  /\ todo[1] \subseteq SFs[K - Len(todo) + 1]
  /\ \A i \in 2 .. Len(todo) : todo[i] = SFs[K - Len(todo) + i]
  /\ graph = before \ UNION {todo[i] : i \in 1 .. Len(todo)}

(* What holds of the call also when an emulation ended early.                *)
PeelFrame ==
  /\ SFs \in Seq(SUBSET Edge) /\ todo \in Seq(SUBSET Edge)
  /\ phase \in {"stream", "query", "answered"} => SFs = <<>> /\ todo = <<>>
  /\ phase = "peel" /\ SFs = <<>> => todo = <<>> /\ graph = before
  /\ phase = "peeled" => todo = <<>>

PeelingInv ==
  /\ SFs \in Seq(SUBSET Edge) /\ todo \in Seq(SUBSET Edge)
  /\ phase \in {"stream", "query", "answered"} => SFs = <<>> /\ todo = <<>>
  /\ phase \in {"peel", "restore", "peeled"} => \A i \in 1 .. Len(SFs) : Spanned(i)
  /\ phase = "peel" => PeelInv
  /\ phase = "restore" => RestoreInv
  /\ phase = "peeled" => graph = before /\ Len(SFs) = K /\ todo = <<>>

(* What the first n forests leave depends on them only.                      *)
LEMMA RestKept ==
  ASSUME NEW n \in Nat, before' = before, \A j \in 1 .. n : SFs'[j] = SFs[j]
  PROVE  Rest(n)' = Rest(n) /\ \A i \in 1 .. n : Spanned(i)' = Spanned(i)
<1>1. ASSUME NEW m \in 0 .. n PROVE Rest(m)' = Rest(m)
  <2>1. \A j \in 1 .. m : SFs'[j] = SFs[j]
    OBVIOUS
  <2>2. {SFs'[j] : j \in 1 .. m} = {SFs[j] : j \in 1 .. m}
    BY <2>1
  <2> QED BY <2>2 DEF Rest
<1>2. ASSUME NEW i \in 1 .. n PROVE Spanned(i)' = Spanned(i)
  <2>1. Rest(i - 1)' = Rest(i - 1) /\ SFs'[i] = SFs[i]
    BY <1>1
  <2> QED BY <2>1 DEF Spanned, SpanningForestOf, Forest, Linked, Closed
<1> QED BY <1>1, <1>2

(* No edge is in two of the forests.                                         *)
LEMMA ForestsDisjoint ==
  ASSUME NEW a \in Nat, NEW b \in Nat, 1 <= a, a < b, Spanned(b), NEW e \in SFs[b]
  PROVE  e \notin SFs[a] /\ e \in before
<1>1. e \in Rest(b - 1) /\ a \in 1 .. b - 1
  BY DEF Spanned, SpanningForestOf
<1>2. SFs[a] \in {SFs[j] : j \in 1 .. b - 1}
  BY <1>1
<1> QED BY <1>1, <1>2 DEF Rest

(* One more set in a union.                                                  *)
LEMMA UnionNext ==
  ASSUME NEW f, NEW n \in Nat
  PROVE  UNION {f[j] : j \in 1 .. n + 1} = (UNION {f[j] : j \in 1 .. n}) \cup f[n + 1]
<1>1. \A j : j \in 1 .. n + 1 <=> j \in 1 .. n \/ j = n + 1
  OBVIOUS
<1>2. ASSUME NEW e
      PROVE  (\E j \in 1 .. n + 1 : e \in f[j]) <=> (\E j \in 1 .. n : e \in f[j]) \/ e \in f[n + 1]
  BY <1>1, Zenon
<1>3. ASSUME NEW m, NEW e
      PROVE  e \in UNION {f[j] : j \in 1 .. m} <=> \E j \in 1 .. m : e \in f[j]
  BY Zenon
<1>4. ASSUME NEW e
      PROVE  e \in UNION {f[j] : j \in 1 .. n + 1}
               <=> e \in (UNION {f[j] : j \in 1 .. n}) \cup f[n + 1]
  BY <1>2, <1>3, Zenon
<1> DEFINE A == UNION {f[j] : j \in 1 .. n + 1}
           B == (UNION {f[j] : j \in 1 .. n}) \cup f[n + 1]
<1>5. \A e : e \in A <=> e \in B
  BY <1>4
<1> HIDE DEF A, B
<1>6. A = B
  BY <1>5
<1> QED BY <1>6 DEF A, B

(* The invariant holds after a step that reaches a state where it does.      *)
LEMMA AnswerNext == CCInv' => AnswerExact'
<1>1. CCInv => AnswerExact
  BY CCImplies
<1> QED BY <1>1, PTL

(* A forest is found: it spans what is left.                                 *)
LEMMA PeelForestPeels ==
  ASSUME CCInv, PeelingInv, PeelForest, ~early', ~lost'
  PROVE  PeelingInv'
<1> DEFINE F == spanning_forest'
<1>0. PICK n \in Nat : n = Len(SFs)
  BY DEF PeelingInv
<1>1. /\ phase = "peel" /\ phase' = "peel" /\ todo = <<>> /\ n < K
      /\ SFs' = Append(SFs, F) /\ todo' = <<F>> /\ UNCHANGED <<graph, before>>
      /\ SFs \in Seq(SUBSET Edge) /\ todo \in Seq(SUBSET Edge)
  BY <1>0 DEF PeelForest, PeelingInv
<1>2. CCInv'
  BY QueryKeeps
<1>3. shared_dsu_valid' /\ Idle'
  BY <1>1, <1>2 DEF PeelForest, boruvka_emulation, validVars, CCInv, PhaseInv
<1>4. SpanningForestOf(F, graph)
  <2>1. AnswerExact'
    BY <1>2, AnswerNext
  <2> QED BY <1>1, <1>3, <2>1 DEF AnswerExact, SpanningForestOf, Forest, Linked, Closed
<1>5. F \in SUBSET Edge
  BY <1>2 DEF CCInv, Types
<1>6. /\ Len(SFs') = n + 1 /\ SFs'[n + 1] = F /\ \A j \in 1 .. n : SFs'[j] = SFs[j]
      /\ SFs' \in Seq(SUBSET Edge) /\ todo' \in Seq(SUBSET Edge)
      /\ Len(todo') = 1 /\ todo'[1] = F /\ todo' # <<>>
  BY <1>0, <1>1, <1>5
<1> HIDE DEF F
<1>7. Rest(n)' = Rest(n) /\ \A i \in 1 .. n : Spanned(i)' = Spanned(i)
  BY <1>1, <1>6, RestKept
<1>8. \A i \in 1 .. n : Spanned(i)
  BY <1>0, <1>1 DEF PeelingInv
<1>9. graph = Rest(n)
  BY <1>0, <1>1 DEF PeelingInv, PeelInv
<1>10. before' \ UNION {SFs'[j] : j \in 1 .. n} = Rest(n)
  BY <1>7 DEF Rest
<1>11. SpanningForestOf(SFs'[n + 1], before' \ UNION {SFs'[j] : j \in 1 .. n})
  BY <1>4, <1>6, <1>9, <1>10
<1>12. ASSUME NEW i \in 1 .. Len(SFs') PROVE Spanned(i)'
  <2>1. CASE i \in 1 .. n
    BY <1>7, <1>8, <2>1
  <2>2. CASE i = n + 1
    <3>1. i - 1 = n
      BY <1>1, <2>2
    <3> QED BY <1>11, <2>2, <3>1 DEF Spanned, Rest, SpanningForestOf, Forest, Linked, Closed
  <2> QED BY <1>1, <1>6, <2>1, <2>2
<1>13. graph' = Rest(n + 1)' \cup todo'[1]
  <2>2. UNION {SFs'[j] : j \in 1 .. n + 1} = (UNION {SFs'[j] : j \in 1 .. n}) \cup F
    BY <1>6, UnionNext
  <2>3. F \subseteq graph
    BY <1>4 DEF SpanningForestOf
  <2> QED BY <1>1, <1>6, <1>9, <1>10, <2>2, <2>3 DEF Rest
<1>14. PeelInv'
  BY <1>1, <1>6, <1>13, StreamAssumption DEF PeelInv
<1> QED BY <1>1, <1>6, <1>12, <1>14 DEF PeelingInv

(* An edge of a forest is deleted, or inserted again.                        *)
LEMMA UpdateForestPeels ==
  ASSUME CCInv, PeelingInv, NEW e \in Edge, UpdateForest(e)
  PROVE  PeelingInv'
<1>0. PICK n \in Nat : n = Len(SFs)
  BY DEF PeelingInv
<1>1. /\ phase \in {"peel", "restore"} /\ todo # <<>> /\ e \in Head(todo)
      /\ todo' = [todo EXCEPT ![1] = @ \ {e}] /\ graph' = Toggle(graph, {e})
      /\ UNCHANGED <<SFs, before, phase>>
      /\ SFs \in Seq(SUBSET Edge) /\ todo \in Seq(SUBSET Edge)
  BY DEF UpdateForest, Update, PeelingInv
<1>2. PICK L \in Nat : L = Len(todo) /\ L >= 1
  BY <1>1
<1>3. todo \in [1 .. L -> SUBSET Edge] /\ e \in todo[1]
  BY <1>1, <1>2
<1>4. /\ Len(todo') = L /\ todo'[1] = todo[1] \ {e} /\ \A i \in 2 .. L : todo'[i] = todo[i]
      /\ todo' # <<>> /\ todo' \in Seq(SUBSET Edge)
  BY <1>1, <1>2, <1>3
<1>5. Rest(n)' = Rest(n) /\ \A i \in 1 .. n : Spanned(i)' = Spanned(i)
  BY <1>1, RestKept
<1>6. \A i \in 1 .. n : Spanned(i)
  BY <1>0, <1>1 DEF PeelingInv
<1>7. ASSUME phase = "peel" PROVE PeelInv'
  <2>1. /\ n <= K /\ L = 1 /\ n > 0 /\ todo[1] \subseteq SFs[n] /\ graph = Rest(n) \cup todo[1]
    BY <1>0, <1>1, <1>2, <1>7 DEF PeelingInv, PeelInv
  <2>2. e \in graph /\ e \notin Rest(n)
    <3>1. SFs[n] \in {SFs[j] : j \in 1 .. n}
      BY <2>1
    <3> QED BY <1>3, <2>1, <3>1 DEF Rest
  <2>3. graph' = Rest(n) \cup todo'[1]
    BY <1>1, <1>4, <2>1, <2>2 DEF Toggle
  <2>4. Len(SFs') = n
    BY <1>0, <1>1
  <2> QED BY <1>1, <1>4, <1>5, <2>1, <2>3, <2>4 DEF PeelInv
<1>8. ASSUME phase = "restore" PROVE RestoreInv'
  <2>1. /\ n = K /\ L <= K /\ todo[1] \subseteq SFs[K - L + 1]
        /\ \A i \in 2 .. L : todo[i] = SFs[K - L + i]
        /\ graph = before \ UNION {todo[i] : i \in 1 .. L}
    BY <1>0, <1>1, <1>2, <1>8 DEF PeelingInv, RestoreInv
  <2>2. ASSUME NEW i \in 2 .. L PROVE e \notin todo[i]
    <3>1. K - L + 1 \in Nat /\ K - L + i \in Nat /\ K - L + i \in 1 .. n
      BY <1>2, <2>1, StreamAssumption
    <3>2. Spanned(K - L + i)
      BY <1>6, <3>1
    <3>3. PICK a \in Nat, b \in Nat : a = K - L + 1 /\ b = K - L + i
      BY <3>1
    <3>4. 1 <= a /\ a < b /\ Spanned(b)
      BY <1>2, <2>1, <3>2, <3>3, StreamAssumption
    <3>5. \A f \in SFs[b] : f \notin SFs[a]
      BY <3>4, ForestsDisjoint
    <3>6. e \in SFs[a] /\ todo[i] = SFs[b]
      BY <1>3, <2>1, <3>3
    <3> QED BY <3>5, <3>6
  <2>3. e \in before
    <3>1. K - L + 1 \in 1 .. n /\ Spanned(K - L + 1) /\ e \in SFs[K - L + 1]
      BY <1>2, <1>3, <1>6, <2>1, StreamAssumption
    <3> QED BY <3>1 DEF Spanned, SpanningForestOf, Rest
  <2>4. ASSUME NEW f PROVE f \in graph' <=> f \in before /\ ~\E i \in 1 .. L : f \in todo'[i]
    <3>1. f \in graph <=> f \in before /\ ~\E i \in 1 .. L : f \in todo[i]
      BY <2>1
    <3>2. CASE f = e
      <4>1. e \notin graph
        BY <1>2, <1>3, <3>1, <3>2
      <4>2. ~\E i \in 1 .. L : e \in todo'[i]
        <5> SUFFICES ASSUME NEW i \in 1 .. L PROVE e \notin todo'[i]
          OBVIOUS
        <5>1. i = 1 \/ i \in 2 .. L
          BY <1>2
        <5> QED BY <1>4, <2>2, <5>1
      <4> QED BY <1>1, <2>3, <3>2, <4>1, <4>2 DEF Toggle
    <3>3. CASE f # e
      <4>1. \A i \in 1 .. L : f \in todo'[i] <=> f \in todo[i]
        <5> SUFFICES ASSUME NEW i \in 1 .. L PROVE f \in todo'[i] <=> f \in todo[i]
          OBVIOUS
        <5>1. i = 1 \/ i \in 2 .. L
          BY <1>2
        <5> QED BY <1>4, <3>3, <5>1
      <4>2. f \in graph' <=> f \in graph
        BY <1>1, <3>3 DEF Toggle
      <4> QED BY <3>1, <4>1, <4>2
    <3> QED BY <3>2, <3>3
  <2>5. graph' = before' \ UNION {todo'[i] : i \in 1 .. L}
    <3> DEFINE U == UNION {todo'[i] : i \in 1 .. L}
    <3>1. \A f : f \in U <=> \E i \in 1 .. L : f \in todo'[i]
      BY Zenon
    <3> HIDE DEF U
    <3>2. graph' = before \ U
      BY <2>4, <3>1
    <3> QED BY <1>1, <3>2 DEF U
  <2>6. Len(SFs') = K /\ L \in 1 .. K
    BY <1>0, <1>1, <1>2, <2>1
  <2>7. todo'[1] \subseteq SFs'[K - L + 1] /\ \A i \in 2 .. L : todo'[i] = SFs'[K - L + i]
    BY <1>1, <1>4, <2>1
  <2> QED BY <1>4, <2>5, <2>6, <2>7 DEF RestoreInv
<1>9. \A i \in 1 .. Len(SFs') : Spanned(i)'
  BY <1>0, <1>1, <1>5, <1>6
<1> QED BY <1>1, <1>4, <1>7, <1>8, <1>9 DEF PeelingInv

(* A forest has been deleted, or inserted again.                             *)
LEMMA NextForestPeels ==
  ASSUME PeelingInv, NextForest
  PROVE  PeelingInv'
<1>0. PICK n \in Nat : n = Len(SFs)
  BY DEF PeelingInv
<1>1. /\ phase \in {"peel", "restore"} /\ todo # <<>> /\ Head(todo) = {} /\ todo' = Tail(todo)
      /\ phase' = IF phase = "restore" /\ Len(todo) = 1 THEN "peeled" ELSE phase
      /\ UNCHANGED <<SFs, before, graph>>
      /\ SFs \in Seq(SUBSET Edge) /\ todo \in Seq(SUBSET Edge)
  BY DEF NextForest, PeelingInv
<1>2. PICK L \in Nat : L = Len(todo) /\ L >= 1
  BY <1>1
<1>3. /\ todo[1] = {} /\ Len(todo') = L - 1 /\ \A i \in 1 .. L - 1 : todo'[i] = todo[i + 1]
      /\ todo' \in Seq(SUBSET Edge) /\ (L = 1 <=> todo' = <<>>)
  <2>1. todo' \in Seq(SUBSET Edge) /\ todo[1] = {} /\ Len(todo') = L - 1
    BY <1>1, <1>2
  <2>2. \A i \in 1 .. L - 1 : todo'[i] = todo[i + 1]
    BY <1>1, <1>2
  <2>3. Len(todo') = 0 <=> todo' = <<>>
    BY <2>1
  <2> QED BY <1>2, <2>1, <2>2, <2>3
<1>5. Rest(n)' = Rest(n) /\ \A i \in 1 .. n : Spanned(i)' = Spanned(i)
  BY <1>1, RestKept
<1>6. \A i \in 1 .. Len(SFs') : Spanned(i)'
  BY <1>0, <1>1, <1>5 DEF PeelingInv
<1>7. CASE phase = "peel"
  <2>1. n <= K /\ L = 1 /\ graph = Rest(n) \cup todo[1]
    BY <1>0, <1>1, <1>2, <1>7 DEF PeelingInv, PeelInv
  <2>2. todo' = <<>> /\ graph' = Rest(n)' /\ Len(SFs') = n
    BY <1>0, <1>1, <1>3, <1>5, <2>1
  <2>3. PeelInv'
    BY <2>1, <2>2 DEF PeelInv
  <2> QED BY <1>1, <1>3, <1>6, <1>7, <2>3 DEF PeelingInv
<1>8. CASE phase = "restore"
  <2>1. /\ n = K /\ L <= K /\ todo[1] \subseteq SFs[K - L + 1]
        /\ \A i \in 2 .. L : todo[i] = SFs[K - L + i]
        /\ graph = before \ UNION {todo[i] : i \in 1 .. L}
    BY <1>0, <1>1, <1>2, <1>8 DEF PeelingInv, RestoreInv
  <2>2. ASSUME NEW f
        PROVE  (\E i \in 1 .. L : f \in todo[i]) <=> \E i \in 1 .. L - 1 : f \in todo'[i]
    <3>1. ASSUME NEW i \in 1 .. L, f \in todo[i] PROVE \E k \in 1 .. L - 1 : f \in todo'[k]
      <4>1. i # 1
        BY <1>3, <3>1
      <4>2. i - 1 \in 1 .. L - 1 /\ (i - 1) + 1 = i
        BY <1>2, <4>1
      <4>3. todo'[i - 1] = todo[i]
        BY <1>3, <4>2
      <4> QED BY <3>1, <4>2, <4>3
    <3>2. ASSUME NEW i \in 1 .. L - 1, f \in todo'[i] PROVE \E k \in 1 .. L : f \in todo[k]
      <4>1. i + 1 \in 1 .. L /\ todo'[i] = todo[i + 1]
        BY <1>2, <1>3
      <4> QED BY <3>2, <4>1
    <3> QED BY <3>1, <3>2
  <2>3. graph' = before' \ UNION {todo'[i] : i \in 1 .. L - 1}
    <3> DEFINE U == UNION {todo[i] : i \in 1 .. L}
               V == UNION {todo'[i] : i \in 1 .. L - 1}
    <3>1. \A f : (f \in U <=> \E i \in 1 .. L : f \in todo[i])
                 /\ (f \in V <=> \E i \in 1 .. L - 1 : f \in todo'[i])
      BY Zenon
    <3>2. graph = before \ U
      BY <2>1
    <3> HIDE DEF U, V
    <3>3. U = V
      BY <2>2, <3>1
    <3> QED BY <1>1, <3>2, <3>3 DEF V
  <2>4. CASE L = 1
    <3>1. 1 .. L - 1 = {}
      BY <2>4
    <3>2. {todo'[i] : i \in 1 .. L - 1} = {}
      BY <3>1
    <3>3. graph' = before'
      BY <2>3, <3>2
    <3>4. phase' = "peeled" /\ todo' = <<>> /\ Len(SFs') = K
      BY <1>0, <1>1, <1>2, <1>3, <1>8, <2>1, <2>4
    <3> QED BY <1>1, <1>3, <1>6, <3>3, <3>4 DEF PeelingInv
  <2>5. CASE L > 1
    <3>1. phase' = "restore" /\ Len(SFs') = K /\ L - 1 \in 1 .. K
      BY <1>0, <1>1, <1>2, <1>8, <2>1, <2>5
    <3>2. todo'[1] \subseteq SFs'[K - (L - 1) + 1]
      <4>1. todo'[1] = todo[2] /\ todo[2] = SFs[K - L + 2] /\ K - (L - 1) + 1 = K - L + 2
        BY <1>2, <1>3, <2>1, <2>5, StreamAssumption
      <4> QED BY <1>1, <4>1
    <3>3. ASSUME NEW i \in 2 .. L - 1 PROVE todo'[i] = SFs'[K - (L - 1) + i]
      <4>1. i + 1 \in 2 .. L /\ K - (L - 1) + i = K - L + (i + 1) /\ todo'[i] = todo[i + 1]
        BY <1>2, <1>3, <2>5, StreamAssumption
      <4> QED BY <1>1, <2>1, <4>1
    <3>4. RestoreInv'
      BY <1>3, <2>3, <3>1, <3>2, <3>3 DEF RestoreInv
    <3> QED BY <1>1, <1>3, <1>6, <3>1, <3>4 DEF PeelingInv
  <2> QED BY <1>2, <2>4, <2>5
<1> QED BY <1>1, <1>7, <1>8

(* All forests are out: they are inserted again, from the first on.          *)
LEMMA RestorePeels ==
  ASSUME PeelingInv, Restore
  PROVE  PeelingInv'
<1>1. /\ phase = "peel" /\ todo = <<>> /\ Len(SFs) = K /\ todo' = SFs
      /\ phase' = (IF K = 0 THEN "peeled" ELSE "restore") /\ UNCHANGED <<SFs, before, graph>>
      /\ SFs \in Seq(SUBSET Edge) /\ K \in Nat
  BY StreamAssumption DEF Restore, PeelingInv
<1>2. graph = before \ UNION {SFs[j] : j \in 1 .. K}
  BY <1>1 DEF PeelingInv, PeelInv, Rest
<1>3. \A i \in 1 .. K : Spanned(i)' = Spanned(i)
  BY <1>1, RestKept
<1>4. \A i \in 1 .. Len(SFs') : Spanned(i)'
  BY <1>1, <1>3 DEF PeelingInv
<1>5. CASE K = 0
  <2>1. {SFs[j] : j \in 1 .. K} = {}
    BY <1>5
  <2>2. SFs = <<>>
    BY <1>1, <1>5
  <2> QED BY <1>1, <1>2, <1>4, <1>5, <2>1, <2>2 DEF PeelingInv
<1>6. CASE K > 0
  <2>1. /\ Len(todo') = K /\ K \in 1 .. K /\ K - K + 1 = 1
        /\ \A i \in 2 .. K : K - K + i = i
    BY <1>1, <1>6
  <2>2. RestoreInv'
    BY <1>1, <1>2, <2>1 DEF RestoreInv
  <2> QED BY <1>1, <1>4, <1>6, <2>2 DEF PeelingInv
<1> QED BY <1>1, <1>5, <1>6

(* The steps that take no part in the call.                                  *)
LEMMA OthersPeel ==
  ASSUME PeelingInv,
         \/ phase' \in {"stream", "query", "answered"} /\ SFs' = <<>> /\ todo' = <<>>
         \/ phase' = "terminated" /\ UNCHANGED <<SFs, todo>>
         \/ UNCHANGED <<graph, before, phase, SFs, todo>>
  PROVE  PeelingInv'
<1>0. SFs' \in Seq(SUBSET Edge) /\ todo' \in Seq(SUBSET Edge)
  <2>1. <<>> \in Seq(SUBSET Edge) /\ SFs \in Seq(SUBSET Edge) /\ todo \in Seq(SUBSET Edge)
    BY DEF PeelingInv
  <2>2. (SFs' = SFs \/ SFs' = <<>>) /\ (todo' = todo \/ todo' = <<>>)
    OBVIOUS
  <2> QED BY <2>1, <2>2
<1>1. CASE phase' \in {"stream", "query", "answered"} /\ SFs' = <<>> /\ todo' = <<>>
  BY <1>0, <1>1 DEF PeelingInv
<1>2. CASE phase' = "terminated"
  BY <1>0, <1>2 DEF PeelingInv
<1>3. CASE UNCHANGED <<graph, before, phase, SFs, todo>>
  <2>0. PICK n \in Nat : n = Len(SFs)
    BY DEF PeelingInv
  <2>1. Rest(n)' = Rest(n) /\ \A i \in 1 .. n : Spanned(i)' = Spanned(i)
    BY <1>3, RestKept
  <2>2. PeelInv' <=> PeelInv
    BY <1>3, <2>0, <2>1 DEF PeelInv
  <2>3. RestoreInv' <=> RestoreInv
    BY <1>3 DEF RestoreInv
  <2>4. (\A i \in 1 .. Len(SFs') : Spanned(i)') <=> \A i \in 1 .. Len(SFs) : Spanned(i)
    BY <1>3, <2>0, <2>1
  <2> QED BY <1>0, <1>3, <2>2, <2>3, <2>4 DEF PeelingInv
<1> QED BY <1>1, <1>2, <1>3

(* prep_query starts the call with the graph as it is and no forest.         *)
LEMMA PrepQueryPeels ==
  ASSUME PeelingInv, NEW code \in {"CONNECTIVITY", "KSPANNINGFORESTS"}, prep_query(code)
  PROVE  PeelingInv'
<1>1. /\ phase = "stream" /\ before' = graph /\ UNCHANGED <<graph, SFs, todo>>
      /\ phase' \in {"query", "peel"} /\ SFs = <<>> /\ todo = <<>>
  BY DEF prep_query, PeelingInv
<1>2. CASE phase' = "query"
  BY <1>1, <1>2, OthersPeel
<1>3. CASE phase' = "peel"
  <2>1. SFs' = <<>> /\ todo' = <<>> /\ Len(SFs') = 0 /\ 1 .. Len(SFs') = {}
    BY <1>1
  <2>2. {SFs'[j] : j \in 1 .. 0} = {}
    OBVIOUS
  <2>3. graph' = Rest(0)'
    BY <1>1, <2>2 DEF Rest
  <2>4. PeelInv'
    BY <2>1, <2>3, StreamAssumption DEF PeelInv
  <2> QED BY <1>3, <2>1, <2>4 DEF PeelingInv
<1> QED BY <1>1, <1>2, <1>3

(* Every step after which no emulation has ended early keeps the invariant   *)
(* of the call.                                                              *)
LEMMA PeelStep ==
  ASSUME CCInv, PeelingInv, [Next]_ccVars, ~early', ~lost'
  PROVE  PeelingInv'
<1>1. CASE UNCHANGED ccVars
  BY <1>1, OthersPeel DEF ccVars, peelVars
<1>2. ASSUME NEW t \in StreamThread, StreamStep(t) \/ \E e \in Edge : pre_insert(t, e)
      PROVE  PeelingInv'
  <2>1. phase \in {"stream", "terminated"}
    BY <1>2
    DEF CCInv, PhaseInv, Idle, StreamStep, pre_insert, LockForest, MergeEdge, AddToForest,
        Invalidate, ShareInvalid, InsertGutter
  <2>2. UNCHANGED <<phase, SFs, todo>>
    BY <1>2
    DEF StreamStep, pre_insert, LockForest, MergeEdge, AddToForest, Invalidate, ShareInvalid,
        InsertGutter, peelVars
  <2> QED BY <2>1, <2>2, OthersPeel DEF PeelingInv
<1>3. ASSUME NEW v \in Node, NEW batch \in SUBSET gutters[v], apply_update_batch(v, batch)
      PROVE  PeelingInv'
  BY <1>3, OthersPeel DEF apply_update_batch, peelVars
<1>4. CASE UpdateLocked
  BY <1>4, OthersPeel DEF UpdateLocked, peelVars
<1>5. CASE connected_components \/ QueryThrows
  <2>1. phase = "query" /\ phase' \in {"answered", "stream"} /\ UNCHANGED <<SFs, todo>>
    BY <1>5 DEF connected_components, QueryThrows, peelVars
  <2> QED BY <2>1, OthersPeel DEF PeelingInv
<1>6. CASE Resume \/ PeelThrows
  <2>1. phase' = "stream" /\ SFs' = <<>> /\ todo' = todo
        /\ (todo = <<>> \/ phase \in {"answered", "peeled"})
    BY <1>6 DEF Resume, PeelThrows
  <2> QED BY <2>1, OthersPeel DEF PeelingInv
<1>7. ASSUME NEW e \in Edge, update(e) PROVE PeelingInv'
  <2>1. phase = "stream" /\ UNCHANGED <<phase, SFs, todo>>
    BY <1>7 DEF update, peelVars
  <2> QED BY <2>1, OthersPeel DEF PeelingInv
<1>8. ASSUME NEW code \in SaveCode, Reheat(code) PROVE PeelingInv'
  <2>1. phase = "stream" /\ UNCHANGED <<phase, SFs, todo>>
    BY <1>8 DEF Reheat, peelVars
  <2> QED BY <2>1, OthersPeel DEF PeelingInv
<1> QED
  BY <1>1, <1>2, <1>3, <1>4, <1>5, <1>6, <1>7, <1>8, PeelForestPeels,
     UpdateForestPeels, NextForestPeels, RestorePeels, PrepQueryPeels DEF Next

(* Every step keeps the frame of the call.                                   *)
LEMMA FrameStep ==
  ASSUME CCInv, CCInv', PeelFrame, [Next]_ccVars
  PROVE  PeelFrame'
<1>0. <<>> \in Seq(SUBSET Edge) /\ SFs \in Seq(SUBSET Edge) /\ todo \in Seq(SUBSET Edge)
  BY DEF PeelFrame
<1>1. CASE UNCHANGED ccVars
  BY <1>1 DEF ccVars, peelVars, PeelFrame
<1>2. ASSUME NEW t \in StreamThread, StreamStep(t) \/ \E e \in Edge : pre_insert(t, e)
      PROVE  PeelFrame'
  <2>1. phase \in {"stream", "terminated"}
    BY <1>2
    DEF CCInv, PhaseInv, Idle, StreamStep, pre_insert, LockForest, MergeEdge, AddToForest,
        Invalidate, ShareInvalid, InsertGutter
  <2>2. UNCHANGED <<phase, SFs, todo>>
    BY <1>2
    DEF StreamStep, pre_insert, LockForest, MergeEdge, AddToForest, Invalidate, ShareInvalid,
        InsertGutter, peelVars
  <2> QED BY <2>1, <2>2 DEF PeelFrame
<1>3. ASSUME NEW v \in Node, NEW batch \in SUBSET gutters[v], apply_update_batch(v, batch)
      PROVE  PeelFrame'
  BY <1>3 DEF apply_update_batch, peelVars, PeelFrame
<1>4. CASE UpdateLocked \/ connected_components \/ QueryThrows \/ Resume \/ PeelThrows
  <2>1. /\ phase' \in {"terminated", "answered", "stream"} /\ SFs' \in {SFs, <<>>} /\ todo' = todo
        /\ phase' = "terminated" \/ (SFs' = <<>> /\ todo = <<>>)
    BY <1>4
    DEF UpdateLocked, connected_components, QueryThrows, Resume, PeelThrows, peelVars, PeelFrame
  <2> QED BY <1>0, <2>1 DEF PeelFrame
<1>5. ASSUME NEW code \in {"CONNECTIVITY", "KSPANNINGFORESTS"}, prep_query(code) PROVE PeelFrame'
  BY <1>5 DEF prep_query, PeelFrame
<1>6. ASSUME NEW e \in Edge, update(e) PROVE PeelFrame'
  BY <1>6 DEF update, peelVars, PeelFrame
<1>7. ASSUME NEW code \in SaveCode, Reheat(code) PROVE PeelFrame'
  BY <1>7 DEF Reheat, peelVars, PeelFrame
<1>8. CASE PeelForest
  <2>1. /\ phase' = "peel" /\ SFs' = Append(SFs, spanning_forest') /\ todo' = <<spanning_forest'>>
        /\ spanning_forest' \in SUBSET Edge
    BY <1>8 DEF PeelForest, CCInv, Types
  <2>2. SFs' \in Seq(SUBSET Edge) /\ todo' \in Seq(SUBSET Edge) /\ SFs' # <<>>
    BY <1>0, <2>1
  <2> QED BY <2>1, <2>2 DEF PeelFrame
<1>9. ASSUME NEW e \in Edge, UpdateForest(e) PROVE PeelFrame'
  <2>1. /\ phase \in {"peel", "restore"} /\ todo # <<>> /\ UNCHANGED <<phase, SFs>>
        /\ todo' = [todo EXCEPT ![1] = @ \ {e}]
    BY <1>9 DEF UpdateForest
  <2>2. todo' \in Seq(SUBSET Edge)
    <3>1. PICK L \in Nat : L = Len(todo) /\ L >= 1
      BY <1>0, <2>1
    <3>2. todo \in [1 .. L -> SUBSET Edge]
      BY <1>0, <3>1
    <3> QED BY <2>1, <3>1, <3>2
  <2> QED BY <2>1, <2>2 DEF PeelFrame
<1>10. CASE NextForest
  <2>1. /\ phase \in {"peel", "restore"} /\ todo # <<>> /\ todo' = Tail(todo) /\ UNCHANGED SFs
        /\ phase' = IF phase = "restore" /\ Len(todo) = 1 THEN "peeled" ELSE phase
    BY <1>10 DEF NextForest
  <2>2. todo' \in Seq(SUBSET Edge) /\ (Len(todo) = 1 => todo' = <<>>)
    BY <1>0, <2>1
  <2> QED BY <2>1, <2>2 DEF PeelFrame
<1>11. CASE Restore
  <2>1. /\ Len(SFs) = K /\ todo' = SFs /\ UNCHANGED SFs
        /\ phase' = IF K = 0 THEN "peeled" ELSE "restore"
    BY <1>11 DEF Restore
  <2>2. K = 0 => SFs = <<>>
    BY <1>0, <2>1
  <2> QED BY <1>0, <2>1, <2>2 DEF PeelFrame
<1> QED
  BY <1>1, <1>2, <1>3, <1>4, <1>5, <1>6, <1>7, <1>8, <1>9, <1>10, <1>11 DEF Next

(* Before the first forest is found there is nothing to be exact about.      *)
LEMMA FreshPeels ==
  ASSUME PeelFrame, phase = "answered" \/ (phase = "peel" /\ SFs = <<>>)
  PROVE  PeelingInv
<1>1. SFs = <<>> /\ todo = <<>> /\ (phase = "peel" => graph = before)
  BY DEF PeelFrame
<1>2. Len(SFs) = 0 /\ 1 .. Len(SFs) = {} /\ {SFs[j] : j \in 1 .. 0} = {}
  BY <1>1
<1>3. phase = "peel" => graph = Rest(Len(SFs))
  BY <1>1, <1>2 DEF Rest
<1>4. phase = "peel" => PeelInv
  BY <1>1, <1>2, <1>3, StreamAssumption DEF PeelInv
<1> QED BY <1>1, <1>2, <1>4 DEF PeelFrame, PeelingInv

(* The same after a step that answers a query.                               *)
LEMMA AnsweredNext == PeelFrame' /\ (phase = "answered")' => PeelingInv'
<1>1. PeelFrame /\ phase = "answered" => PeelingInv
  BY FreshPeels
<1> QED BY <1>1, PTL

(* Everything about the call, as long as no update is lost.                  *)
CallInv == ~lost => CCInv /\ PeelFrame /\ (~early => PeelingInv)

(* Every step keeps it: an emulation that does not end early after one that  *)
(* did is the first of its call.                                             *)
LEMMA CallStep ==
  ASSUME CallInv, [Next]_ccVars
  PROVE  CallInv'
<1> SUFFICES ASSUME ~lost' PROVE CCInv' /\ PeelFrame' /\ (~early' => PeelingInv')
  BY DEF CallInv
<1>1. CCInv /\ PeelFrame /\ (~early => PeelingInv)
  BY LostStays DEF CallInv
<1>2. CCInv'
  BY <1>1, CCStep
<1>3. PeelFrame'
  BY <1>1, <1>2, FrameStep
<1>4. ASSUME ~early' PROVE PeelingInv'
  <2>1. CASE ~early
    BY <1>1, <1>4, <2>1, PeelStep
  <2>2. CASE early
    <3>1. boruvka_emulation /\ (connected_components \/ PeelForest)
      BY <1>4, <2>2, LostStays
    <3>2. CASE connected_components
      <4>1. (phase = "answered")'
        BY <3>2 DEF connected_components
      <4> QED BY <1>3, <4>1, AnsweredNext
    <3>3. CASE PeelForest
      <4>1. SFs = <<>> /\ phase = "peel"
        BY <1>4, <2>2, <3>1, <3>3 DEF boruvka_emulation, PeelForest
      <4>2. PeelingInv
        BY <1>1, <4>1, FreshPeels
      <4> QED BY <1>1, <1>4, <3>3, <4>2, PeelForestPeels
    <3> QED BY <3>1, <3>2, <3>3
  <2> QED BY <2>1, <2>2
<1> QED BY <1>2, <1>3, <1>4

(* calc_disjoint_spanning_forests returns K forests, each of which spans     *)
(* what the earlier ones left, and the graph as it was, for any number of    *)
(* vertices, stream threads and forests, unless an emulation ended early or  *)
(* write_binary lost an update.                                              *)
THEOREM PeelTheorem == Spec => []ForestsPeeled
<1>1. Init => CallInv
  <2>1. <<>> \in Seq(SUBSET Edge)
    OBVIOUS
  <2> QED BY <2>1, CCInit DEF Init, PeelFrame, PeelingInv, CallInv
<1>2. CallInv /\ [Next]_ccVars => CallInv'
  BY CallStep
<1>3. CallInv => ForestsPeeled
  BY DEF CallInv, PeelingInv, ForestsPeeled, Spanned, Rest
<1> QED BY <1>1, <1>2, <1>3, PTL DEF Spec
=============================================================================
