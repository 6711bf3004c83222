---------------------------- MODULE FilterSFEdges ----------------------------
(***************************************************************************)
(* filter_sf_edges of src/mc_sketch_alg.cpp: OpenMP threads delete the     *)
(* edges of a spanning forest from the sketches of a subgraph, or put them *)
(* back.  They share out the sorted adjacency of the forest.               *)
(***************************************************************************)
EXTENDS Connectivity, Sequences, FiniteSets

CONSTANTS
  num_sketch_graphs,  \* the subgraphs 0 .. num_sketch_graphs - 1 have sketches
  Beyond              \* the vertices that may be read past the end of an array

ASSUME FilterAssumption == num_sketch_graphs \in Nat \ {0} /\ Beyond \subseteq Node

VARIABLES
  num_threads,
  sketches,         \* for each subgraph and vertex, the edges added an odd number of times
  SFs, todo,        \* the disjoint forests found, and the one being deleted or put back
  graph_id, phase,  \* the subgraph, and what the query is doing
  edges,            \* the forest's sorted adjacency
  start, end, pc,   \* for each thread, its range and where it is
  mutex,            \* for each vertex's sketch, who holds its mutex
  before,           \* history: the subgraph's sketches when filter_sf_edges was called
  outside           \* history: an element before or after edges was read

filterVars == <<edges, start, end, pc, mutex, before, outside>>

NoOne  == -1
Level  == 0 .. num_sketch_graphs - 1
Thread == 0 .. num_threads - 1
Odd(S) == Cardinality(S) % 2 = 1

FilterInit ==
  /\ edges = <<>> /\ before = sketches[graph_id] /\ outside = FALSE
  /\ start = [t \in Thread |-> 0] /\ end = [t \in Thread |-> 0]
  /\ pc = [t \in Thread |-> "done"] /\ mutex = [v \in Node |-> NoOne]

-----------------------------------------------------------------------------
(* get_sorted_adjacency: both directions of every edge, by source and then   *)
(* by destination; each stands after the smaller ones.                       *)
Smaller(a, b) == a[1] < b[1] \/ (a[1] = b[1] /\ a[2] < b[2])

BothWays(F) == F \cup {<<e[2], e[1]>> : e \in F}

Place(F, b) == Cardinality({a \in BothWays(F) : Smaller(a, b)}) + 1

get_sorted_adjacency(F) ==
  [i \in 1 .. Cardinality(BothWays(F)) |-> CHOOSE b \in BothWays(F) : Place(F, b) = i]

(* The bounds of get_ith_partition, ceil(length * i / divisions).            *)
Bound(length, i, divisions) == (length * i + divisions - 1) \div divisions

(* Up to the threads.                                                        *)
StartThreads(F) ==
  LET adjacency == get_sorted_adjacency(F)
  IN  /\ edges' = adjacency
      /\ start' = [t \in Thread |-> Bound(Len(adjacency), t, num_threads)]
      /\ end'   = [t \in Thread |-> Bound(Len(adjacency), t + 1, num_threads)]
      /\ pc'    = [t \in Thread |-> "left"]
      /\ before' = sketches[graph_id]
      /\ UNCHANGED <<mutex, outside>>

(* Positions in edges are counted from zero, as in the code.  The vertices'  *)
(* runs are contiguous; what lies before and after edges is not defined.     *)
Src(i) == edges[i + 1][1]

Run(v) == {i \in 0 .. Len(edges) - 1 : Src(i) = v}

AtPosition(i) == LET e == edges[i + 1] IN IF e[1] < e[2] THEN e ELSE <<e[2], e[1]>>

(* What a read outside edges may add to v's sketch before the loop stops.    *)
(* Bound: it stops after one element.                                        *)
Junk(v) == {{}} \cup {{e} : e \in {f \in Incident(Edge, v) : f[1] \in Beyond \/ f[2] \in Beyond}}

Update(v, positions, junk) ==
  sketches' = [sketches EXCEPT ![graph_id][v] =
                 Toggle(Toggle(@, {AtPosition(i) : i \in positions}), junk)]

Goto(t, place) == pc' = [pc EXCEPT ![t] = place]

filterRest == <<num_threads, SFs, todo, graph_id, edges, before>>

(* The test for a vertex shared with the previous thread.  The last ranges   *)
(* are empty when there are more threads than positions, and the test then   *)
(* reads past the end.                                                       *)
TestLeft(t) ==
  LET i    == start[t]
      past == i > 0 /\ i = Len(edges)
      Answers == IF past THEN BOOLEAN ELSE {i > 0 /\ Src(i) = Src(i - 1)}
  IN  /\ pc[t] = "left"
      /\ \E collides \in Answers :
           IF collides
           THEN LET v == Src(i - 1)
                IN  mutex[v] = NoOne /\ mutex' = [mutex EXCEPT ![v] = t] /\ Goto(t, "up")
           ELSE Goto(t, "right") /\ UNCHANGED mutex
      /\ outside' = (outside \/ past)
      /\ UNCHANGED <<sketches, start, end, phase, filterRest>>

\* Mutant: the first shared position is skipped.
UpSkip(t) ==
  LET v  == Src(start[t] - 1)
      up == {i \in Run(v) : i > start[t]}
  IN  /\ pc[t] = "up"
      /\ Update(v, up, {})
      /\ start' = [start EXCEPT ![t] = @ + Cardinality(up) + 1]
      /\ mutex' = [mutex EXCEPT ![v] = NoOne]
      /\ Goto(t, "right")
      /\ UNCHANGED <<end, outside, phase, filterRest>>

(* The first loop: it runs on while the source is the same, past the         *)
(* thread's range and past the end of edges.                                 *)
Up(t) ==
  LET v    == Src(start[t] - 1)
      up   == {i \in Run(v) : i >= start[t]}
      past == start[t] + Cardinality(up) = Len(edges)
  IN  /\ pc[t] = "up"
      /\ \E junk \in IF past THEN Junk(v) ELSE {{}} :
           /\ Update(v, up, junk)
           /\ start' = [start EXCEPT ![t] = @ + Cardinality(up) + Cardinality(junk)]
      /\ mutex' = [mutex EXCEPT ![v] = NoOne]
      /\ outside' = (outside \/ past)
      /\ Goto(t, "right")
      /\ UNCHANGED <<end, phase, filterRest>>

\* Mutant: no test for a vertex shared with the next thread.
NoTestRight(t) ==
  /\ pc[t] = "right"
  /\ Goto(t, "middle")
  /\ UNCHANGED <<sketches, start, end, mutex, outside, phase, filterRest>>

(* The test for a vertex shared with the next thread.                        *)
TestRight(t) ==
  /\ pc[t] = "right"
  /\ IF end[t] < Len(edges) /\ Src(end[t] - 1) = Src(end[t])
     THEN LET v == Src(end[t])
          IN  mutex[v] = NoOne /\ mutex' = [mutex EXCEPT ![v] = t] /\ Goto(t, "down")
     ELSE Goto(t, "middle") /\ UNCHANGED mutex
  /\ UNCHANGED <<sketches, start, end, outside, phase, filterRest>>

\* Mutant: the mutex is not unlocked.
DownLocked(t) ==
  LET v    == Src(end[t] - 1)
      down == {i \in Run(v) : i < end[t]}
  IN  /\ pc[t] = "down"
      /\ Update(v, down, {})
      /\ end' = [end EXCEPT ![t] = @ - Cardinality(down)]
      /\ Goto(t, "middle")
      /\ UNCHANGED <<start, mutex, outside, phase, filterRest>>

(* The second loop runs down, below the thread's range and before edges.     *)
(* Should the source match there, end wraps around and the last loop leaves  *)
(* the program's memory.                                                     *)
Down(t) ==
  LET v    == Src(end[t] - 1)
      down == {i \in Run(v) : i < end[t]}
      past == end[t] = Cardinality(down)
  IN  /\ pc[t] = "down"
      /\ Update(v, down, {})
      /\ end' = [end EXCEPT ![t] = @ - Cardinality(down)]
      /\ mutex' = [mutex EXCEPT ![v] = NoOne]
      /\ outside' = (outside \/ past)
      /\ phase' \in IF past THEN {phase, "crashed"} ELSE {phase}
      /\ Goto(t, "middle")
      /\ UNCHANGED <<start, filterRest>>

(* The last loop, without a mutex.                                           *)
Middle(t) ==
  /\ pc[t] = "middle"
  /\ IF start[t] < end[t]
     THEN /\ Update(Src(start[t]), {start[t]}, {})
          /\ start' = [start EXCEPT ![t] = @ + 1]
          /\ UNCHANGED pc
     ELSE /\ Goto(t, "done")
          /\ UNCHANGED <<sketches, start>>
  /\ UNCHANGED <<end, mutex, outside, phase, filterRest>>

filter_sf_edges(t) ==
  /\ phase \in {"filter", "revert"}
  /\ TestLeft(t) \/ Up(t) \/ TestRight(t) \/ Down(t) \/ Middle(t)

Filtered == phase \in {"filter", "revert"} /\ \A t \in Thread : pc[t] = "done"

(* The locals of filter_sf_edges go out of scope.                            *)
LeaveThreads ==
  /\ edges' = <<>> /\ before' = sketches[graph_id]
  /\ start' = [t \in Thread |-> 0] /\ end' = [t \in Thread |-> 0]
  /\ UNCHANGED <<pc, mutex, outside>>

-----------------------------------------------------------------------------
(* The bounds between two threads that fall inside v's run of the adjacency  *)
(* of a forest.                                                              *)
BoundsWithin(F, v) ==
  LET adjacency == get_sorted_adjacency(F)
      run == {i \in DOMAIN adjacency : adjacency[i][1] = v}
  IN  {t \in 1 .. num_threads - 1 : LET b == Bound(Len(adjacency), t, num_threads)
                                    IN  b \in run /\ b + 1 \in run}

Deletes(F, v) == BoundsWithin(F, v) = {} \/ Odd(BoundsWithin(F, v))

(* What filter_sf_edges does.  With at most two threads nothing is read      *)
(* outside edges.  If nothing is, both threads at a bound inside a vertex's  *)
(* run have applied all of the run on their side of it, so the run is        *)
(* applied once for every such bound (once without any), and the forest's    *)
(* edges leave or enter the vertex's sketch iff that is an odd number.       *)
FilterEffect ==
  Filtered =>
    /\ num_threads <= 2 => ~outside
    /\ ~outside => \A v \in Node : sketches[graph_id][v] =
         IF Deletes(SFs[todo], v) THEN Toggle(before[v], Incident(SFs[todo], v)) ELSE before[v]

(* filter_sf_edges applies most updates without a mutex: no other thread is  *)
(* then updating the same sketch, under the mutex or without it, as long as  *)
(* all reads are within edges.                                               *)
NoRace ==
  (phase \in {"filter", "revert"} /\ ~outside) =>
    \A t, u \in Thread :
      (t # u /\ pc[t] = "middle" /\ start[t] < end[t]) =>
        /\ mutex[Src(start[t])] # u
        /\ (pc[u] = "middle" /\ start[u] < end[u]) => Src(start[u]) # Src(start[t])
==============================================================================
