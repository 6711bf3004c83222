------------------------------- MODULE MCMinCut -------------------------------
(***************************************************************************)
(* An instance of MinCut for TLC.                                          *)
(***************************************************************************)
EXTENDS MinCut

Levels(g0, g1, g2) == [g \in 0 .. 2 |-> IF g = 0 THEN g0 ELSE IF g = 1 THEN g1 ELSE g2]

(* Vertex 1's run in the adjacency of this forest holds two of four threads' *)
(* bounds.                                                                   *)
Star == {<<0, 1>>, <<1, 2>>, <<1, 3>>}

(* Its minimum cut is 2.                                                     *)
Cycle == {<<0, 1>>, <<1, 2>>, <<2, 3>>, <<0, 3>>}

(* Vertex 3 is isolated, until an update inserts its edge.                   *)
Triangle == {<<0, 1>>, <<1, 2>>, <<0, 2>>}

(* Its minimum cut is 1.                                                     *)
Path == {<<0, 1>>, <<1, 2>>, <<2, 3>>}

(* The edges of Path as the store lists them.                                *)
Listed == <<<<0, 1>>, <<1, 2>>, <<2, 3>>>>

(* Its minimum cut is 0, but not that of a list in which a deleted edge is   *)
(* left twice.                                                               *)
Pairs  == {<<0, 1>>, <<2, 3>>}
Twice  == <<<<0, 1>>, <<1, 2>>, <<1, 2>>, <<2, 3>>>>

(* Programs with queries of their own, and the loop of tools/min_cut.cu with *)
(* the answer in the store, exact and not, or in a sketched subgraph.        *)
Program(graphs, threads, n, m) ==
  [graph |-> graphs, store |-> <<>>, num_threads |-> threads, calls |-> n, updates |-> m]
Loop(graphs, list) ==
  [graph |-> graphs, store |-> list, num_threads |-> 2, calls |-> 0, updates |-> 0]

SomeSetups ==
  {Program(Levels(Star, {}, {}), 4, 1, 0),
   Program(Levels(Triangle, {<<0, 1>>}, {}), 2, 3, 1),
   Loop(Levels(Cycle, Cycle, Path), Listed),
   Loop(Levels(Cycle, Cycle, Pairs), Twice),
   Loop(Levels(Cycle, Path, {}), <<>>)}

SomeUpdates == {<<<<0, 1>>, 1>>, <<<<2, 3>>, 0>>}
=============================================================================
