---------------------------- MODULE Connectivity ----------------------------
(***************************************************************************)
(* Connectivity of an undirected graph on the vertices 0 .. num_vertices-1, *)
(* the reference the connectivity algorithm is measured against.  An edge  *)
(* is written with its smaller end first, as the source writes the edges   *)
(* of a spanning forest.                                                   *)
(***************************************************************************)
EXTENDS Integers, FiniteSets

CONSTANT num_vertices

ASSUME VertexAssumption == num_vertices \in Nat \ {0}

Node == 0 .. num_vertices - 1

Edge == {e \in Node \X Node : e[1] < e[2]}

(* No edge of E leaves S.                                                    *)
Closed(S, E) == \A e \in E : e[1] \in S <=> e[2] \in S

(* A path of edges of E leads from v to w: no closed set separates them.     *)
Linked(E, v, w) == \A S \in SUBSET Node : v \in S /\ Closed(S, E) => w \in S

(* F has no cycle: without any one of its edges the ends of it fall apart.   *)
Forest(F) == \A e \in F : ~Linked(F \ {e}, e[1], e[2])

SpanningForestOf(F, E) ==
  /\ F \subseteq E /\ Forest(F)
  /\ \A e \in E : Linked(F, e[1], e[2])

(* The sets named by rep are the connected components of E.                  *)
ComponentsOf(rep, E) == \A v, w \in Node : rep[v] = rep[w] <=> Linked(E, v, w)

(* The edges of E at v, and the edges of E that leave S.                     *)
Incident(E, v) == {e \in E : v = e[1] \/ v = e[2]}

Cut(E, S) == {e \in E : ~(e[1] \in S <=> e[2] \in S)}

(* Exclusive or: an update of an edge inserts it or deletes it.              *)
Toggle(S, T) == (S \ T) \cup (T \ S)

(* A partition is given by a name for each vertex, its set's smallest member. *)
Named(rep) == \A v \in Node : rep[v] <= v /\ rep[rep[v]] = rep[v]

(* The set named from joins the set named into.                              *)
Join(rep, from, into) == [v \in Node |-> IF rep[v] = from THEN into ELSE rep[v]]

(* The set of v, and whether it is too small for DisjointSetUnion::find_root *)
(* to return anything but its root when several threads call it at once.     *)
SetOf(rep, v) == {w \in Node : rep[w] = rep[v]}

SoundRoots(rep, v) == Cardinality(SetOf(rep, v)) < 5

(* What find_root(v) may return then.                                        *)
Roots(rep, v) == IF SoundRoots(rep, v) THEN {rep[v]} ELSE SetOf(rep, v)

Union(rep, v, w) ==
  IF rep[v] < rep[w] THEN Join(rep, rep[w], rep[v]) ELSE Join(rep, rep[v], rep[w])
=============================================================================
