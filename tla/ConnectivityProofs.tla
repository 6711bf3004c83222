-------------------------- MODULE ConnectivityProofs --------------------------
(* What adding an edge does to components and forests, for any graph.        *)
EXTENDS Connectivity, TLAPS

(* The provers in the order they are tried, with their limits in seconds.    *)
USE ZenonT(3), SMTT(20), ZenonT(20)

(* A path can be walked backwards: the complement of a closed set is closed. *)
LEMMA LinkedSymmetric ==
  ASSUME NEW E \in SUBSET Edge, NEW v \in Node, NEW w \in Node, Linked(E, v, w)
  PROVE  Linked(E, w, v)
<1> SUFFICES ASSUME NEW S \in SUBSET Node, w \in S, Closed(S, E), v \notin S
             PROVE  FALSE
  BY DEF Linked
<1>1. Closed(Node \ S, E) /\ v \in Node \ S
  BY DEF Closed, Edge
<1> QED BY <1>1 DEF Linked

(* A path can be continued.                                                  *)
LEMMA LinkedTransitive ==
  ASSUME NEW E \in SUBSET Edge, NEW u \in Node, NEW v \in Node, NEW w \in Node,
         Linked(E, u, v), Linked(E, v, w)
  PROVE  Linked(E, u, w)
BY DEF Linked

(* More edges link no less.                                                  *)
LEMMA LinkedMonotone ==
  ASSUME NEW E \in SUBSET Edge, NEW F \in SUBSET Edge, F \subseteq E,
         NEW v \in Node, NEW w \in Node, Linked(F, v, w)
  PROVE  Linked(E, v, w)
BY DEF Linked, Closed

(* The ends of an edge are linked.                                           *)
LEMMA EdgeLinks ==
  ASSUME NEW E \in SUBSET Edge, NEW e \in E
  PROVE  Linked(E, e[1], e[2]) /\ Linked(E, e[2], e[1])
BY DEF Linked, Closed

(* An edge between two trees closes no cycle.                                *)
LEMMA ForestGrows ==
  ASSUME NEW F \in SUBSET Edge, Forest(F), NEW e \in Edge, ~Linked(F, e[1], e[2])
  PROVE  Forest(F \cup {e})
<1> SUFFICES ASSUME NEW f \in F \cup {e}
             PROVE  ~Linked((F \cup {e}) \ {f}, f[1], f[2])
  BY DEF Forest
<1>1. CASE f = e
  <2>1. (F \cup {e}) \ {f} \subseteq F /\ (F \cup {e}) \ {f} \in SUBSET Edge
    BY <1>1
  <2> QED BY <1>1, <2>1, LinkedMonotone DEF Edge
<1>2. CASE f # e
  <2> DEFINE G == (F \cup {e}) \ {f}
  <2>0. f \in F /\ f \in Edge /\ f[1] \in Node /\ f[2] \in Node /\ e[1] \in Node /\ e[2] \in Node
    BY <1>2 DEF Edge
  <2>1. PICK S \in SUBSET Node : f[1] \in S /\ Closed(S, F \ {f}) /\ f[2] \notin S
    BY <2>0 DEF Forest, Linked
  <2>2. PICK C \in SUBSET Node : e[1] \in C /\ Closed(C, F) /\ e[2] \notin C
    BY DEF Linked
  <2>3. f[1] \in C <=> f[2] \in C
    BY <2>0, <2>2 DEF Closed
  <2> DEFINE T == IF f[1] \in C
                  THEN IF e[1] \in S THEN (S \cap C) \cup (Node \ C) ELSE S \cap C
                  ELSE IF e[2] \in S THEN S \cup C ELSE S \ C
  <2>4. T \in SUBSET Node /\ f[1] \in T /\ f[2] \notin T
    BY <2>0, <2>1, <2>2, <2>3
  <2>5. ASSUME NEW g \in G PROVE g[1] \in T <=> g[2] \in T
    <3>1. CASE g = e
      BY <2>0, <2>2, <3>1
    <3>2. CASE g # e
      <4>1. g \in F /\ g \in F \ {f} /\ g[1] \in Node /\ g[2] \in Node
        BY <3>2, <2>5 DEF Edge
      <4>2. (g[1] \in S <=> g[2] \in S) /\ (g[1] \in C <=> g[2] \in C)
        BY <4>1, <2>1, <2>2 DEF Closed
      <4> QED BY <4>1, <4>2
    <3> QED BY <3>1, <3>2
  <2>6. Closed(T, G)
    BY <2>5 DEF Closed
  <2> QED BY <2>4, <2>6 DEF Linked
<1> QED BY <1>1, <1>2

(* The vertices of one name are closed under edges within the sets.          *)
LEMMA NamesSeparate ==
  ASSUME NEW rep \in [Node -> Node], NEW E \in SUBSET Edge,
         \A e \in E : rep[e[1]] = rep[e[2]],
         NEW v \in Node, NEW w \in Node, Linked(E, v, w)
  PROVE  rep[v] = rep[w]
<1> DEFINE S == {x \in Node : rep[x] = rep[v]}
<1>1. S \in SUBSET Node /\ v \in S /\ Closed(S, E)
  BY DEF Closed, Edge
<1> QED BY <1>1 DEF Linked

(* Joining the sets at the ends of an edge gives the components of the graph *)
(* with that edge.                                                           *)
LEMMA JoinComponents ==
  ASSUME NEW rep \in [Node -> Node], NEW E \in SUBSET Edge, ComponentsOf(rep, E),
         NEW e \in Edge, NEW v \in Node, NEW w \in Node,
         e = <<v, w>> \/ e = <<w, v>>
  PROVE  /\ Join(rep, rep[v], rep[w]) \in [Node -> Node]
         /\ ComponentsOf(Join(rep, rep[v], rep[w]), E \cup {e})
<1> DEFINE new == Join(rep, rep[v], rep[w])
           G == E \cup {e}
<1>1. new \in [Node -> Node] /\ G \in SUBSET Edge
  BY DEF Join
<1>2. \A x \in Node : new[x] = IF rep[x] = rep[v] THEN rep[w] ELSE rep[x]
  BY DEF Join
<1>3. \A x, y \in Node : rep[x] = rep[y] => Linked(G, x, y)
  BY LinkedMonotone, <1>1 DEF ComponentsOf
<1>4. Linked(G, v, w) /\ Linked(G, w, v)
  BY EdgeLinks, <1>1
<1>5. ASSUME NEW x \in Node, NEW y \in Node, new[x] = new[y]
      PROVE  Linked(G, x, y)
  <2>1. CASE rep[x] = rep[y]
    BY <1>3, <2>1
  <2>2. CASE rep[x] = rep[v] /\ rep[y] = rep[w]
    <3>1. Linked(G, x, v) /\ Linked(G, w, y)
      BY <1>3, <2>2
    <3>2. Linked(G, x, w)
      BY <1>1, <1>4, <3>1, LinkedTransitive
    <3> QED BY <1>1, <3>1, <3>2, LinkedTransitive
  <2>3. CASE rep[x] = rep[w] /\ rep[y] = rep[v]
    <3>1. Linked(G, x, w) /\ Linked(G, v, y)
      BY <1>3, <2>3
    <3>2. Linked(G, x, v)
      BY <1>1, <1>4, <3>1, LinkedTransitive
    <3> QED BY <1>1, <3>1, <3>2, LinkedTransitive
  <2> QED BY <1>2, <1>5, <2>1, <2>2, <2>3
<1>6. \A f \in G : new[f[1]] = new[f[2]]
  <2> TAKE f \in G
  <2>1. f[1] \in Node /\ f[2] \in Node
    BY <1>1 DEF Edge
  <2>2. CASE f = e
    BY <1>2, <2>2
  <2>3. CASE f \in E
    BY <1>2, <2>1, <2>3, EdgeLinks DEF ComponentsOf
  <2> QED BY <2>2, <2>3
<1>7. \A x, y \in Node : Linked(G, x, y) => new[x] = new[y]
  BY <1>1, <1>6, NamesSeparate
<1> QED BY <1>1, <1>5, <1>7 DEF ComponentsOf

(* A forest whose trees contain every edge of E spans E.                     *)
LEMMA ForestSpans ==
  ASSUME NEW rep \in [Node -> Node], NEW E \in SUBSET Edge, NEW F \in SUBSET Edge,
         F \subseteq E, Forest(F), ComponentsOf(rep, F),
         \A e \in E : rep[e[1]] = rep[e[2]]
  PROVE  ComponentsOf(rep, E) /\ SpanningForestOf(F, E)
<1>1. \A e \in E : e[1] \in Node /\ e[2] \in Node
  BY DEF Edge
<1>2. \A e \in E : Linked(F, e[1], e[2])
  BY <1>1 DEF ComponentsOf
<1>3. \A v, w \in Node : rep[v] = rep[w] => Linked(E, v, w)
  BY LinkedMonotone DEF ComponentsOf
<1>4. \A v, w \in Node : Linked(E, v, w) => rep[v] = rep[w]
  BY NamesSeparate
<1> QED BY <1>2, <1>3, <1>4 DEF ComponentsOf, SpanningForestOf

(* The trees of a spanning forest are the components of the graph.           *)
LEMMA SpanningComponents ==
  ASSUME NEW rep \in [Node -> Node], NEW E \in SUBSET Edge, NEW F \in SUBSET Edge,
         SpanningForestOf(F, E), ComponentsOf(rep, E)
  PROVE  ComponentsOf(rep, F) /\ \A e \in E : rep[e[1]] = rep[e[2]]
<1>1. \A e \in E : e[1] \in Node /\ e[2] \in Node /\ Linked(F, e[1], e[2]) /\ Linked(F, e[2], e[1])
  BY LinkedSymmetric DEF Edge, SpanningForestOf
<1>2. \A S \in SUBSET Node : Closed(S, F) => Closed(S, E)
  BY <1>1 DEF Closed, Linked
<1>3. \A v, w \in Node : Linked(E, v, w) => Linked(F, v, w)
  BY <1>2 DEF Linked
<1>4. \A v, w \in Node : Linked(F, v, w) => Linked(E, v, w)
  BY LinkedMonotone DEF SpanningForestOf
<1> QED BY <1>1, <1>3, <1>4 DEF ComponentsOf

-----------------------------------------------------------------------------
(* A union of the sets at the ends of an edge between two trees.             *)
LEMMA UnionGrows ==
  ASSUME NEW d \in [Node -> Node], NEW F \in SUBSET Edge, ComponentsOf(d, F), Forest(F),
         NEW e \in Edge, d[e[1]] # d[e[2]]
  PROVE  /\ Union(d, e[1], e[2]) \in [Node -> Node]
         /\ ComponentsOf(Union(d, e[1], e[2]), F \cup {e}) /\ Forest(F \cup {e})
<1> DEFINE new == Union(d, e[1], e[2])
<1>1. e[1] \in Node /\ e[2] \in Node /\ e = <<e[1], e[2]>>
  BY DEF Edge
<1>2. new = Join(d, d[e[1]], d[e[2]]) \/ new = Join(d, d[e[2]], d[e[1]])
  BY DEF Union
<1>3. new \in [Node -> Node] /\ ComponentsOf(new, F \cup {e})
  <2>1. \A v, w \in Node : e = <<v, w>> \/ e = <<w, v>> =>
          /\ Join(d, d[v], d[w]) \in [Node -> Node]
          /\ ComponentsOf(Join(d, d[v], d[w]), F \cup {e})
    BY ONLY ComponentsOf(d, F), d \in [Node -> Node], F \in SUBSET Edge, e \in Edge, JoinComponents
  <2>2. /\ Join(d, d[e[1]], d[e[2]]) \in [Node -> Node]
        /\ ComponentsOf(Join(d, d[e[1]], d[e[2]]), F \cup {e})
        /\ Join(d, d[e[2]], d[e[1]]) \in [Node -> Node]
        /\ ComponentsOf(Join(d, d[e[2]], d[e[1]]), F \cup {e})
    BY <1>1, <2>1
  <2> QED BY <1>2, <2>2
<1>4. ~Linked(F, e[1], e[2])
  BY <1>1 DEF ComponentsOf
<1>5. Forest(F \cup {e})
  BY <1>4, ForestGrows
<1> QED BY <1>3, <1>5

(* d names the trees of the forest F, and these are the components of g.     *)
EagerOK(d, F, g) ==
  ComponentsOf(d, F) /\ Forest(F) /\ F \subseteq g /\ \A e \in g : d[e[1]] = d[e[2]]

(* dsu.merge on an edge between two sets.                                    *)
LEMMA EagerJoin ==
  ASSUME NEW d \in [Node -> Node], NEW g \in SUBSET Edge, NEW F \in SUBSET Edge,
         EagerOK(d, F, g), NEW e \in Edge, d[e[1]] # d[e[2]]
  PROVE  /\ Union(d, e[1], e[2]) \in [Node -> Node]
         /\ EagerOK(Union(d, e[1], e[2]), F \cup {e}, Toggle(g, {e}))
<1> DEFINE new == Union(d, e[1], e[2])
<1>1. e[1] \in Node /\ e[2] \in Node /\ e = <<e[1], e[2]>>
  BY DEF Edge
<1>2. new = Join(d, d[e[1]], d[e[2]]) \/ new = Join(d, d[e[2]], d[e[1]])
  BY DEF Union
<1>3. /\ new \in [Node -> Node] /\ ComponentsOf(new, F \cup {e})
      /\ Forest(F \cup {e})
  BY UnionGrows DEF EagerOK
<1>4. Toggle(g, {e}) = g \cup {e}
  BY DEF EagerOK, Toggle
<1>5. F \cup {e} \subseteq Toggle(g, {e})
  BY <1>4 DEF EagerOK
<1>6. \A f \in Toggle(g, {e}) : new[f[1]] = new[f[2]]
  <2> SUFFICES ASSUME NEW f \in g \cup {e} PROVE new[f[1]] = new[f[2]]
    BY <1>4
  <2>1. CASE f = e
    <3>1. Linked(F \cup {e}, f[1], f[2])
      BY <2>1, EdgeLinks
    <3> QED BY <1>1, <1>3, <2>1, <3>1 DEF ComponentsOf
  <2>2. CASE f \in g
    <3>1. f[1] \in Node /\ f[2] \in Node /\ d[f[1]] = d[f[2]]
      BY <2>2 DEF Edge, EagerOK
    <3> QED BY <1>2, <3>1 DEF Join
  <2> QED BY <2>1, <2>2
<1> QED BY <1>3, <1>5, <1>6 DEF EagerOK

(* dsu.merge on an edge within a set that is not an edge of the forest.      *)
LEMMA EagerWithin ==
  ASSUME NEW d \in [Node -> Node], NEW g \in SUBSET Edge, NEW F \in SUBSET Edge,
         EagerOK(d, F, g), NEW e \in Edge, d[e[1]] = d[e[2]], e \notin F
  PROVE  EagerOK(d, F, Toggle(g, {e}))
BY DEF EagerOK, Toggle

(* dsu.merge on an edge within a set changes nothing.                        *)
LEMMA UnionWithin ==
  ASSUME NEW d \in [Node -> Node], NEW e \in Edge
  PROVE  /\ Union(d, e[1], e[2]) \in [Node -> Node]
         /\ d[e[1]] = d[e[2]] => Union(d, e[1], e[2]) = d
<1>1. e[1] \in Node /\ e[2] \in Node
  BY DEF Edge
<1> QED BY <1>1 DEF Union, Join
=============================================================================
