--------------------------- MODULE MCDisjointSetUnion ---------------------------
(* Instances of the concurrent union-find for TLC.                          *)
EXTENDS DisjointSetUnionMT, TLC

CONSTANTS t1, t2

(* Every edge of the complete graph, each written once: merge starts with   *)
(* either end, so the reversed pair adds nothing.                           *)
AllEdges == {e \in Node \X Node : e[1] < e[2]}

(* A star around the lowest node: two merges compete to link it, and one    *)
(* after the other they give the longest chain of parents.                  *)
StarEdges == {e \in AllEdges : e[2] = N - 1}
=============================================================================
