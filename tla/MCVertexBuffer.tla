---------------------------- MODULE MCVertexBuffer ----------------------------
(* Instances of one vertex of the EdgeStore for TLC.                        *)
EXTENDS VertexBuffer

(* Four edges of the vertex, in two subgraphs.                              *)
FourTags == {0, 1} \X {1, 2}
=============================================================================
