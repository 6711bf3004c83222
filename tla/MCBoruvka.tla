----------------------------- MODULE MCBoruvka -----------------------------
(* Instances of the Boruvka emulation for TLC.                              *)
EXTENDS Boruvka, TLC

(* A path whose order is not that of the vertices, a triangle with a        *)
(* vertex apart, and two edges apart.                                       *)
SomeGraphs ==
  {{<<0, 2>>, <<1, 2>>, <<1, 3>>}, {<<0, 1>>, <<0, 3>>, <<1, 3>>}, {<<0, 3>>, <<1, 2>>}}
=============================================================================
