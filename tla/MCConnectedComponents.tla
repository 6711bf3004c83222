------------------------- MODULE MCConnectedComponents -------------------------
(* Instances of the ConnectedComponents constructor for TLC.                *)
EXTENDS ConnectedComponentsAnswer, TLC

CONSTANTS t1, t2

(* OpenMP's static schedule with two threads: the two halves of the nodes.  *)
Halves == [t \in Thread |-> {v \in Node : (v < N \div 2) <=> (t = t1)}]

(* The deepest forest, with ids such that each thread's first node is two    *)
(* parents away from the other's: 0 -> 1 -> 3 -> 4 -> 5 -> 2.                *)
ChainPriority == 0 :> 0 @@ 1 :> 1 @@ 3 :> 2 @@ 4 :> 3 @@ 5 :> 4 @@ 2 :> 5
ChainParent   == 0 :> 1 @@ 1 :> 3 @@ 3 :> 4 @@ 4 :> 5 @@ 5 :> 2 @@ 2 :> 2

ChainInit == priority = ChainPriority /\ parent = ChainParent /\ CCInit
ChainSpec == ChainInit /\ [][CCNext]_ccVars
=============================================================================
