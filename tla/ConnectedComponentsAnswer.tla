----------------------- MODULE ConnectedComponentsAnswer -----------------------
(***************************************************************************)
(* The ConnectedComponents constructor (src/return_types.cpp): an OpenMP   *)
(* loop in which several threads call find_root on the same union-find, no *)
(* merge running, and store what it returns in parent_arr.                 *)
(***************************************************************************)
EXTENDS DisjointSetUnionMT, FiniteSets

CONSTANTS Chunk     \* the loop indices OpenMP gives to each thread

ASSUME ChunkAssumption ==
  /\ Chunk \in [Thread -> SUBSET Node]
  /\ \A v \in Node : \E t \in Thread : v \in Chunk[t]
  /\ \A s, t \in Thread : s # t => Chunk[s] \cap Chunk[t] = {}

VARIABLES
  left,             \* the indices t has still to handle, in increasing order
  parent_arr,       \* Nil until written
  temp_cc

ccVars == <<parent, priority, call, arg, ret, pc, loc, side, todo, u, x, y, z, rep,
            left, parent_arr, temp_cc>>

(* The structure holds any forest whose parents are above their children:    *)
(* merge(v, p[v]) called serially, each v before p[v], builds it, each call   *)
(* finding two roots and linking them.  PartitionKept says that rep names,    *)
(* for each node, the root its chain of parents ends in.                     *)
CCInit ==
  /\ priority \in [Node -> Priority]
  /\ parent \in [Node -> Node] /\ Acyclic
  /\ rep \in [Node -> {v \in Node : parent[v] = v}] /\ PartitionKept
  /\ call = [t \in Thread |-> "idle"]
  /\ arg = [t \in Thread |-> <<0, 0>>]
  /\ ret = [t \in Thread |-> Blank]
  /\ pc = [t \in Thread |-> "none"]
  /\ loc = [t \in Thread |-> Locals(0, 0)]
  /\ side = [t \in Thread |-> "a"]
  /\ todo = [t \in Thread |-> FALSE]
  /\ u = [t \in Thread |-> 0]
  /\ x = [t \in Thread |-> Nil]
  /\ y = [t \in Thread |-> Nil]
  /\ z = [t \in Thread |-> Nil]
  /\ left = Chunk
  /\ parent_arr = [v \in Node |-> Nil]
  /\ temp_cc = 0

FindNext(t) ==
  /\ \E i \in left[t] : (\A j \in left[t] : i <= j) /\ CallFind(t, i)
  /\ UNCHANGED <<left, parent_arr, temp_cc>>

Finding(t) == FindStep(t) /\ UNCHANGED <<left, parent_arr, temp_cc>>

\* Mutant: numbers the components in the order their roots are met.
StoreNumbered(t) ==
  LET i == arg[t][1]
      r == ret[t].root
  IN  /\ Return(t)
      /\ parent_arr' = [parent_arr EXCEPT ![i] = temp_cc]
      /\ temp_cc' = IF r = i THEN temp_cc + 1 ELSE temp_cc
      /\ left' = [left EXCEPT ![t] = @ \ {i}]

Store(t) ==
  LET i == arg[t][1]
      r == ret[t].root
  IN  /\ Return(t)
      /\ parent_arr' = [parent_arr EXCEPT ![i] = r]
      /\ temp_cc' = IF r = i THEN temp_cc + 1 ELSE temp_cc
      /\ left' = [left EXCEPT ![t] = @ \ {i}]

CCNext == \E t \in Thread : FindNext(t) \/ Finding(t) \/ Store(t)

CCSpec == CCInit /\ [][CCNext]_ccVars

-----------------------------------------------------------------------------
Finished == \A v \in Node : parent_arr[v] # Nil

is_connected(v, w) == parent_arr[v] = parent_arr[w]

(* size() is the number of components, although the other threads halve the  *)
(* paths find_root walks: only a root is its own answer.                     *)
SizeRight == Finished => temp_cc = Cardinality({rep[v] : v \in Node})

(* The answer never joins two components.                                    *)
ConnectedSound ==
  \A v, w \in Node :
    parent_arr[v] # Nil /\ is_connected(v, w) => rep[v] = rep[w]

(* parent_arr is the connected components of the graph: is_connected holds   *)
(* for exactly the pairs the union-find has in one set.                      *)
AnswerRight ==
  Finished => \A v, w \in Node : is_connected(v, w) <=> rep[v] = rep[w]
=============================================================================
