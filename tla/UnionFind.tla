------------------------------ MODULE UnionFind ------------------------------
(***************************************************************************)
(* What a concurrent union-find promises to the threads that share it: a   *)
(* partition of the nodes that only unions (and a reset nobody runs        *)
(* concurrently) change, and calls that take effect at one instant between *)
(* their start and their return.  DisjointSetUnionMT implements it.        *)
(***************************************************************************)
EXTENDS Naturals

CONSTANTS N, Thread

Node == 0 .. N - 1

VARIABLES
  rep,      \* rep[v] names the set v belongs to
  call,     \* call[t]: the operation thread t is in, "done" once it has its answer
  arg,      \* the two arguments of t's call (find_root(v) has <<v, v>>)
  ret       \* the answer t's call returns

ufVars == <<rep, call, arg, ret>>

Answers == [merged : BOOLEAN, root : Node, child : Node]
Blank   == [merged |-> FALSE, root |-> 0, child |-> 0]

Join(f, from, into) == [v \in Node |-> IF f[v] = from THEN into ELSE f[v]]

Init ==
  /\ rep = [v \in Node |-> v]
  /\ call = [t \in Thread |-> "idle"]
  /\ arg = [t \in Thread |-> <<0, 0>>]
  /\ ret = [t \in Thread |-> Blank]

Call(t, op, v, w) ==
  /\ call[t] = "idle"
  /\ call' = [call EXCEPT ![t] = op]
  /\ arg' = [arg EXCEPT ![t] = <<v, w>>]
  /\ UNCHANGED <<rep, ret>>

(* merge answers TRUE exactly when its two sets were distinct; then they are *)
(* joined in the same instant, and the answer names a node of each.          *)
Merge(t, ans) ==
  /\ call[t] = "merge"
  /\ call' = [call EXCEPT ![t] = "done"]
  /\ ret' = [ret EXCEPT ![t] = ans]
  /\ LET one == rep[arg[t][1]]
         two == rep[arg[t][2]]
     IN  \/ one = two /\ ~ans.merged /\ rep' = rep
         \/ /\ one # two /\ ans.merged
            /\ {rep[ans.root], rep[ans.child]} = {one, two}
            /\ rep' = Join(rep, rep[ans.child], rep[ans.root])
  /\ UNCHANGED arg

(* find_root answers with some member of its argument's set.                 *)
Find(t, r) ==
  /\ call[t] = "find"
  /\ call' = [call EXCEPT ![t] = "done"]
  /\ rep[r] = rep[arg[t][1]]
  /\ ret' = [ret EXCEPT ![t] = [merged |-> FALSE, root |-> r, child |-> r]]
  /\ UNCHANGED <<rep, arg>>

Return(t) ==
  /\ call[t] = "done"
  /\ call' = [call EXCEPT ![t] = "idle"]
  /\ arg' = [arg EXCEPT ![t] = <<0, 0>>]
  /\ ret' = [ret EXCEPT ![t] = Blank]
  /\ UNCHANGED rep

Reset ==
  /\ \A t \in Thread : call[t] = "idle"
  /\ rep' = [v \in Node |-> v]
  /\ UNCHANGED <<call, arg, ret>>

Next ==
  \/ Reset
  \/ \E t \in Thread :
       \/ \E op \in {"merge", "find"}, v, w \in Node : Call(t, op, v, w)
       \/ \E ans \in Answers : Merge(t, ans)
       \/ \E r \in Node : Find(t, r)
       \/ Return(t)

Spec == Init /\ [][Next]_ufVars
=============================================================================
