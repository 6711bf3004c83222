-------------------------- MODULE DisjointSetUnionMT --------------------------
(***************************************************************************)
(* The lock-free union-find of include/dsu.h (DisjointSetUnion_MT), shared *)
(* by the stream threads (pre_insert), by the OpenMP threads of a Boruvka  *)
(* round and by those that build a ConnectedComponents answer.             *)
(*                                                                         *)
(* Every std::atomic load, store and compare-exchange is a step of its     *)
(* own.  C++ leaves the order of the two operands of != open, so the loads *)
(* of the loop condition of find_root, and the two find_root calls of      *)
(* merge, happen in any order.                                             *)
(***************************************************************************)
EXTENDS Naturals

CONSTANTS
  N,        \* number of nodes: the ids are 0 .. N-1
  Thread,   \* the threads that share the structure
  Priority, \* the values the constructor's random generator may return
  Edge,     \* the pairs merge is called with
  Query     \* the nodes find_root is called on by itself

Node == 0 .. N - 1

ASSUME DSUAssumption ==
  /\ N \in Nat \ {0} /\ Priority \subseteq Nat
  /\ Edge \subseteq Node \X Node /\ Query \subseteq Node

Nil  == N           \* a register find_root has not loaded yet
Side == {"a", "b"}  \* the two arguments of merge

VARIABLES
  parent, priority,  \* the two arrays of the object
  call, arg, ret,    \* the operation t is in, its arguments, what it returns
  pc,                \* where t is in find_root, or "cas" in merge
  loc,               \* merge's locals a and b
  side, todo,        \* the one find_root is called on, and is the other one to follow?
  u, x, y, z,        \* find_root: u, parent[u], parent[parent[u]] and, right of the !=, parent[u]
  rep                \* history: the set of each node, changed only where a CAS links two

findVars  == <<u, x, y, z>>
mergeVars == <<loc, side, todo>>
callVars  == <<call, arg, ret>>
dsuVars   == <<parent, priority, call, arg, ret, pc, loc, side, todo, u, x, y, z, rep>>

-----------------------------------------------------------------------------
(* p may become the parent of q: larger priority, ties to the smaller id.   *)
Above(p, q) ==
  \/ priority[p] > priority[q]
  \/ priority[p] = priority[q] /\ p < q

(* Values for the locals a and b of merge.                                  *)
Locals(v, w) == [s \in Side |-> IF s = "a" THEN v ELSE w]

Blank == [merged |-> FALSE, root |-> 0, child |-> 0]

Init ==
  /\ priority \in [Node -> Priority]
  /\ parent = [v \in Node |-> v]
  /\ rep = [v \in Node |-> v]
  /\ call = [t \in Thread |-> "idle"]
  /\ arg = [t \in Thread |-> <<0, 0>>]
  /\ ret = [t \in Thread |-> Blank]
  /\ pc = [t \in Thread |-> "none"]
  /\ loc = [t \in Thread |-> Locals(0, 0)]
  /\ side = [t \in Thread |-> "a"]
  /\ todo = [t \in Thread |-> FALSE]
  /\ u = [t \in Thread |-> 0]
  /\ x = [t \in Thread |-> Nil]
  /\ y = [t \in Thread |-> Nil]
  /\ z = [t \in Thread |-> Nil]

(* One more iteration of merge's loop with these a and b: find_root runs on  *)
(* both, s first.                                                            *)
Iterate(t, ab, s) ==
  /\ pc' = [pc EXCEPT ![t] = "find"]
  /\ loc' = [loc EXCEPT ![t] = ab]
  /\ side' = [side EXCEPT ![t] = s]
  /\ todo' = [todo EXCEPT ![t] = TRUE]
  /\ u' = [u EXCEPT ![t] = ab[s]]

CallMerge(t, v, w, s) ==
  /\ call[t] = "idle"
  /\ call' = [call EXCEPT ![t] = "merge"]
  /\ arg' = [arg EXCEPT ![t] = <<v, w>>]
  /\ Iterate(t, Locals(v, w), s)
  /\ UNCHANGED <<parent, priority, ret, x, y, z, rep>>

(* Mutant: find_root's loop tests its condition after the body.              *)
CallFindHalves(t, v) ==
  /\ call[t] = "idle"
  /\ call' = [call EXCEPT ![t] = "find"]
  /\ arg' = [arg EXCEPT ![t] = <<v, v>>]
  /\ pc' = [pc EXCEPT ![t] = "halve"]
  /\ u' = [u EXCEPT ![t] = v]
  /\ UNCHANGED <<parent, priority, ret, mergeVars, x, y, z, rep>>

(* find_root called by itself.                                               *)
CallFind(t, v) ==
  /\ call[t] = "idle"
  /\ call' = [call EXCEPT ![t] = "find"]
  /\ arg' = [arg EXCEPT ![t] = <<v, v>>]
  /\ pc' = [pc EXCEPT ![t] = "find"]
  /\ u' = [u EXCEPT ![t] = v]
  /\ UNCHANGED <<parent, priority, ret, mergeVars, x, y, z, rep>>

-----------------------------------------------------------------------------
(* find_root: the condition parent[parent[u]] != parent[u], and the loads of *)
(* the halving parent[u] = parent[parent[u]].load() that follows it.         *)
LoadParent(t) ==
  /\ pc[t] \in {"find", "halve"} /\ x[t] = Nil
  /\ x' = [x EXCEPT ![t] = parent[u[t]]]
  /\ UNCHANGED <<parent, priority, callVars, pc, mergeVars, u, y, z, rep>>

LoadGrandparent(t) ==
  /\ pc[t] \in {"find", "halve"} /\ x[t] # Nil /\ y[t] = Nil
  /\ y' = [y EXCEPT ![t] = parent[x[t]]]
  /\ UNCHANGED <<parent, priority, callVars, pc, mergeVars, u, x, z, rep>>

LoadRight(t) ==
  /\ pc[t] = "find" /\ z[t] = Nil
  /\ z' = [z EXCEPT ![t] = parent[u[t]]]
  /\ UNCHANGED <<parent, priority, callVars, pc, mergeVars, u, x, y, rep>>

ClearRegisters(t) ==
  /\ x' = [x EXCEPT ![t] = Nil]
  /\ y' = [y EXCEPT ![t] = Nil]
  /\ z' = [z EXCEPT ![t] = Nil]

\* Mutant: halves even where the loop condition is false.
TestIgnored(t) ==
  /\ pc[t] = "find" /\ y[t] # Nil /\ z[t] # Nil
  /\ pc' = [pc EXCEPT ![t] = "halve"]
  /\ ClearRegisters(t)
  /\ UNCHANGED <<parent, priority, callVars, mergeVars, u, rep>>

Test(t) ==
  /\ pc[t] = "find" /\ y[t] # Nil /\ z[t] # Nil
  /\ pc' = [pc EXCEPT ![t] = IF y[t] # z[t] THEN "halve" ELSE "return"]
  /\ ClearRegisters(t)
  /\ UNCHANGED <<parent, priority, callVars, mergeVars, u, rep>>

Halve(t) ==
  /\ pc[t] = "halve" /\ y[t] # Nil
  /\ parent' = [parent EXCEPT ![u[t]] = y[t]]
  /\ pc' = [pc EXCEPT ![t] = "advance"]
  /\ ClearRegisters(t)
  /\ UNCHANGED <<priority, callVars, mergeVars, u, rep>>

Advance(t) ==
  /\ pc[t] = "advance"
  /\ u' = [u EXCEPT ![t] = parent[u[t]]]
  /\ pc' = [pc EXCEPT ![t] = "find"]
  /\ UNCHANGED <<parent, priority, callVars, mergeVars, x, y, z, rep>>

-----------------------------------------------------------------------------
(* The call is over: its locals are gone and only the answer is left.        *)
Finish(t, ans) ==
  /\ call' = [call EXCEPT ![t] = "done"]
  /\ ret' = [ret EXCEPT ![t] = ans]
  /\ pc' = [pc EXCEPT ![t] = "none"]
  /\ loc' = [loc EXCEPT ![t] = Locals(0, 0)]
  /\ side' = [side EXCEPT ![t] = "a"]
  /\ todo' = [todo EXCEPT ![t] = FALSE]
  /\ u' = [u EXCEPT ![t] = 0]

\* Mutant: find_root returns u.
ReturnNode(t) ==
  /\ pc[t] = "return" /\ call[t] = "find"
  /\ Finish(t, [merged |-> FALSE, root |-> u[t], child |-> u[t]])
  /\ UNCHANGED <<parent, priority, arg, x, y, z, rep>>

(* find_root returns parent[u], loaded once more, to the caller of find_root. *)
ReturnRoot(t) ==
  /\ pc[t] = "return" /\ call[t] = "find"
  /\ LET r == parent[u[t]]
     IN  Finish(t, [merged |-> FALSE, root |-> r, child |-> r])
  /\ UNCHANGED <<parent, priority, arg, x, y, z, rep>>

(* It returns to merge, which calls it again on its other argument.          *)
FindOther(t) ==
  /\ pc[t] = "return" /\ call[t] = "merge" /\ todo[t]
  /\ LET s == side[t]
         o == IF s = "a" THEN "b" ELSE "a"
     IN  /\ loc' = [loc EXCEPT ![t][s] = parent[u[t]]]
         /\ side' = [side EXCEPT ![t] = o]
         /\ u' = [u EXCEPT ![t] = loc[t][o]]
  /\ todo' = [todo EXCEPT ![t] = FALSE]
  /\ pc' = [pc EXCEPT ![t] = "find"]
  /\ UNCHANGED <<parent, priority, callVars, x, y, z, rep>>

\* Mutant: merge without order_edge.
Unordered(ab) == ab

(* order_edge: the locals with the one that becomes the parent in a.         *)
OrderEdge(ab) ==
  IF Above(ab["a"], ab["b"]) THEN ab ELSE Locals(ab["b"], ab["a"])

(* merge's a and b when the second find_root has returned.                   *)
Roots(t) == [loc[t] EXCEPT ![side[t]] = parent[u[t]]]

SecondRootFound(t) == pc[t] = "return" /\ call[t] = "merge" /\ ~todo[t]

(* They are the same node: merge returns {false, 0, 0}.                      *)
SameRoot(t) ==
  /\ SecondRootFound(t)
  /\ Roots(t)["a"] = Roots(t)["b"]
  /\ Finish(t, Blank)
  /\ UNCHANGED <<parent, priority, arg, x, y, z, rep>>

(* They differ: order_edge, and on to the CAS.                               *)
OrderRoots(t) ==
  /\ SecondRootFound(t)
  /\ Roots(t)["a"] # Roots(t)["b"]
  /\ loc' = [loc EXCEPT ![t] = OrderEdge(Roots(t))]
  /\ pc' = [pc EXCEPT ![t] = "cas"]
  /\ UNCHANGED <<parent, priority, callVars, side, todo, findVars, rep>>

\* Mutant: a plain store for the CAS.
LinkBlindly(t) ==
  LET a == loc[t]["a"]
      b == loc[t]["b"]
  IN  /\ pc[t] = "cas"
      /\ parent' = [parent EXCEPT ![b] = a]
      /\ rep' = [v \in Node |-> IF rep[v] = rep[b] THEN rep[a] ELSE rep[v]]
      /\ Finish(t, [merged |-> TRUE, root |-> a, child |-> b])
      /\ UNCHANGED <<priority, arg, x, y, z>>

(* parent[b].compare_exchange_weak(b, a) succeeds.                           *)
Link(t) ==
  LET a == loc[t]["a"]
      b == loc[t]["b"]
  IN  /\ pc[t] = "cas" /\ parent[b] = b
      /\ parent' = [parent EXCEPT ![b] = a]
      /\ rep' = [v \in Node |-> IF rep[v] = rep[b] THEN rep[a] ELSE rep[v]]
      /\ Finish(t, [merged |-> TRUE, root |-> a, child |-> b])
      /\ UNCHANGED <<priority, arg, x, y, z>>

\* Mutant: gives up when the CAS fails.
LinkGivesUp(t, s) ==
  /\ pc[t] = "cas"
  /\ Finish(t, Blank)
  /\ UNCHANGED <<parent, priority, arg, x, y, z, rep>>

(* It fails, because another thread linked b or spuriously (the weak form    *)
(* may): b becomes the value found in parent[b], and the loop goes on.       *)
LinkFails(t, s) ==
  /\ pc[t] = "cas"
  /\ Iterate(t, [loc[t] EXCEPT !["b"] = parent[loc[t]["b"]]], s)
  /\ UNCHANGED <<parent, priority, callVars, x, y, z, rep>>

Return(t) ==
  /\ call[t] = "done"
  /\ call' = [call EXCEPT ![t] = "idle"]
  /\ arg' = [arg EXCEPT ![t] = <<0, 0>>]
  /\ ret' = [ret EXCEPT ![t] = Blank]
  /\ UNCHANGED <<parent, priority, pc, mergeVars, findVars, rep>>

(* boruvka_emulation resets the structure before its threads start.          *)
Reset ==
  /\ \A t \in Thread : call[t] = "idle"
  /\ parent' = [v \in Node |-> v]
  /\ rep' = [v \in Node |-> v]
  /\ UNCHANGED <<priority, callVars, pc, mergeVars, findVars>>

-----------------------------------------------------------------------------
FindStep(t) ==
  \/ LoadParent(t) \/ LoadGrandparent(t) \/ LoadRight(t)
  \/ Test(t) \/ Halve(t) \/ Advance(t) \/ ReturnRoot(t)

MergeStep(t) ==
  \/ FindOther(t) \/ SameRoot(t) \/ OrderRoots(t) \/ Link(t)
  \/ \E s \in Side : LinkFails(t, s)

Start(t) ==
  \/ \E e \in Edge, s \in Side : CallMerge(t, e[1], e[2], s)
  \/ \E v \in Query : CallFind(t, v)

Next == Reset \/ \E t \in Thread : Start(t) \/ FindStep(t) \/ MergeStep(t) \/ Return(t)

Spec == Init /\ [][Next]_dsuVars

(* A thread in a call keeps running, and compare_exchange_weak does not fail *)
(* for ever on a location that holds the expected value.                     *)
Fairness ==
  \A t \in Thread :
    /\ WF_dsuVars(FindStep(t) \/ MergeStep(t) \/ Return(t))
    /\ SF_dsuVars(Link(t))

FairSpec == Spec /\ Fairness

-----------------------------------------------------------------------------
TypeOK ==
  /\ parent \in [Node -> Node] /\ rep \in [Node -> Node]
  /\ priority \in [Node -> Nat]
  /\ call \in [Thread -> {"idle", "merge", "find", "done"}]
  /\ arg \in [Thread -> Node \X Node]
  /\ ret \in [Thread -> [merged : BOOLEAN, root : Node, child : Node]]
  /\ pc \in [Thread -> {"none", "find", "halve", "advance", "return", "cas"}]
  /\ loc \in [Thread -> [Side -> Node]]
  /\ side \in [Thread -> Side] /\ todo \in [Thread -> BOOLEAN]
  /\ u \in [Thread -> Node]
  /\ x \in [Thread -> Node \cup {Nil}]
  /\ y \in [Thread -> Node \cup {Nil}]
  /\ z \in [Thread -> Node \cup {Nil}]

(* Parent pointers never form a cycle, whatever the threads' loads and       *)
(* stores interleave to: each one leads to a node order_edge puts above.     *)
Acyclic == \A v \in Node : parent[v] = v \/ Above(parent[v], v)

(* The array always represents exactly the partition the successful CASes    *)
(* made: path halving with stale loads, and a CAS under a node that is no    *)
(* longer a root, move no node to another set and split no set; every set    *)
(* has one root.                                                             *)
PartitionKept ==
  /\ \A v \in Node : rep[parent[v]] = rep[v]
  /\ \A v \in Node : parent[rep[v]] = rep[v]
  /\ \A v \in Node : parent[v] = v => rep[v] = v

(* The inductive strengthening.  A root stands above all of its set, so a     *)
(* node above a root is in another set: a CAS on a root under any node above *)
(* it, root or not, joins two sets.                                          *)
RootOnTop == \A v \in Node : rep[v] = v \/ Above(rep[v], v)

(* What the locals of a thread in find_root may be relied on for, however    *)
(* stale: they are in u's set, not below it, and if u is still a root they    *)
(* have seen nothing else.                                                   *)
FindInv(t) ==
  /\ x[t] # Nil => rep[x[t]] = rep[u[t]] /\ (x[t] = u[t] \/ Above(x[t], u[t]))
  /\ y[t] # Nil => /\ x[t] # Nil /\ rep[y[t]] = rep[u[t]]
                   /\ y[t] = x[t] \/ Above(y[t], x[t])
  /\ parent[u[t]] = u[t] => \A r \in {x[t], y[t], z[t]} : r \in {Nil, u[t]}
  /\ pc[t] \in {"halve", "advance"} => parent[u[t]] # u[t]
  /\ pc[t] = "halve" /\ x[t] # Nil => Above(x[t], u[t])
  /\ pc[t] \notin {"find", "halve"} => x[t] = Nil /\ y[t] = Nil /\ z[t] = Nil

(* merge's a and b stay in the sets of its arguments, and order_edge has put *)
(* a above b when the CAS runs.                                              *)
MergeInv(t) ==
  /\ call[t] \in {"idle", "done"} <=> pc[t] = "none"
  /\ call[t] = "find" => pc[t] # "cas" /\ rep[u[t]] = rep[arg[t][1]]
  /\ call[t] = "merge" =>
       \/ rep[loc[t]["a"]] = rep[arg[t][1]] /\ rep[loc[t]["b"]] = rep[arg[t][2]]
       \/ rep[loc[t]["a"]] = rep[arg[t][2]] /\ rep[loc[t]["b"]] = rep[arg[t][1]]
  /\ call[t] = "merge" /\ pc[t] # "cas" => rep[u[t]] = rep[loc[t][side[t]]]
  /\ pc[t] = "cas" => Above(loc[t]["a"], loc[t]["b"])

DSUInv ==
  /\ TypeOK /\ Acyclic /\ PartitionKept /\ RootOnTop
  /\ \A t \in Thread : FindInv(t) /\ MergeInv(t)

(* merge and find_root are linearizable: each takes effect in one step, as   *)
(* the abstract union-find says (merge answers TRUE iff its sets differed).  *)
UF == INSTANCE UnionFind WITH rep <- rep
UnionFindSpec == UF!Spec

(* No step but reset makes a root out of a node that has a parent: what      *)
(* find_root relies on when it halves with values loaded long ago.           *)
LinkedStaysLinked ==
  [][ \/ \A v \in Node : parent[v] # v => parent'[v] # v
      \/ \A t \in Thread : call[t] = "idle" ]_dsuVars

(* merge and find_root always return, although both loop on what other       *)
(* threads change: no thread is in a call for ever.                          *)
CallsReturn == \A t \in Thread : []<>(call[t] \in {"idle", "done"})
=============================================================================
