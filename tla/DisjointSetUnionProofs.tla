------------------------- MODULE DisjointSetUnionProofs -------------------------
(***************************************************************************)
(* DisjointSetUnion_MT is correct for every number of nodes and threads,   *)
(* every assignment of priorities and every interleaving of the atomics,   *)
(* and so is the ConnectedComponents answer that threads read from it, as  *)
(* far as it is right at all.                                              *)
(***************************************************************************)
EXTENDS ConnectedComponentsAnswer, FiniteSetTheorems, WellFoundedInduction, TLAPS

(* The provers in the order they are tried, with their limits in seconds.    *)
USE ZenonT(3), SMTT(20), ZenonT(20)

USE DSUAssumption

(* The order of order_edge is a strict total order on the nodes.             *)
LEMMA AboveOrder ==
  ASSUME priority \in [Node -> Nat],
         NEW p \in Node, NEW q \in Node, NEW r \in Node
  PROVE  /\ ~Above(p, p)
         /\ Above(p, q) /\ Above(q, r) => Above(p, r)
         /\ p # q => Above(p, q) \/ Above(q, p)
BY DEF Above, Node

(* Nil is no node, so an empty register is told from a loaded one.           *)
LEMMA NilFacts == Nil \notin Node /\ 0 \in Node
BY DEF Nil, Node

(* A call of find_root on any node leaves the variables in their types.      *)
LEMMA CallFindTypes ==
  ASSUME TypeOK, NEW t \in Thread, NEW v \in Node, CallFind(t, v)
  PROVE  TypeOK'
BY DEF CallFind, TypeOK, mergeVars

(* Every step leaves the variables in their types.                           *)
LEMMA TypeStep == TypeOK /\ [Next]_dsuVars => TypeOK'
<1> SUFFICES ASSUME TypeOK, [Next]_dsuVars PROVE TypeOK'
  OBVIOUS
<1> USE NilFacts DEF TypeOK, callVars, mergeVars, findVars, Side, Locals
<1>1. ASSUME NEW t \in Thread, NEW e \in Edge, NEW s \in Side, CallMerge(t, e[1], e[2], s)
      PROVE  TypeOK'
  BY <1>1 DEF CallMerge, Iterate, Side
<1>2. ASSUME NEW t \in Thread, NEW v \in Query, CallFind(t, v) PROVE TypeOK'
  <2> HIDE DEF TypeOK
  <2> QED  BY <1>2, CallFindTypes
<1>3. ASSUME NEW t \in Thread, LoadParent(t) PROVE TypeOK'
  BY <1>3 DEF LoadParent
<1>4. ASSUME NEW t \in Thread, LoadGrandparent(t) PROVE TypeOK'
  BY <1>4 DEF LoadGrandparent
<1>5. ASSUME NEW t \in Thread, LoadRight(t) PROVE TypeOK'
  BY <1>5 DEF LoadRight
<1>6. ASSUME NEW t \in Thread, Test(t) PROVE TypeOK'
  BY <1>6 DEF Test, ClearRegisters
<1>7. ASSUME NEW t \in Thread, Halve(t) PROVE TypeOK'
  BY <1>7 DEF Halve, ClearRegisters
<1>8. ASSUME NEW t \in Thread, Advance(t) PROVE TypeOK'
  BY <1>8 DEF Advance
<1>9. ASSUME NEW t \in Thread, ReturnRoot(t) PROVE TypeOK'
  BY <1>9 DEF ReturnRoot, Finish, Side
<1>10. ASSUME NEW t \in Thread, FindOther(t) PROVE TypeOK'
  BY <1>10 DEF FindOther, Side
<1>11. ASSUME NEW t \in Thread, SameRoot(t) \/ OrderRoots(t) PROVE TypeOK'
  <2>1. CASE SameRoot(t)
    BY <2>1 DEF SameRoot, Finish, Blank
  <2>2. CASE OrderRoots(t)
    <3>1. OrderEdge(Roots(t)) \in [Side -> Node]
      BY DEF OrderEdge, Roots
    <3> QED  BY <2>2, <3>1 DEF OrderRoots
  <2> QED  BY <1>11, <2>1, <2>2
<1>12. ASSUME NEW t \in Thread, Link(t) PROVE TypeOK'
  BY <1>12 DEF Link, Finish, Side
<1>13. ASSUME NEW t \in Thread, NEW s \in Side, LinkFails(t, s) PROVE TypeOK'
  BY <1>13 DEF LinkFails, Iterate, Side
<1>14. ASSUME NEW t \in Thread, Return(t) PROVE TypeOK'
  BY <1>14 DEF Return, Blank
<1>15. CASE Reset
  BY <1>15 DEF Reset
<1>16. CASE UNCHANGED dsuVars
  BY <1>16 DEF dsuVars
<1> HIDE DEF TypeOK
<1> QED
  BY <1>1, <1>2, <1>3, <1>4, <1>5, <1>6, <1>7, <1>8, <1>9, <1>10, <1>11, <1>12, <1>13,
     <1>14, <1>15, <1>16 DEF Next, Start, FindStep, MergeStep

-----------------------------------------------------------------------------
(* A step that only moves nodes up in their sets, or joins sets.             *)
Refines ==
  /\ priority' = priority
  /\ \A v, w \in Node : rep[v] = rep[w] => rep'[v] = rep'[w]
  /\ \A v \in Node : parent[v] # v => parent'[v] # v

SameLocals(q) ==
  /\ call'[q] = call[q] /\ arg'[q] = arg[q] /\ pc'[q] = pc[q]
  /\ loc'[q] = loc[q] /\ side'[q] = side[q]
  /\ u'[q] = u[q] /\ x'[q] = x[q] /\ y'[q] = y[q] /\ z'[q] = z[q]

(* Such a step of one thread disturbs no other: what it loaded stays good.   *)
LEMMA OthersKept ==
  ASSUME TypeOK, NEW q \in Thread, FindInv(q), MergeInv(q), Refines, SameLocals(q)
  PROVE  FindInv(q)' /\ MergeInv(q)'
<1> USE NilFacts DEF TypeOK, Refines, SameLocals
<1>1. FindInv(q)'
  BY DEF FindInv, Above
<1>2. /\ loc[q]["a"] \in Node /\ loc[q]["b"] \in Node /\ loc[q][side[q]] \in Node
      /\ arg[q][1] \in Node /\ arg[q][2] \in Node /\ u[q] \in Node
  BY DEF Side
<1> HIDE DEF TypeOK
<1>3. MergeInv(q)'
  BY <1>2 DEF MergeInv, Above
<1> QED  BY <1>1, <1>3

Forest == Acyclic /\ PartitionKept /\ RootOnTop

(* A step that leaves the arrays alone.                                      *)
LEMMA ForestUnchanged ==
  ASSUME Forest, parent' = parent, rep' = rep, priority' = priority
  PROVE  Forest' /\ Refines
BY DEF Forest, Acyclic, PartitionKept, RootOnTop, Above, Refines

(* Path halving: parent[u] = y with y loaded at any earlier time.            *)
LEMMA HalveForest ==
  ASSUME TypeOK, Forest, NEW t \in Thread, FindInv(t), Halve(t)
  PROVE  Forest' /\ Refines
<1> DEFINE ut == u[t]
           yt == y[t]
<1>1. /\ ut \in Node /\ yt \in Node /\ x[t] \in Node
      /\ parent' = [parent EXCEPT ![ut] = yt]
      /\ priority' = priority /\ rep' = rep
      /\ parent \in [Node -> Node] /\ rep \in [Node -> Node] /\ priority \in [Node -> Nat]
  BY NilFacts DEF Halve, TypeOK, FindInv
<1>2. parent[ut] # ut /\ rep[yt] = rep[ut]
  BY <1>1 DEF Halve, FindInv
<1>3. Above(yt, ut)
  BY <1>1, AboveOrder DEF Halve, FindInv
<1>4. yt # ut
  BY <1>1, <1>3, AboveOrder
<1> HIDE DEF ut, yt
<1>5. Acyclic'
  BY <1>1, <1>3 DEF Forest, Acyclic, Above
<1>6. PartitionKept'
  BY <1>1, <1>2, <1>4 DEF Forest, PartitionKept
<1>7. RootOnTop'
  BY <1>1 DEF Forest, RootOnTop, Above
<1>8. Refines
  BY <1>1, <1>4 DEF Refines
<1> QED  BY <1>5, <1>6, <1>7, <1>8 DEF Forest

(* The CAS: b is a root, a is above it but maybe no root any more.           *)
LEMMA LinkForest ==
  ASSUME TypeOK, Forest, NEW t \in Thread, MergeInv(t), Link(t)
  PROVE  Forest' /\ Refines /\ rep[loc[t]["a"]] # rep[loc[t]["b"]]
<1> DEFINE a == loc[t]["a"]
           b == loc[t]["b"]
<1>1. /\ a \in Node /\ b \in Node /\ parent[b] = b
      /\ parent' = [parent EXCEPT ![b] = a]
      /\ rep' = [v \in Node |-> IF rep[v] = rep[b] THEN rep[a] ELSE rep[v]]
      /\ priority' = priority /\ Above(a, b)
      /\ parent \in [Node -> Node] /\ rep \in [Node -> Node] /\ priority \in [Node -> Nat]
  BY DEF Link, TypeOK, MergeInv, Side
<1> HIDE DEF a, b
<1>2. rep[b] = b
  BY <1>1 DEF Forest, PartitionKept
<1>3. Above(rep[a], b)
  BY <1>1, AboveOrder DEF Forest, RootOnTop
<1>4. rep[a] # b /\ a # b
  BY <1>1, <1>3, AboveOrder
<1>5. Acyclic'
  BY <1>1 DEF Forest, Acyclic, Above
<1>6. PartitionKept'
  BY <1>1, <1>2, <1>4 DEF Forest, PartitionKept
<1>7. RootOnTop'
  <2> SUFFICES ASSUME NEW v \in Node, rep[v] = b PROVE Above(rep[a], v)
    BY <1>1, <1>2 DEF Forest, RootOnTop, Above
  <2>1. v = b \/ Above(b, v)
    BY DEF Forest, RootOnTop
  <2> QED  BY <1>1, <1>3, <2>1, AboveOrder
<1>8. Refines
  BY <1>1, <1>4 DEF Refines
<1> QED  BY <1>2, <1>4, <1>5, <1>6, <1>7, <1>8 DEF Forest, a, b

-----------------------------------------------------------------------------
(* The strengthened invariant is inductive: one step per action, each with   *)
(* the arrays, the thread that moves, and the other threads.                 *)
ThreadInv(t) == FindInv(t) /\ MergeInv(t)

(* A step of thread t keeps the invariant if it keeps these three parts.     *)
LEMMA Combine ==
  ASSUME DSUInv, TypeOK', NEW t \in Thread, Forest', Refines, ThreadInv(t)',
         \A q \in Thread \ {t} : SameLocals(q)
  PROVE  DSUInv'
BY OthersKept DEF DSUInv, Forest, ThreadInv

(* The node-valued locals of a thread.                                       *)
LEMMA LocalTypes ==
  ASSUME TypeOK, NEW t \in Thread
  PROVE  /\ u[t] \in Node /\ loc[t]["a"] \in Node /\ loc[t]["b"] \in Node
         /\ loc[t][side[t]] \in Node /\ side[t] \in {"a", "b"}
         /\ arg[t][1] \in Node /\ arg[t][2] \in Node
         /\ parent[u[t]] \in Node
         /\ x[t] # Nil => x[t] \in Node /\ parent[x[t]] \in Node
         /\ y[t] # Nil => y[t] \in Node
BY DEF TypeOK, Side

(* A thread with no register loaded, and one outside a call.                 *)
LEMMA Fresh ==
  ASSUME NEW t \in Thread, x'[t] = Nil, y'[t] = Nil, z'[t] = Nil,
         pc'[t] \in {"halve", "advance"} => parent'[u'[t]] # u'[t]
  PROVE  FindInv(t)'
BY DEF FindInv

(* A thread that is in no loop of merge satisfies the invariant of merge.    *)
LEMMA Outside ==
  ASSUME NEW t \in Thread, call'[t] \in {"idle", "done"}, pc'[t] = "none"
  PROVE  MergeInv(t)'
BY DEF MergeInv

(* The steps of find_root keep the invariant.                                *)
LEMMA FindStepInv ==
  ASSUME DSUInv, TypeOK', NEW t \in Thread, FindStep(t)
  PROVE  DSUInv'
<1>0. TypeOK /\ Forest /\ FindInv(t) /\ MergeInv(t)
  BY DEF DSUInv, Forest
<1>1. CASE LoadParent(t)
  <2>1. Forest' /\ Refines
    BY <1>0, <1>1, ForestUnchanged DEF LoadParent
  <2>2. FindInv(t)'
    <3>1. /\ x[t] = Nil /\ x'[t] = parent[u[t]] /\ pc[t] \in {"find", "halve"}
          /\ UNCHANGED <<parent, priority, pc, u, y, z, rep>>
      BY <1>0, <1>1 DEF LoadParent, TypeOK
    <3>2. rep[parent[u[t]]] = rep[u[t]] /\ (parent[u[t]] = u[t] \/ Above(parent[u[t]], u[t]))
      BY <1>0, LocalTypes DEF Forest, Acyclic, PartitionKept
    <3> QED  BY <1>0, <3>1, <3>2 DEF FindInv, Above
  <2>3. MergeInv(t)'
    BY <1>0, <1>1 DEF LoadParent, MergeInv, callVars, mergeVars, Above
  <2>4. \A q \in Thread \ {t} : SameLocals(q)
    BY <1>0, <1>1 DEF LoadParent, SameLocals, TypeOK, callVars, mergeVars
  <2> QED  BY <2>1, <2>2, <2>3, <2>4, Combine DEF ThreadInv
<1>2. CASE LoadGrandparent(t)
  <2>1. Forest' /\ Refines
    BY <1>0, <1>2, ForestUnchanged DEF LoadGrandparent
  <2>2. FindInv(t)'
    <3>1. /\ x[t] # Nil /\ y[t] = Nil /\ y'[t] = parent[x[t]]
          /\ pc[t] \in {"find", "halve"}
          /\ UNCHANGED <<parent, priority, pc, u, x, z, rep>>
      BY <1>0, <1>2 DEF LoadGrandparent, TypeOK
    <3>2. rep[parent[x[t]]] = rep[x[t]] /\ (parent[x[t]] = x[t] \/ Above(parent[x[t]], x[t]))
      BY <1>0, <3>1, LocalTypes, NilFacts DEF Forest, Acyclic, PartitionKept
    <3> QED  BY <1>0, <3>1, <3>2 DEF FindInv, Above
  <2>3. MergeInv(t)'
    BY <1>0, <1>2 DEF LoadGrandparent, MergeInv, callVars, mergeVars, Above
  <2>4. \A q \in Thread \ {t} : SameLocals(q)
    BY <1>0, <1>2 DEF LoadGrandparent, SameLocals, TypeOK, callVars, mergeVars
  <2> QED  BY <2>1, <2>2, <2>3, <2>4, Combine DEF ThreadInv
<1>3. CASE LoadRight(t)
  <2>1. Forest' /\ Refines
    BY <1>0, <1>3, ForestUnchanged DEF LoadRight
  <2>2. FindInv(t)'
    <3>1. /\ pc[t] = "find" /\ z'[t] = parent[u[t]]
          /\ UNCHANGED <<parent, priority, pc, u, x, y, rep>>
      BY <1>0, <1>3 DEF LoadRight, TypeOK
    <3> QED  BY <1>0, <3>1 DEF FindInv, Above
  <2>3. MergeInv(t)'
    BY <1>0, <1>3 DEF LoadRight, MergeInv, callVars, mergeVars, Above
  <2>4. \A q \in Thread \ {t} : SameLocals(q)
    BY <1>0, <1>3 DEF LoadRight, SameLocals, TypeOK, callVars, mergeVars
  <2> QED  BY <2>1, <2>2, <2>3, <2>4, Combine DEF ThreadInv
<1>4. CASE Test(t)
  <2>1. Forest' /\ Refines
    BY <1>0, <1>4, ForestUnchanged DEF Test
  <2>2. FindInv(t)'
    <3>1. /\ x'[t] = Nil /\ y'[t] = Nil /\ z'[t] = Nil /\ parent' = parent /\ u' = u
          /\ y[t] # Nil /\ z[t] # Nil
          /\ pc'[t] = IF y[t] # z[t] THEN "halve" ELSE "return"
      BY <1>0, <1>4 DEF Test, ClearRegisters, TypeOK
    <3>2. y[t] # z[t] => parent[u[t]] # u[t]
      BY <1>0, <3>1 DEF FindInv
    <3> QED  BY <3>1, <3>2, Fresh
  <2>3. MergeInv(t)'
    BY <1>0, <1>4 DEF Test, MergeInv, callVars, mergeVars, Above, TypeOK
  <2>4. \A q \in Thread \ {t} : SameLocals(q)
    BY <1>0, <1>4 DEF Test, ClearRegisters, SameLocals, TypeOK, callVars, mergeVars
  <2> QED  BY <2>1, <2>2, <2>3, <2>4, Combine DEF ThreadInv
<1>5. CASE Halve(t)
  <2>1. Forest' /\ Refines
    BY <1>0, <1>5, HalveForest
  <2>2. FindInv(t)'
    <3>1. /\ x'[t] = Nil /\ y'[t] = Nil /\ z'[t] = Nil
          /\ u' = u /\ parent'[u[t]] = y[t] /\ x[t] # Nil /\ y[t] # Nil
      BY <1>0, <1>5, LocalTypes DEF Halve, ClearRegisters, FindInv, TypeOK
    <3>2. Above(x[t], u[t]) /\ (y[t] = x[t] \/ Above(y[t], x[t]))
      BY <1>0, <1>5, <3>1 DEF Halve, FindInv
    <3>3. y[t] # u[t]
      BY <1>0, <3>1, <3>2, LocalTypes, AboveOrder DEF TypeOK
    <3> QED  BY <3>1, <3>3, Fresh
  <2>3. MergeInv(t)'
    BY <1>0, <1>5 DEF Halve, MergeInv, callVars, mergeVars, Above, TypeOK
  <2>4. \A q \in Thread \ {t} : SameLocals(q)
    BY <1>0, <1>5 DEF Halve, ClearRegisters, SameLocals, TypeOK, callVars, mergeVars
  <2> QED  BY <2>1, <2>2, <2>3, <2>4, Combine DEF ThreadInv
<1>6. CASE Advance(t)
  <2>1. Forest' /\ Refines
    BY <1>0, <1>6, ForestUnchanged DEF Advance
  <2>2. FindInv(t)'
    BY <1>0, <1>6, LocalTypes, NilFacts
    DEF Advance, FindInv, TypeOK, callVars, mergeVars
  <2>3. MergeInv(t)'
    <3>1. /\ pc[t] = "advance" /\ pc'[t] = "find" /\ rep[u'[t]] = rep[u[t]]
          /\ call' = call /\ arg' = arg /\ loc' = loc /\ side' = side /\ rep' = rep
      BY <1>0, <1>6, LocalTypes
      DEF Advance, callVars, mergeVars, TypeOK, Forest, PartitionKept
    <3> QED  BY <1>0, <3>1 DEF MergeInv
  <2>4. \A q \in Thread \ {t} : SameLocals(q)
    BY <1>0, <1>6 DEF Advance, SameLocals, TypeOK, callVars, mergeVars
  <2> QED  BY <2>1, <2>2, <2>3, <2>4, Combine DEF ThreadInv
<1>7. CASE ReturnRoot(t)
  <2>1. Forest' /\ Refines
    BY <1>0, <1>7, ForestUnchanged DEF ReturnRoot
  <2>2. FindInv(t)'
    BY <1>0, <1>7, NilFacts DEF ReturnRoot, Finish, FindInv, TypeOK
  <2>3. MergeInv(t)'
    BY <1>0, <1>7 DEF ReturnRoot, Finish, MergeInv, TypeOK
  <2>4. \A q \in Thread \ {t} : SameLocals(q)
    BY <1>0, <1>7 DEF ReturnRoot, Finish, SameLocals, TypeOK
  <2> QED  BY <2>1, <2>2, <2>3, <2>4, Combine DEF ThreadInv
<1> QED
  BY <1>1, <1>2, <1>3, <1>4, <1>5, <1>6, <1>7 DEF FindStep

(* The steps of merge keep the invariant.                                    *)
LEMMA MergeStepInv ==
  ASSUME DSUInv, TypeOK', NEW t \in Thread, MergeStep(t)
  PROVE  DSUInv'
<1>0. TypeOK /\ Forest /\ FindInv(t) /\ MergeInv(t)
  BY DEF DSUInv, Forest
<1>1. CASE FindOther(t)
  <2>1. Forest' /\ Refines
    BY <1>0, <1>1, ForestUnchanged DEF FindOther
  <2>2. FindInv(t)'
    <3>1. pc[t] = "return" /\ pc'[t] = "find" /\ UNCHANGED <<x, y, z>>
      BY <1>0, <1>1 DEF FindOther, TypeOK
    <3> QED  BY <1>0, <3>1, Fresh DEF FindInv
  <2>3. MergeInv(t)'
    <3> DEFINE o == IF side[t] = "a" THEN "b" ELSE "a"
               ab == [loc[t] EXCEPT ![side[t]] = parent[u[t]]]
    <3>1. /\ pc[t] = "return" /\ pc'[t] = "find" /\ call[t] = "merge"
          /\ call' = call /\ arg' = arg /\ rep' = rep
          /\ loc'[t] = ab /\ side'[t] = o /\ u'[t] = loc[t][o]
      BY <1>0, <1>1 DEF FindOther, TypeOK, callVars
    <3>2. ab[o] = loc[t][o] /\ rep[parent[u[t]]] = rep[loc[t][side[t]]]
      BY <1>0, <3>1, LocalTypes DEF TypeOK, Side, MergeInv, Forest, PartitionKept
    <3>3. rep[ab["a"]] = rep[loc[t]["a"]] /\ rep[ab["b"]] = rep[loc[t]["b"]]
      BY <1>0, <3>2 DEF TypeOK, Side
    <3> HIDE DEF ab, o
    <3> QED  BY <1>0, <3>1, <3>2, <3>3 DEF MergeInv
  <2>4. \A q \in Thread \ {t} : SameLocals(q)
    BY <1>0, <1>1 DEF FindOther, SameLocals, TypeOK, callVars, findVars, mergeVars
  <2> QED  BY <2>1, <2>2, <2>3, <2>4, Combine DEF ThreadInv
<1>2. CASE SameRoot(t)
  <2>1. Forest' /\ Refines
    BY <1>0, <1>2, ForestUnchanged DEF SameRoot
  <2>2. FindInv(t)'
    <3>1. pc[t] = "return" /\ pc'[t] = "none" /\ UNCHANGED <<x, y, z>>
      BY <1>0, <1>2 DEF SameRoot, SecondRootFound, Finish, TypeOK
    <3> QED  BY <1>0, <3>1, Fresh DEF FindInv
  <2>3. MergeInv(t)'
    BY <1>0, <1>2, <2>1, LocalTypes
    DEF SameRoot, Finish, SecondRootFound, MergeInv, TypeOK, callVars
  <2>4. \A q \in Thread \ {t} : SameLocals(q)
    BY <1>0, <1>2 DEF SameRoot, Finish, SecondRootFound, SameLocals, TypeOK, callVars, findVars, mergeVars
  <2> QED  BY <2>1, <2>2, <2>3, <2>4, Combine DEF ThreadInv
<1>3. CASE OrderRoots(t)
  <2>1. Forest' /\ Refines
    BY <1>0, <1>3, ForestUnchanged DEF OrderRoots
  <2>2. FindInv(t)'
    BY <1>0, <1>3, <2>1, LocalTypes, NilFacts
    DEF OrderRoots, SecondRootFound, FindInv, TypeOK, findVars
  <2>3. MergeInv(t)'
    <3> DEFINE ab == Roots(t)
               r == OrderEdge(ab)
    <3>a. rep[parent[u[t]]] = rep[loc[t][side[t]]]
      BY <1>0, <1>3, LocalTypes
      DEF OrderRoots, SecondRootFound, TypeOK, MergeInv, Forest, PartitionKept
    <3>1. /\ ab \in [Side -> Node] /\ ab["a"] \in Node /\ ab["b"] \in Node
          /\ rep[ab["a"]] = rep[loc[t]["a"]] /\ rep[ab["b"]] = rep[loc[t]["b"]]
      BY <1>0, <3>a, LocalTypes DEF Roots, TypeOK, Side
    <3>2. ab["a"] # ab["b"] /\ loc'[t] = r /\ pc'[t] = "cas" /\ priority' = priority
      BY <1>0, <1>3 DEF OrderRoots, TypeOK
    <3> HIDE DEF ab
    <3>3. Above(r["a"], r["b"])
      BY <1>0, <3>1, <3>2, AboveOrder DEF OrderEdge, Locals, Side, TypeOK
    <3>4. \/ r["a"] = ab["a"] /\ r["b"] = ab["b"]
          \/ r["a"] = ab["b"] /\ r["b"] = ab["a"]
      BY DEF OrderEdge, Locals, Side
    <3>5. Above(loc[t]["a"], loc[t]["b"])'
      BY <3>2, <3>3 DEF Above
    <3> HIDE DEF r
    <3> QED
      BY <1>0, <1>3, <3>1, <3>2, <3>4, <3>5
      DEF OrderRoots, SecondRootFound, MergeInv, callVars
  <2>4. \A q \in Thread \ {t} : SameLocals(q)
    BY <1>0, <1>3 DEF OrderRoots, SecondRootFound, SameLocals, TypeOK, callVars, findVars, mergeVars
  <2> QED  BY <2>1, <2>2, <2>3, <2>4, Combine DEF ThreadInv
<1>4. CASE Link(t)
  <2>1. Forest' /\ Refines
    BY <1>0, <1>4, LinkForest
  <2>2. /\ pc' = [pc EXCEPT ![t] = "none"] /\ call' = [call EXCEPT ![t] = "done"]
        /\ UNCHANGED <<x, y, z>> /\ pc[t] = "cas"
    BY <1>4 DEF Link, Finish
  <2>3. FindInv(t)'
    BY <1>0, <2>2, Fresh, SMTT(30) DEF FindInv, TypeOK
  <2>4. MergeInv(t)'
    BY <1>0, <2>2, Outside DEF TypeOK
  <2>5. \A q \in Thread \ {t} : SameLocals(q)
    BY <1>0, <1>4, SMTT(30) DEF Link, Finish, SameLocals, TypeOK
  <2> QED  BY <2>1, <2>3, <2>4, <2>5, Combine DEF ThreadInv
<1>5. ASSUME NEW s \in Side, LinkFails(t, s) PROVE DSUInv'
  <2> DEFINE b == loc[t]["b"]
             ab == [loc[t] EXCEPT !["b"] = parent[b]]
  <2>1. Forest' /\ Refines
    BY <1>0, <1>5, ForestUnchanged DEF LinkFails
  <2>2. /\ pc[t] = "cas" /\ pc'[t] = "find" /\ UNCHANGED <<x, y, z>>
        /\ call' = call /\ arg' = arg /\ rep' = rep
        /\ loc'[t] = ab /\ side'[t] = s /\ u'[t] = ab[s]
    BY <1>0, <1>5 DEF LinkFails, Iterate, callVars, TypeOK
  <2>3. /\ rep[ab["a"]] = rep[loc[t]["a"]] /\ rep[ab["b"]] = rep[loc[t]["b"]]
    BY <1>0, LocalTypes DEF TypeOK, Side, Forest, PartitionKept
  <2> HIDE DEF ab
  <2>4. FindInv(t)'
    BY <1>0, <2>2, Fresh DEF FindInv
  <2>5. MergeInv(t)'
    BY <1>0, <2>2, <2>3 DEF MergeInv
  <2>6. \A q \in Thread \ {t} : SameLocals(q)
    BY <1>0, <1>5 DEF LinkFails, Iterate, SameLocals, TypeOK, callVars
  <2> QED  BY <2>1, <2>4, <2>5, <2>6, Combine DEF ThreadInv
<1> QED
  BY <1>1, <1>2, <1>3, <1>4, <1>5 DEF MergeStep

(* Calling find_root keeps the invariant.                                    *)
LEMMA CallFindInv ==
  ASSUME DSUInv, NEW t \in Thread, NEW v \in Node, CallFind(t, v)
  PROVE  DSUInv'
<1>0. TypeOK /\ Forest /\ FindInv(t) /\ MergeInv(t) /\ TypeOK'
  BY CallFindTypes DEF DSUInv, Forest
<1>1. Forest' /\ Refines
  BY <1>0, ForestUnchanged DEF CallFind
<1>2. /\ call[t] = "idle" /\ pc'[t] = "find" /\ UNCHANGED <<x, y, z>>
      /\ call'[t] = "find" /\ arg'[t] = <<v, v>> /\ u'[t] = v
  BY <1>0 DEF CallFind, TypeOK
<1>3. FindInv(t)'
  BY <1>0, <1>2, Fresh DEF FindInv, MergeInv
<1>4. arg'[t] = <<v, v>>
  BY <1>2
<1>5. arg'[t][1] = v
  BY <1>4
<1>6. MergeInv(t)'
  BY <1>2, <1>5 DEF MergeInv
<1>7. \A q \in Thread \ {t} : SameLocals(q)
  BY <1>0 DEF CallFind, SameLocals, TypeOK, mergeVars
<1> QED  BY <1>0, <1>1, <1>3, <1>6, <1>7, Combine DEF ThreadInv

(* Starting a call, returning from it and resetting keep the invariant.      *)
LEMMA CallInv ==
  ASSUME DSUInv, TypeOK', NEW t \in Thread, Start(t) \/ Return(t)
  PROVE  DSUInv'
<1>0. TypeOK /\ Forest /\ FindInv(t) /\ MergeInv(t)
  BY DEF DSUInv, Forest
<1>1. ASSUME NEW e \in Edge, NEW s \in Side, CallMerge(t, e[1], e[2], s) PROVE DSUInv'
  <2> DEFINE ab == Locals(e[1], e[2])
  <2>1. Forest' /\ Refines
    BY <1>0, <1>1, ForestUnchanged DEF CallMerge
  <2>2. /\ call[t] = "idle" /\ pc'[t] = "find" /\ UNCHANGED <<x, y, z>>
        /\ call'[t] = "merge" /\ arg'[t] = <<e[1], e[2]>>
        /\ loc'[t] = ab /\ side'[t] = s /\ u'[t] = ab[s]
    BY <1>0, <1>1 DEF CallMerge, Iterate, TypeOK
  <2>b. arg'[t] = <<e[1], e[2]>>
    BY <2>2
  <2>a. arg'[t][1] = e[1] /\ arg'[t][2] = e[2]
    BY <2>b
  <2>3. ab["a"] = e[1] /\ ab["b"] = e[2]
    BY DEF Locals, Side
  <2> HIDE DEF ab
  <2>4. FindInv(t)'
    BY <1>0, <2>2, Fresh DEF FindInv, MergeInv
  <2>5. MergeInv(t)'
    BY <2>2, <2>3, <2>a DEF MergeInv
  <2>6. \A q \in Thread \ {t} : SameLocals(q)
    BY <1>0, <1>1, SMTT(30) DEF CallMerge, Iterate, SameLocals, TypeOK
  <2> QED  BY <2>1, <2>4, <2>5, <2>6, Combine DEF ThreadInv
<1>2. ASSUME NEW v \in Query, CallFind(t, v) PROVE DSUInv'
  BY <1>2, CallFindInv
<1>3. CASE Return(t)
  <2>1. Forest' /\ Refines
    BY <1>0, <1>3, ForestUnchanged DEF Return
  <2>2. /\ call[t] = "done" /\ call'[t] = "idle" /\ pc' = pc /\ UNCHANGED <<x, y, z>>
    BY <1>0, <1>3 DEF Return, TypeOK, findVars
  <2>3. pc[t] = "none"
    BY <1>0, <2>2 DEF MergeInv
  <2>4. FindInv(t)'
    BY <1>0, <2>2, <2>3, Fresh DEF FindInv
  <2>5. MergeInv(t)'
    BY <2>2, <2>3, Outside
  <2>6. \A q \in Thread \ {t} : SameLocals(q)
    BY <1>0, <1>3 DEF Return, SameLocals, TypeOK, findVars, mergeVars
  <2> QED  BY <2>1, <2>4, <2>5, <2>6, Combine DEF ThreadInv
<1> QED
  BY <1>1, <1>2, <1>3 DEF Start

(* reset, called when no operation is running, restores the initial forest.  *)
LEMMA ResetInv ==
  ASSUME DSUInv, TypeOK', Reset
  PROVE  DSUInv'
<1>0. TypeOK /\ \A t \in Thread : FindInv(t) /\ MergeInv(t)
  BY DEF DSUInv
<1>1. Forest'
  BY DEF Reset, Forest, Acyclic, PartitionKept, RootOnTop
<1>2. ASSUME NEW t \in Thread PROVE FindInv(t)' /\ MergeInv(t)'
  BY <1>0, NilFacts DEF Reset, FindInv, MergeInv, TypeOK, callVars, findVars
<1> QED  BY <1>1, <1>2 DEF DSUInv, Forest

(* Every step keeps the inductive invariant.                                 *)
LEMMA InvStep == DSUInv /\ [Next]_dsuVars => DSUInv'
<1> SUFFICES ASSUME DSUInv, [Next]_dsuVars PROVE DSUInv'
  OBVIOUS
<1>1. TypeOK'
  BY TypeStep DEF DSUInv
<1>2. CASE Reset
  BY <1>1, <1>2, ResetInv
<1>3. ASSUME NEW t \in Thread, Start(t) \/ FindStep(t) \/ MergeStep(t) \/ Return(t)
      PROVE  DSUInv'
  BY <1>1, <1>3, FindStepInv, MergeStepInv, CallInv
<1>4. CASE UNCHANGED dsuVars
  <2>1. Forest' /\ Refines
    BY <1>4, ForestUnchanged DEF DSUInv, Forest, dsuVars
  <2>2. ASSUME NEW q \in Thread PROVE SameLocals(q)
    BY <1>4 DEF dsuVars, SameLocals
  <2> QED  BY <1>1, <2>1, <2>2, OthersKept DEF DSUInv, Forest
<1> QED  BY <1>2, <1>3, <1>4 DEF Next

(* The constructor establishes the inductive invariant.                      *)
LEMMA InitInv == Init => DSUInv
<1> SUFFICES ASSUME Init PROVE DSUInv
  OBVIOUS
<1>1. TypeOK
  BY NilFacts DEF Init, TypeOK, Side, Locals, Blank
<1>2. Acyclic /\ PartitionKept /\ RootOnTop
  BY DEF Init, Acyclic, PartitionKept, RootOnTop
<1>3. ASSUME NEW t \in Thread PROVE FindInv(t) /\ MergeInv(t)
  BY <1>3, NilFacts DEF Init, FindInv, MergeInv
<1> QED  BY <1>1, <1>2, <1>3 DEF DSUInv

(* The strengthened invariant, type correctness included, holds in every      *)
(* reachable state.                                                          *)
THEOREM DSUInvariant == Spec => []DSUInv
BY InitInv, InvStep, PTL DEF Spec

(* Parent pointers never form a cycle: order_edge's order rises along them.  *)
THEOREM AcyclicTheorem == Spec => []Acyclic
BY DSUInvariant, PTL DEF DSUInv

(* The parent array represents exactly the partition the linking CASes made, *)
(* one root to a set, whatever stale values path halving stores.             *)
THEOREM PartitionTheorem == Spec => []PartitionKept
BY DSUInvariant, PTL DEF DSUInv

-----------------------------------------------------------------------------
(* A node that has a parent keeps having one until reset.                    *)
THEOREM LinkedTheorem == Spec => LinkedStaysLinked
<1>1. ASSUME DSUInv, [Next]_dsuVars
      PROVE  [ \/ \A v \in Node : parent[v] # v => parent'[v] # v
               \/ \A t \in Thread : call[t] = "idle" ]_dsuVars
  <2>0. TypeOK /\ Forest /\ \A t \in Thread : FindInv(t) /\ MergeInv(t)
    BY <1>1 DEF DSUInv, Forest
  <2>1. CASE parent' = parent
    BY <2>1
  <2>2. CASE Reset
    BY <2>2 DEF Reset
  <2>3. ASSUME NEW t \in Thread, Halve(t) \/ Link(t)
        PROVE  \A v \in Node : parent[v] # v => parent'[v] # v
    BY <2>0, <2>3, HalveForest, LinkForest DEF Refines
  <2>4. ASSUME NEW t \in Thread, Start(t) \/ FindStep(t) \/ MergeStep(t) \/ Return(t)
        PROVE  parent' = parent \/ Halve(t) \/ Link(t)
    BY <2>4
    DEF Start, FindStep, MergeStep, Return, CallMerge, CallFind, LoadParent, LoadGrandparent,
        LoadRight, Test, Advance, ReturnRoot, FindOther, SameRoot, OrderRoots, LinkFails
  <2>5. CASE UNCHANGED dsuVars
    BY <2>5 DEF dsuVars
  <2> QED  BY <1>1, <2>1, <2>2, <2>3, <2>4, <2>5 DEF Next
<1> QED  BY <1>1, DSUInvariant, PTL DEF Spec, LinkedStaysLinked

(* Linearizability.  The CAS that links is the instant at which a merge      *)
(* answers TRUE, the load that finds both roots equal the one at which it    *)
(* answers FALSE, and the last load of find_root the one at which it answers.*)
LEMMA StepRefines == DSUInv /\ [Next]_dsuVars => [UF!Next]_(UF!ufVars)
<1> SUFFICES ASSUME DSUInv, [Next]_dsuVars PROVE [UF!Next]_(UF!ufVars)
  OBVIOUS
<1>0. TypeOK /\ Forest /\ \A t \in Thread : FindInv(t) /\ MergeInv(t)
  BY DEF DSUInv, Forest
<1>1. ASSUME NEW t \in Thread, NEW e \in Edge, NEW s \in Side, CallMerge(t, e[1], e[2], s)
      PROVE  UF!Next
  <2>1. UF!Call(t, "merge", e[1], e[2]) /\ e[1] \in UF!Node /\ e[2] \in UF!Node
    BY <1>1 DEF CallMerge, UF!Call, Node, UF!Node
  <2> QED  BY <2>1 DEF UF!Next
<1>2. ASSUME NEW t \in Thread, NEW v \in Query, CallFind(t, v) PROVE UF!Next
  <2>1. UF!Call(t, "find", v, v) /\ v \in UF!Node
    BY <1>2 DEF CallFind, UF!Call, Node, UF!Node
  <2> QED  BY <2>1 DEF UF!Next
<1>3. ASSUME NEW t \in Thread, ReturnRoot(t) PROVE UF!Next
  <2> DEFINE r == parent[u[t]]
  <2>1. r \in UF!Node /\ rep[r] = rep[arg[t][1]]
    BY <1>0, <1>3, LocalTypes
    DEF ReturnRoot, MergeInv, Forest, PartitionKept, Node, UF!Node
  <2>2. UF!Find(t, r)
    BY <1>3, <2>1 DEF ReturnRoot, Finish, UF!Find
  <2> QED  BY <2>1, <2>2 DEF UF!Next
<1>4. ASSUME NEW t \in Thread, SameRoot(t) PROVE UF!Next
  <2>1. rep[arg[t][1]] = rep[arg[t][2]]
    <3>1. rep[parent[u[t]]] = rep[loc[t][side[t]]]
      BY <1>0, <1>4, LocalTypes DEF SameRoot, SecondRootFound, MergeInv, Forest, PartitionKept
    <3>2. rep[Roots(t)["a"]] = rep[loc[t]["a"]] /\ rep[Roots(t)["b"]] = rep[loc[t]["b"]]
      BY <1>0, <3>1, LocalTypes DEF Roots, TypeOK, Side
    <3> QED  BY <1>0, <1>4, <3>2 DEF SameRoot, SecondRootFound, MergeInv
  <2>2. Blank \in UF!Answers /\ ~Blank.merged
    BY NilFacts DEF Blank, UF!Answers, Node, UF!Node
  <2>3. UF!Merge(t, Blank)
    BY <1>4, <2>1, <2>2 DEF SameRoot, SecondRootFound, Finish, UF!Merge
  <2> QED  BY <2>2, <2>3 DEF UF!Next
<1>5. ASSUME NEW t \in Thread, Link(t) PROVE UF!Next
  <2> DEFINE a == loc[t]["a"]
             b == loc[t]["b"]
             ans == [merged |-> TRUE, root |-> a, child |-> b]
  <2>1. a \in Node /\ b \in Node /\ rep[a] # rep[b]
    BY <1>0, <1>5, LocalTypes, LinkForest
  <2>2. ans \in UF!Answers
    BY <2>1 DEF UF!Answers, Node, UF!Node
  <2>3. {rep[a], rep[b]} = {rep[arg[t][1]], rep[arg[t][2]]} /\ call[t] = "merge"
    <3>1. call[t] = "merge"
      <4>1. pc[t] = "cas"
        BY <1>5 DEF Link
      <4>2. call[t] \in {"idle", "merge", "find", "done"}
        BY <1>0 DEF TypeOK
      <4> QED  BY <1>0, <4>1, <4>2 DEF MergeInv
    <3>2. \/ rep[a] = rep[arg[t][1]] /\ rep[b] = rep[arg[t][2]]
          \/ rep[a] = rep[arg[t][2]] /\ rep[b] = rep[arg[t][1]]
      BY <1>0, <3>1 DEF MergeInv
    <3> QED  BY <3>1, <3>2
  <2>4. /\ call' = [call EXCEPT ![t] = "done"] /\ arg' = arg
        /\ ret' = [ret EXCEPT ![t] = ans]
        /\ rep' = UF!Join(rep, rep[ans.child], rep[ans.root])
    BY <1>5 DEF Link, Finish, UF!Join, Node, UF!Node
  <2>5. UF!Merge(t, ans)
    BY <2>1, <2>3, <2>4 DEF UF!Merge
  <2> QED  BY <2>2, <2>5 DEF UF!Next
<1>6. ASSUME NEW t \in Thread, Return(t) PROVE UF!Next
  BY <1>6 DEF Return, UF!Return, UF!Next, Blank, UF!Blank
<1>7. CASE Reset
  BY <1>7 DEF Reset, UF!Reset, UF!Next, callVars, Node, UF!Node
<1>8. ASSUME NEW t \in Thread,
             \/ LoadParent(t) \/ LoadGrandparent(t) \/ LoadRight(t) \/ Test(t) \/ Halve(t)
             \/ Advance(t) \/ FindOther(t) \/ OrderRoots(t)
             \/ \E s \in Side : LinkFails(t, s)
      PROVE  UNCHANGED UF!ufVars
  BY <1>8
  DEF LoadParent, LoadGrandparent, LoadRight, Test, Halve, Advance, FindOther, OrderRoots,
      LinkFails, callVars, UF!ufVars
<1>9. CASE UNCHANGED dsuVars
  BY <1>9 DEF dsuVars, UF!ufVars
<1> QED
  BY <1>1, <1>2, <1>3, <1>4, <1>5, <1>6, <1>7, <1>8, <1>9
  DEF Next, Start, FindStep, MergeStep

(* DisjointSetUnion_MT implements the abstract union-find.                   *)
THEOREM Linearizable == Spec => UnionFindSpec
<1>1. Init => UF!Init
  BY DEF Init, UF!Init, Blank, UF!Blank, Node, UF!Node
<1> QED  BY <1>1, StepRefines, DSUInvariant, PTL DEF Spec, UF!Spec, UnionFindSpec

-----------------------------------------------------------------------------
(* The ConnectedComponents constructor.  What find_root may answer for v: a  *)
(* member of its set, and v itself exactly if v is the root.                 *)
AnswerOf(v, r) == rep[r] = rep[v] /\ (r = v <=> rep[v] = v)

(* A thread of the loop: the nodes left to it have no answer yet, find_root  *)
(* only climbs from its argument, and what it returned is a right answer.    *)
AskInv(t) ==
  /\ call[t] # "merge"
  /\ left[t] \subseteq Chunk[t]
  /\ \A v \in left[t] : parent_arr[v] = Nil
  /\ call[t] \in {"find", "done"} => arg[t][1] \in left[t]
  /\ call[t] = "find" => u[t] = arg[t][1] \/ Above(u[t], arg[t][1])
  /\ call[t] = "done" => AnswerOf(arg[t][1], ret[t].root)

(* The answers stored so far are right, and their own roots are counted.     *)
StoredInv ==
  /\ left \in [Thread -> SUBSET Node] /\ parent_arr \in [Node -> Node \cup {Nil}]
  /\ \A v \in Node : parent_arr[v] # Nil => AnswerOf(v, parent_arr[v])
  /\ temp_cc = Cardinality({v \in Node : parent_arr[v] = v})

AnswerInv == DSUInv /\ StoredInv /\ \A t \in Thread : AskInv(t)

(* In a forest whose parents stand above their children every node is below  *)
(* its root: otherwise take the highest node that is not.                    *)
LEMMA RootsOnTop ==
  ASSUME parent \in [Node -> Node], rep \in [Node -> Node], priority \in [Node -> Nat],
         Acyclic, PartitionKept
  PROVE  RootOnTop
<1> DEFINE Up(v) == {w \in Node : Above(w, v)}
           B == {v \in Node : rep[v] # v /\ ~Above(rep[v], v)}
           M == {Cardinality(Up(v)) : v \in B}
           R == {p \in Nat \X Nat : p[1] < p[2]}
<1>1. SUFFICES ASSUME B # {} PROVE FALSE
  BY DEF RootOnTop
<1>2. ASSUME NEW v \in Node PROVE IsFiniteSet(Up(v)) /\ Cardinality(Up(v)) \in Nat
  <2>1. IsFiniteSet(Node)
    BY FS_Interval DEF Node
  <2>2. Up(v) \subseteq Node
    OBVIOUS
  <2> HIDE DEF Up
  <2> QED  BY <2>1, <2>2, FS_Subset, FS_CardinalityType
<1>3. IsWellFoundedOn(R, Nat)
  <2>1. OpToRel(<, Nat) = R
    BY Zenon DEF OpToRel
  <2> QED  BY <2>1, NatLessThanWellFounded, Zenon
<1>4. M \subseteq Nat /\ M # {}
  <2> HIDE DEF Up
  <2> QED  BY <1>1, <1>2
<1>5. PICK m \in M : \A k \in M : ~ (<<k, m>> \in R)
  <2> HIDE DEF M, R
  <2> QED  BY <1>3, <1>4, WFMin, Zenon
<1>6. PICK v \in B : m = Cardinality(Up(v))
  <2> HIDE DEF Up, B
  <2> QED  BY <1>5
<1>7. v \in Node /\ parent[v] \in Node /\ parent[v] # v /\ Above(parent[v], v)
  BY DEF PartitionKept, Acyclic
<1>8. parent[v] \in B
  <2>1. rep[parent[v]] = rep[v] /\ rep[v] \in Node
    BY <1>7 DEF PartitionKept
  <2>2. parent[v] # rep[v]
    BY <1>7
  <2>3. ~Above(rep[v], parent[v])
    BY <1>7, <2>1, AboveOrder
  <2> QED  BY <1>7, <2>1, <2>2, <2>3
<1>9. Cardinality(Up(parent[v])) < Cardinality(Up(v))
  <2>1. Up(parent[v]) \subseteq Up(v)
    BY <1>7, AboveOrder
  <2>2. parent[v] \in Up(v) /\ parent[v] \notin Up(parent[v])
    BY <1>7, AboveOrder
  <2> HIDE DEF Up
  <2> QED  BY <1>2, <1>7, <2>1, <2>2, FS_Subset
<1> HIDE DEF Up, B
<1>10. Cardinality(Up(parent[v])) \in M /\ ~ (<<Cardinality(Up(parent[v])), m>> \in R)
  BY <1>5, <1>8
<1> QED  BY <1>2, <1>6, <1>7, <1>9, <1>10

(* The constructor starts in a state of the inductive invariant.             *)
LEMMA AnswerInit == CCInit => AnswerInv
<1> SUFFICES ASSUME CCInit PROVE AnswerInv
  OBVIOUS
<1>1. TypeOK
  BY NilFacts DEF CCInit, TypeOK, Side, Locals, Blank
<1>2. Acyclic /\ PartitionKept /\ RootOnTop
  BY <1>1, RootsOnTop DEF CCInit, TypeOK
<1>3. ASSUME NEW t \in Thread PROVE FindInv(t) /\ MergeInv(t)
  BY <1>3, NilFacts DEF CCInit, FindInv, MergeInv
<1>4. StoredInv
  <2>1. {v \in Node : parent_arr[v] = v} = {}
    BY NilFacts DEF CCInit
  <2> QED  BY <2>1, FS_EmptySet, ChunkAssumption DEF CCInit, StoredInv
<1>5. ASSUME NEW t \in Thread PROVE AskInv(t)
  BY ChunkAssumption DEF CCInit, AskInv
<1> QED  BY <1>1, <1>2, <1>3, <1>4, <1>5 DEF AnswerInv, DSUInv

(* What a thread has asked and been told is not disturbed by the others.     *)
LEMMA OthersAsk ==
  ASSUME NEW q \in Thread, AskInv(q), SameLocals(q), ret'[q] = ret[q], left'[q] = left[q],
         \A v \in left[q] : parent_arr'[v] = parent_arr[v],
         rep' = rep, priority' = priority
  PROVE  AskInv(q)'
BY DEF AskInv, SameLocals, AnswerOf, Above

(* A step of find_root changes nothing of what other threads see of it but   *)
(* the parents.                                                              *)
LEMMA FindStepOthers ==
  ASSUME TypeOK, NEW t \in Thread, FindStep(t)
  PROVE  /\ rep' = rep /\ priority' = priority /\ arg' = arg
         /\ \A q \in Thread \ {t} : SameLocals(q) /\ ret'[q] = ret[q]
<1> USE DEF TypeOK, SameLocals, callVars, mergeVars
<1>1. CASE LoadParent(t) \/ LoadGrandparent(t) \/ LoadRight(t)
  BY <1>1 DEF LoadParent, LoadGrandparent, LoadRight
<1>2. CASE Test(t) \/ Halve(t)
  BY <1>2 DEF Test, Halve, ClearRegisters
<1>3. CASE Advance(t)
  BY <1>3 DEF Advance
<1>4. CASE ReturnRoot(t)
  BY <1>4 DEF ReturnRoot, Finish
<1> QED  BY <1>1, <1>2, <1>3, <1>4 DEF FindStep

(* find_root climbs from its argument and returns a root if that is one.     *)
LEMMA FindStepAsks ==
  ASSUME DSUInv, NEW t \in Thread, AskInv(t), FindStep(t),
         UNCHANGED <<left, parent_arr>>
  PROVE  AskInv(t)'
<1>0. /\ TypeOK /\ Forest /\ FindInv(t) /\ MergeInv(t)
      /\ rep' = rep /\ priority' = priority /\ arg' = arg
      /\ priority \in [Node -> Nat] /\ u[t] \in Node /\ arg[t][1] \in Node
      /\ parent[u[t]] \in Node
  BY FindStepOthers, LocalTypes DEF DSUInv, Forest, TypeOK
<1>a. call[t] = "find"
  BY <1>0 DEF AskInv, MergeInv, TypeOK, FindStep, LoadParent, LoadGrandparent, LoadRight,
              Test, Halve, Advance, ReturnRoot
<1>b. u[t] = arg[t][1] \/ Above(u[t], arg[t][1])
  BY <1>a DEF AskInv
<1>c. parent[u[t]] = u[t] \/ Above(parent[u[t]], u[t])
  BY <1>0 DEF Forest, Acyclic
<1>d. parent[u[t]] = arg[t][1] \/ Above(parent[u[t]], arg[t][1])
  BY <1>0, <1>b, <1>c, AboveOrder
<1>1. CASE u' = u /\ call' = call
  BY <1>0, <1>1, <1>a DEF AskInv, Above
<1>2. CASE Advance(t)
  <2>1. u'[t] = parent[u[t]] /\ call' = call
    BY <1>0, <1>2 DEF Advance, callVars, TypeOK
  <2> QED  BY <1>0, <1>a, <1>d, <2>1 DEF AskInv, Above
<1>3. CASE ReturnRoot(t)
  <2> DEFINE r == parent[u[t]]
             v == arg[t][1]
  <2>1. call'[t] = "done" /\ ret'[t].root = r
    BY <1>0, <1>3 DEF ReturnRoot, Finish, TypeOK
  <2>2. rep[r] = rep[v]
    BY <1>0, <1>a DEF MergeInv, Forest, PartitionKept
  <2> HIDE DEF r, v
  <2>3. r = v \/ Above(r, v)
    BY <1>d DEF r, v
  <2>4. ASSUME rep[v] = v PROVE r = v
    <3>1. rep[r] = r \/ Above(rep[r], r)
      BY <1>0 DEF Forest, RootOnTop, r
    <3> QED  BY <1>0, <2>2, <2>3, <2>4, <3>1, AboveOrder DEF r, v
  <2>5. ASSUME r = v PROVE rep[v] = v
    <3>1. u[t] = v
      BY <1>0, <1>b, <1>c, <2>5, AboveOrder DEF r, v
    <3> QED  BY <1>0, <2>5, <3>1 DEF Forest, PartitionKept, r
  <2>6. AnswerOf(v, r)
    BY <2>2, <2>4, <2>5 DEF AnswerOf
  <2>7. arg'[t][1] = v
    BY <1>0 DEF v
  <2> QED  BY <1>0, <1>a, <2>1, <2>6, <2>7 DEF AskInv, AnswerOf, v
<1> QED
  BY <1>1, <1>2, <1>3
  DEF FindStep, LoadParent, LoadGrandparent, LoadRight, Test, Halve, callVars

(* Storing an answer: the node had none, and is counted if it is a root.     *)
LEMMA StoreKeeps ==
  ASSUME AnswerInv, NEW t \in Thread, Store(t)
  PROVE  StoredInv' /\ \A q \in Thread : AskInv(q)'
<1> DEFINE i == arg[t][1]
           r == ret[t].root
           S == {v \in Node : parent_arr[v] = v}
<1>0. TypeOK /\ StoredInv /\ AskInv(t) /\ Return(t) /\ rep' = rep /\ priority' = priority
  BY DEF AnswerInv, DSUInv, Store, Return
<1>1. /\ i \in Node /\ r \in Node /\ i \in left[t] /\ parent_arr[i] = Nil /\ AnswerOf(i, r)
  BY <1>0, LocalTypes DEF AskInv, Return, TypeOK
<1>2. /\ parent_arr' = [parent_arr EXCEPT ![i] = r]
      /\ temp_cc' = IF r = i THEN temp_cc + 1 ELSE temp_cc
      /\ left' = [left EXCEPT ![t] = @ \ {i}]
  BY DEF Store
<1>3. /\ left \in [Thread -> SUBSET Node] /\ parent_arr \in [Node -> Node \cup {Nil}]
      /\ \A v \in Node : parent_arr[v] # Nil => AnswerOf(v, parent_arr[v])
      /\ temp_cc = Cardinality(S)
  BY <1>0 DEF StoredInv
<1>4. IsFiniteSet(S)
  <2>1. IsFiniteSet(Node)
    BY FS_Interval DEF Node
  <2> QED  BY <2>1, FS_Subset
<1> HIDE DEF i, r
<1>5. temp_cc' = Cardinality({v \in Node : parent_arr'[v] = v})
  <2>1. i \notin S
    BY <1>1, NilFacts
  <2>2. CASE r = i
    <3>1. {v \in Node : parent_arr'[v] = v} = S \cup {i}
      BY <1>1, <1>2, <1>3, <2>2
    <3>2. temp_cc' = Cardinality(S) + 1
      BY <1>2, <1>3, <2>2
    <3> HIDE DEF S
    <3> QED  BY <1>4, <2>1, <3>1, <3>2, FS_AddElement
  <2>3. CASE r # i
    <3>1. {v \in Node : parent_arr'[v] = v} = S
      BY <1>1, <1>2, <1>3, <2>1, <2>3
    <3> QED  BY <1>2, <1>3, <2>3, <3>1
  <2> QED  BY <2>2, <2>3
<1>6. StoredInv'
  <2>1. left' \in [Thread -> SUBSET Node] /\ parent_arr' \in [Node -> Node \cup {Nil}]
    BY <1>1, <1>2, <1>3
  <2>2. ASSUME NEW v \in Node, parent_arr'[v] # Nil PROVE AnswerOf(v, parent_arr[v])'
    BY <1>0, <1>1, <1>2, <1>3, <2>2 DEF AnswerOf
  <2> QED  BY <1>5, <2>1, <2>2 DEF StoredInv
<1>7. AskInv(t)'
  <2>1. call'[t] = "idle" /\ left'[t] = left[t] \ {i}
    BY <1>0, <1>2, <1>3 DEF Return, TypeOK
  <2>2. ASSUME NEW v \in left[t], v # i PROVE parent_arr'[v] = Nil
    BY <1>0, <1>2, <1>3, <2>2 DEF AskInv
  <2> QED  BY <1>0, <2>1, <2>2 DEF AskInv
<1>8. ASSUME NEW q \in Thread, q # t PROVE AskInv(q)'
  <2>1. AskInv(q) /\ SameLocals(q) /\ ret'[q] = ret[q] /\ left'[q] = left[q]
    BY <1>0, <1>2, <1>3, <1>8
    DEF AnswerInv, Return, SameLocals, TypeOK, findVars, mergeVars
  <2>2. i \notin left[q]
    BY <1>0, <1>1, <1>8, <2>1, ChunkAssumption DEF AskInv
  <2>3. \A v \in left[q] : parent_arr'[v] = parent_arr[v]
    BY <1>2, <1>3, <2>2
  <2> QED  BY <1>0, <2>1, <2>3, OthersAsk
<1> QED  BY <1>6, <1>7, <1>8

(* Every step of the constructor's loop keeps the invariant.                 *)
LEMMA AnswerStep == AnswerInv /\ [CCNext]_ccVars => AnswerInv'
<1> SUFFICES ASSUME AnswerInv, [CCNext]_ccVars PROVE AnswerInv'
  OBVIOUS
<1>0. DSUInv /\ TypeOK /\ StoredInv /\ \A q \in Thread : AskInv(q)
  BY DEF AnswerInv, DSUInv
<1>1. ASSUME NEW t \in Thread, FindNext(t) PROVE AnswerInv'
  <2>1. PICK i \in left[t] : CallFind(t, i)
    BY <1>1 DEF FindNext
  <2>2. i \in Node /\ UNCHANGED <<left, parent_arr, temp_cc, rep, priority, ret>>
    BY <1>0, <1>1, <2>1 DEF FindNext, CallFind, StoredInv
  <2>3. DSUInv'
    BY <1>0, <2>1, <2>2, CallFindInv
  <2>4. StoredInv'
    BY <1>0, <2>2 DEF StoredInv, AnswerOf
  <2>5. AskInv(t)'
    <3>1. call'[t] = "find" /\ arg'[t] = <<i, i>> /\ u'[t] = i
      BY <1>0, <2>1 DEF CallFind, TypeOK
    <3>2. arg'[t][1] = i
      BY <3>1
    <3> QED  BY <1>0, <2>1, <2>2, <3>1, <3>2 DEF AskInv
  <2>6. ASSUME NEW q \in Thread, q # t PROVE AskInv(q)'
    <3>1. SameLocals(q)
      BY <1>0, <2>1, <2>6 DEF CallFind, SameLocals, TypeOK, mergeVars
    <3> QED  BY <1>0, <2>2, <3>1, OthersAsk
  <2> QED  BY <2>3, <2>4, <2>5, <2>6 DEF AnswerInv
<1>2. ASSUME NEW t \in Thread, Finding(t) PROVE AnswerInv'
  <2>1. /\ FindStep(t) /\ UNCHANGED <<left, parent_arr, temp_cc>>
        /\ rep' = rep /\ priority' = priority
        /\ \A q \in Thread \ {t} : SameLocals(q) /\ ret'[q] = ret[q]
    BY <1>0, <1>2, FindStepOthers DEF Finding
  <2>2. DSUInv'
    BY <1>0, <2>1, InvStep DEF Next
  <2>3. StoredInv'
    BY <1>0, <2>1 DEF StoredInv, AnswerOf
  <2>4. AskInv(t)'
    BY <1>0, <2>1, FindStepAsks
  <2>5. ASSUME NEW q \in Thread, q # t PROVE AskInv(q)'
    BY <1>0, <2>1, <2>5, OthersAsk
  <2> QED  BY <2>2, <2>3, <2>4, <2>5 DEF AnswerInv
<1>3. ASSUME NEW t \in Thread, Store(t) PROVE AnswerInv'
  <2>1. DSUInv'
    BY <1>0, <1>3, InvStep DEF Next, Store
  <2> QED  BY <1>3, <2>1, StoreKeeps DEF AnswerInv
<1>4. CASE UNCHANGED ccVars
  <2>1. DSUInv'
    BY <1>0, <1>4, InvStep DEF ccVars, dsuVars
  <2>2. StoredInv'
    BY <1>0, <1>4 DEF ccVars, StoredInv, AnswerOf
  <2>3. ASSUME NEW q \in Thread PROVE AskInv(q)'
    BY <1>0, <1>4, OthersAsk DEF ccVars, SameLocals
  <2> QED  BY <2>1, <2>2, <2>3 DEF AnswerInv
<1> QED  BY <1>1, <1>2, <1>3, <1>4 DEF CCNext

(* is_connected never joins two components, at any moment of the loop.       *)
THEOREM ConnectedTheorem == CCSpec => []ConnectedSound
<1>1. AnswerInv => ConnectedSound
  <2> SUFFICES ASSUME AnswerInv, NEW v \in Node, NEW w \in Node,
                      parent_arr[v] # Nil, parent_arr[v] = parent_arr[w]
               PROVE  rep[v] = rep[w]
    BY DEF ConnectedSound, is_connected
  <2> QED  BY DEF AnswerInv, StoredInv, AnswerOf
<1> QED  BY <1>1, AnswerInit, AnswerStep, PTL DEF CCSpec

(* When the loop is over size() is the number of components.                 *)
THEOREM SizeTheorem == CCSpec => []SizeRight
<1>1. AnswerInv => SizeRight
  <2> SUFFICES ASSUME AnswerInv, Finished
               PROVE  temp_cc = Cardinality({rep[v] : v \in Node})
    BY DEF SizeRight
  <2>1. \A v \in Node : AnswerOf(v, parent_arr[v])
    BY DEF AnswerInv, StoredInv, Finished
  <2>2. {v \in Node : parent_arr[v] = v} = {v \in Node : rep[v] = v}
    BY <2>1 DEF AnswerOf
  <2>3. {v \in Node : rep[v] = v} = {rep[v] : v \in Node}
    BY DEF AnswerInv, DSUInv, TypeOK, PartitionKept
  <2> QED  BY <2>2, <2>3 DEF AnswerInv, StoredInv
<1> QED  BY <1>1, AnswerInit, AnswerStep, PTL DEF CCSpec
=============================================================================
