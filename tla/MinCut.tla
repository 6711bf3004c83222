------------------------------- MODULE MinCut -------------------------------
(***************************************************************************)
(* A program's queries of the minimum-cut algorithm once a stream has been *)
(* ingested: any queries of MCSketchAlg with updates between them, or the  *)
(* loop of tools/min_cut.cu.  The loop takes k disjoint forests of one     *)
(* sketched subgraph after another, each with about half of the edges of   *)
(* the one before, until the minimum cut of the forests is smaller than k, *)
(* or it reaches the first subgraph that the edge store holds.             *)
(***************************************************************************)
EXTENDS MCSketchAlg

CONSTANT num_graphs   \* all subgraphs; those from num_sketch_graphs on are in the edge store

ASSUME GraphsAssumption == num_graphs \in Nat /\ num_graphs > num_sketch_graphs

VARIABLES
  level,    \* the loop's graph_id, or NoLoop in a program with queries of its own
  answer,   \* the subgraph whose minimum cut is printed, and the value printed
  proper    \* history: the forests of all subgraphs so far were properly found

mainVars == <<level, answer, proper>>
vars     == <<mcVars, mainVars>>

NoLoop   == -1
NoAnswer == [graph_id |-> NoLoop, value |-> 0]

(* A setup that allows no calls of the program's own is one for the loop.    *)
Init ==
  /\ MCInit
  /\ level \in (IF calls = 0 THEN {0} ELSE {NoLoop}) /\ answer = NoAnswer /\ proper = TRUE

(* What VieCut computes: the least weight of a cut of the given edge sets,    *)
(* where an edge that is in several of them counts as often.                  *)
perform_minimum_cut(F) ==
  LET Weight(S) == FoldFunction(LAMBDA E, sum : sum + Cardinality(Cut(E, S)), 0, F)
  IN  Min({Weight(S) : S \in SUBSET Node \ {{}, Node}})

(* calc_minimum_cut of the edges of all forests, or of the store's edges.     *)
calc_minimum_cut(F) == perform_minimum_cut(F)

Answer(value) == answer' = [graph_id |-> level, value |-> value * 2^level]

-----------------------------------------------------------------------------
InLoop == level \in 0 .. num_graphs - 1 /\ answer = NoAnswer

(* The loop's body for a subgraph with sketches: the query, ...               *)
main_forests ==
  /\ InLoop /\ level < num_sketch_graphs
  /\ calc_disjoint_spanning_forests(level)
  /\ UNCHANGED <<calls, mainVars>>

\* Mutant: a minimum cut of k is taken for an answer.
main_decide_late ==
  /\ InLoop /\ phase = "returned"
  /\ LET value == calc_minimum_cut(SFs)
     IN  IF value <= k THEN Answer(value) /\ UNCHANGED level
         ELSE level' = level + 1 /\ UNCHANGED answer
  /\ proper' = (proper /\ Proper)
  /\ Return

(* ... and the decision.                                                      *)
main_decide ==
  /\ InLoop /\ phase = "returned"
  /\ LET value == calc_minimum_cut(SFs)
     IN  IF value < k THEN Answer(value) /\ UNCHANGED level
         ELSE level' = level + 1 /\ UNCHANGED answer
  /\ proper' = (proper /\ Proper)
  /\ Return

(* A subgraph of the edge store: get_adjlist_spanning_forests returns all     *)
(* that the store lists, at whatever level the store is, and the minimum cut  *)
(* of that is the answer.                                                     *)
main_store ==
  /\ InLoop /\ level >= num_sketch_graphs
  /\ Answer(calc_minimum_cut([i \in DOMAIN store |-> {store[i]}]))
  /\ UNCHANGED <<mcVars, level, proper>>

Step ==
  \/ QueryStep /\ UNCHANGED mainVars
  \/ main_forests \/ main_decide \/ main_store

Next ==
  \/ Step
  \/ level = NoLoop /\ Queries /\ UNCHANGED mainVars
  \/ \E t \in Thread : Filter(t) /\ UNCHANGED mainVars

Spec == Init /\ [][Next]_vars

(* The system runs the thread of the query and the threads of OpenMP.        *)
Fairness ==
  /\ WF_vars(Step)
  /\ \A t \in 0 .. Max({s.num_threads : s \in Setups}) - 1 :
       WF_vars(t \in Thread /\ Filter(t) /\ UNCHANGED mainVars)

FairSpec == Spec /\ Fairness

-----------------------------------------------------------------------------
MinCutOf(E) == calc_minimum_cut(<<E>>)

(* The store lists every edge of E once, and no other.                       *)
Lists(E) == Len(store) = Cardinality(E) /\ {store[i] : i \in DOMAIN store} = E

(* What tools/min_cut.cu prints, as long as the forests were properly found: *)
(* the loop stops at the first subgraph whose minimum cut is smaller than k, *)
(* or at the first one without sketches if there is none, and prints that    *)
(* subgraph's minimum cut times the power of two that makes up for the edges *)
(* left out.  The value is only right for the store's subgraph if the store  *)
(* lists just that subgraph then, without an edge that is in it twice.       *)
MinCutAnswer ==
  (answer # NoAnswer /\ proper) =>
    LET first == Min({g \in 0 .. num_graphs - 1 : g >= num_sketch_graphs \/ MinCutOf(graph[g]) < k})
    IN  /\ answer.graph_id = first
        /\ first < num_sketch_graphs \/ Lists(graph[first]) =>
             answer.value = MinCutOf(graph[first]) * 2^first

(* Queries return and the loop ends in an answer: rounds run out of samples, *)
(* and no thread waits for ever.                                             *)
QueryReturns ==
  /\ phase = "emulate" ~> phase \in {"returned", "thrown", "crashed"}
  /\ level = 0 ~> answer # NoAnswer \/ phase = "crashed"
=============================================================================
