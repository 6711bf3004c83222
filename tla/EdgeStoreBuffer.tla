---------------------------- MODULE EdgeStoreBuffer ----------------------------
(***************************************************************************)
(* How EdgeStore::insert_adj_edges (src/edge_store.cpp) merges a batch of  *)
(* updates into the buffer of one vertex.  Buffer and batch are sequences  *)
(* of SubgraphTaggedUpdates <<subgraph, dst>>; an update toggles its edge, *)
(* so a pair of equal updates is removed.                                  *)
(***************************************************************************)
EXTENDS Integers, Sequences, FiniteSets, TLC

(* SubgraphTaggedUpdate::operator<                                           *)
Less(a, b) == a[1] < b[1] \/ (a[1] = b[1] /\ a[2] < b[2])

\* Mutant: the value an update displaces is lost.
MergeStepDrops(m, n) ==
  LET buf == m.buffer[m.b + 1]
      upd == m.updates[m.u + 1]
  IN  CASE Less(upd, buf) ->
             [m EXCEPT !.buffer[m.o + 1] = upd, !.b = @ + 1, !.o = @ + 1]
        [] Less(buf, upd) ->
             [m EXCEPT !.buffer[m.o + 1] = buf, !.b = @ + 1, !.o = @ + 1]
        [] OTHER -> [m EXCEPT !.b = @ + 1, !.u = @ + 1, !.stop = m.u + 1 >= n]

(* One iteration of the merge loop over buffer_ptr, update_ptr and out_ptr    *)
(* (m.b, m.u, m.o).  A smaller update is written to the buffer and the value *)
(* it displaces takes its place in the batch; equal values annihilate.       *)
MergeStep(m, n) ==
  LET buf == m.buffer[m.b + 1]
      upd == m.updates[m.u + 1]
  IN  CASE Less(upd, buf) ->
             [m EXCEPT !.buffer[m.o + 1] = upd, !.updates[m.u + 1] = buf,
                       !.b = @ + 1, !.o = @ + 1]
        [] Less(buf, upd) ->
             [m EXCEPT !.buffer[m.o + 1] = buf, !.b = @ + 1, !.o = @ + 1]
        [] OTHER -> [m EXCEPT !.b = @ + 1, !.u = @ + 1, !.stop = m.u + 1 >= n]

(* The loop, started with update_ptr = u; iter[k] is its state after k steps. *)
MergeLoop(buffer, updates, n, u) ==
  LET iter[k \in 0 .. Len(buffer)] ==
        IF k = 0
        THEN [buffer |-> buffer, updates |-> updates, b |-> 0, u |-> u, o |-> 0,
              stop |-> FALSE]
        ELSE IF iter[k - 1].stop THEN iter[k - 1] ELSE MergeStep(iter[k - 1], n)
  IN  iter[Len(buffer)]

(* The buffer after the first n cells of updates, from the u-th on, are       *)
(* merged in: the merged part, the remaining updates, the remaining buffer,  *)
(* cut to the size the code computes (they differ when u > n).               *)
Merge(buffer, updates, n, u) ==
  LET m    == MergeLoop(buffer, updates, n, u)
      all  == SubSeq(m.buffer, 1, m.o) \o SubSeq(m.updates, m.u + 1, n)
              \o SubSeq(m.buffer, m.b + 1, Len(buffer))
      size == m.o + (n - m.u) + (Len(buffer) - m.b)
  IN  [buffer |-> SubSeq(all, 1, size), size |-> size, out |-> Len(all)]

(* The updates of a batch, sorted, that go to subgraphs below cur: the loop   *)
(* steps over them with no test for the end of the batch.                    *)
Below(updates, cur) == Cardinality({k \in DOMAIN updates : updates[k][1] < cur})

(* The edges with an odd number of updates in s.                             *)
Odd(s) == {d \in {s[k] : k \in DOMAIN s} :
             Cardinality({k \in DOMAIN s : s[k] = d}) % 2 = 1}
=============================================================================
