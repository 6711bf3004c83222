----------------------------- MODULE VertexBuffer -----------------------------
(***************************************************************************)
(* One vertex of the EdgeStore with no contraction: batches of updates,    *)
(* sorted by insert_adj_edges and merged into the vertex's buffer.         *)
(***************************************************************************)
EXTENDS EdgeStoreBuffer, Functions

CONSTANTS
  Tag,         \* the tagged updates <<subgraph, dst>>
  MaxBatch,    \* bound: updates in a batch
  MaxBuffer    \* bound: entries in the buffer

VARIABLE buffer      \* adjlist[src]

Init == buffer = <<>>

(* Batches with no update twice: what follows does not need equal updates.    *)
Batch == UNION {Injection(1 .. n, Tag) : n \in 1 .. MaxBatch}

insert_adj_edges(batch) ==
  LET updates == SortSeq(batch, Less)
  IN  /\ Len(buffer) + Len(batch) <= MaxBuffer
      /\ buffer' = Merge(buffer, updates, Len(updates), 0).buffer

Next == \E batch \in Batch : insert_adj_edges(batch)

Spec == Init /\ [][Next]_buffer

-----------------------------------------------------------------------------
(* The order insert_adj_edges verifies after every merge, in builds with      *)
(* VERIFY_SAMPLES_F: no entry is smaller than the one before it ("ERROR:     *)
(* Buffer not sort good!", "should be >= prev"; its test also refuses equal  *)
(* entries).                                                                 *)
BufferSorted == \A k \in 1 .. Len(buffer) - 1 : ~Less(buffer[k + 1], buffer[k])
=============================================================================
