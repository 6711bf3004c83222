--------------------------- MODULE MCGPUAlgorithms ---------------------------
(* An instance of the algorithms that use CUDA streams.                    *)
EXTENDS GPUAlgorithms, TLC

(* Three vertices, and two samples of two columns.  The edges fall into the  *)
(* same bucket of a column, into different ones, or past its last bucket.    *)
Depths(s) == [c \in Column |-> s[c + 1]]

SomeDepths ==
     <<0, 1>> :> Depths(<<0, 1, 1, 0>>)
  @@ <<0, 2>> :> Depths(<<0, 1, 2, 0>>)
  @@ <<1, 2>> :> Depths(<<3, 0, 1, 1>>)

SomeBatches == {<<0, <<1, 2>>>>, <<1, <<0>>>>}

(* A gutter is filled in part, filled up, or a batch goes past its end.      *)
SomeInserts == {<<1, <<0, 2>>>>, <<1, <<2>>>>}

(* Pinned memory is not zero when it is allocated.                           *)
SomeContents == {[b \in BucketId |-> {<<1, 2>>}]}

(* A thread can fill a half again that was sent, and keep a batch for the    *)
(* flush.                                                                    *)
SomeBounds == [ingest |-> 5, store |-> 4, gutter |-> 4]
=============================================================================
