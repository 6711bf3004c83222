-------------------------------- MODULE Sketch --------------------------------
(***************************************************************************)
(* The linear sketch of a vector over GF(2) (include/bucket.h,             *)
(* include/sketch.h, src/sketch.cpp) and the update of one on the GPU      *)
(* (src/cuda_kernel.cu).  A bucket holds the exclusive or of indices       *)
(* (alpha) and of their checksums (gamma); it is modelled by the set of    *)
(* the indices added an odd number of times, so a bucket is zero iff the   *)
(* set is empty and, as long as checksums do not collide, good iff the set *)
(* is a singleton.                                                         *)
(***************************************************************************)
EXTENDS Integers, Sequences, FiniteSets, FiniteSetsExt

CONSTANTS
  num_samples,      \* the samples a sketch supports
  cols_per_sample,  \* the columns for each sample
  bkt_per_col,      \* the buckets of a column
  L0_SAMPLING,      \* the build with CubeSketch
  HashDepth         \* for each index and column, the trailing zeros of the hash

num_columns == num_samples * cols_per_sample
num_buckets == num_columns * bkt_per_col + 1
Index       == DOMAIN HashDepth
Column      == 0 .. num_columns - 1
BucketId    == 0 .. num_buckets - 1
Buckets     == [BucketId -> SUBSET Index]

ASSUME SketchAssumption ==
  /\ num_samples \in Nat \ {0} /\ cols_per_sample \in Nat \ {0}
  /\ bkt_per_col \in Nat \ {0} /\ L0_SAMPLING \in BOOLEAN
  /\ HashDepth \in [Index -> [Column -> Nat]]

NoBuckets == [b \in BucketId |-> {}]

NewSketch == [buckets |-> NoBuckets, sample_idx |-> 0]

(* Bucket_Boruvka::get_index_depth: the hash is given a one at max_depth.     *)
get_index_depth(i, c, max_depth) ==
  IF HashDepth[i][c] < max_depth THEN HashDepth[i][c] ELSE max_depth

is_zero(bkt) == bkt = {}
is_good(bkt) == \E i \in Index : bkt = {i}

(* The buckets that Sketch::update changes: the last one, which every index   *)
(* maps to, and in each column the one at the depth of the index, or with     *)
(* L0_SAMPLING those up to it.  An index too deep for a column is left out.   *)
Touched(i) ==
  {num_buckets - 1} \cup
  UNION {LET depth == get_index_depth(i, c, bkt_per_col)
         IN  IF depth >= bkt_per_col THEN {}
             ELSE {c * bkt_per_col + j : j \in IF L0_SAMPLING THEN 0 .. depth ELSE {depth}}
         : c \in Column}

update(skt, i) ==
  [skt EXCEPT !.buckets = [b \in BucketId |->
     IF b \in Touched(i) THEN SymDiff(@[b], {i}) ELSE @[b]]]

zero_contents(skt) == NewSketch

(* merge and merge_raw_bucket_buffer.                                         *)
merge_raw_bucket_buffer(skt, raw_buckets) ==
  [skt EXCEPT !.buckets = [b \in BucketId |-> SymDiff(@[b], raw_buckets[b])]]

\* Mutant: the deterministic bucket is not merged.
range_merge_part(skt, other, start_sample, n_samples) ==
  LET start_bucket_id == start_sample * cols_per_sample * bkt_per_col
      n_buckets       == n_samples * cols_per_sample * bkt_per_col
      Merged          == start_bucket_id .. start_bucket_id + n_buckets - 1
  IN  [buckets    |-> [b \in BucketId |-> IF b \in Merged
                         THEN SymDiff(skt.buckets[b], other.buckets[b]) ELSE skt.buckets[b]],
       sample_idx |-> Max({skt.sample_idx, start_sample})]

(* range_merge: only the buckets of some samples, and the last bucket.  A     *)
(* range past the last sample leaves the sketch with no sample to take.       *)
range_merge(skt, other, start_sample, n_samples) ==
  LET start_bucket_id == start_sample * cols_per_sample * bkt_per_col
      n_buckets       == n_samples * cols_per_sample * bkt_per_col
      Merged          == {num_buckets - 1} \cup
                         (start_bucket_id .. start_bucket_id + n_buckets - 1)
  IN  IF start_sample + n_samples > num_samples
      THEN [skt EXCEPT !.sample_idx = num_samples]
      ELSE [buckets    |-> [b \in BucketId |-> IF b \in Merged
                              THEN SymDiff(skt.buckets[b], other.buckets[b])
                              ELSE skt.buckets[b]],
            sample_idx |-> Max({skt.sample_idx, start_sample})]

-----------------------------------------------------------------------------
(* sample and exhaustive_sample answer from the columns of the next sample,   *)
(* unless the last bucket decides; sample takes the first good bucket.  Both  *)
(* throw when no sample is left.                                              *)
SampleBuckets(skt) ==
  LET first_column == skt.sample_idx * cols_per_sample
  IN  {b \in first_column * bkt_per_col .. (first_column + cols_per_sample) * bkt_per_col - 1 :
         is_good(skt.buckets[b])}

Only(bkt) == CHOOSE i \in Index : bkt = {i}

sample(skt) ==
  LET last == skt.buckets[num_buckets - 1]
      good == SampleBuckets(skt)
  IN  CASE skt.sample_idx >= num_samples -> <<"throw">>
        [] skt.sample_idx < num_samples /\ is_zero(last) -> <<"ZERO">>
        [] skt.sample_idx < num_samples /\ is_good(last) -> <<"GOOD", Only(last)>>
        [] OTHER -> IF good = {} THEN <<"FAIL">>
                    ELSE <<"GOOD", Only(skt.buckets[Min(good)])>>

exhaustive_sample(skt) ==
  LET last == skt.buckets[num_buckets - 1]
      good == {Only(skt.buckets[b]) : b \in SampleBuckets(skt)}
  IN  CASE skt.sample_idx >= num_samples -> <<"throw">>
        [] skt.sample_idx < num_samples /\ is_zero(last) -> <<"ZERO", {}>>
        [] skt.sample_idx < num_samples /\ is_good(last) -> <<"GOOD", {Only(last)}>>
        [] OTHER -> <<IF good = {} THEN "FAIL" ELSE "GOOD", good>>

-----------------------------------------------------------------------------
(* concat_pairing_fn and device_concat_pairing_fn.                            *)
concat_pairing_fn(i, j) == IF i > j THEN <<j, i>> ELSE <<i, j>>

Odd(S) == Cardinality(S) % 2 = 1

(* A thread block of the kernels: its threads share out the pairs of an       *)
(* update and a column, and flip the buckets of the pair in a delta sketch.   *)
KernelTouched(i, column_id) ==
  LET depth == get_index_depth(i, column_id, bkt_per_col)
  IN  (IF column_id = 0 THEN {num_buckets - 1} ELSE {}) \cup
      (IF depth < bkt_per_col THEN {column_id * bkt_per_col + depth} ELSE {})

DeltaSketch(src, edgeUpdates, start_index, size) ==
  LET Id         == 0 .. size * num_columns - 1
      edge_id(n) == concat_pairing_fn(src, edgeUpdates[start_index + n \div num_columns])
      Adds(n, b) == b \in KernelTouched(edge_id(n), n % num_columns)
  IN  [b \in BucketId |->
         {i \in Index : Odd({n \in Id : edge_id(n) = i /\ Adds(n, b)})}]
=============================================================================
