------------------------- MODULE GPUAlgorithmsProofs -------------------------
(***************************************************************************)
(* Two parts of the GPU algorithms.  What Sketch::sample answers for every *)
(* size of a sketch and every hash: the sketch is linear, so updates and   *)
(* merges leave in the buckets of a sample the part of the vector that     *)
(* maps there, and a sample of such a sketch is sound.  And the batches    *)
(* SKGPUSketchAlg stores are whole (StoredWhole), for any number of        *)
(* workers and batches of any sizes.                                       *)
(***************************************************************************)
EXTENDS GPUAlgorithms, WellFoundedInduction, TLAPS

(* The provers in the order they are tried, with their limits in seconds.    *)
USE ZenonT(3), SMTT(20), ZenonT(20)

-----------------------------------------------------------------------------
(* The sketches with the parameters of this module.                          *)
IsSketch(skt) == skt \in [buckets : Buckets, sample_idx : Nat]

(* The buckets sample r answers from, besides the last one.                  *)
SampleRange(r) ==
  r * cols_per_sample * bkt_per_col .. (r + 1) * cols_per_sample * bkt_per_col - 1

(* In the last bucket and in those of sample r the sketch is that of the     *)
(* vector with the indices S.                                                *)
Reflects(skt, S, r) ==
  \A b \in {num_buckets - 1} \cup SampleRange(r) : skt.buckets[b] = {i \in S : b \in Touched(i)}

(* The answers of sample that are sound for a vector.                        *)
Sound(S) ==
  IF S = {} THEN {<<"ZERO">>}
  ELSE {<<"GOOD", i>> : i \in S} \cup
       (IF \E i \in S : S = {i} THEN {} ELSE {<<"FAIL">>})

-----------------------------------------------------------------------------
(* A nonempty set of natural numbers has a least element, the one Min is.    *)
LEMMA MinInSet ==
  ASSUME NEW T, T \subseteq Nat, T # {}
  PROVE  Min(T) \in T
<1> DEFINE R == {p \in Nat \X Nat : p[1] < p[2]}
<1>1. IsWellFoundedOn(R, Nat)
  <2>1. OpToRel(<, Nat) = R
    BY Zenon DEF OpToRel
  <2> QED
    BY <2>1, NatLessThanWellFounded, Zenon
<1>2. PICK x \in T : \A y \in T : ~ (<<y, x>> \in R)
  BY <1>1, WFMin, Zenon
<1>3. ASSUME NEW y \in T PROVE x =< y
  <2>1. x \in Nat /\ y \in Nat
    OBVIOUS
  <2>2. y < x => <<y, x>> \in R
    BY <2>1
  <2>3. ~ (<<y, x>> \in R)
    BY <1>2, Zenon
  <2> QED
    BY <2>1, <2>2, <2>3
<1> QED
  BY <1>3 DEF Min

(* The sizes are positive, and the range of a sample lies before the last    *)
(* bucket of the sketch.                                                     *)
LEMMA SampleRangeInside ==
  ASSUME NEW r \in Nat, r < num_samples
  PROVE  /\ SampleRange(r) \subseteq BucketId /\ num_buckets - 1 \in BucketId
         /\ num_buckets - 1 \notin SampleRange(r)
<1> DEFINE C == cols_per_sample
           B == bkt_per_col
           N == num_samples
<1>1. C \in Nat /\ B \in Nat /\ N \in Nat /\ C > 0 /\ B > 0
  BY SketchAssumption
<1>2. C * B \in Nat /\ N - (r + 1) \in Nat
  BY <1>1
<1>3. (N - (r + 1)) * (C * B) >= 0
  BY <1>2
<1>4. (r + 1) * C * B =< N * C * B /\ r * C * B \in Nat /\ N * C * B \in Nat
  BY <1>1, <1>2, <1>3
<1>5. num_buckets - 1 = N * C * B
  BY <1>1 DEF num_buckets, num_columns
<1> QED
  BY <1>1, <1>4, <1>5 DEF SampleRange, BucketId, num_buckets

(* Every index is in the last bucket of a sketch.                            *)
LEMMA LastTouched == \A i : num_buckets - 1 \in Touched(i)
BY DEF Touched

(* A sketch just constructed, or zeroed by zero_contents, is that of the     *)
(* empty vector.                                                             *)
LEMMA ZeroReflects ==
  ASSUME NEW r \in Nat, r < num_samples
  PROVE  IsSketch(NewSketch) /\ Reflects(NewSketch, {}, r)
BY SampleRangeInside DEF IsSketch, NewSketch, NoBuckets, Buckets, Reflects

(* Sketch::update flips one index of the vector.                             *)
LEMMA UpdateReflects ==
  ASSUME NEW r \in Nat, r < num_samples, NEW skt, IsSketch(skt),
         NEW S \in SUBSET Index, NEW i \in Index, Reflects(skt, S, r)
  PROVE  /\ IsSketch(update(skt, i)) /\ Reflects(update(skt, i), SymDiff(S, {i}), r)
         /\ update(skt, i).sample_idx = skt.sample_idx
<1> DEFINE new == [b \in BucketId |->
              IF b \in Touched(i) THEN SymDiff(skt.buckets[b], {i}) ELSE skt.buckets[b]]
<1>1. skt.buckets \in [BucketId -> SUBSET Index] /\ skt.sample_idx \in Nat
  BY DEF IsSketch, Buckets
<1>2. new \in [BucketId -> SUBSET Index]
  BY <1>1 DEF SymDiff
<1>3. update(skt, i) = [buckets |-> new, sample_idx |-> skt.sample_idx]
  BY DEF update, IsSketch
<1>4. ASSUME NEW b \in {num_buckets - 1} \cup SampleRange(r)
      PROVE  new[b] = {j \in SymDiff(S, {i}) : b \in Touched(j)}
  <2>1. b \in BucketId
    BY SampleRangeInside
  <2>2. skt.buckets[b] = {j \in S : b \in Touched(j)}
    BY DEF Reflects
  <2> QED
    BY <2>1, <2>2 DEF SymDiff
<1> HIDE DEF new
<1>5. /\ update(skt, i).buckets = new
      /\ update(skt, i).sample_idx = skt.sample_idx
  BY <1>3
<1>6. IsSketch(update(skt, i))
  BY <1>1, <1>2, <1>3 DEF IsSketch, Buckets
<1>7. Reflects(update(skt, i), SymDiff(S, {i}), r)
  BY <1>4, <1>5 DEF Reflects
<1> QED
  BY <1>5, <1>6, <1>7

(* range_merge over one sample adds the vectors of two sketches, as far as   *)
(* that sample goes, and makes it the next sample of a sketch that has not   *)
(* gone past it.                                                             *)
LEMMA RangeMergeReflects ==
  ASSUME NEW r \in Nat, r < num_samples, NEW skt, IsSketch(skt), NEW other, IsSketch(other),
         NEW S \in SUBSET Index, NEW T \in SUBSET Index,
         Reflects(skt, S, r), Reflects(other, T, r), skt.sample_idx =< r
  PROVE  /\ IsSketch(range_merge(skt, other, r, 1))
         /\ Reflects(range_merge(skt, other, r, 1), SymDiff(S, T), r)
         /\ range_merge(skt, other, r, 1).sample_idx = r
<1> DEFINE C == cols_per_sample
           B == bkt_per_col
           Merged == {num_buckets - 1} \cup (r * C * B .. r * C * B + 1 * C * B - 1)
           new == [b \in BucketId |-> IF b \in Merged
                     THEN SymDiff(skt.buckets[b], other.buckets[b]) ELSE skt.buckets[b]]
<1>1. C \in Nat /\ B \in Nat /\ num_samples \in Nat
  BY SketchAssumption
<1>2. (r + 1) * C * B - 1 = r * C * B + 1 * C * B - 1
  BY <1>1
<1>3. Merged = {num_buckets - 1} \cup SampleRange(r)
  BY <1>2, Zenon DEF SampleRange
<1>4. Max({skt.sample_idx, r}) = r
  <2>1. \A y \in {skt.sample_idx, r} : r >= y
    BY DEF IsSketch
  <2>2. \A x \in {skt.sample_idx, r} : (\A y \in {skt.sample_idx, r} : x >= y) => x = r
    BY DEF IsSketch
  <2> QED
    BY <2>1, <2>2 DEF Max
<1>5. range_merge(skt, other, r, 1) = [buckets |-> new, sample_idx |-> r]
  BY <1>1, <1>4 DEF range_merge
<1>6. skt.buckets \in [BucketId -> SUBSET Index] /\ other.buckets \in [BucketId -> SUBSET Index]
  BY DEF IsSketch, Buckets
<1>7. new \in [BucketId -> SUBSET Index]
  BY <1>6 DEF SymDiff
<1>8. ASSUME NEW b \in {num_buckets - 1} \cup SampleRange(r)
      PROVE  new[b] = {j \in SymDiff(S, T) : b \in Touched(j)}
  <2>1. b \in BucketId /\ b \in Merged
    BY <1>3, SampleRangeInside
  <2>2. /\ skt.buckets[b] = {j \in S : b \in Touched(j)}
        /\ other.buckets[b] = {j \in T : b \in Touched(j)}
    BY DEF Reflects
  <2>3. new[b] = SymDiff(skt.buckets[b], other.buckets[b])
    BY <2>1
  <2> HIDE DEF new
  <2> QED
    BY <2>2, <2>3 DEF SymDiff
<1> HIDE DEF new
<1>9. /\ range_merge(skt, other, r, 1).buckets = new
      /\ range_merge(skt, other, r, 1).sample_idx = r
  BY <1>5
<1>10. IsSketch(range_merge(skt, other, r, 1))
  BY <1>5, <1>7 DEF IsSketch, Buckets
<1>11. Reflects(range_merge(skt, other, r, 1), SymDiff(S, T), r)
  BY <1>8, <1>9 DEF Reflects
<1> QED
  BY <1>9, <1>10, <1>11

(* merge_raw_bucket_buffer adds the vector of a delta sketch, in every       *)
(* sample.                                                                   *)
LEMMA RawMergeReflects ==
  ASSUME NEW r \in Nat, r < num_samples, NEW skt, IsSketch(skt), NEW delta, IsSketch(delta),
         NEW S \in SUBSET Index, NEW T \in SUBSET Index,
         Reflects(skt, S, r), Reflects(delta, T, r)
  PROVE  /\ IsSketch(merge_raw_bucket_buffer(skt, delta.buckets))
         /\ Reflects(merge_raw_bucket_buffer(skt, delta.buckets), SymDiff(S, T), r)
<1> DEFINE new == [b \in BucketId |-> SymDiff(skt.buckets[b], delta.buckets[b])]
<1>1. /\ skt.buckets \in [BucketId -> SUBSET Index] /\ skt.sample_idx \in Nat
      /\ delta.buckets \in [BucketId -> SUBSET Index]
  BY DEF IsSketch, Buckets
<1>2. new \in [BucketId -> SUBSET Index]
  BY <1>1 DEF SymDiff
<1>3. merge_raw_bucket_buffer(skt, delta.buckets) = [buckets |-> new, sample_idx |-> skt.sample_idx]
  BY DEF merge_raw_bucket_buffer, IsSketch
<1>4. ASSUME NEW b \in {num_buckets - 1} \cup SampleRange(r)
      PROVE  new[b] = {j \in SymDiff(S, T) : b \in Touched(j)}
  <2>1. new[b] = SymDiff(skt.buckets[b], delta.buckets[b])
    BY SampleRangeInside
  <2>2. /\ skt.buckets[b] = {j \in S : b \in Touched(j)}
        /\ delta.buckets[b] = {j \in T : b \in Touched(j)}
    BY DEF Reflects
  <2> HIDE DEF new
  <2> QED
    BY <2>1, <2>2 DEF SymDiff
<1> HIDE DEF new
<1>5. merge_raw_bucket_buffer(skt, delta.buckets).buckets = new
  BY <1>3
<1>6. IsSketch(merge_raw_bucket_buffer(skt, delta.buckets))
  BY <1>1, <1>2, <1>3 DEF IsSketch, Buckets
<1>7. Reflects(merge_raw_bucket_buffer(skt, delta.buckets), SymDiff(S, T), r)
  BY <1>4, <1>5 DEF Reflects
<1> QED
  BY <1>6, <1>7

-----------------------------------------------------------------------------
(* The buckets sample looks through are those of its sample.                 *)
LEMMA SampleBucketsInRange ==
  ASSUME NEW skt, IsSketch(skt), skt.sample_idx < num_samples
  PROVE  SampleBuckets(skt) = {b \in SampleRange(skt.sample_idx) : is_good(skt.buckets[b])}
<1> DEFINE r == skt.sample_idx
<1>1. r \in Nat /\ cols_per_sample \in Nat /\ bkt_per_col \in Nat
  BY SketchAssumption DEF IsSketch
<1> HIDE DEF r
<1>2. (r * cols_per_sample + cols_per_sample) * bkt_per_col - 1
        = (r + 1) * cols_per_sample * bkt_per_col - 1
  BY <1>1
<1> USE DEF r
<1> QED
  BY <1>2, Zenon DEF SampleBuckets, SampleRange

(* sample is sound: for a sketch that reflects the vector S in the sample it  *)
(* is about to take, it answers ZERO iff S is empty, finds the index of an    *)
(* S with one, and never returns an index that is not in S.                   *)
THEOREM SampleTheorem ==
  ASSUME NEW skt, IsSketch(skt), skt.sample_idx < num_samples,
         NEW S \in SUBSET Index, Reflects(skt, S, skt.sample_idx)
  PROVE  sample(skt) \in Sound(S)
<1> DEFINE last == skt.buckets[num_buckets - 1]
           good == SampleBuckets(skt)
           r    == skt.sample_idx
<1>1. r \in Nat /\ num_samples \in Nat /\ ~ (r >= num_samples)
  BY SketchAssumption DEF IsSketch
<1>2. last = S
  BY LastTouched DEF Reflects
<1>3. \A bkt : is_good(bkt) => Only(bkt) \in Index /\ bkt = {Only(bkt)}
  BY Zenon DEF is_good, Only
<1>4. CASE S = {}
  <2>1. sample(skt) = <<"ZERO">>
    BY <1>1, <1>2, <1>4 DEF sample, is_zero, is_good
  <2> QED
    BY <2>1, <1>4 DEF Sound
<1>5. CASE \E i \in S : S = {i}
  <2>1. is_good(last) /\ ~ is_zero(last)
    BY <1>2, <1>5 DEF is_good, is_zero
  <2>2. sample(skt) = <<"GOOD", Only(last)>>
    BY <1>1, <2>1 DEF sample
  <2>3. Only(last) \in S
    BY <1>2, <1>3, <2>1
  <2> QED
    BY <2>2, <2>3, <1>5 DEF Sound
<1>6. CASE S # {} /\ ~ \E i \in S : S = {i}
  <2>1. ~ is_good(last) /\ ~ is_zero(last)
    BY <1>2, <1>6 DEF is_good, is_zero
  <2>2. sample(skt) = IF good = {} THEN <<"FAIL">>
                      ELSE <<"GOOD", Only(skt.buckets[Min(good)])>>
    BY <1>1, <2>1 DEF sample
  <2>3. CASE good = {}
    BY <1>6, <2>2, <2>3 DEF Sound
  <2>4. CASE good # {}
    <3>1. good = {b \in SampleRange(r) : is_good(skt.buckets[b])}
      BY SampleBucketsInRange
    <3>2. SampleRange(r) \subseteq Nat
      BY <1>1, SampleRangeInside DEF BucketId
    <3>3. Min(good) \in good
      BY <2>4, <3>1, <3>2, MinInSet
    <3> DEFINE m == Min(good)
    <3> HIDE DEF m, good
    <3>4. m \in SampleRange(r) /\ is_good(skt.buckets[m])
      BY <3>1, <3>3 DEF m
    <3>5. skt.buckets[m] \subseteq S
      BY <3>4 DEF Reflects
    <3>6. Only(skt.buckets[m]) \in S
      BY <1>3, <3>4, <3>5
    <3> QED
      BY <1>6, <2>2, <2>4, <3>6 DEF Sound, m
  <2> QED
    BY <2>3, <2>4
<1> QED
  BY <1>4, <1>5, <1>6

-----------------------------------------------------------------------------
(* The batches stored by SKGPUSketchAlg.                                     *)
StorePlaces == {"fill", "count", "record"}

(* Two regions of the array, given by start and length, have nothing in      *)
(* common.                                                                   *)
Apart(a, m, b, n) == a + m <= b \/ b + n <= a

StoreTypes ==
  /\ pc = [t \in Thread |-> pc[t]]
  /\ call \in [Thread -> [src : Vertex, dsts : Seq(Vertex), offset : Nat, id : Nat]]
  /\ DOMAIN stored \subseteq Nat
  /\ \A n \in DOMAIN stored :
       /\ stored[n] \in [src : Vertex, size : Nat, start_index : Nat, dsts : Seq(Vertex)]
       /\ stored[n].size = Len(stored[n].dsts)
  /\ edgeUpdate_offset \in 0 .. 2 * num_updates /\ stored_count \in Nat
  /\ h_edgeUpdates = [i \in Position |-> h_edgeUpdates[i]]

(* Every region lies below edgeUpdate_offset, and they are apart.            *)
RegionsApart ==
  /\ \A t \in Storing : call[t].offset + Len(call[t].dsts) <= edgeUpdate_offset
  /\ \A n \in DOMAIN stored : stored[n].start_index + stored[n].size <= edgeUpdate_offset
  /\ \A t, u \in Storing : t # u =>
       Apart(call[t].offset, Len(call[t].dsts), call[u].offset, Len(call[u].dsts))
  /\ \A m, n \in DOMAIN stored : m # n =>
       Apart(stored[m].start_index, stored[m].size, stored[n].start_index, stored[n].size)
  /\ \A t \in Storing, n \in DOMAIN stored :
       Apart(call[t].offset, Len(call[t].dsts), stored[n].start_index, stored[n].size)

(* A region holds its batch from the moment it was filled.                   *)
RegionsFilled ==
  /\ \A t \in Storing : pc[t] # "fill" =>
       \A k \in 1 .. Len(call[t].dsts) : h_edgeUpdates[call[t].offset + k - 1] = call[t].dsts[k]
  /\ \A n \in DOMAIN stored : \A k \in 1 .. stored[n].size :
       h_edgeUpdates[stored[n].start_index + k - 1] = stored[n].dsts[k]

(* The ids below stored_count belong to a stored batch or to one worker.     *)
IdsTaken ==
  /\ \A n \in DOMAIN stored : n < stored_count
  /\ \A t \in Thread : pc[t] = "record" =>
       call[t].id < stored_count /\ call[t].id \notin DOMAIN stored
  /\ \A t, u \in Thread : (pc[t] = "record" /\ pc[u] = "record" /\ t # u) =>
       call[t].id # call[u].id
  /\ \A n \in 0 .. stored_count - 1 :
       n \in DOMAIN stored \/ \E t \in Thread : pc[t] = "record" /\ call[t].id = n

StoreInv == StoreTypes /\ RegionsApart /\ RegionsFilled /\ IdsTaken

-----------------------------------------------------------------------------
(* Offsets and lengths of the regions are numbers, and the array holds them. *)
LEMMA RegionTypes ==
  ASSUME StoreInv
  PROVE  /\ \A t \in Storing : /\ t \in Thread
                               /\ call[t].offset \in Nat /\ Len(call[t].dsts) \in Nat
                               /\ call[t].offset + Len(call[t].dsts) <= edgeUpdate_offset
                               /\ call[t].offset + Len(call[t].dsts) <= 2 * num_updates
         /\ \A n \in DOMAIN stored :
              /\ stored[n].start_index \in Nat /\ stored[n].size \in Nat
              /\ stored[n].start_index + stored[n].size <= edgeUpdate_offset
              /\ stored[n].start_index + stored[n].size <= 2 * num_updates
         /\ edgeUpdate_offset \in Nat /\ edgeUpdate_offset <= 2 * num_updates
<1>1. edgeUpdate_offset \in Nat /\ edgeUpdate_offset <= 2 * num_updates /\ num_updates \in Nat
  BY StoreAssumption DEF StoreInv, StoreTypes
<1>2. ASSUME NEW t \in Storing
      PROVE  /\ t \in Thread
             /\ call[t].offset \in Nat /\ Len(call[t].dsts) \in Nat
             /\ call[t].offset + Len(call[t].dsts) <= edgeUpdate_offset
             /\ call[t].offset + Len(call[t].dsts) <= 2 * num_updates
  <2>1. t \in Thread /\ call[t].offset \in Nat /\ Len(call[t].dsts) \in Nat
    BY DEF StoreInv, StoreTypes, Storing
  <2>2. call[t].offset + Len(call[t].dsts) <= edgeUpdate_offset
    BY DEF StoreInv, RegionsApart
  <2> QED
    BY <1>1, <2>1, <2>2
<1>3. ASSUME NEW n \in DOMAIN stored
      PROVE  /\ stored[n].start_index \in Nat /\ stored[n].size \in Nat
             /\ stored[n].start_index + stored[n].size <= edgeUpdate_offset
             /\ stored[n].start_index + stored[n].size <= 2 * num_updates
  <2>1. stored[n].start_index \in Nat /\ stored[n].size \in Nat
    BY DEF StoreInv, StoreTypes
  <2>2. stored[n].start_index + stored[n].size <= edgeUpdate_offset
    BY DEF StoreInv, RegionsApart
  <2> QED
    BY <1>1, <2>1, <2>2
<1> QED
  BY <1>1, <1>2, <1>3

(* Regions that are apart share no position.                                 *)
LEMMA ApartDisjoint ==
  ASSUME NEW a \in Nat, NEW m \in Nat, NEW b \in Nat, NEW n \in Nat, Apart(a, m, b, n)
  PROVE  (a .. a + m - 1) \cap (b .. b + n - 1) = {}
BY DEF Apart

(* A sequence is the function of its elements.                               *)
LEMMA SequenceIsFunction ==
  ASSUME NEW S, NEW s \in Seq(S)
  PROVE  s = [k \in 1 .. Len(s) |-> s[k]]
OBVIOUS

(* The invariant gives the property.                                         *)
LEMMA StoreInvImplies == StoreInv => StoredWhole
<1> SUFFICES ASSUME StoreInv PROVE StoredWhole
  OBVIOUS
<1> USE StoreAssumption, StreamAssumption
<1>1. RegionsApart
  BY DEF StoreInv
<1>2. \A t, u \in Storing : t # u => CallRegion(t) \cap CallRegion(u) = {}
  <2> SUFFICES ASSUME NEW t \in Storing, NEW u \in Storing, t # u
               PROVE  CallRegion(t) \cap CallRegion(u) = {}
    OBVIOUS
  <2>1. Apart(call[t].offset, Len(call[t].dsts), call[u].offset, Len(call[u].dsts))
    BY <1>1 DEF RegionsApart
  <2> QED
    BY <2>1, RegionTypes, ApartDisjoint DEF CallRegion
<1>3. \A m, n \in DOMAIN stored : m # n => StoredRegion(m) \cap StoredRegion(n) = {}
  <2> SUFFICES ASSUME NEW m \in DOMAIN stored, NEW n \in DOMAIN stored, m # n
               PROVE  StoredRegion(m) \cap StoredRegion(n) = {}
    OBVIOUS
  <2>1. Apart(stored[m].start_index, stored[m].size, stored[n].start_index, stored[n].size)
    BY <1>1 DEF RegionsApart
  <2> QED
    BY <2>1, RegionTypes, ApartDisjoint DEF StoredRegion
<1>4. \A t \in Storing, n \in DOMAIN stored : CallRegion(t) \cap StoredRegion(n) = {}
  <2> SUFFICES ASSUME NEW t \in Storing, NEW n \in DOMAIN stored
               PROVE  CallRegion(t) \cap StoredRegion(n) = {}
    OBVIOUS
  <2>1. Apart(call[t].offset, Len(call[t].dsts), stored[n].start_index, stored[n].size)
    BY <1>1 DEF RegionsApart
  <2> QED
    BY <2>1, RegionTypes, ApartDisjoint DEF CallRegion, StoredRegion
<1>5. \A t \in Storing : CallRegion(t) \subseteq Position
  BY RegionTypes DEF CallRegion, Position
<1>6. \A n \in DOMAIN stored :
        [k \in 1 .. stored[n].size |-> h_edgeUpdates[stored[n].start_index + k - 1]]
          = stored[n].dsts
  <2> SUFFICES ASSUME NEW n \in DOMAIN stored
               PROVE  [k \in 1 .. stored[n].size |->
                         h_edgeUpdates[stored[n].start_index + k - 1]] = stored[n].dsts
    OBVIOUS
  <2>1. stored[n].dsts \in Seq(Vertex) /\ stored[n].size = Len(stored[n].dsts)
    BY DEF StoreInv, StoreTypes
  <2>2. \A k \in 1 .. stored[n].size :
          h_edgeUpdates[stored[n].start_index + k - 1] = stored[n].dsts[k]
    BY DEF StoreInv, RegionsFilled
  <2> DEFINE dsts == stored[n].dsts
             Read(k) == h_edgeUpdates[stored[n].start_index + k - 1]
  <2>3. dsts = [k \in 1 .. Len(dsts) |-> dsts[k]]
    BY <2>1, SequenceIsFunction
  <2>4. \A k \in 1 .. Len(dsts) : Read(k) = dsts[k]
    BY <2>1, <2>2
  <2>5. [k \in 1 .. Len(dsts) |-> Read(k)] = [k \in 1 .. Len(dsts) |-> dsts[k]]
    <3> HIDE DEF dsts, Read
    <3> QED
      BY <2>4
  <2> QED
    BY <2>1, <2>3, <2>5
<1>7. 0 .. stored_count - 1 =
        DOMAIN stored \cup {call[t].id : t \in {u \in Storing : pc[u] = "record"}}
  BY SMTT(30) DEF StoreInv, StoreTypes, IdsTaken, Storing
<1>8. \A t, u \in Storing : (pc[t] = "record" /\ pc[u] = "record" /\ t # u) =>
        call[t].id # call[u].id
  BY DEF StoreInv, IdsTaken, Storing
<1> QED
  BY <1>2, <1>3, <1>4, <1>5, <1>6, <1>7, <1>8 DEF StoredWhole

-----------------------------------------------------------------------------
(* Before the first batch nothing is stored.                                 *)
LEMMA StoreInvInit == Init => StoreInv
<1> SUFFICES ASSUME Init PROVE StoreInv
  OBVIOUS
<1> USE StoreAssumption, StreamAssumption
<1>1. pc = [t \in Thread |-> "idle"] /\ Storing = {}
  BY DEF Init, CCInit, StreamInit, Storing
<1>2. SKInit
  BY DEF Init
<1>3. NoCall \in [src : Vertex, dsts : Seq(Vertex), offset : Nat, id : Nat]
  BY DEF NoCall, Vertex
<1>4. DOMAIN stored = {}
  BY <1>2 DEF SKInit
<1>5. StoreTypes
  BY <1>1, <1>2, <1>3, <1>4 DEF StoreTypes, SKInit
<1>6. RegionsApart /\ RegionsFilled
  BY <1>1, <1>4 DEF RegionsApart, RegionsFilled
<1>7. IdsTaken
  BY <1>1, <1>2, <1>4 DEF IdsTaken, SKInit
<1> QED
  BY <1>5, <1>6, <1>7 DEF StoreInv

(* A step that stores nothing: it moves no worker into, within or out of     *)
(* apply_update_batch.                                                       *)
Quiet ==
  /\ UNCHANGED <<h_edgeUpdates, edgeUpdate_offset, stored_count, stored, call>>
  /\ pc' = [t \in Thread |-> pc'[t]]
  /\ \A t \in Thread : pc'[t] = pc[t] \/ (pc[t] \notin StorePlaces /\ pc'[t] \notin StorePlaces)

(* A step that stores nothing keeps the invariant.                           *)
LEMMA QuietKeeps == StoreInv /\ Quiet => StoreInv'
<1> SUFFICES ASSUME StoreInv, Quiet PROVE StoreInv'
  OBVIOUS
<1>1. Storing' = Storing /\ \A t \in Storing : t \in Thread /\ pc'[t] = pc[t]
  BY DEF Quiet, Storing, StorePlaces
<1>2. \A t \in Thread : pc'[t] = "record" <=> pc[t] = "record"
  BY DEF Quiet, StorePlaces
<1>3. StoreTypes'
  BY DEF StoreInv, StoreTypes, Quiet, Position
<1>4. RegionsApart'
  BY <1>1 DEF StoreInv, RegionsApart, Quiet, Apart
<1>5. RegionsFilled'
  BY <1>1 DEF StoreInv, RegionsFilled, Quiet
<1>6. IdsTaken'
  BY <1>2 DEF StoreInv, IdsTaken, Quiet
<1> QED
  BY <1>3, <1>4, <1>5, <1>6 DEF StoreInv

(* A move of one worker between two places outside apply_update_batch of     *)
(* SKGPUSketchAlg stores nothing.                                            *)
LEMMA GotoQuiet ==
  ASSUME StoreInv, NEW t \in Thread, NEW place, pc[t] \notin StorePlaces,
         place \notin StorePlaces, Goto(t, place),
         UNCHANGED <<h_edgeUpdates, edgeUpdate_offset, stored_count, stored, call>>
  PROVE  Quiet
BY DEF StoreInv, StoreTypes, Goto, Quiet

(* Nor does a step that moves no worker.                                     *)
LEMMA SamePlaceQuiet ==
  ASSUME StoreInv, UNCHANGED <<pc, h_edgeUpdates, edgeUpdate_offset, stored_count, stored, call>>
  PROVE  Quiet
BY DEF StoreInv, StoreTypes, Quiet

(* Nor does process_batch of a CUDA stream.                                  *)
LEMMA ProcessBatchQuiet ==
  ASSUME StoreInv, NEW t \in Thread, NEW src, NEW dsts, process_batch(t, src, dsts),
         UNCHANGED <<h_edgeUpdates, edgeUpdate_offset, stored_count, stored, call>>
  PROVE  Quiet
<1>1. PICK place \in {"sync", "idle"} : Goto(t, place)
  BY DEF process_batch
<1>2. pc[t] \notin StorePlaces /\ place \notin StorePlaces
  BY DEF process_batch, StorePlaces
<1> QED
  BY <1>1, <1>2, GotoQuiet

(* Nor does the start of a flush of the streams.                             *)
LEMMA FlushStreamsQuiet ==
  ASSUME StoreInv, FlushStreams,
         UNCHANGED <<h_edgeUpdates, edgeUpdate_offset, stored_count, stored, call>>
  PROVE  Quiet
BY DEF FlushStreams, Quiet, StorePlaces

(* No step of CCGPUSketchAlg or of the CUDA streams stores a batch.          *)
LEMMA CCQuiet == StoreInv /\ CCNext /\ UNCHANGED skVars => Quiet
<1> SUFFICES ASSUME StoreInv, CCNext, UNCHANGED skVars PROVE Quiet
  OBVIOUS
<1>0. UNCHANGED <<h_edgeUpdates, edgeUpdate_offset, stored_count, stored, call>>
  BY DEF skVars
<1>1. ASSUME NEW t \in Thread, NEW b \in Batches, apply_update_batch(t, b[1], b[2]) PROVE Quiet
  BY <1>0, <1>1, ProcessBatchQuiet DEF apply_update_batch
<1>2. ASSUME NEW t \in Thread, StreamStep(t) PROVE Quiet
  <2>1. CASE cudaStreamSynchronize(t)
    <3>1. PICK place \in {"flush_prev", "flush_last", "send", "apply"} : Goto(t, place)
      BY <2>1 DEF cudaStreamSynchronize
    <3>2. pc[t] \notin StorePlaces /\ place \notin StorePlaces
      BY <2>1 DEF cudaStreamSynchronize, StorePlaces
    <3> QED
      BY <1>0, <3>1, <3>2, GotoQuiet
  <2>2. CASE apply_raw_buckets_update(t)
    <3>1. PICK place \in {"send", "flushed", "flush_send", "apply", "flush_prev", "flush_last"} :
            Goto(t, place)
      BY <2>2 DEF apply_raw_buckets_update
    <3>2. pc[t] \notin StorePlaces /\ place \notin StorePlaces
      BY <2>2 DEF apply_raw_buckets_update, StorePlaces
    <3> QED
      BY <1>0, <3>1, <3>2, GotoQuiet
  <2>3. CASE Send(t)
    <3>1. Goto(t, "idle") /\ pc[t] \notin StorePlaces /\ "idle" \notin StorePlaces
      BY <2>3 DEF Send, StorePlaces
    <3> QED
      BY <1>0, <3>1, GotoQuiet
  <2>4. CASE FlushSend(t)
    <3>1. PICK place \in {"flushed", "flush_wait"} : Goto(t, place)
      BY <2>4 DEF FlushSend
    <3>2. pc[t] \notin StorePlaces /\ place \notin StorePlaces
      BY <2>4 DEF FlushSend, StorePlaces
    <3> QED
      BY <1>0, <3>1, <3>2, GotoQuiet
  <2> QED
    BY <1>2, <2>1, <2>2, <2>3, <2>4 DEF StreamStep
<1>3. ASSUME NEW t \in Thread, RunOperation(t) PROVE Quiet
  BY <1>0, <1>3, SamePlaceQuiet DEF RunOperation
<1>4. CASE flush_buffers
  BY <1>0, <1>4, FlushStreamsQuiet DEF flush_buffers
<1>5. CASE FlushDone
  BY <1>0, <1>5, SamePlaceQuiet DEF FlushDone, streamVars
<1>6. ASSUME NEW S, NEW r, sample_supernode(S, r) PROVE Quiet
  BY <1>0, <1>6, SamePlaceQuiet DEF sample_supernode, streamVars
<1> QED
  BY <1>1, <1>2, <1>3, <1>4, <1>5, <1>6 DEF CCNext

(* No step of a SketchSubgraph stores a batch.                               *)
LEMMA GutterQuiet == StoreInv /\ GutterNext /\ UNCHANGED skVars => Quiet
<1> SUFFICES ASSUME StoreInv, GutterNext, UNCHANGED skVars PROVE Quiet
  OBVIOUS
<1>0. UNCHANGED <<h_edgeUpdates, edgeUpdate_offset, stored_count, stored, call>>
  BY DEF skVars
<1> USE StreamAssumption
<1>1. ASSUME NEW t \in Thread, NEW b \in Inserts, batch_insert(t, b[1], b[2]) PROVE Quiet
  <2>1. UNCHANGED streamVars \/ \E dsts : process_batch(t, b[1], dsts)
    BY <1>1 DEF batch_insert
  <2> QED
    BY <1>0, <2>1, ProcessBatchQuiet, SamePlaceQuiet DEF streamVars
<1>2. ASSUME NEW t \in Thread, InsertRest(t) PROVE Quiet
  BY <1>0, <1>2, SamePlaceQuiet DEF InsertRest, ccVars, streamVars
<1>3. CASE flush
  BY <1>0, <1>3, SamePlaceQuiet DEF flush, streamVars
<1>4. 0 \in Thread
  BY DEF Thread
<1>5. CASE SendGutter
  <2>1. UNCHANGED streamVars \/ \E dsts : process_batch(0, flush_v, dsts)
    BY <1>5 DEF SendGutter
  <2> QED
    BY <1>0, <1>4, <2>1, ProcessBatchQuiet, SamePlaceQuiet DEF streamVars
<1>6. ASSUME NEW t \in Thread, pc[t] = "idle", Goto(t, "flush") PROVE Quiet
  BY <1>0, <1>6, GotoQuiet DEF StorePlaces
<1>7. CASE FlushFirst
  BY <1>4, <1>6, <1>7 DEF FlushFirst
<1>8. ASSUME NEW t \in Thread, FlushNext(t) PROVE Quiet
  BY <1>6, <1>8 DEF FlushNext
<1> QED
  BY <1>1, <1>2, <1>3, <1>5, <1>7, <1>8 DEF GutterNext, FlushGutters

-----------------------------------------------------------------------------
(* The region a fetch_add reserves lies after all others.                    *)
LEMMA ReserveKeeps ==
  ASSUME StoreInv, NEW t \in Thread, NEW b \in Batches, ReserveRegion(t, b[1], b[2])
  PROVE  StoreInv'
<1> DEFINE dsts == b[2]
<1> USE StoreAssumption, StreamAssumption
<1>1. b[1] \in Vertex /\ dsts \in Seq(Vertex) /\ Len(dsts) \in Nat
  BY BatchAssumption
<1>2. /\ pc[t] = "idle" /\ pc' = [pc EXCEPT ![t] = "fill"]
      /\ edgeUpdate_offset + Len(dsts) <= 2 * num_updates
      /\ call' = [call EXCEPT ![t] = [src |-> b[1], dsts |-> dsts, offset |-> edgeUpdate_offset,
                                      id |-> 0]]
      /\ edgeUpdate_offset' = edgeUpdate_offset + Len(dsts)
      /\ UNCHANGED <<h_edgeUpdates, stored_count, stored>>
  BY DEF ReserveRegion, At, Goto
<1> HIDE DEF dsts
<1>3. edgeUpdate_offset \in Nat
  BY DEF StoreInv, StoreTypes
<1>4. StoreTypes'
  <2>1. pc' = [u \in Thread |-> pc'[u]]
    BY <1>2 DEF StoreInv, StoreTypes
  <2>2. call' \in [Thread -> [src : Vertex, dsts : Seq(Vertex), offset : Nat, id : Nat]]
    BY <1>1, <1>2, <1>3 DEF StoreInv, StoreTypes
  <2>3. edgeUpdate_offset' \in 0 .. 2 * num_updates
    BY <1>1, <1>2, <1>3
  <2> QED
    BY <1>2, <2>1, <2>2, <2>3 DEF StoreInv, StoreTypes, Position
<1>5. /\ t \notin Storing /\ Storing' = Storing \cup {t}
      /\ \A u \in Storing : u \in Thread /\ pc'[u] = pc[u] /\ call'[u] = call[u]
      /\ pc'[t] = "fill"
      /\ call'[t].offset = edgeUpdate_offset /\ call'[t].dsts = dsts
  BY <1>2 DEF StoreInv, StoreTypes, Storing
<1>7. RegionsApart'
  <2>1. ASSUME NEW a \in Nat, NEW m \in Nat, a + m <= edgeUpdate_offset
        PROVE  /\ Apart(a, m, edgeUpdate_offset, Len(dsts))
               /\ Apart(edgeUpdate_offset, Len(dsts), a, m)
               /\ a + m <= edgeUpdate_offset'
    BY <1>1, <1>2, <1>3, <2>1 DEF Apart
  <2>2. ASSUME NEW u \in Storing
        PROVE  /\ call[u].offset \in Nat /\ Len(call[u].dsts) \in Nat
               /\ call[u].offset + Len(call[u].dsts) <= edgeUpdate_offset
    BY RegionTypes
  <2>3. ASSUME NEW n \in DOMAIN stored
        PROVE  /\ stored[n].start_index \in Nat /\ stored[n].size \in Nat
               /\ stored[n].start_index + stored[n].size <= edgeUpdate_offset
    BY RegionTypes
  <2>4. stored' = stored
    BY <1>2
  <2>5. \A u \in Storing' : call'[u].offset + Len(call'[u].dsts) <= edgeUpdate_offset'
    <3>1. call'[t].offset + Len(call'[t].dsts) <= edgeUpdate_offset'
      BY <1>1, <1>2, <1>3, <1>5
    <3> QED
      BY <1>5, <2>1, <2>2, <3>1
  <2>6. \A n \in DOMAIN stored' :
          stored'[n].start_index + stored'[n].size <= edgeUpdate_offset'
    BY <2>1, <2>3, <2>4
  <2>7. \A u, v \in Storing' : u # v =>
          Apart(call'[u].offset, Len(call'[u].dsts), call'[v].offset, Len(call'[v].dsts))
    <3>1. \A u, v \in Storing : u # v =>
            Apart(call'[u].offset, Len(call'[u].dsts), call'[v].offset, Len(call'[v].dsts))
      BY <1>5 DEF StoreInv, RegionsApart
    <3>2. \A u \in Storing :
            /\ Apart(call'[u].offset, Len(call'[u].dsts), call'[t].offset, Len(call'[t].dsts))
            /\ Apart(call'[t].offset, Len(call'[t].dsts), call'[u].offset, Len(call'[u].dsts))
      BY <1>5, <2>1, <2>2
    <3> QED
      BY <1>5, <3>1, <3>2
  <2>8. \A m, n \in DOMAIN stored' : m # n =>
          Apart(stored'[m].start_index, stored'[m].size, stored'[n].start_index, stored'[n].size)
    BY <2>4 DEF StoreInv, RegionsApart
  <2>9. \A u \in Storing', n \in DOMAIN stored' :
          Apart(call'[u].offset, Len(call'[u].dsts), stored'[n].start_index, stored'[n].size)
    <3>1. \A u \in Storing, n \in DOMAIN stored :
            Apart(call'[u].offset, Len(call'[u].dsts), stored[n].start_index, stored[n].size)
      BY <1>5 DEF StoreInv, RegionsApart
    <3>2. \A n \in DOMAIN stored :
            Apart(call'[t].offset, Len(call'[t].dsts), stored[n].start_index, stored[n].size)
      BY <1>5, <2>1, <2>3
    <3> QED
      BY <1>5, <2>4, <3>1, <3>2
  <2> QED
    BY <2>5, <2>6, <2>7, <2>8, <2>9 DEF RegionsApart, Apart
<1>8. RegionsFilled'
  BY <1>2, <1>5 DEF StoreInv, RegionsFilled
<1>9. IdsTaken'
  <2>1. \A u \in Thread : (pc'[u] = "record" <=> pc[u] = "record")
                          /\ (pc[u] = "record" => call'[u] = call[u])
    BY <1>2 DEF StoreInv, StoreTypes
  <2> QED
    BY <1>2, <2>1 DEF StoreInv, IdsTaken
<1> QED
  BY <1>4, <1>7, <1>8, <1>9 DEF StoreInv

(* A worker that fills its region writes into no other.                      *)
LEMMA FillKeeps ==
  ASSUME StoreInv, NEW t \in Thread, FillRegion(t)
  PROVE  StoreInv'
<1> DEFINE o == call[t].offset
           L == Len(call[t].dsts)
<1> USE StoreAssumption, StreamAssumption
<1>1. /\ pc[t] = "fill" /\ pc' = [pc EXCEPT ![t] = "count"]
      /\ h_edgeUpdates' = [i \in Position |->
           IF i \in o .. o + L - 1 THEN call[t].dsts[i - o + 1] ELSE h_edgeUpdates[i]]
      /\ UNCHANGED <<edgeUpdate_offset, stored_count, stored, call>>
  BY DEF FillRegion, At, Goto
<1>2. /\ t \in Storing /\ Storing' = Storing
      /\ \A u \in Storing : u \in Thread /\ (u # t => pc'[u] = pc[u])
  BY <1>1 DEF StoreInv, StoreTypes, Storing
<1>3. o \in Nat /\ L \in Nat /\ o + L <= 2 * num_updates
  BY <1>2, RegionTypes
<1>4. StoreTypes'
  BY <1>1 DEF StoreInv, StoreTypes, Position
<1>5. RegionsApart'
  BY <1>1, <1>2 DEF StoreInv, RegionsApart, Apart
<1>6. RegionsFilled'
  <2>1. ASSUME NEW k \in 1 .. L PROVE h_edgeUpdates'[o + k - 1] = call[t].dsts[k]
    <3>1. o + k - 1 \in Position /\ o + k - 1 \in o .. o + L - 1 /\ (o + k - 1) - o + 1 = k
      <4> HIDE DEF o, L
      <4> QED
        BY <1>3 DEF Position
    <3> QED
      BY <1>1, <3>1
  <2>2. ASSUME NEW a \in Nat, NEW m \in Nat, a + m <= 2 * num_updates, Apart(o, L, a, m),
               NEW k \in 1 .. m
        PROVE  h_edgeUpdates'[a + k - 1] = h_edgeUpdates[a + k - 1]
    <3>1. a + k - 1 \in Position /\ a + k - 1 \notin o .. o + L - 1
      <4> HIDE DEF o, L
      <4> QED
        BY <1>3, <2>2 DEF Apart, Position
    <3> QED
      BY <1>1, <3>1
  <2>3. ASSUME NEW u \in Storing, pc'[u] # "fill", NEW k \in 1 .. Len(call[u].dsts)
        PROVE  h_edgeUpdates'[call[u].offset + k - 1] = call[u].dsts[k]
    <3>1. CASE u = t
      BY <2>1, <3>1
    <3>2. CASE u # t
      <4>1. /\ call[u].offset \in Nat /\ Len(call[u].dsts) \in Nat
            /\ call[u].offset + Len(call[u].dsts) <= 2 * num_updates
        BY RegionTypes
      <4>2. Apart(o, L, call[u].offset, Len(call[u].dsts))
        BY <1>2, <3>2 DEF StoreInv, RegionsApart
      <4>3. h_edgeUpdates[call[u].offset + k - 1] = call[u].dsts[k]
        BY <1>2, <2>3, <3>2 DEF StoreInv, RegionsFilled
      <4> QED
        BY <2>2, <4>1, <4>2, <4>3
    <3> QED
      BY <3>1, <3>2
  <2>4. ASSUME NEW n \in DOMAIN stored, NEW k \in 1 .. stored[n].size
        PROVE  h_edgeUpdates'[stored[n].start_index + k - 1] = stored[n].dsts[k]
    <3>1. /\ stored[n].start_index \in Nat /\ stored[n].size \in Nat
          /\ stored[n].start_index + stored[n].size <= 2 * num_updates
      BY RegionTypes
    <3>2. Apart(o, L, stored[n].start_index, stored[n].size)
      BY <1>2 DEF StoreInv, RegionsApart
    <3>3. h_edgeUpdates[stored[n].start_index + k - 1] = stored[n].dsts[k]
      BY DEF StoreInv, RegionsFilled
    <3> QED
      BY <2>2, <3>1, <3>2, <3>3
  <2>5. call' = call /\ stored' = stored
    BY <1>1
  <2>6. \A u \in Storing' : pc'[u] # "fill" => \A k \in 1 .. Len(call'[u].dsts) :
          h_edgeUpdates'[call'[u].offset + k - 1] = call'[u].dsts[k]
    BY <1>2, <2>3, <2>5
  <2>7. \A n \in DOMAIN stored' : \A k \in 1 .. stored'[n].size :
          h_edgeUpdates'[stored'[n].start_index + k - 1] = stored'[n].dsts[k]
    BY <2>4, <2>5
  <2> QED
    BY <2>6, <2>7 DEF RegionsFilled
<1>7. IdsTaken'
  <2>1. \A u \in Thread : pc'[u] = "record" <=> pc[u] = "record"
    BY <1>1 DEF StoreInv, StoreTypes
  <2> QED
    BY <1>1, <2>1 DEF StoreInv, IdsTaken
<1> QED
  BY <1>4, <1>5, <1>6, <1>7 DEF StoreInv

(* The id a fetch_add takes is new, and no id is left out.                   *)
LEMMA TakeIdKeeps ==
  ASSUME StoreInv, NEW t \in Thread, TakeId(t)
  PROVE  StoreInv'
<1>1. /\ pc[t] = "count" /\ pc' = [pc EXCEPT ![t] = "record"]
      /\ call' = [call EXCEPT ![t].id = stored_count] /\ stored_count' = stored_count + 1
      /\ UNCHANGED <<h_edgeUpdates, edgeUpdate_offset, stored>>
  BY DEF TakeId, At, Goto
<1>2. /\ t \in Storing /\ Storing' = Storing
      /\ \A u \in Storing : /\ u \in Thread /\ (pc'[u] # "fill" => pc[u] # "fill")
                            /\ call'[u].offset = call[u].offset /\ call'[u].dsts = call[u].dsts
  BY <1>1 DEF StoreInv, StoreTypes, Storing
<1>3. StoreTypes'
  <2> DEFINE Locals == [src : Vertex, dsts : Seq(Vertex), offset : Nat, id : Nat]
             c == [call[t] EXCEPT !.id = stored_count]
  <2>1. stored_count \in Nat
    BY DEF StoreInv, StoreTypes
  <2>2. call' \in [Thread -> Locals]
    <3>1. call \in [Thread -> Locals]
      BY DEF StoreInv, StoreTypes
    <3>2. call[t] \in Locals
      BY <3>1
    <3>3. c \in Locals
      BY <2>1, <3>2
    <3>4. call' = [call EXCEPT ![t] = c]
      BY <1>1
    <3> HIDE DEF Locals, c
    <3> QED
      BY <3>1, <3>3, <3>4
  <2>3. pc' = [u \in Thread |-> pc'[u]]
    BY <1>1 DEF StoreInv, StoreTypes
  <2> QED
    BY <1>1, <2>1, <2>2, <2>3 DEF StoreInv, StoreTypes, Position
<1>4. RegionsApart'
  BY <1>1, <1>2 DEF StoreInv, RegionsApart, Apart
<1>5. RegionsFilled'
  BY <1>1, <1>2 DEF StoreInv, RegionsFilled
<1>6. IdsTaken'
  <2>1. /\ stored_count \in Nat /\ DOMAIN stored \subseteq Nat
        /\ pc'[t] = "record" /\ call'[t].id = stored_count
        /\ \A u \in Thread : /\ call[u].id \in Nat
                             /\ u # t => pc'[u] = pc[u] /\ call'[u].id = call[u].id
    BY <1>1 DEF StoreInv, StoreTypes
  <2>2. pc[t] # "record"
    BY <1>1
  <2> QED
    BY <1>1, <2>1, <2>2 DEF StoreInv, IdsTaken
<1> QED
  BY <1>3, <1>4, <1>5, <1>6 DEF StoreInv

(* The batch recorded takes over the region and the id of its worker.        *)
LEMMA RecordKeeps ==
  ASSUME StoreInv, NEW t \in Thread, RecordBatch(t)
  PROVE  StoreInv'
<1> DEFINE c == call[t]
           b == [src |-> c.src, size |-> Len(c.dsts), start_index |-> c.offset, dsts |-> c.dsts]
<1> USE StreamAssumption
<1>1. /\ pc[t] = "record" /\ pc' = [pc EXCEPT ![t] = "idle"]
      /\ stored' = [n \in DOMAIN stored \cup {c.id} |->
                      IF n \in DOMAIN stored THEN stored[n] ELSE b]
      /\ call' = [call EXCEPT ![t] = NoCall]
      /\ UNCHANGED <<h_edgeUpdates, edgeUpdate_offset, stored_count>>
  BY DEF RecordBatch, At, Goto
<1>2. /\ t \in Storing /\ Storing' = Storing \ {t}
      /\ \A u \in Storing' : u \in Storing /\ u # t /\ pc'[u] = pc[u] /\ call'[u] = call[u]
  BY <1>1 DEF StoreInv, StoreTypes, Storing
<1>3. c \in [src : Vertex, dsts : Seq(Vertex), offset : Nat, id : Nat] /\ Len(c.dsts) \in Nat
  BY DEF StoreInv, StoreTypes
<1>4. /\ c.id \notin DOMAIN stored /\ c.id \in Nat
      /\ DOMAIN stored' = DOMAIN stored \cup {c.id}
      /\ stored'[c.id] = b /\ \A n \in DOMAIN stored : stored'[n] = stored[n]
  BY <1>1, <1>3 DEF StoreInv, IdsTaken
<1>5. /\ b.start_index = c.offset /\ b.size = Len(c.dsts) /\ b.dsts = c.dsts
      /\ b \in [src : Vertex, size : Nat, start_index : Nat, dsts : Seq(Vertex)]
  BY <1>3
<1>6. StoreTypes'
  <2>1. NoCall \in [src : Vertex, dsts : Seq(Vertex), offset : Nat, id : Nat]
    BY DEF NoCall, Vertex
  <2>2. call' \in [Thread -> [src : Vertex, dsts : Seq(Vertex), offset : Nat, id : Nat]]
    BY <1>1, <2>1 DEF StoreInv, StoreTypes
  <2>3. pc' = [u \in Thread |-> pc'[u]]
    BY <1>1 DEF StoreInv, StoreTypes
  <2> HIDE DEF b, c
  <2> QED
    BY <1>1, <1>4, <1>5, <2>2, <2>3 DEF StoreInv, StoreTypes, Position
<1>7. /\ c.offset + Len(c.dsts) <= edgeUpdate_offset
      /\ \A u \in Storing : u # t =>
           Apart(call[u].offset, Len(call[u].dsts), b.start_index, b.size)
      /\ \A n \in DOMAIN stored : /\ Apart(b.start_index, b.size, stored[n].start_index, stored[n].size)
                                  /\ Apart(stored[n].start_index, stored[n].size, b.start_index, b.size)
      /\ \A k \in 1 .. b.size : h_edgeUpdates[b.start_index + k - 1] = b.dsts[k]
  BY <1>1, <1>2, <1>5 DEF StoreInv, RegionsApart, RegionsFilled, Apart
<1>8. RegionsApart'
  <2> HIDE DEF b, c
  <2>1. \A u \in Storing' : call'[u].offset + Len(call'[u].dsts) <= edgeUpdate_offset'
    BY <1>1, <1>2 DEF StoreInv, RegionsApart
  <2>2. \A n \in DOMAIN stored' :
          stored'[n].start_index + stored'[n].size <= edgeUpdate_offset'
    BY <1>1, <1>4, <1>5, <1>7 DEF StoreInv, RegionsApart
  <2>3. \A u, v \in Storing' : u # v =>
          Apart(call'[u].offset, Len(call'[u].dsts), call'[v].offset, Len(call'[v].dsts))
    BY <1>2 DEF StoreInv, RegionsApart
  <2>4. \A m, n \in DOMAIN stored' : m # n =>
          Apart(stored'[m].start_index, stored'[m].size, stored'[n].start_index, stored'[n].size)
    BY <1>4, <1>7 DEF StoreInv, RegionsApart
  <2>5. \A u \in Storing', n \in DOMAIN stored' :
          Apart(call'[u].offset, Len(call'[u].dsts), stored'[n].start_index, stored'[n].size)
    BY <1>2, <1>4, <1>7 DEF StoreInv, RegionsApart
  <2> QED
    BY <2>1, <2>2, <2>3, <2>4, <2>5 DEF RegionsApart, Apart
<1>9. RegionsFilled'
  <2> HIDE DEF b, c
  <2>1. \A u \in Storing' : pc'[u] # "fill" => \A k \in 1 .. Len(call'[u].dsts) :
          h_edgeUpdates'[call'[u].offset + k - 1] = call'[u].dsts[k]
    BY <1>1, <1>2 DEF StoreInv, RegionsFilled
  <2>2. \A n \in DOMAIN stored : \A k \in 1 .. stored'[n].size :
          h_edgeUpdates'[stored'[n].start_index + k - 1] = stored'[n].dsts[k]
    BY <1>1, <1>4 DEF StoreInv, RegionsFilled
  <2>3. \A k \in 1 .. stored'[c.id].size :
          h_edgeUpdates'[stored'[c.id].start_index + k - 1] = stored'[c.id].dsts[k]
    BY <1>1, <1>4, <1>7
  <2> QED
    BY <1>4, <2>1, <2>2, <2>3 DEF RegionsFilled
<1>10. IdsTaken'
  <2>1. \A u \in Thread : /\ pc'[u] = "record" <=> (u # t /\ pc[u] = "record")
                          /\ pc'[u] = "record" => call'[u] = call[u]
    BY <1>1 DEF StoreInv, StoreTypes
  <2> HIDE DEF b
  <2> QED
    BY <1>1, <1>4, <2>1 DEF StoreInv, IdsTaken
<1> QED
  BY <1>6, <1>8, <1>9, <1>10 DEF StoreInv

-----------------------------------------------------------------------------
(* Every step keeps the invariant.                                           *)
LEMMA StoreInvStep == StoreInv /\ [Next]_vars => StoreInv'
<1> SUFFICES ASSUME StoreInv, [Next]_vars PROVE StoreInv'
  OBVIOUS
<1> DEFINE Same == UNCHANGED <<h_edgeUpdates, edgeUpdate_offset, stored_count, stored, call>>
<1>1. CASE CCNext /\ UNCHANGED skVars
  BY <1>1, CCQuiet, QuietKeeps
<1>2. CASE GutterNext /\ UNCHANGED skVars
  BY <1>2, GutterQuiet, QuietKeeps
<1>3. ASSUME NEW t \in Thread, Store(t) PROVE StoreInv'
  BY <1>3, FillKeeps, TakeIdKeeps, RecordKeeps DEF Store
<1>4. ASSUME NEW t \in Thread, Work(t) PROVE StoreInv'
  <2>1. CASE launch_cpu_update(t)
    <3>1. UNCHANGED pc /\ Same
      BY <2>1 DEF launch_cpu_update, NextBatch
    <3> QED
      BY <3>1, SamePlaceQuiet, QuietKeeps
  <2>2. CASE launch_gpu_update(t)
    <3>1. Same /\ \E src, dsts : process_batch(t, src, dsts)
      BY <2>2 DEF launch_gpu_update, NextBatch
    <3> QED
      BY <3>1, ProcessBatchQuiet, QuietKeeps
  <2> QED
    BY <1>4, <2>1, <2>2 DEF Work
<1>5. CASE main
  <2>1. CASE GpuJoined
    BY <2>1, FlushStreamsQuiet, QuietKeeps DEF GpuJoined, skVars
  <2>2. CASE ~GpuJoined
    <3>1. UNCHANGED pc /\ Same
      BY <1>5, <2>2 DEF main, Launch, launch_gpu_kernel, CpuJoined, streamVars, skVars
    <3> QED
      BY <3>1, SamePlaceQuiet, QuietKeeps
  <2> QED
    BY <2>1, <2>2
<1>6. CASE UNCHANGED vars
  <2>1. UNCHANGED pc /\ Same
    BY <1>6 DEF vars, ccVars, streamVars, skVars
  <2> QED
    BY <2>1, SamePlaceQuiet, QuietKeeps
<1> QED
  BY <1>1, <1>2, <1>3, <1>4, <1>5, <1>6, ReserveKeeps DEF Next, SKNext

(* However many workers store batches of any sizes, and however their        *)
(* fetch_adds, writes and inserts interleave, no two batches share a position *)
(* of h_edgeUpdates, each is found there as it was handed over, and every id  *)
(* below the counter stands for one of them.                                 *)
THEOREM StoredWholeAlways == Spec => []StoredWhole
<1>1. Init => StoreInv
  BY StoreInvInit
<1>2. StoreInv /\ [Next]_vars => StoreInv'
  BY StoreInvStep
<1>3. StoreInv => StoredWhole
  BY StoreInvImplies
<1> QED
  BY <1>1, <1>2, <1>3, PTL DEF Spec
=============================================================================
