------------------------------ MODULE PlansProofs ------------------------------
(***************************************************************************)
(* The planners and decoders of MCPlans, for any constants.                *)
(*                                                                         *)
(* Distributed data: whatever the numbers of samples, ranks, micro-batches *)
(* and accumulated steps, an update learns from the next global batch of   *)
(* the epoch's order.  The arithmetic comes first: every rank's shard has  *)
(* the same whole number of updates (ShardsAreEqual), and the strides of   *)
(* all ranks cover a global batch (RanksCoverBatch).  The invariant then   *)
(* says where in its epoch a step is.                                      *)
(*                                                                         *)
(* The key-value cache: whatever the alphabet, the block and the batch, it *)
(* holds what a full pass computes.  Its states are folds from the left,   *)
(* so their equations come first (FoldAppend); then cropping as one goes   *)
(* is cropping at the end (CroppedAppend), one token and then a chunk keep *)
(* a row exact (ExtendRow, FoldRow), and so does every operation.          *)
(*                                                                         *)
(* The tokenizer streams: a scan of bytes reads whole characters and holds *)
(* the start of one (ScanReads), so what was given and what is held are    *)
(* always what was fed (TokenInv).                                         *)
(*                                                                         *)
(* The client of /stream: a piece cut in two is the piece (PieceSplits),   *)
(* so a decoder fed in chunks is, as far as its caller sees, one fed byte  *)
(* for byte (FeedSame); and that one, while it is open, has told what the  *)
(* bytes say (SingleFollows).                                              *)
(*                                                                         *)
(* Batches of requests: the loop over those that wait leaves one out only  *)
(* if the batch or the budget is full without it (Admitting), and every    *)
(* tick gives a token or waits for the next arrival (BatchInv).            *)
(*                                                                         *)
(* Byte pairs: the reference's recursion ends, for each merge shortens the *)
(* text (AfterShorter), so its equation holds (ReferenceIs), and one more  *)
(* merge is one more pass (ReferenceLonger).  The heap encoder joins one   *)
(* occurrence at a time, the first of the lowest rank (JoinLowest), which  *)
(* the reference's pass would join as well (MergeFirst), so the text still *)
(* leads where it led (ReferenceJoined); its lists stay linked             *)
(* (ListsJoined) and its heap has every pair with a rank (JoinHeap).       *)
(***************************************************************************)
EXTENDS MCPlans, FiniteSetTheorems, SequenceTheorems, WellFoundedInduction, TLAPS

LEMMA Euclid ==
  ASSUME NEW n \in Nat, NEW d \in Nat \ {0}
  PROVE  n \div d \in Nat /\ n % d \in 0..(d - 1) /\ n = d * (n \div d) + (n % d)
  BY SMT

LEMMA Division ==
  ASSUME NEW d \in Nat \ {0}, NEW q \in Nat, NEW r \in 0..(d - 1)
  PROVE  (d * q + r) \div d = q /\ (d * q + r) % d = r
  BY SMTT(30)

LEMMA Multiples ==
  ASSUME NEW d \in Nat \ {0}, NEW a \in Nat, NEW b \in Nat
  PROVE  (a =< b <=> d * a =< d * b) /\ d * a \in Nat /\ d * (a + 1) = d * a + d
  BY SMTT(30)

-------------------------------------------------------------------------------
(* A run's numbers                                                            *)

\* The updates an epoch has on each rank, in samples of its shard.
Length(b) == b.micro * b.accumulation

LEMMA RunTyped ==
  ASSUME DataAssumption, NEW b \in Runs
  PROVE  /\ b.samples \in Nat \ {0} /\ b.world \in Nat \ {0} /\ Length(b) \in Nat \ {0}
         /\ GlobalBatch(b) \in Nat \ {0} /\ GlobalBatch(b) = b.world * Length(b)
         /\ UpdatesPerEpoch(b) \in Nat \ {0}
         /\ Usable(b) = b.world * (Length(b) * UpdatesPerEpoch(b))
         /\ Usable(b) = GlobalBatch(b) * UpdatesPerEpoch(b)
         /\ Usable(b) =< b.samples
         /\ Shuffled(b) \in Nat /\ Usable(b) =< Shuffled(b)
         /\ b.sampler \in Samplers
<1>1. /\ b.samples \in Nat \ {0} /\ b.world \in Nat \ {0} /\ b.micro \in Nat \ {0}
      /\ b.accumulation \in Nat \ {0} /\ UpdatesPerEpoch(b) > 0 /\ b.sampler \in Samplers
  BY DEF DataAssumption, Runs
<1>2. Length(b) \in Nat \ {0}
  BY <1>1 DEF Length
<1>3. GlobalBatch(b) = b.world * Length(b)
  BY <1>1 DEF GlobalBatch, Length
<1>4. GlobalBatch(b) \in Nat \ {0}
  BY <1>1, <1>2, <1>3
<1> DEFINE size == GlobalBatch(b)
           q == UpdatesPerEpoch(b)
<1> HIDE DEF size
<1>5. q \in Nat /\ b.samples % size \in 0..(size - 1) /\ b.samples = size * q + (b.samples % size)
  BY <1>1, <1>4, Euclid DEF UpdatesPerEpoch, size
<1>6. Usable(b) = size * q /\ Usable(b) =< b.samples /\ Usable(b) \in Nat
  BY <1>1, <1>4, <1>5 DEF Usable, size
<1>7. size * q = b.world * (Length(b) * q)
  <2> HIDE DEF q
  <2>1. \A w, l, u \in Nat : (w * l) * u = w * (l * u)
    OBVIOUS
  <2>2. QED
    BY <1>1, <1>2, <1>3, <1>5, <2>1 DEF size
<1>8. QED
  BY <1>1, <1>2, <1>3, <1>4, <1>5, <1>6, <1>7 DEF Shuffled, size

\* byte_batches gives all ranks shards of the same length, whole updates long,
\* whichever sampler dropped the tail.
LEMMA ShardsAreEqual ==
  ASSUME DataAssumption, NEW b \in Runs, NEW rank \in 0..(b.world - 1)
  PROVE  ShardLength(b, rank) = Length(b) * UpdatesPerEpoch(b)
<1> DEFINE w == b.world
           whole == Length(b) * UpdatesPerEpoch(b)
           m == Shuffled(b) \div w
<1>1. /\ w \in Nat \ {0} /\ whole \in Nat /\ Usable(b) = w * whole
      /\ Shuffled(b) \in Nat /\ Usable(b) =< Shuffled(b)
  BY RunTyped
<1>2. m \in Nat /\ Shuffled(b) % w \in 0..(w - 1) /\ Shuffled(b) = w * m + (Shuffled(b) % w)
  BY <1>1, Euclid
<1> HIDE DEF w, whole, m
<1>3. Usable(b) \div w = whole
  BY <1>1, Division, w * whole + 0 = w * whole, 0 \in 0..(w - 1)
<1>4. Shuffled(b) - (Shuffled(b) % w) = w * m /\ w * m \in Nat
  BY <1>1, <1>2
<1>5. whole =< m
  <2>1. w * whole < w * (m + 1)
    BY <1>1, <1>2, Multiples
  <2>2. CASE m + 1 =< whole
    BY <1>1, <1>2, <2>1, <2>2, Multiples
  <2>3. QED
    BY <1>1, <1>2, <2>2
<1>6. (w * m - rank + w - 1) \div w = m
  <2>1. w - 1 - rank \in 0..(w - 1) /\ w * m - rank + w - 1 = w * m + (w - 1 - rank)
    BY <1>1, <1>4 DEF w
  <2>2. QED
    BY <1>1, <1>2, <2>1, Division
<1>7. ShardLength(b, rank) = IF m < whole THEN m ELSE whole
  BY <1>3, <1>4, <1>6 DEF ShardLength, w
<1>8. QED
  BY <1>1, <1>2, <1>5, <1>7 DEF whole

\* The next global batch.
Block(size, k) == (k * size)..(k * size + size - 1)

\* What the ranks take for an update is one global batch, shared by strides.
LEMMA RanksCoverBatch ==
  ASSUME DataAssumption, NEW b \in Runs, NEW o, NEW k \in 0..(UpdatesPerEpoch(b) - 1)
  PROVE  UNION {Taken(b, o, rank, k) : rank \in 0..(b.world - 1)}
           = {o[i] : i \in Block(GlobalBatch(b), k)}
<1> DEFINE w == b.world
           l == Length(b)
           u == UpdatesPerEpoch(b)
           size == GlobalBatch(b)
<1>1. w \in Nat \ {0} /\ l \in Nat \ {0} /\ u \in Nat \ {0} /\ size = w * l /\ size \in Nat \ {0}
  BY RunTyped
<1>2. ASSUME NEW rank \in 0..(w - 1)
      PROVE  Taken(b, o, rank, k) = {o[rank + i * w] : i \in (k * l)..(k * l + l - 1)}
  <2> DEFINE shard == Shard(b, o, rank)
  <2>1. ShardLength(b, rank) = l * u
    BY <1>2, ShardsAreEqual
  <2>2. DOMAIN shard = 0..(l * u - 1) /\ \A i \in DOMAIN shard : shard[i] = o[rank + i * w]
    BY <2>1 DEF Shard
  <2>3. l * (k + 1) =< l * u /\ l * (k + 1) = l * k + l /\ l * k = k * l /\ k * l \in Nat /\ l * u \in Nat
    BY <1>1, Multiples
  <2>4. (k * l)..(k * l + l - 1) \subseteq DOMAIN shard
    <3> DEFINE first == k * l
               end == l * u
    <3>1. first \in Nat /\ end \in Nat /\ first + l =< end /\ l \in Nat /\ DOMAIN shard = 0..(end - 1)
      BY <1>1, <2>2, <2>3
    <3> HIDE DEF first, end, shard, l
    <3>2. first..(first + l - 1) \subseteq DOMAIN shard
      BY <3>1
    <3>3. QED
      BY <3>2 DEF first
  <2>5. Taken(b, o, rank, k) = {shard[i] : i \in DOMAIN shard \intersect ((k * l)..(k * l + l - 1))}
    BY DEF Taken, Length
  <2> HIDE DEF shard, l
  <2>6. QED
    BY <2>2, <2>4, <2>5
<1> HIDE DEF w, l, u, size
<1>3. k \in Nat /\ k * size = w * (k * l) /\ w * (k * l) \in Nat /\ k * l \in Nat
  BY <1>1 DEF u
<1>4. ASSUME NEW rank \in 0..(w - 1), NEW i \in (k * l)..(k * l + l - 1)
      PROVE  rank + i * w \in Block(size, k)
  <2>1. i \in Nat /\ k * l =< i /\ i + 1 =< k * l + l
    BY <1>1, <1>3
  <2>2. w * (k * l) =< w * i /\ w * (i + 1) =< w * (k * l + l)
    BY <1>1, <1>3, <2>1, Multiples
  <2>3. w * (i + 1) = w * i + w /\ w * (k * l + l) = w * (k * l) + w * l /\ w * i = i * w /\ w * i \in Nat
    BY <1>1, <1>3, <2>1
  <2>4. QED
    BY <1>1, <1>3, <2>1, <2>2, <2>3 DEF Block
<1>5. ASSUME NEW j \in Block(size, k)
      PROVE  \E rank \in 0..(w - 1), i \in (k * l)..(k * l + l - 1) : j = rank + i * w
  <2> DEFINE i == j \div w
  <2>1. j \in Nat /\ w * (k * l) =< j /\ j < w * (k * l) + w * l
    BY <1>1, <1>3 DEF Block
  <2>2. i \in Nat /\ j % w \in 0..(w - 1) /\ j = w * i + (j % w)
    BY <1>1, <2>1, Euclid
  <2> HIDE DEF i
  <2>3. w * (k * l) + w * l = w * (k * l + l) /\ k * l + l \in Nat
    BY <1>1, <1>3
  <2>4. k * l =< i
    <3>1. CASE i + 1 =< k * l
      BY <1>1, <1>3, <2>1, <2>2, <3>1, Multiples
    <3>2. QED
      BY <1>3, <2>2, <3>1
  <2>5. i < k * l + l
    <3>1. CASE k * l + l =< i
      BY <1>1, <1>3, <2>1, <2>2, <2>3, <3>1, Multiples
    <3>2. QED
      BY <1>1, <1>3, <2>2, <3>1
  <2>6. j = (j % w) + i * w
    BY <1>1, <2>2
  <2>7. i \in (k * l)..(k * l + l - 1)
    BY <1>1, <1>3, <2>2, <2>4, <2>5
  <2>8. QED
    BY <2>2, <2>6, <2>7
<1>6. \A x \in UNION {Taken(b, o, rank, k) : rank \in 0..(w - 1)} : x \in {o[i] : i \in Block(size, k)}
  BY <1>2, <1>4
<1>7. \A x \in {o[i] : i \in Block(size, k)} : x \in UNION {Taken(b, o, rank, k) : rank \in 0..(w - 1)}
  <2>1. SUFFICES ASSUME NEW j \in Block(size, k)
                 PROVE  \E rank \in 0..(w - 1) : o[j] \in Taken(b, o, rank, k)
    OBVIOUS
  <2>2. PICK rank \in 0..(w - 1), i \in (k * l)..(k * l + l - 1) : j = rank + i * w
    BY <1>5
  <2>3. QED
    BY <1>2, <2>2
<1>8. QED
  BY <1>6, <1>7 DEF w, size

\* A global batch of a shuffled order has no sample twice.
LEMMA BatchSize ==
  ASSUME DataAssumption, NEW b \in Runs, NEW o \in Orders(b), NEW k \in 0..(UpdatesPerEpoch(b) - 1)
  PROVE  Cardinality({o[i] : i \in Block(GlobalBatch(b), k)}) = GlobalBatch(b)
<1> DEFINE size == GlobalBatch(b)
           u == UpdatesPerEpoch(b)
           block == Block(size, k)
           taken == {o[i] : i \in block}
<1>1. size \in Nat \ {0} /\ u \in Nat \ {0} /\ size * u =< Shuffled(b) /\ Shuffled(b) \in Nat
  BY RunTyped
<1>2. size * (k + 1) =< size * u /\ size * (k + 1) = k * size + size /\ k * size \in Nat /\ size * u \in Nat
  BY <1>1, Multiples
<1>3. block \subseteq 0..(Shuffled(b) - 1)
  <2> DEFINE first == k * size
             end == size * u
  <2>1. /\ first \in Nat /\ end \in Nat /\ first + size =< end /\ end =< Shuffled(b)
        /\ block = first..(first + size - 1)
    BY <1>1, <1>2 DEF Block
  <2> HIDE DEF first, end, block, size, u
  <2>2. QED
    BY <1>1, <2>1
<1>4. IsFiniteSet(block) /\ Cardinality(block) = size
  <2>1. k * size \in Int /\ k * size + size - 1 \in Int
    BY <1>1, <1>2
  <2>2. Cardinality(block) = IF k * size > k * size + size - 1 THEN 0
                                ELSE (k * size + size - 1) - k * size + 1
    BY <2>1, FS_Interval DEF Block
  <2>3. IsFiniteSet(block)
    BY <2>1, FS_Interval DEF Block
  <2> HIDE DEF size, block
  <2>4. QED
    BY <1>1, <1>2, <2>2, <2>3
<1>5. \A i, j \in block : o[i] = o[j] => i = j
  BY <1>3 DEF Orders, IsInjective
<1> HIDE DEF block
<1>6. ExistsBijection(block, taken)
  <2> DEFINE f == [i \in block |-> o[i]]
  <2>1. f \in [block -> taken]
    OBVIOUS
  <2>2. \A i, j \in block : f[i] = f[j] => i = j
    BY <1>5
  <2>3. \A x \in taken : \E i \in block : f[i] = x
    OBVIOUS
  <2> HIDE DEF f, taken
  <2>4. f \in Bijection(block, taken)
    BY <2>1, <2>2, <2>3 DEF Bijection, Injection, Surjection, IsInjective
  <2>5. QED
    BY <2>4 DEF ExistsBijection
<1>7. Cardinality(block) = Cardinality(taken)
  BY <1>4, <1>6, FS_Bijection
<1>8. QED
  BY <1>4, <1>7 DEF block

-------------------------------------------------------------------------------
(* The invariant                                                              *)

\* A step is as many updates into its epoch as have been learned from; the first
\* step alone has nothing before it.
PlaceInv ==
  /\ step \in Nat
  /\ learned \in Seq(SUBSET Nat)
  /\ Len(learned) =< UpdatesPerEpoch(run)
  /\ Len(learned) = 0 => step = 0
  /\ \E epochs \in Nat : step = UpdatesPerEpoch(run) * epochs + Len(learned)

BatchesInv ==
  \A k \in 1..Len(learned) : learned[k] = {order[i] : i \in Block(GlobalBatch(run), k - 1)}

IInv ==
  /\ run \in Runs
  /\ order \in Orders(run)
  /\ PlaceInv
  /\ BatchesInv

LEMMA InitInv == DataInit => IInv
<1> SUFFICES ASSUME DataInit PROVE IInv
  OBVIOUS
<1>1. run \in Runs /\ UpdatesPerEpoch(run) \in Nat \ {0}
  BY RunTyped, DataAssumption DEF DataInit
<1>2. 0 = UpdatesPerEpoch(run) * 0 + 0
  BY <1>1
<1>3. QED
  BY <1>1, <1>2 DEF DataInit, IInv, PlaceInv, BatchesInv

\* Where the next update stands.
LEMMA Place ==
  ASSUME IInv
  PROVE  /\ UpdatesPerEpoch(run) \in Nat \ {0} /\ Len(learned) \in Nat
         /\ Offset \in 0..(UpdatesPerEpoch(run) - 1)
         /\ Offset # 0 => Offset = Len(learned)
         /\ Offset = 0 /\ step > 0 => Len(learned) = UpdatesPerEpoch(run)
         /\ step = 0 => Len(learned) = 0 /\ Offset = 0
<1> DEFINE u == UpdatesPerEpoch(run)
           n == Len(learned)
<1>1. u \in Nat \ {0} /\ n \in Nat /\ n =< u /\ step \in Nat /\ (n = 0 => step = 0)
  BY RunTyped, DataAssumption DEF IInv, PlaceInv
<1>2. PICK epochs \in Nat : step = u * epochs + n
  BY DEF IInv, PlaceInv
<1> HIDE DEF u, n
<1>3. CASE n < u
  <2>1. step % u = n
    BY <1>1, <1>2, <1>3, Division
  <2>2. step = 0 => n = 0
    BY <1>1, <2>1
  <2>3. QED
    BY <1>1, <1>3, <2>1, <2>2 DEF Offset, u, n
<1>4. CASE n = u
  <2>1. step = u * (epochs + 1) + 0 /\ epochs + 1 \in Nat
    BY <1>1, <1>2, <1>4
  <2>2. step % u = 0
    BY <1>1, <2>1, Division
  <2>3. step >= u
    BY <1>1, <1>2, <1>4
  <2>4. QED
    BY <1>1, <1>4, <2>2, <2>3 DEF Offset, u, n
<1>5. QED
  BY <1>1, <1>3, <1>4

LEMMA UpdateInv == ASSUME IInv, Update PROVE IInv'
<1> DEFINE u == UpdatesPerEpoch(run)
           size == GlobalBatch(run)
           taken == UNION {Taken(run, order', rank, Offset) : rank \in Ranks}
           before == IF Offset = 0 THEN <<>> ELSE learned
<1>1. /\ u \in Nat \ {0} /\ Len(learned) \in Nat /\ Offset \in 0..(u - 1)
      /\ Offset # 0 => Offset = Len(learned)
      /\ Offset = 0 /\ step > 0 => Len(learned) = u
      /\ step = 0 => Len(learned) = 0 /\ Offset = 0
  BY Place
<1>2. /\ run' = run /\ run \in Runs /\ order' \in Orders(run)
      /\ Offset # 0 => order' = order
      /\ learned' = Append(before, taken) /\ step' = step + 1
  BY DEF Update, IInv
<1>3. taken = {order'[i] : i \in Block(size, Offset)}
  <2>1. \A o : UNION {Taken(run, o, rank, Offset) : rank \in 0..(run.world - 1)}
                  = {o[i] : i \in Block(GlobalBatch(run), Offset)}
    BY <1>1, <1>2, RanksCoverBatch, DataAssumption
  <2>2. QED
    BY <2>1 DEF Ranks
<1>4. taken \in SUBSET Nat
  <2>1. Shuffled(run) \in Nat /\ size \in Nat \ {0} /\ size * u =< Shuffled(run)
    BY <1>2, RunTyped, DataAssumption
  <2>2. size * (Offset + 1) =< size * u /\ size * (Offset + 1) = Offset * size + size /\ Offset * size \in Nat
    BY <1>1, <2>1, Multiples
  <2>3. Block(size, Offset) \subseteq 0..(Shuffled(run) - 1)
    <3> DEFINE first == Offset * size
               end == size * u
    <3>1. /\ first \in Nat /\ end \in Int /\ first + size =< end /\ end =< Shuffled(run)
          /\ Block(size, Offset) = first..(first + size - 1)
      BY <1>1, <2>1, <2>2 DEF Block
    <3> HIDE DEF first, end, size, u
    <3>2. QED
      BY <2>1, <3>1
  <2>4. order' \in [0..(Shuffled(run) - 1) -> 0..(Shuffled(run) - 1)]
    BY <1>2 DEF Orders
  <2> HIDE DEF taken, size
  <2>5. QED
    BY <1>3, <2>1, <2>3, <2>4
<1>5. before \in Seq(SUBSET Nat) /\ Len(before) = Offset
  BY <1>1 DEF IInv, PlaceInv
<1>6. \A k \in 1..Len(before) : before[k] = {order'[i] : i \in Block(size, k - 1)}
  BY <1>1, <1>2, <1>5 DEF IInv, BatchesInv
<1> HIDE DEF u, size, taken, before
<1>7. /\ learned' \in Seq(SUBSET Nat) /\ Len(learned') = Offset + 1
      /\ \A k \in 1..Offset : learned'[k] = before[k]
      /\ learned'[Offset + 1] = taken
  BY <1>1, <1>2, <1>4, <1>5
<1>8. BatchesInv'
  <2>1. GlobalBatch(run)' = size
    BY <1>2 DEF size
  <2>2. SUFFICES ASSUME NEW k \in 1..Len(learned')
                 PROVE  learned'[k] = {order'[i] : i \in Block(size, k - 1)}
    BY <2>1 DEF BatchesInv
  <2>3. CASE k = Offset + 1
    BY <1>1, <1>3, <1>7, <2>3
  <2>4. CASE k # Offset + 1
    BY <1>1, <1>5, <1>6, <1>7, <2>4
  <2>5. QED
    BY <2>3, <2>4
<1>9. PlaceInv'
  <2>1. step \in Nat /\ step' = step + 1
    BY <1>2 DEF IInv, PlaceInv
  <2>2. step \div u \in Nat /\ step = u * (step \div u) + Offset
    BY <1>1, <2>1, Euclid DEF Offset, u
  <2>3. step' = u * (step \div u) + (Offset + 1)
    BY <1>1, <2>1, <2>2
  <2>4. UpdatesPerEpoch(run)' = u
    BY <1>2 DEF u
  <2>5. \E epochs \in Nat : step' = u * epochs + Len(learned')
    <3>1. step' = u * (step \div u) + Len(learned')
      BY <1>7, <2>3
    <3>2. QED
      BY <2>2, <3>1
  <2>6. step' \in Nat /\ Len(learned') =< u /\ Len(learned') # 0
    BY <1>1, <1>7, <2>1 DEF u
  <2>7. QED
    BY <1>7, <2>4, <2>5, <2>6 DEF PlaceInv
<1>10. QED
  BY <1>2, <1>8, <1>9 DEF IInv

LEMMA ResumeInv == ASSUME IInv, NEW back \in 1..MaxStep, Resume(back) PROVE IInv'
<1> DEFINE n == Len(learned)
           u == UpdatesPerEpoch(run)
<1>1. /\ n \in Nat /\ back \in Nat \ {0} /\ back < n /\ step \in Nat /\ n =< u /\ u \in Nat \ {0}
      /\ learned \in Seq(SUBSET Nat)
      /\ run' = run /\ order' = order /\ step' = step - back /\ learned' = SubSeq(learned, 1, n - back)
  BY DataAssumption, RunTyped DEF IInv, PlaceInv, Resume
<1>2. PICK epochs \in Nat : step = u * epochs + n
  BY DEF IInv, PlaceInv
<1>3. u * epochs \in Nat
  BY <1>1
<1> HIDE DEF u
<1>4. /\ learned' \in Seq(SUBSET Nat) /\ Len(learned') = n - back
      /\ \A k \in 1..(n - back) : learned'[k] = learned[k]
  BY <1>1
<1> HIDE DEF n
<1>5. step' = u * epochs + (n - back)
  BY <1>1, <1>2, <1>3
<1>6. PlaceInv'
  <2>1. UpdatesPerEpoch(run)' = u
    BY <1>1 DEF u
  <2>2. step' \in Nat /\ n - back =< u /\ n - back # 0
    BY <1>1, <1>3, <1>5
  <2>3. QED
    BY <1>4, <1>5, <2>1, <2>2 DEF PlaceInv
<1>7. BatchesInv'
  <2>1. \A k \in 1..(n - back) : k \in 1..n
    BY <1>1
  <2>2. QED
    BY <1>1, <1>4, <2>1 DEF IInv, BatchesInv, n
<1>8. QED
  BY <1>1, <1>6, <1>7 DEF IInv

LEMMA DataStep == ASSUME IInv, [DataNext]_dataVars PROVE IInv'
<1>1. UNCHANGED dataVars => IInv'
  BY DEF dataVars, IInv, PlaceInv, BatchesInv
<1>2. QED
  BY <1>1, UpdateInv, ResumeInv DEF DataNext

LEMMA BatchesAreExact == ASSUME IInv PROVE EachSampleOnce
<1>1. ASSUME NEW k \in 1..Len(learned)
      PROVE  LET size == GlobalBatch(run)
             IN /\ learned[k] = {order[i] : i \in ((k - 1) * size)..(k * size - 1)}
                /\ Cardinality(learned[k]) = size
  <2> DEFINE size == GlobalBatch(run)
  <2>1. size \in Nat \ {0} /\ UpdatesPerEpoch(run) \in Nat
    BY RunTyped, DataAssumption DEF IInv
  <2>2. Len(learned) \in Nat /\ k - 1 \in 0..(UpdatesPerEpoch(run) - 1)
    BY <1>1, <2>1 DEF IInv, PlaceInv
  <2>3. learned[k] = {order[i] : i \in Block(size, k - 1)}
    BY <1>1 DEF IInv, BatchesInv
  <2>4. Cardinality(learned[k]) = size
    BY <1>1, <2>2, <2>3, BatchSize, DataAssumption DEF IInv
  <2>5. (k - 1) * size + size - 1 = k * size - 1
    <3> HIDE DEF size
    <3>1. \A a, b \in Nat : (a + 1) * b = a * b + b
      OBVIOUS
    <3>2. k = (k - 1) + 1 /\ k - 1 \in Nat
      BY <2>2
    <3>3. QED
      BY <2>1, <3>1, <3>2
  <2>6. QED
    BY <2>3, <2>4, <2>5 DEF Block
<1>2. QED
  BY <1>1 DEF EachSampleOnce

\* EachSampleOnce: byte_batches and train_segment give every update of every run,
\* resumed or not, exactly the next global batch of the epoch's order.
THEOREM SharedExactly == DataSpec => []EachSampleOnce
<1>1. DataInit => IInv
  BY InitInv
<1>2. IInv /\ [DataNext]_dataVars => IInv'
  BY DataStep
<1>3. IInv => EachSampleOnce
  BY BatchesAreExact
<1>4. QED
  BY <1>1, <1>2, <1>3, PTL DEF DataSpec

-------------------------------------------------------------------------------
(* Least numbers, for inductions by a least counterexample                    *)

LEMMA LeastExists ==
  ASSUME NEW T \in SUBSET Nat, T # {}
  PROVE  \E t \in T : \A x \in T : t =< x
<1>1. \E t \in T : \A x \in T : <<x, t>> \notin OpToRel(<, Nat)
  BY NatLessThanWellFounded, WFMin
<1>2. PICK t \in T : \A x \in T : <<x, t>> \notin OpToRel(<, Nat)
  BY <1>1
<1>3. \A x \in T : ~(x < t)
  BY <1>2 DEF OpToRel
<1>4. QED
  BY <1>3

-------------------------------------------------------------------------------
(* Folds from the left.  FoldLeft is a function on the sets of places, chosen  *)
(* by its equation; there is one, it is unique, and so the fold of a longer    *)
(* sequence is one step more.  Kind says which of the steps below is folded.   *)

\* One more token for the states before it.
Grown(model, states, token) ==
  Append(states, [model |-> model, position |-> Len(states) + 1, token |-> token, attends |-> states])

\* One more token of the reference's pass: it completes the pair or is kept.
Glued(c, out, v) ==
  IF out # <<>> /\ <<Last(out), v>> = c.pair THEN Append(Front(out), c.token) ELSE Append(out, v)

\* One more position of the heap encoder's text.
Kept(e, out, i) == IF e.alive[i] THEN Append(out, e.values[i]) ELSE out

StepOf(kind, c, acc, x) ==
  CASE kind = "forward" -> Grown(c, acc, x)
    [] kind = "extend" -> Extend(c, acc, x)
    [] kind = "scan" -> ScanByte(acc, x)
    [] kind = "cut" -> Cut(acc, x)
    [] kind = "piece" -> Piece(acc, x)
    [] kind = "byte" -> FeedByte(acc, x)
    [] kind = "say" -> Say(acc, x)
    [] kind = "admit" -> Admit(acc, x)
    [] kind = "glue" -> Glued(c, acc, x)
    [] kind = "keep" -> Kept(c, acc, x)

Folds(g, kind, c, base, s, n) ==
  g = [u \in SUBSET (1..n) |-> IF u = {} THEN base
                               ELSE StepOf(kind, c, g[u \ {Max(u)}], s[Max(u)])]

FoldOf(kind, c, base, s) == (CHOOSE g : Folds(g, kind, c, base, s, Len(s)))[1..Len(s)]

LEMMA MaxOf ==
  ASSUME NEW n \in Nat, NEW u \in SUBSET (1..n), u # {}
  PROVE  Max(u) \in u /\ \A y \in u : Max(u) >= y
<1> DEFINE T == {n - y : y \in u}
<1>1. T \in SUBSET Nat /\ T # {}
  <2>1. \A y \in u : y \in 1..n /\ n - y \in Nat
    OBVIOUS
  <2>2. PICK y \in u : TRUE
    OBVIOUS
  <2>3. n - y \in T
    BY <2>2
  <2>4. \A x \in T : x \in Nat
    BY <2>1
  <2>5. QED
    BY <2>3, <2>4
<1> HIDE DEF T
<1>2. PICK t \in T : \A x \in T : t =< x
  BY <1>1, LeastExists
<1>3. PICK y \in u : t = n - y
  BY <1>2 DEF T
<1>4. \A z \in u : y >= z
  <2>1. SUFFICES ASSUME NEW z \in u PROVE y >= z
    OBVIOUS
  <2>2. t =< n - z
    BY <1>2 DEF T
  <2>3. y \in 1..n /\ z \in 1..n
    OBVIOUS
  <2>4. QED
    BY <1>3, <2>2, <2>3
<1>5. QED
  BY <1>4 DEF Max

LEMMA FoldGrows ==
  ASSUME NEW kind, NEW c, NEW base, NEW s, NEW n \in Nat, NEW g, Folds(g, kind, c, base, s, n)
  PROVE  \E h : /\ Folds(h, kind, c, base, s, n + 1)
                /\ h[1..(n + 1)] = StepOf(kind, c, g[1..n], s[n + 1])
<1> DEFINE h == [u \in SUBSET (1..(n + 1)) |->
                   IF n + 1 \in u THEN StepOf(kind, c, g[u \ {n + 1}], s[n + 1]) ELSE g[u]]
<1>1. ASSUME NEW u \in SUBSET (1..(n + 1))
      PROVE  h[u] = IF u = {} THEN base ELSE StepOf(kind, c, h[u \ {Max(u)}], s[Max(u)])
  <2>1. CASE n + 1 \in u
    <3> HIDE DEF h
    <3>0. n + 1 \in Nat /\ u \in SUBSET (1..(n + 1)) /\ u # {}
      BY <2>1
    <3>1. Max(u) \in u /\ \A y \in u : Max(u) >= y
      BY <3>0, MaxOf
    <3>2. Max(u) = n + 1
      <4>1. Max(u) \in 1..(n + 1) /\ Max(u) >= n + 1
        BY <2>1, <3>0, <3>1
      <4>2. QED
        BY <4>1
    <3> USE DEF h
    <3>3. u \ {n + 1} \in SUBSET (1..(n + 1)) /\ n + 1 \notin u \ {n + 1}
      OBVIOUS
    <3>4. h[u \ {n + 1}] = g[u \ {n + 1}]
      BY <3>3
    <3>5. h[u] = StepOf(kind, c, g[u \ {n + 1}], s[n + 1]) /\ u # {}
      BY <2>1
    <3> HIDE DEF h
    <3>6. QED
      BY <3>2, <3>4, <3>5
  <2>2. CASE n + 1 \notin u
    <3>1. u \in SUBSET (1..n)
      BY <2>2
    <3>2. h[u] = g[u] /\ h[u \ {Max(u)}] = g[u \ {Max(u)}]
      BY <2>2
    <3>3. g[u] = IF u = {} THEN base ELSE StepOf(kind, c, g[u \ {Max(u)}], s[Max(u)])
      BY <3>1 DEF Folds
    <3> HIDE DEF h
    <3>4. QED
      BY <3>2, <3>3
  <2>3. QED
    BY <2>1, <2>2
<1>2. h = [u \in SUBSET (1..(n + 1)) |-> h[u]]
  OBVIOUS
<1>3. h[1..(n + 1)] = StepOf(kind, c, g[1..n], s[n + 1])
  <2>1. n + 1 \in 1..(n + 1) /\ (1..(n + 1)) \ {n + 1} = 1..n /\ 1..(n + 1) \in SUBSET (1..(n + 1))
    OBVIOUS
  <2>2. QED
    BY <2>1
<1> HIDE DEF h
<1>4. Folds(h, kind, c, base, s, n + 1)
  BY <1>1, <1>2 DEF Folds
<1>5. QED
  BY <1>3, <1>4

LEMMA FoldExists ==
  ASSUME NEW kind, NEW c, NEW base, NEW s, NEW n \in Nat
  PROVE  \E g : Folds(g, kind, c, base, s, n)
<1> DEFINE There(k) == \E g : Folds(g, kind, c, base, s, k)
           T == {k \in Nat : ~There(k)}
<1>1. There(0)
  <2> DEFINE g == [u \in SUBSET (1..0) |-> base]
  <2>1. \A u \in SUBSET (1..0) : u = {}
    OBVIOUS
  <2>2. g = [u \in SUBSET (1..0) |-> IF u = {} THEN base
                                     ELSE StepOf(kind, c, g[u \ {Max(u)}], s[Max(u)])]
    BY <2>1
  <2> HIDE DEF g
  <2>3. Folds(g, kind, c, base, s, 0)
    BY <2>2 DEF Folds
  <2>4. QED
    BY <2>3
<1>2. ASSUME NEW k \in Nat, There(k) PROVE There(k + 1)
  BY <1>2, FoldGrows
<1> HIDE DEF There
<1>3. T = {}
  <2>1. SUFFICES ASSUME T # {} PROVE FALSE
    OBVIOUS
  <2>2. PICK k \in T : \A x \in T : k =< x
    <3>1. T \in SUBSET Nat
      OBVIOUS
    <3> HIDE DEF T
    <3>2. QED
      BY <2>1, <3>1, LeastExists
  <2>3. k \in Nat /\ ~There(k) /\ k # 0
    BY <1>1
  <2>4. k - 1 \in Nat /\ ~(k =< k - 1) /\ (k - 1) + 1 = k
    BY <2>3
  <2>5. There(k - 1)
    BY <2>2, <2>4
  <2>6. There((k - 1) + 1)
    BY <1>2, <2>4, <2>5
  <2>7. QED
    BY <2>3, <2>4, <2>6
<1>4. There(n)
  BY <1>3
<1>5. QED
  BY <1>4 DEF There

LEMMA FoldUnique ==
  ASSUME NEW kind, NEW c, NEW base, NEW s, NEW n \in Nat, NEW g, NEW h,
         Folds(g, kind, c, base, s, n), Folds(h, kind, c, base, s, n)
  PROVE  g[1..n] = h[1..n]
<1> DEFINE Same(k) == \A u \in SUBSET (1..k) : g[u] = h[u]
           T == {k \in 0..n : ~Same(k)}
<1>1. ASSUME NEW u \in SUBSET (1..n), u # {}, g[u \ {Max(u)}] = h[u \ {Max(u)}] PROVE g[u] = h[u]
  BY <1>1 DEF Folds
<1>2. g[{}] = h[{}]
  BY DEF Folds
<1>3. T = {}
  <2>1. SUFFICES ASSUME T # {} PROVE FALSE
    OBVIOUS
  <2>2. PICK k \in T : \A x \in T : k =< x
    <3>1. T \in SUBSET Nat
      OBVIOUS
    <3> HIDE DEF T
    <3>2. QED
      BY <2>1, <3>1, LeastExists
  <2>3. PICK u \in SUBSET (1..k) : g[u] # h[u]
    OBVIOUS
  <2>4. k \in 0..n /\ u # {} /\ u \in SUBSET (1..n)
    BY <1>2, <2>3
  <2>5. Max(u) \in u /\ \A y \in u : Max(u) >= y
    BY <2>4, MaxOf
  <2> DEFINE m == Max(u) - 1
  <2>6. m \in 0..n /\ m < k /\ u \ {Max(u)} \in SUBSET (1..m)
    <3>1. Max(u) \in 1..k
      BY <2>3, <2>5
    <3> HIDE DEF Same, T
    <3>2. m \in 0..n /\ m < k
      BY <2>4, <3>1
    <3>3. ASSUME NEW y \in u, y # Max(u) PROVE y \in 1..m
      <4>1. y \in 1..k /\ Max(u) >= y
        BY <2>3, <2>5
      <4>2. QED
        BY <2>4, <3>1, <3>3, <4>1
    <3>4. QED
      BY <3>2, <3>3
  <2>7. Same(m)
    BY <2>2, <2>6
  <2>8. g[u \ {Max(u)}] = h[u \ {Max(u)}]
    BY <2>6, <2>7
  <2>9. QED
    BY <1>1, <2>3, <2>4, <2>8
<1>4. Same(n)
  <2>1. n \in 0..n
    OBVIOUS
  <2> HIDE DEF Same
  <2>2. QED
    BY <1>3, <2>1
<1>5. QED
  BY <1>4

LEMMA FoldIs ==
  ASSUME NEW kind, NEW c, NEW base, NEW s, Len(s) \in Nat, NEW g, Folds(g, kind, c, base, s, Len(s))
  PROVE  FoldOf(kind, c, base, s) = g[1..Len(s)]
<1> DEFINE chosen == CHOOSE h : Folds(h, kind, c, base, s, Len(s))
<1>1. Folds(chosen, kind, c, base, s, Len(s))
  OBVIOUS
<1> HIDE DEF chosen
<1>2. chosen[1..Len(s)] = g[1..Len(s)]
  BY <1>1, FoldUnique
<1>3. QED
  BY <1>2 DEF FoldOf, chosen

LEMMA FoldNothing == ASSUME NEW kind, NEW c, NEW base PROVE FoldOf(kind, c, base, <<>>) = base
<1>1. PICK g : Folds(g, kind, c, base, <<>>, 0)
  BY FoldExists
<1>2. Len(<<>>) = 0 /\ 1..0 = {}
  OBVIOUS
<1>3. g[{}] = base
  BY <1>1 DEF Folds
<1>4. QED
  BY <1>1, <1>2, <1>3, FoldIs

LEMMA FoldAppend ==
  ASSUME NEW kind, NEW c, NEW base, NEW S, NEW s \in Seq(S), NEW x \in S
  PROVE  FoldOf(kind, c, base, Append(s, x)) = StepOf(kind, c, FoldOf(kind, c, base, s), x)
<1> DEFINE n == Len(s)
           t == Append(s, x)
<1>1. n \in Nat /\ Len(t) = n + 1 /\ t[n + 1] = x /\ \A i \in 1..n : t[i] = s[i]
  OBVIOUS
<1> HIDE DEF n, t
<1>2. PICK g : Folds(g, kind, c, base, t, n)
  BY <1>1, FoldExists
<1>3. Folds(g, kind, c, base, s, n)
  <2>1. ASSUME NEW u \in SUBSET (1..n), u # {} PROVE t[Max(u)] = s[Max(u)]
    BY <1>1, <2>1, MaxOf
  <2>2. [u \in SUBSET (1..n) |-> IF u = {} THEN base ELSE StepOf(kind, c, g[u \ {Max(u)}], t[Max(u)])]
        = [u \in SUBSET (1..n) |-> IF u = {} THEN base ELSE StepOf(kind, c, g[u \ {Max(u)}], s[Max(u)])]
    BY <2>1
  <2>3. QED
    BY <1>2, <2>2 DEF Folds
<1>4. PICK h : Folds(h, kind, c, base, t, n + 1) /\ h[1..(n + 1)] = StepOf(kind, c, g[1..n], t[n + 1])
  BY <1>1, <1>2, FoldGrows
<1>5. FoldOf(kind, c, base, t) = h[1..(n + 1)]
  BY <1>1, <1>4, FoldIs
<1>6. FoldOf(kind, c, base, s) = g[1..n]
  BY <1>1, <1>3, FoldIs DEF n
<1>7. QED
  BY <1>1, <1>4, <1>5, <1>6 DEF t

LEMMA ForwardIsFold ==
  ASSUME NEW model, NEW prefix, NEW s, Len(s) \in Nat, DOMAIN s = 1..Len(s)
  PROVE  Forward(model, prefix, s) = FoldOf("forward", model, prefix, s)
<1> DEFINE S == DOMAIN s
           P(g) == g = [u \in SUBSET S |-> IF u = {} THEN prefix
                          ELSE Append(g[u \ {Max(u)}],
                                 [model |-> model, position |-> Len(g[u \ {Max(u)}]) + 1,
                                  token |-> s[Max(u)], attends |-> g[u \ {Max(u)}]])]
<1>1. ASSUME NEW g PROVE Folds(g, "forward", model, prefix, s, Len(s)) <=> P(g)
  BY DEF Folds, StepOf, Grown
<1>2. PICK h : P(h)
  <2>1. PICK h : Folds(h, "forward", model, prefix, s, Len(s))
    BY FoldExists
  <2>2. P(h)
    BY <1>1, <2>1
  <2> HIDE DEF P
  <2>3. QED
    BY <2>2
<1>3. P(CHOOSE g : P(g))
  <2> HIDE DEF P
  <2>1. QED
    BY <1>2, Zenon
<1>4. (CHOOSE g : P(g))[S] = FoldOf("forward", model, prefix, s)
  <2> DEFINE chosen == CHOOSE g : P(g)
  <2>1. P(chosen)
    BY <1>3
  <2> HIDE DEF chosen, P
  <2>2. Folds(chosen, "forward", model, prefix, s, Len(s))
    BY <1>1, <2>1
  <2>3. QED
    BY <2>2, FoldIs DEF chosen
<1>5. Forward(model, prefix, s) = (CHOOSE g : P(g))[S]
  BY Zenon DEF Forward, FoldLeft, MapThenFoldSet
<1>6. QED
  BY <1>4, <1>5

LEMMA ExtendedIsFold ==
  ASSUME NEW model, NEW r, NEW s, Len(s) \in Nat, DOMAIN s = 1..Len(s)
  PROVE  Extended(model, r, s)
           = FoldOf("extend", model, [tokens |-> cache.tokens[r], states |-> cache.states[r],
                                      outputs |-> <<>>], s)
<1> DEFINE S == DOMAIN s
           base == [tokens |-> cache.tokens[r], states |-> cache.states[r], outputs |-> <<>>]
           P(g) == g = [u \in SUBSET S |-> IF u = {} THEN base
                          ELSE Extend(model, g[u \ {Max(u)}], s[Max(u)])]
<1>1. ASSUME NEW g PROVE Folds(g, "extend", model, base, s, Len(s)) <=> P(g)
  BY DEF Folds, StepOf
<1>2. PICK h : P(h)
  <2>1. PICK h : Folds(h, "extend", model, base, s, Len(s))
    BY FoldExists
  <2>2. P(h)
    BY <1>1, <2>1
  <2> HIDE DEF P
  <2>3. QED
    BY <2>2
<1>3. P(CHOOSE g : P(g))
  <2> HIDE DEF P
  <2>1. QED
    BY <1>2, Zenon
<1>4. (CHOOSE g : P(g))[S] = FoldOf("extend", model, base, s)
  <2> DEFINE chosen == CHOOSE g : P(g)
  <2>1. P(chosen)
    BY <1>3
  <2> HIDE DEF chosen, P
  <2>2. Folds(chosen, "extend", model, base, s, Len(s))
    BY <1>1, <2>1
  <2>3. QED
    BY <2>2, FoldIs DEF chosen
<1>5. Extended(model, r, s) = (CHOOSE g : P(g))[S]
  BY Zenon DEF Extended, FoldLeft, MapThenFoldSet
<1>6. QED
  BY <1>4, <1>5

-------------------------------------------------------------------------------
(* Windows, and the states of their tokens                                    *)

LEMMA FullAppend ==
  ASSUME NEW model, NEW v \in Seq(Alphabet), NEW x \in Alphabet
  PROVE  Full(model, Append(v, x)) = Grown(model, Full(model, v), x)
<1>1. /\ Len(v) \in Nat /\ DOMAIN v = 1..Len(v)
      /\ Len(Append(v, x)) \in Nat /\ DOMAIN Append(v, x) = 1..Len(Append(v, x))
  OBVIOUS
<1>2. /\ Full(model, v) = FoldOf("forward", model, <<>>, v)
      /\ Full(model, Append(v, x)) = FoldOf("forward", model, <<>>, Append(v, x))
  BY <1>1, ForwardIsFold DEF Full
<1>3. FoldOf("forward", model, <<>>, Append(v, x))
        = StepOf("forward", model, FoldOf("forward", model, <<>>, v), x)
  BY FoldAppend
<1>4. QED
  BY <1>2, <1>3 DEF StepOf

LEMMA ForwardOne ==
  ASSUME NEW model, NEW states, NEW x
  PROVE  Forward(model, states, <<x>>) = Grown(model, states, x)
<1>1. <<x>> = Append(<<>>, x) /\ Len(<<x>>) \in Nat /\ DOMAIN <<x>> = 1..Len(<<x>>)
  OBVIOUS
<1>2. PICK S : <<>> \in Seq(S) /\ x \in S
  <2>1. <<>> \in Seq({x}) /\ x \in {x}
    OBVIOUS
  <2>2. QED
    BY <2>1
<1>3. FoldOf("forward", model, states, Append(<<>>, x))
        = StepOf("forward", model, FoldOf("forward", model, states, <<>>), x)
  <2> DEFINE nothing == <<>>
  <2> HIDE DEF nothing
  <2>1. nothing \in Seq(S)
    BY <1>2 DEF nothing
  <2>2. FoldOf("forward", model, states, Append(nothing, x))
          = StepOf("forward", model, FoldOf("forward", model, states, nothing), x)
    BY <1>2, <2>1, FoldAppend
  <2>3. QED
    BY <2>2 DEF nothing
<1>4. FoldOf("forward", model, states, <<>>) = states
  BY FoldNothing
<1>5. Forward(model, states, <<x>>) = FoldOf("forward", model, states, <<x>>)
  BY <1>1, ForwardIsFold
<1>6. QED
  BY <1>1, <1>3, <1>4, <1>5 DEF StepOf

Texts == Seq(Alphabet) \ {<<>>}

LEMMA TextSize == ASSUME NEW v \in Texts PROVE Len(v) \in Nat \ {0}
  BY EmptySeq DEF Texts

LEMMA TextsJoin ==
  ASSUME NEW v \in Texts, NEW s \in Seq(Alphabet)
  PROVE  v \o s \in Texts /\ Len(v \o s) = Len(v) + Len(s) /\ Len(v) \in Nat \ {0} /\ Len(s) \in Nat
<1> DEFINE w == v \o s
<1>1. w \in Seq(Alphabet) /\ Len(w) = Len(v) + Len(s)
  BY ConcatProperties DEF Texts
<1>2. Len(v) \in Nat \ {0} /\ Len(s) \in Nat
  BY TextSize
<1> HIDE DEF w
<1>3. Len(w) # 0
  BY <1>1, <1>2
<1>4. w # <<>>
  BY <1>3
<1>5. QED
  BY <1>1, <1>2, <1>4 DEF w, Texts

LEMMA JoinedAppend ==
  ASSUME NEW v \in Texts, NEW s \in Seq(Alphabet), NEW x \in Alphabet
  PROVE  Append(v \o s, x) = v \o Append(s, x)
<1>1. v \in Seq(Alphabet) /\ <<x>> \in Seq(Alphabet) /\ v \o s \in Seq(Alphabet)
  BY ConcatProperties DEF Texts
<1>2. Append(v \o s, x) = (v \o s) \o <<x>> /\ Append(s, x) = s \o <<x>>
  BY <1>1, AppendIsConcat
<1>3. (v \o s) \o <<x>> = v \o (s \o <<x>>)
  BY <1>1, ConcatAssociative
<1>4. QED
  BY <1>2, <1>3

LEMMA CroppedIsText ==
  ASSUME CacheAssumption, NEW v \in Texts
  PROVE  /\ Cropped(v) \in Texts /\ Len(Cropped(v)) =< BlockSize
         /\ Cropped(Cropped(v)) = Cropped(v)
<1>1. BlockSize \in Nat \ {0} /\ v \in Seq(Alphabet) /\ Len(v) \in Nat \ {0}
  <2>1. \A t \in Seq(Alphabet) : Len(t) = 0 => t = <<>>
    OBVIOUS
  <2>2. QED
    BY <2>1 DEF CacheAssumption, Texts
<1>2. CASE Len(v) =< BlockSize
  BY <1>2 DEF Cropped
<1>3. CASE Len(v) > BlockSize
  <2>1. Cropped(v) = SubSeq(v, Len(v) - BlockSize + 1, Len(v))
    BY <1>1, <1>3 DEF Cropped, Window
  <2>2. \A i \in (Len(v) - BlockSize + 1)..Len(v) : v[i] \in Alphabet
    BY <1>1, <1>3
  <2>3. Cropped(v) \in Seq(Alphabet) /\ Len(Cropped(v)) = BlockSize
    <3>1. Len(v) - BlockSize + 1 \in 1..Len(v)
      BY <1>1, <1>3
    <3>2. QED
      BY <1>1, <2>1, <3>1, SubSeqProperties
  <2>4. QED
    BY <1>1, <2>3 DEF Texts, Cropped
<1>4. QED
  BY <1>1, <1>2, <1>3

\* Cropping as one goes is cropping at the end.
LEMMA CroppedAppend ==
  ASSUME CacheAssumption, NEW v \in Texts, NEW x \in Alphabet
  PROVE  Cropped(Append(Cropped(v), x)) = Cropped(Append(v, x))
<1> DEFINE b == BlockSize
           n == Len(v)
<1>1. b \in Nat \ {0} /\ v \in Seq(Alphabet) /\ n \in Nat
  BY DEF CacheAssumption, Texts
<1>2. CASE n =< b
  BY <1>2 DEF Cropped
<1>3. CASE n > b
  <2> DEFINE w == Cropped(v)
             long == Append(v, x)
             short == Append(w, x)
  <2>1. w = SubSeq(v, n - b + 1, n)
    BY <1>1, <1>3 DEF Cropped, Window
  <2>2. w \in Seq(Alphabet) /\ Len(w) = b /\ \A i \in 1..b : w[i] = v[n - b + i]
    <3>1. n - b + 1 \in 1..n
      BY <1>1, <1>3
    <3>2. QED
      BY <1>1, <2>1, <3>1, SubSeqProperties
  <2> HIDE DEF w
  <2>3. /\ short \in Seq(Alphabet) /\ Len(short) = b + 1 /\ short[b + 1] = x
        /\ \A i \in 1..b : short[i] = w[i]
    BY <1>1, <2>2
  <2>4. /\ long \in Seq(Alphabet) /\ Len(long) = n + 1 /\ long[n + 1] = x
        /\ \A i \in 1..n : long[i] = v[i]
    BY <1>1
  <2> HIDE DEF short, long, n, b
  <2>5. Cropped(short) = SubSeq(short, 2, b + 1)
    BY <1>1, <2>3 DEF Cropped, Window, b
  <2>6. Cropped(long) = SubSeq(long, n - b + 2, n + 1)
    BY <1>1, <1>3, <2>4 DEF Cropped, Window, b
  <2>7. SubSeq(short, 2, b + 1) = [i \in 1..b |-> short[i + 1]]
    BY <1>1, <2>3
  <2>8. SubSeq(long, n - b + 2, n + 1) = [i \in 1..b |-> long[n - b + 1 + i]]
    BY <1>1, <1>3, <2>4
  <2>9. ASSUME NEW i \in 1..b PROVE short[i + 1] = long[n - b + 1 + i]
    <3>1. CASE i = b
      BY <1>1, <2>3, <2>4, <3>1
    <3>2. CASE i # b
      <4>1. i + 1 \in 1..b /\ n - b + 1 + i \in 1..n /\ n - b + (i + 1) = n - b + 1 + i
        BY <1>1, <1>3, <3>2
      <4>2. QED
        BY <2>2, <2>3, <2>4, <4>1
    <3>3. QED
      BY <3>1, <3>2
  <2>10. QED
    BY <2>5, <2>6, <2>7, <2>8, <2>9 DEF short, long, w
<1>4. QED
  BY <1>1, <1>2, <1>3

\* The states that the last k logits of a text were made of.
Said(model, v, k) ==
  [j \in 1..k |-> Last(Full(model, Cropped(SubSeq(v, 1, Len(v) - (k - j)))))]

LEMMA SaidNothing == ASSUME NEW model, NEW v PROVE Said(model, v, 0) = <<>>
<1>1. 1..0 = {}
  OBVIOUS
<1>2. QED
  BY <1>1 DEF Said

LEMMA SaidAppend ==
  ASSUME NEW model, NEW v \in Texts, NEW x \in Alphabet, NEW k \in 0..Len(v)
  PROVE  Append(Said(model, v, k), Last(Full(model, Cropped(Append(v, x)))))
           = Said(model, Append(v, x), k + 1)
<1> DEFINE long == Append(v, x)
           at(u) == Last(Full(model, Cropped(u)))
           S == {at(SubSeq(v, 1, Len(v) - (k - j))) : j \in 1..k} \cup {at(long)}
           said == Said(model, v, k)
<1>1. v \in Seq(Alphabet) /\ Len(v) \in Nat /\ k \in Nat /\ k =< Len(v)
  BY DEF Texts
<1>2. Len(long) = Len(v) + 1 /\ long \in Seq(Alphabet) /\ \A i \in 1..Len(v) : long[i] = v[i]
  BY <1>1
<1>3. said = [j \in 1..k |-> at(SubSeq(v, 1, Len(v) - (k - j)))]
  BY DEF Said
<1>4. ASSUME NEW j \in 1..k
      PROVE  SubSeq(v, 1, Len(v) - (k - j)) = SubSeq(long, 1, Len(long) - ((k + 1) - j))
  <2> DEFINE m == Len(v) - (k - j)
  <2>1. m \in 1..Len(v) /\ Len(long) - ((k + 1) - j) = m
    BY <1>1, <1>2
  <2> HIDE DEF m, long
  <2>2. SubSeq(v, 1, m) = SubSeq(long, 1, m)
    BY <1>1, <1>2, <2>1
  <2>3. QED
    BY <2>1, <2>2 DEF m
<1>5. SubSeq(long, 1, Len(long) - ((k + 1) - (k + 1))) = long
  <2> HIDE DEF long
  <2>1. Len(long) - ((k + 1) - (k + 1)) = Len(long) /\ Len(long) \in Nat
    BY <1>1, <1>2
  <2>2. QED
    BY <1>2, <2>1
<1> HIDE DEF long, at, said
<1>6. said \in Seq(S) /\ Len(said) = k /\ at(long) \in S
  <2>1. said \in [1..k -> S]
    BY <1>3
  <2> HIDE DEF S
  <2>2. said \in Seq(S) /\ Len(said) = k
    BY <1>1, <2>1
  <2>3. at(long) \in S
    BY DEF S
  <2>4. QED
    BY <2>2, <2>3
<1> HIDE DEF S
<1>7. Append(said, at(long)) = [j \in 1..(k + 1) |-> IF j = k + 1 THEN at(long) ELSE said[j]]
  <2> DEFINE q == Append(said, at(long))
  <2>1. /\ q \in Seq(S) /\ Len(q) = k + 1 /\ q[k + 1] = at(long)
        /\ \A j \in 1..k : q[j] = said[j]
    BY <1>1, <1>6, AppendProperties
  <2> HIDE DEF q
  <2>2. q = [j \in 1..(k + 1) |-> q[j]]
    BY <2>1
  <2>3. ASSUME NEW j \in 1..(k + 1) PROVE q[j] = IF j = k + 1 THEN at(long) ELSE said[j]
    BY <1>1, <2>1
  <2>4. QED
    BY <2>2, <2>3 DEF q
<1>8. Said(model, long, k + 1) = [j \in 1..(k + 1) |-> at(SubSeq(long, 1, Len(long) - ((k + 1) - j)))]
  BY DEF Said, at
<1>9. ASSUME NEW j \in 1..(k + 1)
      PROVE  at(SubSeq(long, 1, Len(long) - ((k + 1) - j))) = IF j = k + 1 THEN at(long) ELSE said[j]
  <2>1. CASE j = k + 1
    BY <1>5, <2>1
  <2>2. CASE j # k + 1
    <3>1. j \in 1..k
      BY <1>1, <2>2
    <3>2. said[j] = at(SubSeq(v, 1, Len(v) - (k - j)))
      BY <1>3, <3>1
    <3>3. SubSeq(v, 1, Len(v) - (k - j)) = SubSeq(long, 1, Len(long) - ((k + 1) - j))
      BY <1>4, <3>1
    <3>4. QED
      BY <2>2, <3>2, <3>3
  <2>3. QED
    BY <2>1, <2>2
<1>10. QED
  BY <1>7, <1>8, <1>9 DEF long, at, said

-------------------------------------------------------------------------------
(* Decoding a chunk                                                           *)

\* The row of a text whose last k tokens were decoded.
RowOf(model, v, k) ==
  [tokens |-> Cropped(v), states |-> Full(model, Cropped(v)), outputs |-> Said(model, v, k)]

LEMMA ExtendRow ==
  ASSUME CacheAssumption, NEW model, NEW v \in Texts, NEW k \in 0..Len(v), NEW x \in Alphabet
  PROVE  Extend(model, RowOf(model, v, k), x) = RowOf(model, Append(v, x), k + 1)
<1> DEFINE row == RowOf(model, v, k)
           longer == Append(Cropped(v), x)
           states == IF Len(longer) =< BlockSize
                     THEN Forward(model, row.states, <<x>>) ELSE Full(model, Cropped(longer))
<1>1. Cropped(v) \in Seq(Alphabet)
  BY CroppedIsText DEF Texts
<1>2. Cropped(longer) = Cropped(Append(v, x))
  BY CroppedAppend
<1>3. states = Full(model, Cropped(longer))
  <2>1. CASE Len(longer) =< BlockSize
    <3>1. states = Grown(model, Full(model, Cropped(v)), x)
      BY <2>1, ForwardOne DEF RowOf
    <3>2. Full(model, longer) = Grown(model, Full(model, Cropped(v)), x)
      BY <1>1, FullAppend
    <3>3. Cropped(longer) = longer
      BY <2>1 DEF Cropped
    <3>4. QED
      BY <3>1, <3>2, <3>3
  <2>2. CASE ~(Len(longer) =< BlockSize)
    BY <2>2
  <2>3. QED
    BY <2>1, <2>2
<1>4. Extend(model, row, x)
        = [tokens |-> Cropped(longer), states |-> states, outputs |-> Append(row.outputs, Last(states))]
  BY DEF Extend, RowOf
<1>5. row.outputs = Said(model, v, k)
  BY DEF RowOf
<1> HIDE DEF row, longer, states
<1>6. Append(row.outputs, Last(states)) = Said(model, Append(v, x), k + 1)
  BY <1>2, <1>3, <1>5, SaidAppend
<1>7. QED
  BY <1>2, <1>3, <1>4, <1>6 DEF row, RowOf

LEMMA FoldRow ==
  ASSUME CacheAssumption, NEW model, NEW v \in Texts, NEW chunk \in Seq(Alphabet)
  PROVE  FoldOf("extend", model, RowOf(model, v, 0), chunk)
           = RowOf(model, v \o chunk, Len(chunk))
<1> DEFINE base == RowOf(model, v, 0)
           Good(k) == \A s \in Seq(Alphabet) :
             Len(s) = k => FoldOf("extend", model, base, s) = RowOf(model, v \o s, k)
           T == {k \in Nat : ~Good(k)}
<1>1. v \in Seq(Alphabet) /\ v # <<>>
  BY DEF Texts
<1>2. Good(0)
  <2>1. SUFFICES ASSUME NEW s \in Seq(Alphabet), Len(s) = 0
                 PROVE  FoldOf("extend", model, base, s) = RowOf(model, v \o s, 0)
    OBVIOUS
  <2> HIDE DEF base
  <2>2. s = <<>> /\ v \o s = v
    BY <1>1, <2>1
  <2>3. FoldOf("extend", model, base, <<>>) = base
    BY FoldNothing
  <2>4. QED
    BY <2>2, <2>3 DEF base
<1>3. ASSUME NEW k \in Nat, Good(k) PROVE Good(k + 1)
  <2>1. SUFFICES ASSUME NEW s \in Seq(Alphabet), Len(s) = k + 1
                 PROVE  FoldOf("extend", model, base, s) = RowOf(model, v \o s, k + 1)
    OBVIOUS
  <2> DEFINE front == SubSeq(s, 1, k)
             x == s[k + 1]
             w == v \o front
  <2>2. front \in Seq(Alphabet) /\ Len(front) = k /\ x \in Alphabet
    BY <2>1
  <2>3. s = Append(front, x)
    BY <2>1
  <2>4. FoldOf("extend", model, base, front) = RowOf(model, w, k)
    <3> HIDE DEF base, front, x
    <3>1. QED
      BY <1>3, <2>2
  <2> HIDE DEF base, front, x, Good, T
  <2>5. w \in Texts /\ k \in 0..Len(w) /\ Append(w, x) = v \o s
    <3>1. v \o front \in Texts /\ Len(v \o front) = Len(v) + k /\ Len(v) \in Nat \ {0}
      BY <2>2, TextsJoin
    <3>2. Append(v \o front, x) = v \o Append(front, x)
      BY <2>2, JoinedAppend
    <3>3. w \in Texts /\ Append(w, x) = v \o s /\ Len(w) = Len(v) + k
      BY <2>3, <3>1, <3>2
    <3> HIDE DEF w
    <3>4. QED
      BY <3>1, <3>3
  <2> HIDE DEF w
  <2>6. FoldOf("extend", model, base, Append(front, x))
          = StepOf("extend", model, FoldOf("extend", model, base, front), x)
    BY <2>2, FoldAppend
  <2>7. StepOf("extend", model, RowOf(model, w, k), x) = RowOf(model, Append(w, x), k + 1)
    BY <2>2, <2>5, ExtendRow DEF StepOf
  <2>8. QED
    BY <2>3, <2>4, <2>5, <2>6, <2>7
<1> HIDE DEF Good
<1>4. T = {}
  <2>1. SUFFICES ASSUME T # {} PROVE FALSE
    OBVIOUS
  <2>2. PICK k \in T : \A x \in T : k =< x
    <3>1. T \in SUBSET Nat
      OBVIOUS
    <3> HIDE DEF T
    <3>2. QED
      BY <2>1, <3>1, LeastExists
  <2>3. k \in Nat /\ ~Good(k) /\ k # 0
    BY <1>2
  <2>4. k - 1 \in Nat /\ ~(k =< k - 1) /\ (k - 1) + 1 = k
    BY <2>3
  <2>5. Good(k - 1)
    BY <2>2, <2>4
  <2>6. Good((k - 1) + 1)
    BY <1>3, <2>4, <2>5
  <2>7. QED
    BY <2>3, <2>4, <2>6
<1>5. Len(chunk) \in Nat /\ Good(Len(chunk))
  BY <1>4
<1>6. QED
  BY <1>5 DEF Good

\* A chunk decoded from an exact row leaves an exact row, and exact logits.
LEMMA ExtendedRow ==
  ASSUME CacheAssumption, NEW model, NEW r, NEW v \in Texts, NEW chunk \in Seq(Alphabet),
         cache.tokens[r] = Cropped(v), cache.states[r] = Full(model, Cropped(v))
  PROVE  Extended(model, r, chunk) = RowOf(model, v \o chunk, Len(chunk))
<1>1. Len(chunk) \in Nat /\ DOMAIN chunk = 1..Len(chunk)
  OBVIOUS
<1>2. Said(model, v, 0) = <<>>
  BY SaidNothing
<1>3. Extended(model, r, chunk)
        = FoldOf("extend", model, [tokens |-> cache.tokens[r], states |-> cache.states[r],
                                   outputs |-> <<>>], chunk)
  BY <1>1, ExtendedIsFold
<1>4. [tokens |-> cache.tokens[r], states |-> cache.states[r], outputs |-> <<>>] = RowOf(model, v, 0)
  BY <1>2 DEF RowOf
<1>5. QED
  BY <1>3, <1>4, FoldRow

-------------------------------------------------------------------------------
(* The invariant: a cache, and a saved one, is what a pass over the windows of *)
(* its texts would compute; so are the logits of the tokens decoded last.      *)

\* The cache of a batch of texts.
Holds(c, texts) == c = Prefilled(c.model, [r \in DOMAIN texts |-> Cropped(texts[r])])

Batches == UNION {[1..n -> Texts] : n \in Nat \ {0}}

CacheHolds ==
  Present(cache) =>
    /\ text \in Batches /\ Holds(cache, text)
    /\ \E counts \in [DOMAIN text -> Nat] : \A r \in DOMAIN text :
         counts[r] =< Len(text[r]) /\ outputs[r] = Said(cache.model, text[r], counts[r])
SnapshotHolds == Present(snapshot) => \E texts \in Batches : Holds(snapshot, texts)
CacheInv == CacheHolds /\ SnapshotHolds

LEMMA NoneDecoded ==
  ASSUME NEW texts \in Batches
  PROVE  \E counts \in [DOMAIN texts -> Nat] : \A r \in DOMAIN texts :
           counts[r] = 0 /\ counts[r] =< Len(texts[r])
<1> DEFINE counts == [r \in DOMAIN texts |-> 0]
<1>1. counts \in [DOMAIN texts -> Nat] /\ \A r \in DOMAIN texts : counts[r] = 0
  OBVIOUS
<1> HIDE DEF counts
<1>2. ASSUME NEW r \in DOMAIN texts PROVE 0 =< Len(texts[r])
  <2>1. texts[r] \in Texts
    BY DEF Batches
  <2>2. QED
    BY <2>1, TextSize
<1>3. QED
  BY <1>1, <1>2

LEMMA HoldsMeans ==
  ASSUME NEW c, NEW texts \in Batches, Holds(c, texts)
  PROVE  /\ DOMAIN c.tokens = DOMAIN texts /\ DOMAIN c.states = DOMAIN texts
         /\ \A r \in DOMAIN texts : /\ texts[r] \in Texts
                                    /\ c.tokens[r] = Cropped(texts[r])
                                    /\ c.states[r] = Full(c.model, Cropped(texts[r]))
<1> DEFINE rows == [r \in DOMAIN texts |-> Cropped(texts[r])]
<1>1. /\ c.tokens = rows
      /\ c.states = [r \in DOMAIN rows |-> Full(c.model, rows[r])]
  <2> DEFINE m == c.model
  <2> HIDE DEF m
  <2>1. c = [model |-> m, tokens |-> rows, states |-> [r \in DOMAIN rows |-> Full(m, rows[r])]]
    BY DEF Holds, Prefilled, m
  <2> HIDE DEF rows
  <2>2. c.tokens = rows /\ c.states = [r \in DOMAIN rows |-> Full(m, rows[r])]
    BY <2>1
  <2>3. QED
    BY <2>2 DEF m
<1>2. \A r \in DOMAIN texts : texts[r] \in Texts
  BY DEF Batches
<1>3. QED
  BY <1>1, <1>2

LEMMA InvIsExact == ASSUME CacheInv PROVE CacheIsExact
<1> SUFFICES ASSUME Present(cache), NEW r \in Rows
             PROVE  /\ cache.tokens[r] = Cropped(text[r])
                    /\ cache.states[r] = Full(cache.model, cache.tokens[r])
                    /\ \A j \in DOMAIN outputs[r] :
                         LET behind == Len(outputs[r]) - j
                             seen == SubSeq(text[r], 1, Len(text[r]) - behind)
                         IN outputs[r][j] = Last(Full(cache.model, Cropped(seen)))
  BY DEF CacheIsExact
<1>1. text \in Batches /\ Holds(cache, text)
  BY DEF CacheInv, CacheHolds
<1>2. r \in DOMAIN text
  BY <1>1, HoldsMeans DEF Rows
<1>3. cache.tokens[r] = Cropped(text[r]) /\ cache.states[r] = Full(cache.model, cache.tokens[r])
  BY <1>1, <1>2, HoldsMeans
<1>4. PICK k \in Nat : outputs[r] = Said(cache.model, text[r], k)
  BY <1>2 DEF CacheInv, CacheHolds
<1>5. DOMAIN outputs[r] = 1..k /\ Len(outputs[r]) = k
  <2> DEFINE said == outputs[r]
             at(j) == Last(Full(cache.model, Cropped(SubSeq(text[r], 1, Len(text[r]) - (k - j)))))
  <2>1. said = [j \in 1..k |-> at(j)]
    BY <1>4 DEF Said
  <2> DEFINE S == {at(j) : j \in 1..k}
  <2>2. said \in [1..k -> S]
    BY <2>1
  <2> HIDE DEF said, at, S
  <2>3. said \in Seq(S)
    BY <2>2
  <2>4. DOMAIN said = 1..k /\ DOMAIN said = 1..Len(said) /\ Len(said) \in Nat
    BY <2>2, <2>3, LenProperties
  <2>5. Len(said) = k
    BY <2>4
  <2>6. QED
    BY <2>4, <2>5 DEF said
<1>6. \A j \in 1..k : outputs[r][j] = Last(Full(cache.model, Cropped(SubSeq(text[r], 1, Len(text[r]) - (k - j)))))
  BY <1>4 DEF Said
<1>7. QED
  BY <1>3, <1>5, <1>6

-------------------------------------------------------------------------------
(* Every operation keeps it                                                   *)

LEMMA CacheInitInv == CacheInit => CacheInv
  BY DEF CacheInit, CacheInv, CacheHolds, SnapshotHolds, Present, NoCache

\* The batches a test feeds are texts.
LEMMA FedTexts ==
  ASSUME NEW rows \in Nat \ {0}, NEW sizes, sizes \subseteq Nat \ {0}, NEW batch \in BatchesOf(rows, sizes)
  PROVE  batch \in [1..rows -> Texts]
<1>1. PICK n \in sizes : batch \in [1..rows -> [1..n -> Alphabet]]
  BY DEF BatchesOf
<1>2. [1..n -> Alphabet] \subseteq Texts
  <2>1. n \in Nat \ {0}
    BY <1>1
  <2>2. ASSUME NEW v \in [1..n -> Alphabet] PROVE v \in Texts
    <3>1. v \in Seq(Alphabet) /\ Len(v) = n
      BY <2>1
    <3>2. v # <<>>
      BY <2>1, <3>1
    <3>3. QED
      BY <3>1, <3>2 DEF Texts
  <2>3. QED
    BY <2>2
<1>3. QED
  BY <1>1, <1>2

LEMMA PrefillInv ==
  ASSUME CacheAssumption, CacheInv, NEW n \in 1..MaxRows, NEW rows \in BatchesOf(n, 1..(BlockSize + 1)), Prefill(rows)
  PROVE  CacheInv'
<1>1. n \in Nat \ {0} /\ 1..(BlockSize + 1) \subseteq Nat \ {0}
  BY DEF CacheAssumption
<1>2. rows \in [1..n -> Texts]
  BY <1>1, FedTexts
<1>3. rows \in Batches /\ DOMAIN rows = 1..n
  BY <1>1, <1>2 DEF Batches
<1>4. /\ text' = rows
      /\ cache' = Prefilled(weights, [r \in DOMAIN rows |-> Cropped(rows[r])])
      /\ outputs' = [r \in DOMAIN rows |-> <<Last(cache'.states[r])>>]
      /\ UNCHANGED <<weights, snapshot>>
  BY DEF Prefill
<1>5. cache'.model = weights /\ Holds(cache', rows)
  <2>1. cache'.model = weights
    BY <1>4 DEF Prefilled
  <2>2. QED
    BY <1>4, <2>1 DEF Holds
<1>6. ASSUME NEW r \in DOMAIN rows PROVE 1 =< Len(rows[r]) /\ outputs'[r] = Said(weights, rows[r], 1)
  <2>1. rows[r] \in Texts /\ cache'.states[r] = Full(weights, Cropped(rows[r]))
    BY <1>3, <1>5, <1>6, HoldsMeans
  <2>2. outputs'[r] = <<Last(Full(weights, Cropped(rows[r])))>>
    BY <1>4, <2>1
  <2>3. Len(rows[r]) \in Nat \ {0} /\ rows[r] \in Seq(Alphabet)
    BY <2>1, TextSize DEF Texts
  <2>4. SubSeq(rows[r], 1, Len(rows[r]) - (1 - 1)) = rows[r]
    <3> DEFINE v == rows[r]
    <3> HIDE DEF v
    <3>1. Len(v) - (1 - 1) = Len(v) /\ v \in Seq(Alphabet)
      BY <2>3 DEF v
    <3>2. SubSeq(v, 1, Len(v)) = v
      BY <3>1, SubSeqFull
    <3>3. QED
      BY <3>1, <3>2 DEF v
  <2>5. Said(weights, rows[r], 1) = <<Last(Full(weights, Cropped(rows[r])))>>
    <3> DEFINE at(j) == Last(Full(weights, Cropped(SubSeq(rows[r], 1, Len(rows[r]) - (1 - j)))))
    <3>1. at(1) = Last(Full(weights, Cropped(rows[r])))
      BY <2>4
    <3>2. Said(weights, rows[r], 1) = [j \in 1..1 |-> at(j)]
      BY DEF Said
    <3> HIDE DEF at
    <3>3. [j \in 1..1 |-> at(j)] = <<at(1)>>
      OBVIOUS
    <3>4. QED
      BY <3>1, <3>2, <3>3
  <2>6. QED
    BY <2>2, <2>3, <2>5
<1>7. CacheHolds'
  <2> DEFINE counts == [r \in DOMAIN rows |-> 1]
  <2>1. counts \in [DOMAIN rows -> Nat] /\ \A r \in DOMAIN rows : counts[r] = 1
    OBVIOUS
  <2> HIDE DEF counts
  <2>2. QED
    BY <1>3, <1>4, <1>5, <1>6, <2>1 DEF CacheHolds
<1>8. SnapshotHolds'
  BY <1>4 DEF CacheInv, SnapshotHolds, Present
<1>9. QED
  BY <1>7, <1>8 DEF CacheInv

LEMMA DecodeInv ==
  ASSUME CacheAssumption, CacheInv, Present(cache),
         NEW chunks \in BatchesOf(Len(cache.tokens), 1..MaxChunk), Decode(chunks)
  PROVE  CacheInv'
<1> DEFINE m == cache.model
           done == [r \in Rows |-> Extended(weights, r, chunks[r])]
           longer == [r \in Rows |-> text[r] \o chunks[r]]
<1>1. text \in Batches /\ Holds(cache, text) /\ m = weights
  BY DEF CacheInv, CacheHolds, Decode, Bound
<1>2. /\ Rows = DOMAIN text /\ DOMAIN cache.tokens = DOMAIN text
      /\ \A r \in DOMAIN text : /\ text[r] \in Texts
                                /\ cache.tokens[r] = Cropped(text[r])
                                /\ cache.states[r] = Full(m, Cropped(text[r]))
  BY <1>1, HoldsMeans DEF Rows
<1>3. PICK n \in Nat \ {0} : text \in [1..n -> Texts]
  BY <1>1 DEF Batches
<1>4. Rows = 1..n /\ Len(cache.tokens) = n
  <2>1. cache.tokens = [r \in 1..n |-> Cropped(text[r])]
    <3>1. cache = Prefilled(m, [r \in DOMAIN text |-> Cropped(text[r])])
      BY <1>1 DEF Holds
    <3> HIDE DEF m
    <3>2. cache.tokens = [r \in DOMAIN text |-> Cropped(text[r])]
      BY <3>1 DEF Prefilled
    <3>3. QED
      BY <1>3, <3>2
  <2>2. cache.tokens \in [1..n -> Texts]
    BY <1>3, <2>1, CroppedIsText
  <2>3. cache.tokens \in Seq(Texts) /\ DOMAIN cache.tokens = 1..n
    BY <1>3, <2>2
  <2>4. QED
    BY <1>3, <2>3, LenProperties DEF Rows
<1>5. chunks \in [1..n -> Texts]
  <2>1. 1..MaxChunk \subseteq Nat \ {0}
    OBVIOUS
  <2>2. QED
    BY <1>3, <1>4, <2>1, FedTexts
<1>6. /\ cache' = [cache EXCEPT !.tokens = [r \in Rows |-> done[r].tokens],
                                !.states = [r \in Rows |-> done[r].states]]
      /\ outputs' = [r \in Rows |-> done[r].outputs]
      /\ text' = longer
      /\ UNCHANGED <<weights, snapshot>>
  BY DEF Decode
<1>7. ASSUME NEW r \in 1..n
      PROVE  /\ longer[r] \in Texts /\ Len(chunks[r]) \in Nat /\ Len(chunks[r]) =< Len(longer[r])
             /\ done[r] = RowOf(m, longer[r], Len(chunks[r]))
  <2>1. /\ text[r] \in Seq(Alphabet) /\ chunks[r] \in Seq(Alphabet)
        /\ Len(text[r]) \in Nat \ {0} /\ Len(chunks[r]) \in Nat
    BY <1>3, <1>5, TextSize DEF Texts
  <2>2. longer[r] = text[r] \o chunks[r] /\ done[r] = Extended(m, r, chunks[r])
    BY <1>1, <1>4
  <2>3. text[r] \in Texts /\ cache.tokens[r] = Cropped(text[r]) /\ cache.states[r] = Full(m, Cropped(text[r]))
    BY <1>2, <1>4
  <2> HIDE DEF m, done, longer
  <2>4. longer[r] \in Texts /\ Len(longer[r]) = Len(text[r]) + Len(chunks[r])
    BY <2>1, <2>2, <2>3, TextsJoin
  <2>5. Extended(m, r, chunks[r]) = RowOf(m, text[r] \o chunks[r], Len(chunks[r]))
    BY <2>1, <2>3, ExtendedRow
  <2>6. done[r] = RowOf(m, longer[r], Len(chunks[r]))
    BY <2>2, <2>5
  <2>7. Len(chunks[r]) =< Len(longer[r])
    <3>1. \A a \in Nat \ {0}, b \in Nat : b =< a + b
      OBVIOUS
    <3>2. Len(chunks[r]) =< Len(text[r]) + Len(chunks[r])
      BY <2>1, <3>1
    <3>3. QED
      BY <2>4, <3>2
  <2>8. QED
    BY <2>1, <2>4, <2>6, <2>7
<1>8. longer \in Batches /\ DOMAIN longer = 1..n
  <2>1. longer = [r \in 1..n |-> longer[r]] /\ DOMAIN longer = 1..n
    BY <1>4
  <2> HIDE DEF longer
  <2>2. longer \in [1..n -> Texts]
    BY <1>7, <2>1
  <2>3. QED
    BY <1>3, <2>1, <2>2 DEF Batches
<1>9. /\ [r \in Rows |-> done[r].tokens] = [r \in 1..n |-> Cropped(longer[r])]
      /\ [r \in Rows |-> done[r].states] = [r \in 1..n |-> Full(m, Cropped(longer[r]))]
      /\ [r \in Rows |-> done[r].outputs] = [r \in 1..n |-> Said(m, longer[r], Len(chunks[r]))]
  <2> HIDE DEF done, longer, m
  <2>1. ASSUME NEW r \in 1..n
        PROVE  /\ done[r].tokens = Cropped(longer[r])
               /\ done[r].states = Full(m, Cropped(longer[r]))
               /\ done[r].outputs = Said(m, longer[r], Len(chunks[r]))
    <3>1. done[r] = RowOf(m, longer[r], Len(chunks[r]))
      BY <1>7
    <3>2. QED
      BY <3>1 DEF RowOf
  <2>2. QED
    BY <1>4, <2>1
<1>10. cache' = [model |-> m, tokens |-> [r \in 1..n |-> Cropped(longer[r])],
                 states |-> [r \in 1..n |-> Full(m, Cropped(longer[r]))]]
  <2>1. PICK a, b : cache = [model |-> m, tokens |-> a, states |-> b]
    BY <1>1 DEF Holds, Prefilled
  <2> HIDE DEF m, done, longer
  <2>2. cache' = [model |-> m, tokens |-> [r \in Rows |-> done[r].tokens],
                  states |-> [r \in Rows |-> done[r].states]]
    BY <1>6, <2>1
  <2>3. QED
    BY <1>9, <2>2
<1>11. cache'.model = m /\ Holds(cache', longer)
  <2> HIDE DEF m, longer, done
  <2>1. cache'.model = m
    BY <1>10
  <2>2. [r \in DOMAIN [q \in DOMAIN longer |-> Cropped(longer[q])] |->
           Full(m, [q \in DOMAIN longer |-> Cropped(longer[q])][r])]
         = [r \in 1..n |-> Full(m, Cropped(longer[r]))]
    BY <1>8
  <2>3. QED
    BY <1>8, <1>10, <2>1, <2>2 DEF Holds, Prefilled
<1>12. CacheHolds'
  <2> DEFINE counts == [r \in 1..n |-> Len(chunks[r])]
  <2>1. counts \in [1..n -> Nat] /\ \A r \in 1..n : counts[r] = Len(chunks[r])
    BY <1>7
  <2> HIDE DEF counts, longer, m, done
  <2>2. \A r \in 1..n : outputs'[r] = Said(m, longer[r], counts[r]) /\ counts[r] =< Len(longer[r])
    BY <1>6, <1>7, <1>9, <2>1
  <2>3. /\ text' \in Batches /\ Holds(cache', text') /\ DOMAIN text' = 1..n
        /\ \A r \in 1..n : counts[r] =< Len(text'[r]) /\ outputs'[r] = Said(cache'.model, text'[r], counts[r])
    BY <1>6, <1>8, <1>11, <2>2
  <2>4. QED
    BY <2>1, <2>3 DEF CacheHolds
<1>13. SnapshotHolds'
  BY <1>6 DEF CacheInv, SnapshotHolds, Present
<1>14. QED
  BY <1>12, <1>13 DEF CacheInv

LEMMA ReorderInv ==
  ASSUME CacheAssumption, CacheInv, NEW n \in 1..MaxRows, NEW indexes \in [1..n -> 1..MaxRows], Reorder(indexes)
  PROVE  CacheInv'
<1> DEFINE m == cache.model
           chosen == [i \in DOMAIN indexes |-> text[indexes[i]]]
<1>1. Present(cache) /\ text \in Batches /\ Holds(cache, text) /\ n \in Nat \ {0} /\ DOMAIN indexes = 1..n
  BY DEF CacheInv, CacheHolds, Reorder
<1>2. /\ Rows = DOMAIN text
      /\ \A r \in DOMAIN text : /\ text[r] \in Texts
                                /\ cache.tokens[r] = Cropped(text[r])
                                /\ cache.states[r] = Full(m, Cropped(text[r]))
  BY <1>1, HoldsMeans DEF Rows
<1>3. /\ \A i \in 1..n : indexes[i] \in Rows
      /\ cache' = [cache EXCEPT !.tokens = [i \in 1..n |-> @[indexes[i]]],
                                !.states = [i \in 1..n |-> @[indexes[i]]]]
      /\ text' = chosen
      /\ outputs' = [i \in 1..n |-> <<>>]
      /\ UNCHANGED <<weights, snapshot>>
  BY <1>1 DEF Reorder
<1>4. chosen \in Batches /\ DOMAIN chosen = 1..n /\ \A i \in 1..n : chosen[i] = text[indexes[i]] /\ chosen[i] \in Texts
  <2>1. DOMAIN chosen = 1..n /\ \A i \in 1..n : chosen[i] = text[indexes[i]]
    BY <1>1
  <2>2. chosen = [i \in 1..n |-> chosen[i]]
    BY <1>1
  <2> HIDE DEF chosen
  <2>3. \A i \in 1..n : chosen[i] \in Texts
    BY <1>2, <1>3, <2>1
  <2>4. chosen \in [1..n -> Texts]
    BY <2>2, <2>3
  <2>5. QED
    BY <1>1, <2>1, <2>3, <2>4 DEF Batches
<1>5. cache' = [model |-> m, tokens |-> [i \in 1..n |-> Cropped(chosen[i])],
                states |-> [i \in 1..n |-> Full(m, Cropped(chosen[i]))]]
  <2>1. PICK a, b : cache = [model |-> m, tokens |-> a, states |-> b]
    BY <1>1 DEF Holds, Prefilled
  <2> HIDE DEF m, chosen
  <2>2. cache.tokens = a /\ cache.states = b
    BY <2>1
  <2>3. \A i \in 1..n : a[indexes[i]] = Cropped(chosen[i]) /\ b[indexes[i]] = Full(m, Cropped(chosen[i]))
    BY <1>2, <1>3, <1>4, <2>2
  <2>4. cache' = [model |-> m, tokens |-> [i \in 1..n |-> a[indexes[i]]], states |-> [i \in 1..n |-> b[indexes[i]]]]
    BY <1>3, <2>1
  <2>5. QED
    BY <2>3, <2>4
<1>6. cache'.model = m /\ Holds(cache', chosen)
  <2> HIDE DEF m, chosen
  <2>1. cache'.model = m
    BY <1>5
  <2>2. [r \in DOMAIN [q \in DOMAIN chosen |-> Cropped(chosen[q])] |->
           Full(m, [q \in DOMAIN chosen |-> Cropped(chosen[q])][r])]
         = [r \in 1..n |-> Full(m, Cropped(chosen[r]))]
    BY <1>4
  <2>3. QED
    BY <1>4, <1>5, <2>1, <2>2 DEF Holds, Prefilled
<1> HIDE DEF m, chosen
<1>7. CacheHolds'
  <2>1. chosen \in Batches /\ \A r \in DOMAIN chosen : outputs'[r] = <<>>
    BY <1>3, <1>4
  <2>2. PICK counts \in [DOMAIN chosen -> Nat] : \A r \in DOMAIN chosen : counts[r] = 0 /\ counts[r] =< Len(chosen[r])
    BY <2>1, NoneDecoded
  <2>3. \A r \in DOMAIN chosen : counts[r] =< Len(chosen[r]) /\ outputs'[r] = Said(m, chosen[r], counts[r])
    BY <2>1, <2>2, SaidNothing
  <2>4. /\ text' \in Batches /\ Holds(cache', text') /\ DOMAIN text' = DOMAIN chosen
        /\ \A r \in DOMAIN chosen :
             counts[r] =< Len(text'[r]) /\ outputs'[r] = Said(cache'.model, text'[r], counts[r])
    BY <1>3, <1>4, <1>6, <2>3
  <2>5. QED
    BY <2>2, <2>4 DEF CacheHolds
<1>8. SnapshotHolds'
  BY <1>3 DEF CacheInv, SnapshotHolds, Present
<1>9. QED
  BY <1>7, <1>8 DEF CacheInv

LEMMA MigrateInv ==
  ASSUME CacheAssumption, CacheInv, NEW target, Migrate(target)
  PROVE  CacheInv'
<1>1. Present(cache) /\ text \in Batches /\ Holds(cache, text)
  BY DEF CacheInv, CacheHolds, Migrate, Bound
<1>2. /\ cache' = Prefilled(target, cache.tokens) /\ outputs' = [r \in Rows |-> <<>>]
      /\ UNCHANGED <<text, snapshot>>
  BY DEF Migrate
<1>3. Rows = DOMAIN text /\ cache.tokens = [r \in DOMAIN text |-> Cropped(text[r])]
  <2>1. PICK m : cache = Prefilled(m, [r \in DOMAIN text |-> Cropped(text[r])])
    BY <1>1 DEF Holds
  <2>2. cache.tokens = [r \in DOMAIN text |-> Cropped(text[r])]
    BY <2>1 DEF Prefilled
  <2>3. QED
    BY <2>2 DEF Rows
<1>4. cache'.model = target
  BY <1>2 DEF Prefilled
<1>5. Holds(cache', text)
  BY <1>2, <1>3, <1>4 DEF Holds
<1>6. \A r \in DOMAIN text : outputs'[r] = <<>> /\ text[r] \in Texts
  BY <1>1, <1>2, <1>3 DEF Batches
<1>7. CacheHolds'
  <2>1. text \in Batches /\ \A r \in DOMAIN text : outputs'[r] = <<>>
    BY <1>1, <1>6
  <2>2. PICK counts \in [DOMAIN text -> Nat] : \A r \in DOMAIN text : counts[r] = 0 /\ counts[r] =< Len(text[r])
    BY <2>1, NoneDecoded
  <2>3. \A r \in DOMAIN text : counts[r] =< Len(text[r]) /\ outputs'[r] = Said(target, text[r], counts[r])
    BY <2>1, <2>2, SaidNothing
  <2>4. QED
    BY <1>1, <1>2, <1>4, <1>5, <2>1, <2>2, <2>3 DEF CacheHolds
<1>8. SnapshotHolds'
  BY <1>2 DEF CacheInv, SnapshotHolds, Present
<1>9. QED
  BY <1>7, <1>8 DEF CacheInv

LEMMA RestoreInv == ASSUME CacheAssumption, CacheInv, Restore PROVE CacheInv'
<1>1. PICK texts \in Batches : Holds(snapshot, texts)
  BY DEF CacheInv, SnapshotHolds, Restore
<1> DEFINE rows == snapshot.tokens
<1>2. rows = [r \in DOMAIN texts |-> Cropped(texts[r])]
  <2>1. PICK m : snapshot = Prefilled(m, [r \in DOMAIN texts |-> Cropped(texts[r])])
    BY <1>1 DEF Holds
  <2>2. QED
    BY <2>1 DEF Prefilled
<1>3. /\ cache' = Prefilled(weights, rows) /\ text' = rows
      /\ outputs' = [r \in DOMAIN rows |-> <<>>] /\ UNCHANGED <<weights, snapshot>>
  BY DEF Restore
<1>4. PICK n \in Nat \ {0} : texts \in [1..n -> Texts]
  BY DEF Batches
<1> HIDE DEF rows
<1>5. DOMAIN rows = 1..n /\ \A r \in 1..n : rows[r] \in Texts /\ Cropped(rows[r]) = rows[r]
  <2>1. DOMAIN rows = 1..n /\ \A r \in 1..n : rows[r] = Cropped(texts[r]) /\ texts[r] \in Texts
    BY <1>2, <1>4
  <2>2. QED
    BY <2>1, CroppedIsText
<1>6. rows = [r \in 1..n |-> rows[r]]
  BY <1>2, <1>4
<1>7. rows \in Batches
  <2>1. rows \in [1..n -> Texts]
    BY <1>5, <1>6
  <2>2. QED
    BY <2>1 DEF Batches
<1>8. cache'.model = weights
  BY <1>3 DEF Prefilled
<1>9. [r \in DOMAIN rows |-> Cropped(rows[r])] = rows
  BY <1>5, <1>6
<1>10. Holds(cache', rows)
  BY <1>3, <1>8, <1>9 DEF Holds
<1>11. \A r \in DOMAIN rows : outputs'[r] = <<>> /\ rows[r] \in Texts
  BY <1>3, <1>5
<1>12. CacheHolds'
  <2>1. rows \in Batches /\ \A r \in DOMAIN rows : outputs'[r] = <<>>
    BY <1>7, <1>11
  <2>2. PICK counts \in [DOMAIN rows -> Nat] : \A r \in DOMAIN rows : counts[r] = 0 /\ counts[r] =< Len(rows[r])
    BY <2>1, NoneDecoded
  <2>3. \A r \in DOMAIN rows : counts[r] =< Len(rows[r]) /\ outputs'[r] = Said(weights, rows[r], counts[r])
    BY <2>1, <2>2, SaidNothing
  <2>4. QED
    BY <1>3, <1>7, <1>8, <1>10, <2>1, <2>2, <2>3 DEF CacheHolds
<1>13. SnapshotHolds'
  BY <1>3 DEF CacheInv, SnapshotHolds, Present
<1>14. QED
  BY <1>12, <1>13 DEF CacheInv

LEMMA CacheStep == ASSUME CacheAssumption, CacheInv, [CacheNext]_cacheVars PROVE CacheInv'
<1>1. ASSUME NEW n \in 1..MaxRows, NEW rows \in BatchesOf(n, 1..(BlockSize + 1)), Prefill(rows) PROVE CacheInv'
  BY <1>1, PrefillInv
<1>2. ASSUME Present(cache), NEW chunks \in BatchesOf(Len(cache.tokens), 1..MaxChunk), Decode(chunks)
      PROVE  CacheInv'
  BY <1>2, DecodeInv
<1>3. ASSUME NEW n \in 1..MaxRows, NEW indexes \in [1..n -> 1..MaxRows], Reorder(indexes) PROVE CacheInv'
  BY <1>3, ReorderInv
<1>4. ASSUME NEW model \in Weights, Migrate(model) PROVE CacheInv'
  BY <1>4, MigrateInv
<1>5. ASSUME NEW model \in Weights, Modify(model) PROVE CacheInv'
  BY <1>5 DEF Modify, CacheInv, CacheHolds, SnapshotHolds
<1>6. CASE Save
  <2>1. CacheHolds'
    BY <1>6 DEF Save, CacheInv, CacheHolds
  <2>2. SnapshotHolds'
    BY <1>6 DEF Save, CacheInv, CacheHolds, SnapshotHolds
  <2>3. QED
    BY <2>1, <2>2 DEF CacheInv
<1>7. CASE Restore
  BY <1>7, RestoreInv
<1>8. CASE UNCHANGED cacheVars
  BY <1>8 DEF cacheVars, CacheInv, CacheHolds, SnapshotHolds
<1>9. QED
  BY <1>1, <1>2, <1>3, <1>4, <1>5, <1>6, <1>7, <1>8 DEF CacheNext

\* CacheIsExact: whatever is prefilled, decoded, reordered, migrated, saved and restored
\* (transformer_cache.py), a cache and the logits made with it are those of a full pass.
THEOREM CachesComputed == CacheSpec => []CacheIsExact
<1>1. CacheInv /\ [CacheNext]_cacheVars => CacheInv'
  BY CacheAssumption, CacheStep
<1>2. CacheInv => CacheIsExact
  BY InvIsExact
<1>3. QED
  BY <1>1, <1>2, CacheInitInv, PTL DEF CacheSpec

\* The same where the cache is one of the decoders that may run: the others leave it alone.
THEOREM CachesStayExact == Spec => []CachesAreExact
<1> DEFINE Inv == planner = "cache" => CacheInv
<1>1. Init => Inv
  BY CacheInitInv DEF Init
<1>2. Inv /\ [Next]_vars => Inv'
  <2>1. SUFFICES ASSUME Inv, [Next]_vars, planner' = "cache" PROVE CacheInv'
    OBVIOUS
  <2>2. planner' = planner
    BY <2>1 DEF Next, Done, vars
  <2>3. [CacheNext]_cacheVars
    BY <2>1, <2>2 DEF Next, Done, vars
  <2>4. QED
    BY <2>1, <2>2, <2>3, CacheAssumption, CacheStep
<1>3. Inv => CachesAreExact
  BY InvIsExact DEF CachesAreExact
<1>4. QED
  BY <1>1, <1>2, <1>3, PTL DEF Spec

-------------------------------------------------------------------------------
(* FlattenSeq, whose definition is a recursive function                        *)

Flattens(g, s, n) == g = [i \in 1..n |-> IF i = 1 THEN s[i] ELSE g[i - 1] \o s[i]]

LEMMA FlattenGrows ==
  ASSUME NEW s, NEW n \in Nat \ {0}, NEW g, Flattens(g, s, n)
  PROVE  \E h : Flattens(h, s, n + 1) /\ h[n + 1] = g[n] \o s[n + 1]
<1> DEFINE h == [i \in 1..(n + 1) |-> IF i = n + 1 THEN g[n] \o s[n + 1] ELSE g[i]]
<1>1. ASSUME NEW i \in 1..(n + 1) PROVE h[i] = IF i = 1 THEN s[i] ELSE h[i - 1] \o s[i]
  <2>1. CASE i = n + 1
    <3>1. i # 1 /\ n \in 1..(n + 1) /\ n + 1 \in 1..(n + 1) /\ n # n + 1 /\ i - 1 = n
      BY <2>1
    <3>2. h[n] = g[n] /\ h[n + 1] = g[n] \o s[n + 1]
      BY <3>1
    <3> HIDE DEF h
    <3>3. QED
      BY <2>1, <3>1, <3>2
  <2>2. CASE i # n + 1
    <3>1. i \in 1..n
      BY <2>2
    <3>2. g[i] = IF i = 1 THEN s[i] ELSE g[i - 1] \o s[i]
      BY <3>1 DEF Flattens
    <3>3. h[i] = g[i] /\ (i # 1 => h[i - 1] = g[i - 1])
      BY <3>1
    <3> HIDE DEF h
    <3>4. QED
      BY <3>2, <3>3
  <2>3. QED
    BY <2>1, <2>2
<1>2. h = [i \in 1..(n + 1) |-> h[i]] /\ h[n + 1] = g[n] \o s[n + 1]
  <2>1. n + 1 \in 1..(n + 1)
    OBVIOUS
  <2>2. QED
    BY <2>1
<1> HIDE DEF h
<1>3. Flattens(h, s, n + 1)
  BY <1>1, <1>2 DEF Flattens
<1>4. QED
  BY <1>2, <1>3

LEMMA FlattenExists ==
  ASSUME NEW s, NEW n \in Nat \ {0}
  PROVE  \E g : Flattens(g, s, n)
<1> DEFINE There(k) == \E g : Flattens(g, s, k)
           T == {k \in Nat \ {0} : ~There(k)}
<1>1. There(1)
  <2> DEFINE g == [i \in 1..1 |-> s[1]]
  <2>1. g = [i \in 1..1 |-> IF i = 1 THEN s[i] ELSE g[i - 1] \o s[i]]
    OBVIOUS
  <2> HIDE DEF g
  <2>2. Flattens(g, s, 1)
    BY <2>1 DEF Flattens
  <2>3. QED
    BY <2>2
<1>2. ASSUME NEW k \in Nat \ {0}, There(k) PROVE There(k + 1)
  BY <1>2, FlattenGrows
<1> HIDE DEF There
<1>3. T = {}
  <2>1. SUFFICES ASSUME T # {} PROVE FALSE
    OBVIOUS
  <2>2. PICK k \in T : \A x \in T : k =< x
    <3>1. T \in SUBSET Nat
      OBVIOUS
    <3> HIDE DEF T
    <3>2. QED
      BY <2>1, <3>1, LeastExists
  <2>3. k \in Nat \ {0} /\ ~There(k) /\ k # 1
    BY <1>1
  <2>4. k - 1 \in Nat \ {0} /\ ~(k =< k - 1) /\ (k - 1) + 1 = k
    BY <2>3
  <2>5. There(k - 1)
    BY <2>2, <2>4
  <2>6. There((k - 1) + 1)
    BY <1>2, <2>4, <2>5
  <2>7. QED
    BY <2>3, <2>4, <2>6
<1>4. There(n)
  BY <1>3
<1>5. QED
  BY <1>4 DEF There

\* Flattenings of sequences that begin alike.
LEMMA FlattenUnique ==
  ASSUME NEW s, NEW t, NEW n \in Nat \ {0}, NEW m \in Nat, n =< m, \A i \in 1..n : s[i] = t[i],
         NEW g, NEW h, Flattens(g, s, n), Flattens(h, t, m)
  PROVE  g[n] = h[n]
<1> DEFINE T == {k \in 1..n : g[k] # h[k]}
<1>1. T = {}
  <2>1. SUFFICES ASSUME T # {} PROVE FALSE
    OBVIOUS
  <2>2. PICK k \in T : \A x \in T : k =< x
    <3>1. T \in SUBSET Nat
      OBVIOUS
    <3> HIDE DEF T
    <3>2. QED
      BY <2>1, <3>1, LeastExists
  <2>3. k \in 1..n /\ k \in 1..m /\ g[k] # h[k] /\ s[k] = t[k]
    OBVIOUS
  <2>4. /\ g[k] = IF k = 1 THEN s[k] ELSE g[k - 1] \o s[k]
        /\ h[k] = IF k = 1 THEN t[k] ELSE h[k - 1] \o t[k]
    BY <2>3 DEF Flattens
  <2>5. k # 1 /\ g[k - 1] # h[k - 1]
    BY <2>3, <2>4
  <2>6. k - 1 \in 1..n /\ ~(k =< k - 1)
    BY <2>3, <2>5
  <2>7. QED
    BY <2>2, <2>5, <2>6
<1>2. QED
  BY <1>1

LEMMA FlattenIs ==
  ASSUME NEW s, Len(s) \in Nat \ {0}, NEW g, Flattens(g, s, Len(s))
  PROVE  FlattenSeq(s) = g[Len(s)]
<1> DEFINE n == Len(s)
           P(h) == h = [i \in 1..n |-> IF i = 1 THEN s[i] ELSE h[i - 1] \o s[i]]
<1>1. P(CHOOSE h : P(h))
  <2>1. P(g)
    BY DEF Flattens
  <2> HIDE DEF P
  <2>2. QED
    BY <2>1, Zenon
<1>2. (CHOOSE h : P(h))[n] = g[n]
  <2> DEFINE chosen == CHOOSE h : P(h)
  <2>1. P(chosen)
    BY <1>1
  <2> HIDE DEF chosen
  <2>2. Flattens(chosen, s, n)
    BY <2>1 DEF Flattens
  <2>3. QED
    BY <2>2, FlattenUnique DEF chosen
<1>3. FlattenSeq(s) = (CHOOSE h : P(h))[n]
  BY Zenon DEF FlattenSeq
<1>4. QED
  BY <1>2, <1>3

LEMMA FlattenNothing == FlattenSeq(<<>>) = <<>>
  BY DEF FlattenSeq

LEMMA FlattenAppend ==
  ASSUME NEW S, NEW s \in Seq(Seq(S)), NEW x \in Seq(S)
  PROVE  FlattenSeq(Append(s, x)) = FlattenSeq(s) \o x
<1> DEFINE t == Append(s, x)
           n == Len(s)
<1>1. n \in Nat /\ Len(t) = n + 1 /\ t[n + 1] = x /\ \A i \in 1..n : t[i] = s[i]
  OBVIOUS
<1>2. CASE n = 0
  <2>1. s = <<>> /\ FlattenSeq(s) \o x = x
    BY <1>2, FlattenNothing
  <2> HIDE DEF t, n
  <2>2. PICK g : Flattens(g, t, Len(t))
    <3>1. Len(t) \in Nat \ {0}
      BY <1>1
    <3>2. QED
      BY <3>1, FlattenExists
  <2>3. FlattenSeq(t) = g[1] /\ Len(t) = 1
    <3>1. Len(t) \in Nat \ {0} /\ Len(t) = 1
      BY <1>1, <1>2
    <3>2. QED
      BY <2>2, <3>1, FlattenIs
  <2>4. g[1] = t[1]
    BY <2>2, <2>3 DEF Flattens
  <2>5. QED
    BY <1>1, <1>2, <2>1, <2>3, <2>4 DEF t
<1>3. CASE n # 0
  <2> HIDE DEF t, n
  <2>1. PICK g : Flattens(g, s, n)
    BY <1>1, <1>3, FlattenExists
  <2>2. PICK f : Flattens(f, t, n)
    BY <1>1, <1>3, FlattenExists
  <2>3. f[n] = g[n]
    BY <1>1, <1>3, <2>1, <2>2, FlattenUnique
  <2>4. PICK h : Flattens(h, t, n + 1) /\ h[n + 1] = f[n] \o t[n + 1]
    BY <1>1, <1>3, <2>2, FlattenGrows
  <2>5. FlattenSeq(t) = h[n + 1]
    <3>1. Len(t) \in Nat \ {0} /\ Len(t) = n + 1
      BY <1>1
    <3>2. Flattens(h, t, Len(t))
      BY <2>4, <3>1
    <3>3. QED
      BY <3>1, <3>2, FlattenIs
  <2>6. FlattenSeq(s) = g[n]
    BY <1>1, <1>3, <2>1, FlattenIs DEF n
  <2>7. QED
    BY <1>1, <2>3, <2>4, <2>5, <2>6 DEF t
<1>4. QED
  BY <1>2, <1>3

-------------------------------------------------------------------------------
(* Induction, as a fact about sets                                            *)

LEMMA EveryNumber ==
  ASSUME NEW T \in SUBSET Nat, 0 \in T, \A k \in T : k + 1 \in T
  PROVE  T = Nat
<1> DEFINE U == Nat \ T
<1>1. U = {}
  <2>1. SUFFICES ASSUME U # {} PROVE FALSE
    OBVIOUS
  <2>2. PICK k \in U : \A x \in U : k =< x
    <3>1. U \in SUBSET Nat
      OBVIOUS
    <3> HIDE DEF U
    <3>2. QED
      BY <2>1, <3>1, LeastExists
  <2>3. k \in Nat /\ k \notin T /\ k # 0
    OBVIOUS
  <2>4. k - 1 \in Nat /\ ~(k =< k - 1) /\ (k - 1) + 1 = k
    BY <2>3
  <2>5. k - 1 \in T
    BY <2>2, <2>4
  <2>6. (k - 1) + 1 \in T
    BY <2>5
  <2>7. QED
    BY <2>3, <2>4, <2>6
<1>2. QED
  BY <1>1

LEMMA EverySequence ==
  ASSUME NEW S, NEW T \in SUBSET Seq(S), <<>> \in T, \A s \in T : \A x \in S : Append(s, x) \in T
  PROVE  T = Seq(S)
<1> DEFINE N == {n \in Nat : \A s \in Seq(S) : Len(s) = n => s \in T}
<1>1. 0 \in N
  OBVIOUS
<1>2. ASSUME NEW n \in N PROVE n + 1 \in N
  <2>1. n \in Nat /\ \A s \in Seq(S) : Len(s) = n => s \in T
    OBVIOUS
  <2>2. ASSUME NEW s \in Seq(S), Len(s) = n + 1 PROVE s \in T
    <3> DEFINE front == SubSeq(s, 1, n)
               x == s[n + 1]
    <3>0. front \in Seq(S) /\ Len(front) = n /\ x \in S /\ \A i \in 1..n : front[i] = s[i]
      BY <2>1, <2>2, SubSeqProperties
    <3>1. front \in Seq(S) /\ Len(front) = n /\ x \in S /\ s = Append(front, x)
      <4> HIDE DEF front
      <4>1. Append(front, x) \in Seq(S) /\ Len(Append(front, x)) = n + 1
        BY <2>1, <3>0
      <4>2. ASSUME NEW i \in 1..(n + 1) PROVE Append(front, x)[i] = s[i]
        <5>1. CASE i = n + 1
          BY <2>1, <3>0, <5>1
        <5>2. CASE i \in 1..n
          <6>1. Append(front, x)[i] = front[i]
            BY <2>1, <3>0, <5>2
          <6>2. QED
            BY <3>0, <5>2, <6>1
        <5>3. i = n + 1 \/ i \in 1..n
          BY <2>1
        <5>4. QED
          BY <5>1, <5>2, <5>3
      <4>3. s = Append(front, x)
        BY <2>1, <2>2, <4>1, <4>2, SeqEqual
      <4>4. QED
        BY <3>0, <4>3
    <3> HIDE DEF front, x
    <3>2. front \in T
      BY <2>1, <3>1
    <3>3. QED
      BY <3>1, <3>2
  <2>3. QED
    BY <2>1, <2>2
<1>3. N = Nat
  <2>1. N \in SUBSET Nat
    OBVIOUS
  <2> HIDE DEF N
  <2>2. QED
    BY <1>1, <1>2, <2>1, EveryNumber
<1>4. ASSUME NEW s \in Seq(S) PROVE s \in T
  <2>1. Len(s) \in N
    BY <1>3
  <2>2. QED
    BY <2>1
<1>5. QED
  BY <1>4

LEMMA FlattenType ==
  ASSUME NEW S, NEW s \in Seq(Seq(S))
  PROVE  FlattenSeq(s) \in Seq(S)
<1> DEFINE T == {t \in Seq(Seq(S)) : FlattenSeq(t) \in Seq(S)}
<1>1. <<>> \in T
  <2>1. <<>> \in Seq(Seq(S)) /\ <<>> \in Seq(S)
    BY EmptySeq
  <2>2. QED
    BY <2>1, FlattenNothing
<1>2. ASSUME NEW t \in T, NEW x \in Seq(S) PROVE Append(t, x) \in T
  <2>1. t \in Seq(Seq(S)) /\ FlattenSeq(t) \in Seq(S) /\ Append(t, x) \in Seq(Seq(S))
    OBVIOUS
  <2>2. FlattenSeq(Append(t, x)) = FlattenSeq(t) \o x
    BY <2>1, FlattenAppend
  <2>3. FlattenSeq(t) \o x \in Seq(S)
    BY <2>1, ConcatProperties
  <2>4. QED
    BY <2>1, <2>2, <2>3
<1>3. T = Seq(Seq(S))
  <2>1. T \in SUBSET Seq(Seq(S))
    OBVIOUS
  <2> HIDE DEF T
  <2>2. QED
    BY <1>1, <1>2, <2>1, EverySequence
<1>4. QED
  BY <1>3

LEMMA ConcatAppend ==
  ASSUME NEW S, NEW s \in Seq(S), NEW t \in Seq(S), NEW x \in S
  PROVE  s \o Append(t, x) = Append(s \o t, x)
<1>1. <<x>> \in Seq(S) /\ s \o t \in Seq(S)
  BY ConcatProperties
<1>2. Append(s \o t, x) = (s \o t) \o <<x>> /\ Append(t, x) = t \o <<x>>
  BY <1>1, AppendIsConcat
<1>3. (s \o t) \o <<x>> = s \o (t \o <<x>>)
  BY <1>1, ConcatAssociative
<1>4. QED
  BY <1>2, <1>3

LEMMA FlattenConcat ==
  ASSUME NEW S, NEW s \in Seq(Seq(S)), NEW t \in Seq(Seq(S))
  PROVE  FlattenSeq(s \o t) = FlattenSeq(s) \o FlattenSeq(t)
<1> DEFINE T == {u \in Seq(Seq(S)) : FlattenSeq(s \o u) = FlattenSeq(s) \o FlattenSeq(u)}
<1>0. FlattenSeq(s) \in Seq(S)
  BY FlattenType
<1>1. <<>> \in T
  BY <1>0, FlattenNothing, ConcatEmptySeq
<1>2. ASSUME NEW u \in T, NEW x \in Seq(S) PROVE Append(u, x) \in T
  <2>1. u \in Seq(Seq(S)) /\ FlattenSeq(s \o u) = FlattenSeq(s) \o FlattenSeq(u)
    OBVIOUS
  <2>2. FlattenSeq(u) \in Seq(S) /\ s \o u \in Seq(Seq(S)) /\ Append(u, x) \in Seq(Seq(S))
    BY <2>1, FlattenType, ConcatProperties
  <2>3. s \o Append(u, x) = Append(s \o u, x)
    BY <2>1, ConcatAppend
  <2>4. FlattenSeq(Append(s \o u, x)) = FlattenSeq(s \o u) \o x
    BY <2>2, FlattenAppend
  <2>5. FlattenSeq(Append(u, x)) = FlattenSeq(u) \o x
    BY <2>1, FlattenAppend
  <2>6. (FlattenSeq(s) \o FlattenSeq(u)) \o x = FlattenSeq(s) \o (FlattenSeq(u) \o x)
    <3> DEFINE f == FlattenSeq(s)
               g == FlattenSeq(u)
    <3>1. f \in Seq(S) /\ g \in Seq(S) /\ x \in Seq(S)
      BY <1>0, <2>2
    <3> HIDE DEF f, g
    <3>2. (f \o g) \o x = f \o (g \o x)
      BY <3>1, ConcatAssociative
    <3>3. QED
      BY <3>2 DEF f, g
  <2>7. QED
    BY <2>1, <2>2, <2>3, <2>4, <2>5, <2>6
<1>3. T = Seq(Seq(S))
  <2>1. T \in SUBSET Seq(Seq(S))
    OBVIOUS
  <2> HIDE DEF T
  <2>2. QED
    BY <1>1, <1>2, <2>1, EverySequence
<1>4. QED
  BY <1>3

-------------------------------------------------------------------------------
(* The tokenizer streams                                                      *)

LEMMA ScanIsFold ==
  ASSUME NEW s, Len(s) \in Nat, DOMAIN s = 1..Len(s)
  PROVE  Scan(s) = FoldOf("scan", 0, [whole |-> <<>>, rest |-> <<>>, error |-> FALSE], s)
<1> DEFINE S == DOMAIN s
           base == [whole |-> <<>>, rest |-> <<>>, error |-> FALSE]
           P(g) == g = [u \in SUBSET S |-> IF u = {} THEN base ELSE ScanByte(g[u \ {Max(u)}], s[Max(u)])]
<1>1. ASSUME NEW g PROVE Folds(g, "scan", 0, base, s, Len(s)) <=> P(g)
  BY DEF Folds, StepOf
<1>2. PICK h : P(h)
  <2>1. PICK h : Folds(h, "scan", 0, base, s, Len(s))
    BY FoldExists
  <2>2. P(h)
    BY <1>1, <2>1
  <2> HIDE DEF P
  <2>3. QED
    BY <2>2
<1>3. P(CHOOSE g : P(g))
  <2> HIDE DEF P
  <2>1. QED
    BY <1>2, Zenon
<1>4. (CHOOSE g : P(g))[S] = FoldOf("scan", 0, base, s)
  <2> DEFINE chosen == CHOOSE g : P(g)
  <2>1. P(chosen)
    BY <1>3
  <2> HIDE DEF chosen, P
  <2>2. Folds(chosen, "scan", 0, base, s, Len(s))
    BY <1>1, <2>1
  <2>3. QED
    BY <2>2, FoldIs DEF chosen
<1>5. Scan(s) = (CHOOSE g : P(g))[S]
  BY Zenon DEF Scan, FoldLeft, MapThenFoldSet
<1>6. QED
  BY <1>4, <1>5

\* What characters, tokens and documents are made of.
Units == {End} \cup UNION {ToSet(c) : c \in Characters \cup Vocabulary}

\* What was read is whole characters and the start of one.
Read(d, bytes) ==
  /\ d \in [whole : Seq(Seq(Units)), rest : Seq(Units), error : BOOLEAN]
  /\ ~d.error => /\ FlattenSeq(d.whole) \o d.rest = bytes
                 /\ ToSet(d.whole) \subseteq Characters
                 /\ d.rest \in Unfinished

LEMMA EndTyped == End \in Units
  BY Zenon DEF Units

LEMMA Reassociated ==
  ASSUME NEW S, NEW a \in Seq(S), NEW b \in Seq(S), NEW c \in Seq(S)
  PROVE  a \o (b \o c) = (a \o b) \o c
  BY ConcatAssociative

LEMMA UnitsTyped ==
  ASSUME TokensAssumption
  PROVE  /\ Characters \subseteq Seq(Units) /\ Vocabulary \subseteq Seq(Units)
         /\ Alphabetical \subseteq Units /\ <<>> \in Unfinished
<1>1. ASSUME NEW c \in Characters \cup Vocabulary PROVE c \in Seq(Units)
  <2>1. c \in Seq(ToSet(c)) /\ ToSet(c) \subseteq Units
    BY DEF TokensAssumption, Units
  <2>2. QED
    BY <2>1, SeqMonotonic
<1>2. Alphabetical \subseteq Units
  BY DEF Alphabetical, Units
<1>3. <<>> \in Unfinished
  <2>1. PICK c \in Characters : c # <<>> /\ c \in Seq(Units)
    BY <1>1 DEF TokensAssumption
  <2>2. Len(c) \in Nat \ {0}
    BY <2>1, EmptySeq
  <2>3. 0 \in 0..(Len(c) - 1) /\ SubSeq(c, 1, 0) = <<>>
    BY <2>2, SubSeqEmpty
  <2>4. QED
    BY <2>3 DEF Unfinished
<1>4. QED
  BY <1>1, <1>2, <1>3

LEMMA ToSetAppend ==
  ASSUME NEW S, NEW s \in Seq(S), NEW x \in S
  PROVE  ToSet(Append(s, x)) = ToSet(s) \cup {x}
<1>1. DOMAIN s = 1..Len(s) /\ Len(s) \in Nat
  OBVIOUS
<1>2. DOMAIN Append(s, x) = 1..(Len(s) + 1)
  BY <1>1
<1>3. \A i \in 1..Len(s) : Append(s, x)[i] = s[i]
  BY <1>1
<1>4. Append(s, x)[Len(s) + 1] = x
  BY <1>1
<1>5. 1..(Len(s) + 1) = 1..Len(s) \cup {Len(s) + 1}
  BY <1>1
<1> HIDE <1>1
<1>6. QED
  BY <1>1, <1>2, <1>3, <1>4, <1>5, Zenon DEF ToSet

LEMMA ScanReads ==
  ASSUME TokensAssumption, NEW bytes \in Seq(Units)
  PROVE  Read(Scan(bytes), bytes)
<1> DEFINE T == {s \in Seq(Units) : Read(Scan(s), s)}
           base == [whole |-> <<>>, rest |-> <<>>, error |-> FALSE]
<1>0. \A s \in Seq(Units) : Scan(s) = FoldOf("scan", 0, base, s)
  <2>1. ASSUME NEW s \in Seq(Units) PROVE Scan(s) = FoldOf("scan", 0, base, s)
    <3>1. Len(s) \in Nat /\ DOMAIN s = 1..Len(s)
      BY LenProperties
    <3>2. QED
      BY <3>1, ScanIsFold
  <2>2. QED
    BY <2>1
<1>1. <<>> \in T
  <2>1. <<>> \in Seq(Seq(Units)) /\ <<>> \in Seq(Units)
    BY EmptySeq
  <2>2. Scan(<<>>) = base
    BY <1>0, <2>1, FoldNothing
  <2>3. FlattenSeq(<<>>) \o <<>> = <<>>
    BY <2>1, FlattenNothing, ConcatEmptySeq
  <2>4. ToSet(<<>>) = {}
    BY DEF ToSet
  <2>5. <<>> \in Unfinished
    BY UnitsTyped
  <2>6. base \in [whole : Seq(Seq(Units)), rest : Seq(Units), error : BOOLEAN]
    BY <2>1
  <2>7. Read(base, <<>>)
    BY <2>3, <2>4, <2>5, <2>6 DEF Read
  <2>8. QED
    BY <2>1, <2>2, <2>7
<1>2. ASSUME NEW s \in T, NEW b \in Units PROVE Append(s, b) \in T
  <2> DEFINE d == Scan(s)
             rest == Append(d.rest, b)
  <2>1. s \in Seq(Units) /\ Read(d, s)
    OBVIOUS
  <2>2. Append(s, b) \in Seq(Units)
    BY <2>1
  <2>3. Scan(Append(s, b)) = ScanByte(d, b)
    <3>1. FoldOf("scan", 0, base, Append(s, b)) = StepOf("scan", 0, FoldOf("scan", 0, base, s), b)
      BY <2>1, FoldAppend
    <3>2. QED
      BY <1>0, <2>1, <2>2, <3>1 DEF StepOf
  <2> HIDE DEF d, T
  <2>4. d \in [whole : Seq(Seq(Units)), rest : Seq(Units), error : BOOLEAN]
    BY <2>1 DEF Read
  <2>5. rest \in Seq(Units)
    BY <2>4
  <2>6. Read(ScanByte(d, b), Append(s, b))
    <3>1. CASE d.error
      BY <2>4, <3>1 DEF ScanByte, Read
    <3>2. CASE ~d.error /\ rest \in Characters
      <4>1. ScanByte(d, b) = [whole |-> Append(d.whole, rest), rest |-> <<>>, error |-> FALSE]
        BY <2>4, <3>2 DEF ScanByte
      <4>2. Append(d.whole, rest) \in Seq(Seq(Units)) /\ <<>> \in Seq(Units)
        BY <2>4, <2>5
      <4>3. FlattenSeq(Append(d.whole, rest)) \o <<>> = Append(s, b)
        <5>1. FlattenSeq(Append(d.whole, rest)) = FlattenSeq(d.whole) \o rest
          BY <2>4, <2>5, FlattenAppend
        <5>2. FlattenSeq(d.whole) \in Seq(Units)
          BY <2>4, FlattenType
        <5>3. FlattenSeq(d.whole) \o rest = Append(FlattenSeq(d.whole) \o d.rest, b)
          BY <2>4, <5>2, ConcatAppend
        <5>4. FlattenSeq(d.whole) \o d.rest = s
          BY <2>1, <3>2 DEF Read
        <5>5. QED
          BY <2>2, <5>1, <5>3, <5>4, ConcatEmptySeq
      <4>4. ToSet(Append(d.whole, rest)) = ToSet(d.whole) \cup {rest}
        <5>1. d.whole \in Seq(Seq(Units))
          BY <2>4
        <5> HIDE DEF rest
        <5>2. QED
          BY <2>5, <5>1, ToSetAppend
      <4>5. ToSet(d.whole) \subseteq Characters
        BY <2>1, <3>2 DEF Read
      <4>6. <<>> \in Unfinished
        BY UnitsTyped
      <4> HIDE DEF rest
      <4>7. QED
        BY <3>2, <4>1, <4>2, <4>3, <4>4, <4>5, <4>6 DEF Read
    <3>3. CASE ~d.error /\ rest \notin Characters /\ rest \in Unfinished
      <4>1. ScanByte(d, b) = [whole |-> d.whole, rest |-> rest, error |-> FALSE]
        BY <2>4, <3>3 DEF ScanByte
      <4>2. FlattenSeq(d.whole) \in Seq(Units)
        BY <2>4, FlattenType
      <4>3. FlattenSeq(d.whole) \o rest = Append(FlattenSeq(d.whole) \o d.rest, b)
        BY <2>4, <4>2, ConcatAppend
      <4>4. FlattenSeq(d.whole) \o d.rest = s /\ ToSet(d.whole) \subseteq Characters
        BY <2>1, <3>3 DEF Read
      <4>5. QED
        BY <2>4, <2>5, <3>3, <4>1, <4>3, <4>4 DEF Read
    <3>4. CASE ~d.error /\ rest \notin Characters /\ rest \notin Unfinished
      <4>1. ScanByte(d, b) = [whole |-> d.whole, rest |-> d.rest, error |-> TRUE]
        BY <2>4, <3>4 DEF ScanByte
      <4>2. QED
        BY <2>4, <4>1 DEF Read
    <3>5. QED
      BY <3>1, <3>2, <3>3, <3>4
  <2>7. QED
    BY <2>2, <2>3, <2>6 DEF T
<1>3. T = Seq(Units)
  <2>1. T \in SUBSET Seq(Units)
    OBVIOUS
  <2> HIDE DEF T
  <2>2. QED
    BY <1>1, <1>2, <2>1, EverySequence
<1>4. QED
  BY <1>3

LEMMA ToSetConcat ==
  ASSUME NEW S, NEW s \in Seq(S), NEW t \in Seq(S), NEW C, ToSet(s) \subseteq C, ToSet(t) \subseteq C
  PROVE  ToSet(s \o t) \subseteq C
<1>1. s \o t \in Seq(S) /\ Len(s \o t) = Len(s) + Len(t) /\ DOMAIN (s \o t) = 1..(Len(s) + Len(t))
  BY ConcatProperties
<1>2. ASSUME NEW i \in 1..(Len(s) + Len(t)) PROVE (s \o t)[i] \in C
  <2>1. (s \o t)[i] = IF i <= Len(s) THEN s[i] ELSE t[i - Len(s)]
    BY ConcatProperties
  <2>2. Len(s) \in Nat /\ Len(t) \in Nat /\ DOMAIN s = 1..Len(s) /\ DOMAIN t = 1..Len(t)
    OBVIOUS
  <2>3. \A j \in 1..Len(s) : s[j] \in C
    BY <2>2 DEF ToSet
  <2>4. \A j \in 1..Len(t) : t[j] \in C
    BY <2>2 DEF ToSet
  <2>5. CASE i <= Len(s)
    BY <2>1, <2>2, <2>3, <2>5
  <2>6. CASE ~(i <= Len(s))
    <3>1. i - Len(s) \in 1..Len(t)
      BY <2>2, <2>6
    <3>2. QED
      BY <2>1, <2>4, <2>6, <3>1
  <2>7. QED
    BY <2>5, <2>6
<1>3. QED
  BY <1>1, <1>2 DEF ToSet

\* Documents, each with its end.
Ended(documents) == [i \in DOMAIN documents |-> Append(documents[i], End)]

LEMMA EndedTyped ==
  ASSUME NEW documents \in Seq(Seq(Units))
  PROVE  Ended(documents) \in Seq(Seq(Units))
<1>1. End \in Units
  BY EndTyped
<1>2. Len(documents) \in Nat /\ DOMAIN documents = 1..Len(documents)
  OBVIOUS
<1>3. \A i \in 1..Len(documents) : Append(documents[i], End) \in Seq(Units)
  BY <1>1
<1>4. [i \in 1..Len(documents) |-> Append(documents[i], End)] \in Seq(Seq(Units))
  BY <1>2, <1>3
<1>5. QED
  BY <1>2, <1>4 DEF Ended

LEMMA EndedAppend ==
  ASSUME NEW documents \in Seq(Seq(Units)), NEW document \in Seq(Units)
  PROVE  Ended(Append(documents, document)) = Append(Ended(documents), Append(document, End))
<1> DEFINE more == Append(documents, document)
           left == Ended(more)
           right == Append(Ended(documents), Append(document, End))
           n == Len(documents)
<1>0. n \in Nat /\ DOMAIN documents = 1..n /\ DOMAIN more = 1..(n + 1) /\ more \in Seq(Seq(Units))
  OBVIOUS
<1>1. End \in Units /\ Append(document, End) \in Seq(Units)
  BY EndTyped
<1>2. Ended(documents) \in Seq(Seq(Units)) /\ Len(Ended(documents)) = n
  <2>1. Ended(documents) \in Seq(Seq(Units))
    BY EndedTyped
  <2>2. QED
    BY <2>1, <1>0, LenProperties DEF Ended
<1>3. DOMAIN left = 1..(n + 1) /\ \A i \in 1..(n + 1) : left[i] = Append(more[i], End)
  BY <1>0 DEF Ended
<1>4. right \in Seq(Seq(Units)) /\ Len(right) = n + 1
  BY <1>0, <1>1, <1>2
<1>5. left \in Seq(Seq(Units)) /\ Len(left) = n + 1
  <2>1. left \in Seq(Seq(Units))
    BY <1>0, EndedTyped
  <2> HIDE DEF left
  <2>2. QED
    BY <1>0, <1>3, <2>1, LenProperties
<1>6. ASSUME NEW i \in 1..(n + 1) PROVE left[i] = right[i]
  <2>1. CASE i = n + 1
    <3>1. more[i] = document
      BY <1>0, <2>1
    <3>2. right[i] = Append(document, End)
      BY <1>0, <1>2, <2>1
    <3>3. QED
      BY <1>3, <3>1, <3>2
  <2>2. CASE i \in 1..n
    <3>1. more[i] = documents[i]
      BY <1>0, <2>2
    <3>2. right[i] = Ended(documents)[i]
      BY <1>0, <1>2, <2>2
    <3>3. Ended(documents)[i] = Append(documents[i], End)
      BY <1>0, <2>2 DEF Ended
    <3>4. QED
      BY <1>3, <3>1, <3>2, <3>3
  <2>3. i = n + 1 \/ i \in 1..n
    BY <1>0
  <2>4. QED
    BY <2>1, <2>2, <2>3
<1> HIDE DEF left, right
<1>7. left = right
  BY <1>0, <1>4, <1>5, <1>6, SeqEqual
<1>8. QED
  BY <1>7 DEF left, right

\* What was given and what is held back make up what was fed.
Whole(kind, h) ==
  /\ h \in [held : [buffer : Seq(Units), closed : BOOLEAN], given : Seq(Seq(Units)), fed : Seq(Units)]
  /\ kind = "text" => /\ FlattenSeq(h.given) \o h.held.buffer = h.fed
                      /\ ToSet(h.given) \subseteq Characters
                      /\ h.held.buffer \in Unfinished
  /\ kind = "documents" => /\ FlattenSeq(Ended(h.given)) \o h.held.buffer = h.fed
                           /\ Len(h.held.buffer) =< MaxDocument
  /\ h.held.closed => h.held.buffer = <<>>

\* And so they did when the snapshot was taken.
TokenInv == stream \in {"text", "documents"} /\ Whole(stream, Now) /\ Whole(stream, saved)

LEMMA TokenInitInv == ASSUME TokensAssumption, TokensInit PROVE TokenInv
<1>1. <<>> \in Seq(Units) /\ <<>> \in Seq(Seq(Units)) /\ Len(<<>>) = 0
  BY EmptySeq
<1>2. held = [buffer |-> <<>>, closed |-> FALSE] /\ given = <<>> /\ fed = <<>> /\ saved = Now
  BY DEF TokensInit
<1>3. Now \in [held : [buffer : Seq(Units), closed : BOOLEAN], given : Seq(Seq(Units)), fed : Seq(Units)]
  BY <1>1, <1>2 DEF Now
<1>4. ToSet(<<>>) = {} /\ Ended(<<>>) = <<>>
  BY DEF ToSet, Ended
<1>5. FlattenSeq(<<>>) \o <<>> = <<>>
  BY <1>1, FlattenNothing, ConcatEmptySeq
<1>6. <<>> \in Unfinished /\ 0 =< MaxDocument
  BY UnitsTyped DEF TokensAssumption
<1>7. Whole(stream, Now)
  BY <1>1, <1>2, <1>3, <1>4, <1>5, <1>6 DEF Whole, Now
<1>8. saved = Now /\ stream \in {"text", "documents"}
  BY DEF TokensInit
<1>9. QED
  BY <1>7, <1>8 DEF TokenInv

LEMMA PayloadsTyped == ASSUME TokensAssumption PROVE Payloads \subseteq Seq(Units)
<1>1. ASSUME NEW n \in 0..2, NEW tokens \in [1..n -> Vocabulary] PROVE FlattenSeq(tokens) \in Seq(Units)
  <2>1. Vocabulary \subseteq Seq(Units)
    BY UnitsTyped
  <2>2. tokens \in Seq(Seq(Units))
    BY <2>1
  <2>3. QED
    BY <2>2, FlattenType
<1>2. QED
  BY <1>1 DEF Payloads

LEMMA FeedTokensInv ==
  ASSUME TokensAssumption, TokenInv, NEW bytes \in Payloads, NEW final \in BOOLEAN,
         FeedTokens(bytes, final)
  PROVE  TokenInv'
<1> DEFINE all == held.buffer \o bytes
           d == Scan(all)
           bad == d.error \/ (final /\ d.rest # <<>>)
<1>1. stream = "text" /\ stream' = stream /\ saved' = saved /\ Decoded(bytes, final)
  BY DEF FeedTokens
<1>2. bytes \in Seq(Units)
  BY PayloadsTyped
<1>3. /\ held.buffer \in Seq(Units) /\ held.closed \in BOOLEAN /\ given \in Seq(Seq(Units))
      /\ fed \in Seq(Units) /\ FlattenSeq(given) \o held.buffer = fed /\ ToSet(given) \subseteq Characters
  BY <1>1 DEF TokenInv, Whole, Now
<1>4. all \in Seq(Units)
  BY <1>2, <1>3, ConcatProperties
<1>5. Read(d, all)
  <2> HIDE DEF all
  <2>1. QED
    BY <1>4, ScanReads
<1>6. CASE bad
  <2>1. Now' = Now
    BY <1>1, <1>6 DEF Decoded, Now
  <2>2. QED
    BY <1>1, <2>1 DEF TokenInv
<1>7. CASE ~bad
  <2>1. held' = [buffer |-> d.rest, closed |-> final] /\ given' = given \o d.whole /\ fed' = fed \o bytes
    BY <1>1, <1>7 DEF Decoded
  <2> HIDE DEF d
  <2>2. /\ d.whole \in Seq(Seq(Units)) /\ d.rest \in Seq(Units) /\ FlattenSeq(d.whole) \o d.rest = all
        /\ ToSet(d.whole) \subseteq Characters /\ d.rest \in Unfinished
    BY <1>5, <1>7 DEF Read
  <2>3. final => d.rest = <<>>
    BY <1>7
  <2>4. given' \in Seq(Seq(Units)) /\ fed' \in Seq(Units)
    BY <1>2, <1>3, <2>1, <2>2, ConcatProperties
  <2>5. ToSet(given') \subseteq Characters
    BY <1>3, <2>1, <2>2, ToSetConcat
  <2>6. FlattenSeq(given') \o d.rest = fed'
    <3>1. FlattenSeq(given') = FlattenSeq(given) \o FlattenSeq(d.whole)
      BY <1>3, <2>1, <2>2, FlattenConcat
    <3>2. FlattenSeq(given) \in Seq(Units) /\ FlattenSeq(d.whole) \in Seq(Units)
      BY <1>3, <2>2, FlattenType
    <3>3. FlattenSeq(given') \o d.rest = FlattenSeq(given) \o (FlattenSeq(d.whole) \o d.rest)
      <4> DEFINE a == FlattenSeq(given)
                 b == FlattenSeq(d.whole)
                 c == d.rest
      <4>1. a \in Seq(Units) /\ b \in Seq(Units) /\ c \in Seq(Units) /\ FlattenSeq(given') = a \o b
        BY <2>2, <3>1, <3>2
      <4> HIDE DEF a, b, c
      <4>2. (a \o b) \o c = a \o (b \o c)
        BY <4>1, Reassociated
      <4>3. QED
        BY <4>1, <4>2 DEF a, b, c
    <3>4. FlattenSeq(given) \o (held.buffer \o bytes) = (FlattenSeq(given) \o held.buffer) \o bytes
      <4> DEFINE a == FlattenSeq(given)
                 b == held.buffer
      <4>1. a \in Seq(Units) /\ b \in Seq(Units)
        BY <1>3, <3>2
      <4> HIDE DEF a, b
      <4>2. a \o (b \o bytes) = (a \o b) \o bytes
        BY <1>2, <4>1, Reassociated
      <4>3. QED
        BY <4>2 DEF a, b
    <3>5. QED
      BY <1>3, <2>1, <2>2, <3>3, <3>4
  <2>7. Whole(stream, Now')
    BY <1>1, <2>1, <2>2, <2>3, <2>4, <2>5, <2>6 DEF Whole, Now
  <2>8. QED
    BY <1>1, <2>7 DEF TokenInv
<1>8. QED
  BY <1>6, <1>7

LEMMA FeedChunkInv ==
  ASSUME TokensAssumption, TokenInv, NEW bytes \in SeqOf(Alphabetical, 2),
         NEW documentEnd \in BOOLEAN, NEW final \in BOOLEAN, FeedChunk(bytes, documentEnd, final)
  PROVE  TokenInv'
<1> DEFINE all == held.buffer \o bytes
<1>1. stream = "documents" /\ stream' = stream /\ saved' = saved /\ ~held.closed /\ Len(all) =< MaxDocument
  BY DEF FeedChunk
<1>2. bytes \in Seq(Units) /\ End \in Units
  <2>1. PICK n \in 0..2 : bytes \in [1..n -> Alphabetical]
    BY DEF SeqOf
  <2>2. Alphabetical \subseteq Units
    BY UnitsTyped
  <2>3. bytes \in [1..n -> Units]
    BY <2>1, <2>2
  <2>4. QED
    BY <2>3, EndTyped
<1>3. /\ held.buffer \in Seq(Units) /\ held.closed \in BOOLEAN /\ given \in Seq(Seq(Units))
      /\ fed \in Seq(Units) /\ FlattenSeq(Ended(given)) \o held.buffer = fed
  BY <1>1 DEF TokenInv, Whole, Now
<1>4. all \in Seq(Units)
  BY <1>2, <1>3, ConcatProperties
<1>5. FlattenSeq(Ended(given)) \in Seq(Units) /\ Ended(given) \in Seq(Seq(Units))
  BY <1>3, EndedTyped, FlattenType
<1>6. FlattenSeq(Ended(given)) \o all = fed \o bytes
  <2> DEFINE a == FlattenSeq(Ended(given))
             b == held.buffer
  <2>1. a \in Seq(Units) /\ b \in Seq(Units) /\ a \o b = fed
    BY <1>3, <1>5
  <2> HIDE DEF a, b, all
  <2>2. a \o (b \o bytes) = (a \o b) \o bytes
    <3>1. a \in Seq(Units) /\ b \in Seq(Units) /\ bytes \in Seq(Units)
      BY <1>2, <2>1
    <3>2. QED
      BY <3>1, Reassociated
  <2>3. QED
    BY <2>1, <2>2 DEF a, b, all
<1>7. fed \o bytes \in Seq(Units) /\ <<End>> \in Seq(Units) /\ <<>> \in Seq(Units)
  BY <1>2, <1>3, ConcatProperties
<1>8. CASE documentEnd \/ final
  <2>1. /\ held' = [buffer |-> <<>>, closed |-> final] /\ given' = Append(given, all)
        /\ fed' = (fed \o bytes) \o <<End>>
    BY <1>8 DEF FeedChunk
  <2> HIDE DEF all
  <2>2. given' \in Seq(Seq(Units)) /\ fed' \in Seq(Units)
    BY <1>3, <1>4, <1>7, <2>1, ConcatProperties
  <2>3. FlattenSeq(Ended(given')) = FlattenSeq(Ended(given)) \o Append(all, End)
    <3>1. Ended(given') = Append(Ended(given), Append(all, End))
      BY <1>3, <1>4, <2>1, EndedAppend
    <3>2. Append(all, End) \in Seq(Units)
      BY <1>2, <1>4
    <3>3. QED
      BY <1>5, <3>1, <3>2, FlattenAppend
  <2>4. FlattenSeq(Ended(given)) \o Append(all, End) = Append(fed \o bytes, End)
    <3> DEFINE a == FlattenSeq(Ended(given))
    <3>1. a \in Seq(Units) /\ a \o all = fed \o bytes
      BY <1>5, <1>6
    <3> HIDE DEF a
    <3>2. a \o Append(all, End) = Append(a \o all, End)
      <4>1. End \in Units /\ all \in Seq(Units) /\ a \in Seq(Units)
        BY <1>2, <1>4, <3>1
      <4>2. QED
        BY <4>1, ConcatAppend
    <3>3. QED
      BY <3>1, <3>2 DEF a
  <2>5. Append(fed \o bytes, End) = fed'
    BY <1>2, <1>7, <2>1, AppendIsConcat
  <2>6. Append(fed \o bytes, End) \o <<>> = fed'
    BY <2>2, <2>5, ConcatEmptySeq
  <2>7. Len(<<>>) =< MaxDocument
    BY DEF TokensAssumption
  <2>8. Whole(stream, Now')
    BY <1>1, <1>7, <2>1, <2>2, <2>3, <2>4, <2>6, <2>7 DEF Whole, Now
  <2>9. QED
    BY <1>1, <2>8 DEF TokenInv
<1>9. CASE ~(documentEnd \/ final)
  <2>1. held' = [buffer |-> all, closed |-> FALSE] /\ given' = given /\ fed' = (fed \o bytes) \o <<>>
    <3>1. held = [buffer |-> held.buffer, closed |-> held.closed]
      BY DEF TokenInv, Whole, Now
    <3>2. held' = [held EXCEPT !.buffer = all] /\ given' = given /\ fed' = (fed \o bytes) \o <<>>
      BY <1>9 DEF FeedChunk
    <3>3. QED
      BY <1>1, <1>3, <3>1, <3>2
  <2>2. fed' = fed \o bytes
    BY <1>7, <2>1, ConcatEmptySeq
  <2> HIDE DEF all
  <2>3. Whole(stream, Now')
    BY <1>1, <1>3, <1>4, <1>6, <1>7, <2>1, <2>2 DEF Whole, Now
  <2>4. QED
    BY <1>1, <2>3 DEF TokenInv
<1>10. QED
  BY <1>8, <1>9

LEMMA TokenStep == ASSUME TokensAssumption, TokenInv, [TokensNext]_tokenVars PROVE TokenInv'
<1>1. ASSUME NEW bytes \in Payloads, NEW final \in BOOLEAN, FeedTokens(bytes, final) PROVE TokenInv'
  BY <1>1, FeedTokensInv
<1>2. ASSUME NEW bytes \in SeqOf(Alphabetical, 2), NEW documentEnd \in BOOLEAN, NEW final \in BOOLEAN,
             FeedChunk(bytes, documentEnd, final)
      PROVE  TokenInv'
  BY <1>2, FeedChunkInv
<1>3. CASE Snapshot
  BY <1>3 DEF Snapshot, TokenInv, Now
<1>4. CASE RestoreSaved
  <2>1. Now' = saved /\ saved' = saved /\ stream' = stream
    <3>1. saved = [held |-> saved.held, given |-> saved.given, fed |-> saved.fed]
      BY DEF TokenInv, Whole
    <3>2. QED
      BY <1>4, <3>1 DEF RestoreSaved, Now
  <2>2. QED
    BY <2>1 DEF TokenInv
<1>5. CASE UNCHANGED tokenVars
  BY <1>5 DEF tokenVars, TokenInv, Now
<1>6. QED
  BY <1>1, <1>2, <1>3, <1>4, <1>5 DEF TokensNext

LEMMA NothingLost == ASSUME TokenInv PROVE StreamsLoseNothing
<1>1. Whole(stream, Now) /\ Now.held = held /\ Now.given = given /\ Now.fed = fed
  BY DEF TokenInv, Now
<1>2. stream = "text" => /\ FlattenSeq(given) \o held.buffer = fed
                         /\ ToSet(given) \subseteq Characters
                         /\ held.buffer \in Unfinished
  BY <1>1 DEF Whole
<1>3. stream = "documents" => FlattenSeq(Ended(given)) \o held.buffer = fed
  BY <1>1 DEF Whole
<1>4. held.closed => held.buffer = <<>>
  BY <1>1 DEF Whole
<1>5. Restorable(saved.held)
  BY DEF TokenInv, Whole, Restorable
<1>6. QED
  BY <1>2, <1>3, <1>4, <1>5 DEF StreamsLoseNothing, Ended

-------------------------------------------------------------------------------
(* A decoder of events, as folds                                              *)

LEMMA PiecesIsFold ==
  ASSUME NEW s, Len(s) \in Nat, DOMAIN s = 1..Len(s)
  PROVE  Pieces(s) = FoldOf("cut", 0, <<>>, s)
<1> DEFINE S == DOMAIN s
           P(g) == g = [u \in SUBSET S |-> IF u = {} THEN <<>> ELSE Cut(g[u \ {Max(u)}], s[Max(u)])]
<1>1. ASSUME NEW g PROVE Folds(g, "cut", 0, <<>>, s, Len(s)) <=> P(g)
  BY DEF Folds, StepOf
<1>2. PICK h : P(h)
  <2>1. PICK h : Folds(h, "cut", 0, <<>>, s, Len(s))
    BY FoldExists
  <2>2. P(h)
    BY <1>1, <2>1
  <2> HIDE DEF P
  <2>3. QED
    BY <2>2
<1>3. P(CHOOSE g : P(g))
  <2> HIDE DEF P
  <2>1. QED
    BY <1>2, Zenon
<1>4. (CHOOSE g : P(g))[S] = FoldOf("cut", 0, <<>>, s)
  <2> DEFINE chosen == CHOOSE g : P(g)
  <2>1. P(chosen)
    BY <1>3
  <2> HIDE DEF chosen, P
  <2>2. Folds(chosen, "cut", 0, <<>>, s, Len(s))
    BY <1>1, <2>1
  <2>3. QED
    BY <2>2, FoldIs DEF chosen
<1>5. Pieces(s) = (CHOOSE g : P(g))[S]
  BY Zenon DEF Pieces, FoldLeft, MapThenFoldSet
<1>6. QED
  BY <1>4, <1>5

LEMMA SingleIsFold ==
  ASSUME NEW s, Len(s) \in Nat, DOMAIN s = 1..Len(s)
  PROVE  Single(s) = FoldOf("byte", 0, Fresh, s)
<1> DEFINE S == DOMAIN s
           P(g) == g = [u \in SUBSET S |-> IF u = {} THEN Fresh ELSE FeedByte(g[u \ {Max(u)}], s[Max(u)])]
<1>1. ASSUME NEW g PROVE Folds(g, "byte", 0, Fresh, s, Len(s)) <=> P(g)
  BY DEF Folds, StepOf
<1>2. PICK h : P(h)
  <2>1. PICK h : Folds(h, "byte", 0, Fresh, s, Len(s))
    BY FoldExists
  <2>2. P(h)
    BY <1>1, <2>1
  <2> HIDE DEF P
  <2>3. QED
    BY <2>2
<1>3. P(CHOOSE g : P(g))
  <2> HIDE DEF P
  <2>1. QED
    BY <1>2, Zenon
<1>4. (CHOOSE g : P(g))[S] = FoldOf("byte", 0, Fresh, s)
  <2> DEFINE chosen == CHOOSE g : P(g)
  <2>1. P(chosen)
    BY <1>3
  <2> HIDE DEF chosen, P
  <2>2. Folds(chosen, "byte", 0, Fresh, s, Len(s))
    BY <1>1, <2>1
  <2>3. QED
    BY <2>2, FoldIs DEF chosen
<1>5. Single(s) = (CHOOSE g : P(g))[S]
  BY Zenon DEF Single, FoldLeft, MapThenFoldSet
<1>6. QED
  BY <1>4, <1>5

LEMMA SpokenIsFold ==
  ASSUME NEW s, Len(s) \in Nat, DOMAIN s = 1..Len(s)
  PROVE  Spoken(s) = FoldOf("say", 0, <<>>, s)
<1> DEFINE S == DOMAIN s
           P(g) == g = [u \in SUBSET S |-> IF u = {} THEN <<>> ELSE Say(g[u \ {Max(u)}], s[Max(u)])]
<1>1. ASSUME NEW g PROVE Folds(g, "say", 0, <<>>, s, Len(s)) <=> P(g)
  BY DEF Folds, StepOf
<1>2. PICK h : P(h)
  <2>1. PICK h : Folds(h, "say", 0, <<>>, s, Len(s))
    BY FoldExists
  <2>2. P(h)
    BY <1>1, <2>1
  <2> HIDE DEF P
  <2>3. QED
    BY <2>2
<1>3. P(CHOOSE g : P(g))
  <2> HIDE DEF P
  <2>1. QED
    BY <1>2, Zenon
<1>4. (CHOOSE g : P(g))[S] = FoldOf("say", 0, <<>>, s)
  <2> DEFINE chosen == CHOOSE g : P(g)
  <2>1. P(chosen)
    BY <1>3
  <2> HIDE DEF chosen, P
  <2>2. Folds(chosen, "say", 0, <<>>, s, Len(s))
    BY <1>1, <2>1
  <2>3. QED
    BY <2>2, FoldIs DEF chosen
<1>5. Spoken(s) = (CHOOSE g : P(g))[S]
  BY Zenon DEF Spoken, FoldLeft, MapThenFoldSet
<1>6. QED
  BY <1>4, <1>5

LEMMA FeedIsFold ==
  ASSUME NEW d, NEW chunk, NEW s, s = Pieces(chunk), Len(s) \in Nat, DOMAIN s = 1..Len(s)
  PROVE  Feed(d, chunk) = FoldOf("piece", 0, d, s)
<1> DEFINE S == DOMAIN s
           P(g) == g = [u \in SUBSET S |-> IF u = {} THEN d ELSE Piece(g[u \ {Max(u)}], s[Max(u)])]
<1>1. ASSUME NEW g PROVE Folds(g, "piece", 0, d, s, Len(s)) <=> P(g)
  BY DEF Folds, StepOf
<1>2. PICK h : P(h)
  <2>1. PICK h : Folds(h, "piece", 0, d, s, Len(s))
    BY FoldExists
  <2>2. P(h)
    BY <1>1, <2>1
  <2> HIDE DEF P
  <2>3. QED
    BY <2>2
<1>3. P(CHOOSE g : P(g))
  <2> HIDE DEF P
  <2>1. QED
    BY <1>2, Zenon
<1>4. (CHOOSE g : P(g))[S] = FoldOf("piece", 0, d, s)
  <2> DEFINE chosen == CHOOSE g : P(g)
  <2>1. P(chosen)
    BY <1>3
  <2> HIDE DEF chosen, P
  <2>2. Folds(chosen, "piece", 0, d, s, Len(s))
    BY <1>1, <2>1
  <2>3. QED
    BY <2>2, FoldIs DEF chosen
<1>5. Feed(d, chunk) = (CHOOSE g : P(g))[S]
  BY Zenon DEF Feed, FoldLeft, MapThenFoldSet
<1>6. QED
  BY <1>4, <1>5

\* Bytes of a wire.
Octets ==
  [kind : {"token", "data", "done", "error", "lead", "tail", "newline", "return"}, value : Int]

LEMMA OctetsTyped == Newline \in Octets /\ Return \in Octets /\ Newline # Return
<1>1. Newline \in Octets /\ Return \in Octets
  BY DEF Newline, Return, Byte, Octets
<1>2. Newline.kind = "newline" /\ Return.kind = "return"
  BY DEF Newline, Return, Byte
<1>3. QED
  BY <1>1, <1>2

LEMMA SeqShape == ASSUME NEW S, NEW s \in Seq(S) PROVE Len(s) \in Nat /\ DOMAIN s = 1..Len(s)
  OBVIOUS

LEMMA PiecesNone == Pieces(<<>>) = <<>>
<1>1. Pieces(<<>>) = FoldOf("cut", 0, <<>>, <<>>)
  BY PiecesIsFold
<1>2. QED
  BY <1>1, FoldNothing

LEMMA PiecesAppend ==
  ASSUME NEW S, NEW s \in Seq(S), NEW b \in S
  PROVE  Pieces(Append(s, b)) = Cut(Pieces(s), b)
<1>1. Append(s, b) \in Seq(S)
  OBVIOUS
<1>2. Pieces(s) = FoldOf("cut", 0, <<>>, s)
  BY SeqShape, PiecesIsFold
<1>3. Pieces(Append(s, b)) = FoldOf("cut", 0, <<>>, Append(s, b))
  BY <1>1, SeqShape, PiecesIsFold
<1>4. FoldOf("cut", 0, <<>>, Append(s, b)) = StepOf("cut", 0, FoldOf("cut", 0, <<>>, s), b)
  BY FoldAppend
<1>5. QED
  BY <1>2, <1>3, <1>4 DEF StepOf

LEMMA SpokenNone == Spoken(<<>>) = <<>>
<1>1. Spoken(<<>>) = FoldOf("say", 0, <<>>, <<>>)
  BY SpokenIsFold
<1>2. QED
  BY <1>1, FoldNothing

LEMMA SpokenAppend ==
  ASSUME NEW S, NEW s \in Seq(S), NEW b \in S
  PROVE  Spoken(Append(s, b)) = Say(Spoken(s), b)
<1>1. Append(s, b) \in Seq(S)
  OBVIOUS
<1>2. Spoken(s) = FoldOf("say", 0, <<>>, s)
  BY SeqShape, SpokenIsFold
<1>3. Spoken(Append(s, b)) = FoldOf("say", 0, <<>>, Append(s, b))
  BY <1>1, SeqShape, SpokenIsFold
<1>4. FoldOf("say", 0, <<>>, Append(s, b)) = StepOf("say", 0, FoldOf("say", 0, <<>>, s), b)
  BY FoldAppend
<1>5. QED
  BY <1>2, <1>3, <1>4 DEF StepOf

\* Pieces are not empty, and only the last byte of one is a newline: so they tell
\* bytes from what they are cut into.
LEMMA PiecesTyped ==
  ASSUME NEW S, NEW s \in Seq(S)
  PROVE  Pieces(s) \in Seq(Seq(S) \ {<<>>})
<1> DEFINE T == {t \in Seq(S) : Pieces(t) \in Seq(Seq(S) \ {<<>>})}
<1>1. <<>> \in T
  <2>1. <<>> \in Seq(S) /\ <<>> \in Seq(Seq(S) \ {<<>>})
    BY EmptySeq
  <2>2. QED
    BY <2>1, PiecesNone
<1>2. ASSUME NEW t \in T, NEW b \in S PROVE Append(t, b) \in T
  <2> DEFINE ps == Pieces(t)
             P == Seq(S) \ {<<>>}
  <2>1. t \in Seq(S) /\ ps \in Seq(P) /\ Append(t, b) \in Seq(S)
    OBVIOUS
  <2>2. Pieces(Append(t, b)) = Cut(ps, b)
    BY <2>1, PiecesAppend
  <2>3. <<b>> \in P
    OBVIOUS
  <2> HIDE DEF ps, T
  <2>4. CASE ps = <<>> \/ Last(Last(ps)) = Newline
    <3>1. Cut(ps, b) = Append(ps, <<b>>)
      BY <2>4 DEF Cut
    <3> HIDE DEF P
    <3>2. Append(ps, <<b>>) \in Seq(P)
      BY <2>1, <2>3
    <3>3. QED
      BY <2>1, <2>2, <3>1, <3>2 DEF T, P
  <2>5. CASE ~(ps = <<>> \/ Last(Last(ps)) = Newline)
    <3>1. Cut(ps, b) = Append(Front(ps), Append(Last(ps), b)) /\ ps # <<>>
      BY <2>5 DEF Cut
    <3>2. Len(ps) \in Nat \ {0} /\ Front(ps) \in Seq(P) /\ Last(ps) \in P
      <4> HIDE DEF P
      <4>1. Len(ps) \in Nat \ {0}
        BY <2>1, <3>1, EmptySeq
      <4>2. \A i \in 1..Len(ps) : ps[i] \in P
        BY <2>1, ElementOfSeq
      <4>3. Front(ps) \in Seq(P)
        BY <4>1, <4>2, SubSeqProperties DEF Front
      <4>4. Last(ps) \in P
        BY <4>1, <4>2 DEF Last
      <4>5. QED
        BY <4>1, <4>3, <4>4
    <3>3. Append(Last(ps), b) \in P
      <4>1. Last(ps) \in Seq(S)
        BY <3>2
      <4>2. Append(Last(ps), b) \in Seq(S) /\ Len(Append(Last(ps), b)) = Len(Last(ps)) + 1
        BY <4>1
      <4>3. Len(<<>>) = 0 /\ Len(Last(ps)) \in Nat
        BY <4>1
      <4>4. QED
        BY <4>2, <4>3
    <3> HIDE DEF P
    <3>4. Append(Front(ps), Append(Last(ps), b)) \in Seq(P)
      BY <3>2, <3>3
    <3>5. QED
      BY <2>1, <2>2, <3>1, <3>4 DEF T, P
  <2>6. QED
    BY <2>4, <2>5
<1>3. T = Seq(S)
  <2>1. T \in SUBSET Seq(S)
    OBVIOUS
  <2> HIDE DEF T
  <2>2. QED
    BY <1>1, <1>2, <2>1, EverySequence
<1>4. QED
  BY <1>3

LEMMA FeedNone == ASSUME NEW d PROVE Feed(d, <<>>) = d
<1>1. Feed(d, <<>>) = FoldOf("piece", 0, d, <<>>)
  BY PiecesNone, FeedIsFold
<1>2. QED
  BY <1>1, FoldNothing

LEMMA FeedOne ==
  ASSUME NEW d, NEW b
  PROVE  FeedByte(d, b) = Piece(d, <<b>>)
<1>1. <<b>> = Append(<<>>, b) /\ <<>> \in Seq({b})
  OBVIOUS
<1>2. Pieces(<<b>>) = <<<<b>>>>
  <2>1. Pieces(<<b>>) = Cut(<<>>, b)
    BY <1>1, PiecesNone, PiecesAppend
  <2>2. QED
    BY <2>1 DEF Cut
<1>3. Feed(d, <<b>>) = FoldOf("piece", 0, d, <<<<b>>>>)
  BY <1>2, FeedIsFold
<1>4. <<<<b>>>> = Append(<<>>, <<b>>) /\ <<>> \in Seq({<<b>>}) /\ <<b>> \in {<<b>>}
  OBVIOUS
<1>5. FoldOf("piece", 0, d, Append(<<>>, <<b>>)) = StepOf("piece", 0, FoldOf("piece", 0, d, <<>>), <<b>>)
  <2> DEFINE piece == <<b>>
             none == <<>>
  <2>1. none \in Seq({piece}) /\ piece \in {piece}
    OBVIOUS
  <2> HIDE DEF piece, none
  <2>2. FoldOf("piece", 0, d, Append(none, piece)) = StepOf("piece", 0, FoldOf("piece", 0, d, none), piece)
    BY <2>1, FoldAppend
  <2>3. QED
    BY <2>2 DEF piece, none
<1>6. QED
  BY <1>3, <1>4, <1>5, FoldNothing DEF StepOf, FeedByte

SingleSteps ==
  /\ Single(<<>>) = Fresh
  /\ \A s \in Seq(Octets) : \A b \in Octets : Single(Append(s, b)) = Piece(Single(s), <<b>>)

LEMMA SingleStep == SingleSteps
<1>1. Single(<<>>) = Fresh
  <2>1. Single(<<>>) = FoldOf("byte", 0, Fresh, <<>>)
    BY SingleIsFold
  <2>2. QED
    BY <2>1, FoldNothing
<1>2. ASSUME NEW s \in Seq(Octets), NEW b \in Octets
      PROVE  Single(Append(s, b)) = Piece(Single(s), <<b>>)
  <2>1. Append(s, b) \in Seq(Octets)
    OBVIOUS
  <2>2. Single(s) = FoldOf("byte", 0, Fresh, s)
    BY SeqShape, SingleIsFold
  <2>3. Single(Append(s, b)) = FoldOf("byte", 0, Fresh, Append(s, b))
    BY <2>1, SeqShape, SingleIsFold
  <2>4. FoldOf("byte", 0, Fresh, Append(s, b)) = StepOf("byte", 0, FoldOf("byte", 0, Fresh, s), b)
    BY FoldAppend
  <2>5. Single(Append(s, b)) = FeedByte(Single(s), b)
    BY <2>2, <2>3, <2>4 DEF StepOf
  <2>6. QED
    BY <2>5, FeedOne
<1>3. QED
  BY <1>1, <1>2 DEF SingleSteps

LEMMA SingleStepNext == SingleSteps'
  BY SingleStep, PTL

LEMMA PieceStays ==
  ASSUME cancelAfter' = cancelAfter, NEW d, NEW piece
  PROVE  Piece(d, piece)' = Piece(d, piece)
<1>1. ASSUME NEW e PROVE Event(e)' = Event(e)
  BY DEF Event
<1>2. ASSUME NEW e, NEW ended PROVE Line(e, ended)' = Line(e, ended)
  BY <1>1 DEF Line
<1>3. QED
  BY <1>2 DEF Piece

LEMMA SingleStays ==
  ASSUME cancelAfter' = cancelAfter, NEW s \in Seq(Octets)
  PROVE  Single(s)' = Single(s)
<1>1. /\ Single(<<>>)' = Fresh
      /\ \A t \in Seq(Octets) : \A b \in Octets : Single(Append(t, b))' = Piece(Single(t), <<b>>)'
  BY SingleStepNext DEF SingleSteps
<1> DEFINE T == {t \in Seq(Octets) : Single(t)' = Single(t)}
<1>2. <<>> \in T
  BY <1>1, SingleStep DEF SingleSteps
<1>3. ASSUME NEW t \in T, NEW b \in Octets PROVE Append(t, b) \in T
  <2>1. t \in Seq(Octets) /\ Single(t)' = Single(t) /\ Append(t, b) \in Seq(Octets)
    OBVIOUS
  <2>2. Single(Append(t, b))' = Piece(Single(t), <<b>>)'
    BY <1>1, <2>1
  <2>3. Single(Append(t, b)) = Piece(Single(t), <<b>>)
    BY <2>1, SingleStep DEF SingleSteps
  <2>4. Piece(Single(t), <<b>>)' = Piece(Single(t), <<b>>)
    <3>1. PICK d : d = Single(t)
      OBVIOUS
    <3>2. Piece(d, <<b>>)' = Piece(d, <<b>>)
      BY PieceStays
    <3>3. QED
      BY <2>1, <3>1, <3>2
  <2>5. QED
    BY <2>1, <2>2, <2>3, <2>4
<1>4. T = Seq(Octets)
  <2>1. T \in SUBSET Seq(Octets)
    OBVIOUS
  <2> HIDE DEF T
  <2>2. QED
    BY <1>2, <1>3, <2>1, EverySequence
<1>5. QED
  BY <1>4

-------------------------------------------------------------------------------
(* First and last                                                             *)

LEMMA FrontLast ==
  ASSUME NEW S, NEW s \in Seq(S), s # <<>>
  PROVE  /\ Len(s) \in Nat \ {0} /\ Front(s) \in Seq(S) /\ Last(s) \in S
         /\ Len(Front(s)) = Len(s) - 1 /\ \A i \in 1..(Len(s) - 1) : Front(s)[i] = s[i]
         /\ s = Append(Front(s), Last(s))
<1>1. Len(s) \in Nat \ {0}
  BY EmptySeq
<1>2. \A i \in 1..Len(s) : s[i] \in S
  BY ElementOfSeq
<1>3. /\ Front(s) \in Seq(S) /\ Len(Front(s)) = Len(s) - 1
      /\ \A i \in 1..(Len(s) - 1) : Front(s)[i] = s[i]
  <2> DEFINE n == Len(s) - 1
  <2>1. n \in Nat /\ n \in Int /\ 1 \in Int /\ (n - 1) + 1 = n /\ \A i \in 1..n : s[i] \in S
    BY <1>1, <1>2
  <2>2. Front(s) = SubSeq(s, 1, n)
    BY DEF Front
  <2> HIDE DEF n
  <2>3. /\ SubSeq(s, 1, n) \in Seq(S) /\ Len(SubSeq(s, 1, n)) = (IF 1 <= n THEN n - 1 + 1 ELSE 0)
        /\ \A i \in 1..(n - 1 + 1) : SubSeq(s, 1, n)[i] = s[1 + i - 1]
    BY <2>1, SubSeqProperties
  <2>4. Len(Front(s)) = n
    BY <2>1, <2>2, <2>3
  <2>5. \A i \in 1..n : Front(s)[i] = s[i]
    BY <2>1, <2>2, <2>3
  <2>6. QED
    BY <2>2, <2>3, <2>4, <2>5 DEF n
<1>4. Last(s) \in S /\ Last(s) = s[Len(s)]
  BY <1>1, <1>2 DEF Last
<1> DEFINE n == Len(s)
           t == Append(Front(s), Last(s))
<1>5. t \in Seq(S) /\ Len(t) = n
  BY <1>1, <1>3, <1>4
<1>6. ASSUME NEW i \in 1..n PROVE t[i] = s[i]
  <2>1. CASE i = n
    BY <1>1, <1>3, <1>4, <2>1
  <2>2. CASE i \in 1..(n - 1)
    <3>1. t[i] = Front(s)[i]
      BY <1>1, <1>3, <1>4, <2>2
    <3>2. QED
      BY <1>3, <2>2, <3>1
  <2>3. i = n \/ i \in 1..(n - 1)
    BY <1>1
  <2>4. QED
    BY <2>1, <2>2, <2>3
<1> HIDE DEF t
<1>7. s = t
  BY <1>1, <1>5, <1>6, SeqEqual
<1>8. QED
  BY <1>1, <1>3, <1>4, <1>7 DEF t

LEMMA LastAppended ==
  ASSUME NEW S, NEW s \in Seq(S), NEW x \in S
  PROVE  Last(Append(s, x)) = x /\ Front(Append(s, x)) = s /\ Append(s, x) # <<>>
<1> DEFINE t == Append(s, x)
<1>1. t \in Seq(S) /\ Len(t) = Len(s) + 1 /\ Len(s) \in Nat
  OBVIOUS
<1>2. Last(t) = x
  BY <1>1 DEF Last
<1>3. t # <<>>
  BY <1>1
<1>4. \A i \in 1..Len(s) : t[i] = s[i]
  BY <1>1
<1> HIDE DEF t
<1>5. Front(t) \in Seq(S) /\ Len(Front(t)) = Len(s) /\ \A i \in 1..Len(s) : Front(t)[i] = s[i]
  BY <1>1, <1>3, <1>4, FrontLast
<1>6. Front(t) = s
  BY <1>5, SeqEqual
<1>7. QED
  BY <1>2, <1>3, <1>6 DEF t

-------------------------------------------------------------------------------
(* Decoders                                                                   *)

Decoders ==
  [text : Seq(Octets), lines : Seq(Seq(Octets) \ {<<>>}), eventBytes : Nat, total : Nat,
   tokens : Seq(Int), output : Int, error : BOOLEAN,
   status : {"open", "cancelled", "protocol_error"}]

LEMMA FreshTyped == Fresh \in Decoders
<1>1. <<>> \in Seq(Octets) /\ <<>> \in Seq(Seq(Octets) \ {<<>>}) /\ <<>> \in Seq(Int)
  BY EmptySeq
<1>2. QED
  BY <1>1 DEF Fresh, Decoders

LEMMA FailTyped == ASSUME NEW d \in Decoders PROVE Fail(d) \in Decoders
  BY DEF Fail, Decoders

LEMMA EventTyped ==
  ASSUME NEW d \in Decoders, WellFormed(d.lines)
  PROVE  Event(d) \in Decoders
<1> DEFINE name == d.lines[1][1].kind
           data == d.lines[2][1]
           next == [d EXCEPT !.lines = <<>>, !.eventBytes = 0]
<1>1. name \in {"token", "done", "error"}
  BY DEF WellFormed
<1>2. data \in Octets
  <2>1. d.lines \in Seq(Seq(Octets) \ {<<>>}) /\ 2 \in 1..Len(d.lines)
    BY DEF Decoders, WellFormed
  <2>2. d.lines[2] \in Seq(Octets) \ {<<>>}
    BY <2>1, ElementOfSeq
  <2>3. Len(d.lines[2]) \in Nat \ {0}
    BY <2>2, EmptySeq
  <2>4. QED
    BY <2>2, <2>3, ElementOfSeq
<1>3. next \in Decoders
  <2>1. <<>> \in Seq(Seq(Octets) \ {<<>>})
    BY EmptySeq
  <2>2. QED
    BY <2>1 DEF Decoders
<1>4. data.value \in Int
  BY <1>2 DEF Octets
<1> HIDE DEF next
<1>5. Fail(next) \in Decoders
  BY <1>3, FailTyped
<1>6. ASSUME NEW v \in {"cancelled", "open"}
      PROVE  [next EXCEPT !.tokens = Append(@, data.value), !.status = v] \in Decoders
  <2> HIDE DEF data
  <2>1. Append(next.tokens, data.value) \in Seq(Int)
    BY <1>3, <1>4 DEF Decoders
  <2>2. QED
    BY <1>3, <2>1 DEF Decoders
<1>7. [next EXCEPT !.output = data.value] \in Decoders /\ [next EXCEPT !.error = TRUE] \in Decoders
  BY <1>3, <1>4 DEF Decoders
<1>8. CASE name = "token"
  BY <1>5, <1>6, <1>8 DEF Event, next
<1>9. CASE name = "done"
  BY <1>5, <1>7, <1>9 DEF Event, next
<1>10. CASE name = "error"
  BY <1>5, <1>7, <1>10 DEF Event, next
<1>11. QED
  BY <1>1, <1>8, <1>9, <1>10

\* A line without the return before its newline.
Bare(ended) == IF ended # <<>> /\ Last(ended) = Return THEN Front(ended) ELSE ended

\* A decoder at the end of a line of so many bytes.
AtEnd(d, line) == [d EXCEPT !.text = <<>>, !.eventBytes = @ + Len(line) + 1]

LEMMA BareTyped == ASSUME NEW ended \in Seq(Octets) PROVE Bare(ended) \in Seq(Octets)
  BY FrontLast DEF Bare

LEMMA AtEndTyped ==
  ASSUME NEW d \in Decoders, NEW line \in Seq(Octets)
  PROVE  /\ AtEnd(d, line) \in Decoders
         /\ AtEnd(d, line).lines = d.lines /\ AtEnd(d, line).tokens = d.tokens
         /\ AtEnd(d, line).output = d.output /\ AtEnd(d, line).error = d.error
         /\ AtEnd(d, line).status = d.status /\ AtEnd(d, line).text = <<>>
<1>1. <<>> \in Seq(Octets) /\ d.eventBytes + Len(line) + 1 \in Nat
  BY EmptySeq DEF Decoders
<1>2. QED
  BY <1>1 DEF AtEnd, Decoders

LEMMA LineIs ==
  ASSUME NEW d, NEW ended
  PROVE  Line(d, ended) =
           LET line == Bare(ended)
               counted == AtEnd(d, line)
           IN IF Contains(line, Return) \/ (line # <<>> /\ Terminated(d)) THEN Fail(counted)
              ELSE IF line # <<>> THEN [counted EXCEPT !.lines = Append(@, line)]
              ELSE IF d.lines = <<>> THEN counted
              ELSE IF WellFormed(d.lines) THEN Event(counted) ELSE Fail(counted)
  BY Zenon DEF Line, Bare, AtEnd

LEMMA LineTyped ==
  ASSUME NEW d \in Decoders, NEW ended \in Seq(Octets)
  PROVE  Line(d, ended) \in Decoders
<1> DEFINE line == Bare(ended)
           counted == AtEnd(d, line)
<1>1. line \in Seq(Octets)
  BY BareTyped
<1>2. counted \in Decoders /\ counted.lines = d.lines
  BY <1>1, AtEndTyped
<1> HIDE DEF counted, line
<1>3. Fail(counted) \in Decoders
  BY <1>2, FailTyped
<1>4. line # <<>> => [counted EXCEPT !.lines = Append(@, line)] \in Decoders
  <2>1. line # <<>> => Append(counted.lines, line) \in Seq(Seq(Octets) \ {<<>>})
    <3> DEFINE L == Seq(Octets) \ {<<>>}
    <3>1. counted.lines \in Seq(L) /\ (line # <<>> => line \in L)
      BY <1>1, <1>2 DEF Decoders
    <3> HIDE DEF L
    <3>2. line # <<>> => Append(counted.lines, line) \in Seq(L)
      BY <3>1
    <3>3. QED
      BY <3>2 DEF L
  <2>2. QED
    BY <1>2, <2>1 DEF Decoders
<1>5. WellFormed(d.lines) => Event(counted) \in Decoders
  BY <1>2, EventTyped
<1>6. QED
  BY <1>2, <1>3, <1>4, <1>5, LineIs DEF counted, line

\* A decoder that has counted the bytes of a piece.
Counted(d, piece) == [d EXCEPT !.total = @ + Len(piece)]

TooMuch(d, piece) ==
  \/ d.total + Len(piece) > MaxBytes
  \/ d.eventBytes + Len(d.text \o piece) > MaxEventBytes
  \/ ~ValidUtf8(d.text \o piece)

LEMMA PieceIs ==
  ASSUME NEW d \in Decoders, NEW piece
  PROVE  Piece(d, piece) =
           IF d.status # "open" THEN d
           ELSE IF TooMuch(d, piece) THEN Fail(Counted(d, piece))
           ELSE IF Last(d.text \o piece) = Newline THEN Line(Counted(d, piece), Front(d.text \o piece))
           ELSE [Counted(d, piece) EXCEPT !.text = d.text \o piece]
<1>1. Counted(d, piece).total = d.total + Len(piece)
  BY DEF Counted, Decoders
<1>2. QED
  BY <1>1, Zenon DEF Piece, TooMuch, Counted

LEMMA CountedTyped ==
  ASSUME NEW d \in Decoders, NEW piece \in Seq(Octets)
  PROVE  /\ Counted(d, piece) \in Decoders
         /\ Counted(d, piece).lines = d.lines /\ Counted(d, piece).tokens = d.tokens
         /\ Counted(d, piece).output = d.output /\ Counted(d, piece).error = d.error
         /\ Counted(d, piece).status = d.status /\ Counted(d, piece).text = d.text
<1>1. d.total + Len(piece) \in Nat
  BY DEF Decoders
<1>2. QED
  BY <1>1 DEF Counted, Decoders

LEMMA PieceTyped ==
  ASSUME NEW d \in Decoders, NEW piece \in Seq(Octets) \ {<<>>}
  PROVE  Piece(d, piece) \in Decoders
<1> DEFINE whole == d.text \o piece
<1>1. whole \in Seq(Octets) /\ whole # <<>>
  <2>1. d.text \in Seq(Octets) /\ piece \in Seq(Octets)
    BY DEF Decoders
  <2>2. Len(piece) \in Nat \ {0}
    BY EmptySeq
  <2>3. whole \in Seq(Octets) /\ Len(whole) = Len(d.text) + Len(piece)
    BY <2>1, ConcatProperties
  <2>4. QED
    BY <2>1, <2>2, <2>3
<1> HIDE DEF whole
<1>2. Counted(d, piece) \in Decoders
  BY CountedTyped
<1>3. Fail(Counted(d, piece)) \in Decoders
  BY <1>2, FailTyped
<1>4. Line(Counted(d, piece), Front(whole)) \in Decoders
  BY <1>1, <1>2, FrontLast, LineTyped
<1>5. [Counted(d, piece) EXCEPT !.text = whole] \in Decoders
  BY <1>1, <1>2 DEF Decoders
<1>6. QED
  BY <1>3, <1>4, <1>5, PieceIs DEF whole

-------------------------------------------------------------------------------
(* Pieces cut in two                                                          *)

\* The same decoder while it is open, and the same to see when it is not.
Same(d, e) == IF d.status = "open" THEN d = e ELSE View(d) = View(e)

LEMMA SameStatus == ASSUME NEW d, NEW e, Same(d, e) PROVE d.status = e.status
<1>1. CASE d.status = "open"
  BY <1>1 DEF Same
<1>2. CASE d.status # "open"
  BY <1>2 DEF Same, View
<1>3. QED
  BY <1>1, <1>2

LEMMA LonelyTyped ==
  ASSUME NEW b \in Octets
  PROVE  <<b>> \in Seq(Octets) /\ Len(<<b>>) = 1 /\ <<b>> # <<>>
  OBVIOUS

LEMMA Utf8Prefix ==
  ASSUME NEW t \in Seq(Octets), NEW b \in Octets, ValidUtf8(Append(t, b))
  PROVE  ValidUtf8(t)
<1> DEFINE u == Append(t, b)
           n == Len(t)
<1>1. n \in Nat /\ DOMAIN t = 1..n /\ DOMAIN u = 1..(n + 1) /\ Len(u) = n + 1
  OBVIOUS
<1>2. \A i \in 1..n : u[i] = t[i]
  BY <1>1
<1>3. ValidUtf8(u)
  OBVIOUS
<1> HIDE DEF u, n
<1>4. ASSUME NEW i \in 1..n
      PROVE  /\ t[i].kind = "tail" => i > 1 /\ t[i - 1].kind = "lead"
             /\ t[i].kind = "lead" /\ i < n => t[i + 1].kind = "tail"
  <2>1. i \in 1..(n + 1) /\ u[i] = t[i] /\ i < n + 1
    BY <1>1, <1>2
  <2>2. /\ u[i].kind = "tail" => i > 1 /\ u[i - 1].kind = "lead"
        /\ u[i].kind = "lead" /\ i < n + 1 => u[i + 1].kind = "tail"
    BY <1>1, <1>3, <2>1 DEF ValidUtf8
  <2>3. i > 1 => i - 1 \in 1..n /\ u[i - 1] = t[i - 1]
    <3>1. i > 1 => i - 1 \in 1..n
      BY <1>1
    <3>2. QED
      BY <1>2, <3>1
  <2>4. i < n => i + 1 \in 1..n /\ u[i + 1] = t[i + 1]
    <3>1. i < n => i + 1 \in 1..n
      BY <1>1
    <3>2. QED
      BY <1>2, <3>1
  <2>5. QED
    BY <2>1, <2>2, <2>3, <2>4
<1>5. QED
  BY <1>1, <1>4 DEF ValidUtf8, n

LEMMA TooMuchGrows ==
  ASSUME StreamAssumption, NEW d \in Decoders, NEW p \in Seq(Octets), NEW b \in Octets, TooMuch(d, p)
  PROVE  TooMuch(d, Append(p, b))
<1> DEFINE whole == d.text \o p
           longer == d.text \o Append(p, b)
<1>1. /\ d.text \in Seq(Octets) /\ d.total \in Nat /\ d.eventBytes \in Nat
      /\ MaxBytes \in Nat /\ MaxEventBytes \in Nat
  BY DEF Decoders, StreamAssumption
<1>2. whole \in Seq(Octets)
  BY <1>1, ConcatProperties
<1>3. longer = Append(whole, b)
  <2> DEFINE before == d.text
  <2>1. before \in Seq(Octets)
    BY <1>1
  <2> HIDE DEF before
  <2>2. before \o Append(p, b) = Append(before \o p, b)
    BY <2>1, ConcatAppend
  <2>3. QED
    BY <2>2 DEF before
<1> HIDE DEF whole
<1>4. Len(longer) = Len(whole) + 1 /\ Len(whole) \in Nat
  BY <1>2, <1>3
<1> HIDE DEF longer
<1>5. Len(Append(p, b)) = Len(p) + 1 /\ Len(p) \in Nat
  OBVIOUS
<1>6. CASE d.total + Len(p) > MaxBytes
  <2>1. d.total + Len(Append(p, b)) > MaxBytes
    BY <1>1, <1>5, <1>6
  <2>2. QED
    BY <2>1 DEF TooMuch
<1>7. CASE d.eventBytes + Len(whole) > MaxEventBytes
  <2>1. d.eventBytes + Len(longer) > MaxEventBytes
    BY <1>1, <1>4, <1>7
  <2>2. QED
    BY <2>1 DEF TooMuch, longer
<1>8. CASE ~ValidUtf8(whole)
  <2>1. ~ValidUtf8(longer)
    BY <1>2, <1>3, <1>8, Utf8Prefix
  <2>2. QED
    BY <2>1 DEF TooMuch, longer
<1>9. QED
  BY <1>6, <1>7, <1>8 DEF TooMuch, whole

LEMMA FailedView ==
  ASSUME NEW d \in Decoders, NEW e \in Decoders, d.tokens = e.tokens, d.output = e.output,
         d.error = e.error
  PROVE  View(Fail(d)) = View(Fail(e)) /\ Fail(d).status = "protocol_error"
  BY DEF Decoders, View, Fail

\* A piece that does not end a line may as well come in two.
LEMMA PieceSplits ==
  ASSUME StreamAssumption, NEW d \in Decoders, NEW p \in Seq(Octets) \ {<<>>}, Last(p) # Newline,
         NEW b \in Octets, NEW e \in Decoders, Same(Piece(d, p), e)
  PROVE  Same(Piece(d, Append(p, b)), Piece(e, <<b>>))
<1> DEFINE q == Append(p, b)
           whole == d.text \o p
           longer == d.text \o q
<1>0. p \in Seq(Octets) /\ q \in Seq(Octets) /\ Len(q) = Len(p) + 1 /\ Len(p) \in Nat \ {0}
  BY EmptySeq
<1>1. /\ d.text \in Seq(Octets) /\ d.total \in Nat /\ d.eventBytes \in Nat
      /\ MaxBytes \in Nat /\ MaxEventBytes \in Nat
  BY DEF Decoders, StreamAssumption
<1>2. whole \in Seq(Octets) /\ Len(whole) = Len(d.text) + Len(p)
  BY <1>0, <1>1, ConcatProperties
<1>3. longer = Append(whole, b)
  <2> DEFINE before == d.text
  <2>1. before \in Seq(Octets) /\ p \in Seq(Octets)
    BY <1>0, <1>1
  <2> HIDE DEF before
  <2>2. before \o Append(p, b) = Append(before \o p, b)
    BY <2>1, ConcatAppend
  <2>3. QED
    BY <2>2 DEF before
<1>4. Last(whole) = Last(p) /\ whole # <<>>
  <2>1. whole[Len(whole)] = p[Len(p)]
    <3>1. Len(whole) \in 1..(Len(d.text) + Len(p)) /\ ~(Len(whole) <= Len(d.text)) /\ Len(whole) - Len(d.text) = Len(p)
      BY <1>0, <1>1, <1>2
    <3>2. QED
      BY <1>0, <1>1, <3>1, ConcatProperties
  <2>2. Len(whole) # 0
    BY <1>0, <1>1, <1>2
  <2>3. QED
    BY <2>1, <2>2 DEF Last
<1>5. CASE d.status # "open"
  <2>1. Piece(d, p) = d /\ Piece(d, q) = d
    BY <1>5, PieceIs
  <2>2. e.status # "open"
    BY <1>5, <2>1, SameStatus
  <2>3. Piece(e, <<b>>) = e
    BY <2>2, PieceIs
  <2>4. QED
    BY <2>1, <2>3
<1>6. CASE d.status = "open" /\ TooMuch(d, p)
  <2>1. Piece(d, p) = Fail(Counted(d, p))
    BY <1>6, PieceIs
  <2>2. TooMuch(d, q)
    BY <1>0, <1>6, TooMuchGrows
  <2>3. Piece(d, q) = Fail(Counted(d, q))
    BY <1>6, <2>2, PieceIs
  <2>4. View(Piece(d, q)) = View(Piece(d, p)) /\ Piece(d, q).status = "protocol_error"
        /\ Piece(d, p).status = "protocol_error"
    <3>1. /\ Counted(d, p) \in Decoders /\ Counted(d, q) \in Decoders
          /\ Counted(d, p).tokens = Counted(d, q).tokens
          /\ Counted(d, p).output = Counted(d, q).output
          /\ Counted(d, p).error = Counted(d, q).error
      <4> HIDE DEF q
      <4>1. \A r \in Seq(Octets) : /\ Counted(d, r) \in Decoders /\ Counted(d, r).tokens = d.tokens
                                   /\ Counted(d, r).output = d.output /\ Counted(d, r).error = d.error
        BY CountedTyped
      <4>2. QED
        BY <1>0, <4>1
    <3>2. QED
      BY <2>1, <2>3, <3>1, FailedView
  <2>5. View(Piece(d, p)) = View(e) /\ e.status # "open"
    BY <2>4, SameStatus DEF Same
  <2>6. Piece(e, <<b>>) = e
    BY <2>5, PieceIs
  <2>7. QED
    BY <2>4, <2>5, <2>6 DEF Same
<1>7. CASE d.status = "open" /\ ~TooMuch(d, p)
  <2> DEFINE y == [Counted(d, p) EXCEPT !.text = whole]
             one == <<b>>
  <2>1. Piece(d, p) = y
    <3> HIDE DEF q, longer
    <3>1. Last(d.text \o p) # Newline
      BY <1>4
    <3>2. QED
      BY <1>7, <3>1, PieceIs
  <2>2. Counted(d, p) \in Decoders
    BY <1>0, CountedTyped
  <2>3. /\ y \in Decoders /\ y.text = whole /\ y.total = d.total + Len(p) /\ y.status = "open"
        /\ y.eventBytes = d.eventBytes
    BY <1>2, <1>7, <2>2 DEF Counted, Decoders
  <2>4. e = y
    BY <2>1, <2>3 DEF Same
  <2>5. one \in Seq(Octets) /\ Len(one) = 1
    BY LonelyTyped
  <2>6. whole \o one = longer
    BY <1>2, <1>3, AppendIsConcat
  <2> HIDE DEF whole, longer, q, one, y
  <2>7. TooMuch(y, one) <=> TooMuch(d, q)
    <3>1. y.total + Len(one) = d.total + Len(q)
      <4>1. \A i, j, k \in Int : i + j + k = i + (j + k)
        OBVIOUS
      <4>2. Len(q) = Len(p) + 1 /\ Len(p) \in Int /\ d.total \in Int /\ Len(one) = 1
        BY <1>0, <1>1, <2>5
      <4>3. y.total = d.total + Len(p)
        BY <2>3
      <4>4. QED
        BY <4>1, <4>2, <4>3
    <3>2. y.text \o one = d.text \o q
      BY <2>3, <2>6 DEF longer
    <3>3. QED
      BY <2>3, <3>1, <3>2 DEF TooMuch
  <2> DEFINE c == Counted(d, q)
             f == Counted(y, one)
  <2>8. c \in Decoders /\ f \in Decoders
    BY <1>0, <2>3, <2>5, CountedTyped
  <2>9. f = [c EXCEPT !.text = whole]
    <3>1. d.total + Len(q) = y.total + Len(one)
      BY <1>0, <1>1, <2>3, <2>5
    <3>2. QED
      BY <3>1 DEF Counted, y, Decoders
  <2>10. CASE TooMuch(d, q)
    <3>1. Piece(d, q) = Fail(c) /\ Piece(y, one) = Fail(f)
      BY <1>7, <2>3, <2>7, <2>10, PieceIs
    <3>2. f.tokens = c.tokens /\ f.output = c.output /\ f.error = c.error
      BY <2>8, <2>9 DEF Decoders
    <3> HIDE DEF c, f
    <3>3. View(Fail(c)) = View(Fail(f)) /\ Fail(c).status = "protocol_error"
      BY <2>8, <3>2, FailedView
    <3>4. QED
      BY <2>4, <3>1, <3>3 DEF Same, q, one
  <2>11. CASE ~TooMuch(d, q)
    <3>1. Piece(d, q) = IF Last(longer) = Newline THEN Line(c, Front(longer))
                        ELSE [c EXCEPT !.text = longer]
      BY <1>7, <2>11, PieceIs DEF longer
    <3>2. Piece(y, one) = IF Last(longer) = Newline THEN Line(f, Front(longer))
                          ELSE [f EXCEPT !.text = longer]
      BY <2>3, <2>6, <2>7, <2>11, PieceIs
    <3> HIDE DEF c, f
    <3>3. [c EXCEPT !.text = longer] = [f EXCEPT !.text = longer]
      BY <2>8, <2>9 DEF Decoders
    <3>4. \A ended : Line(c, ended) = Line(f, ended)
      <4>1. ASSUME NEW ended PROVE Line(c, ended) = Line(f, ended)
        <5>1. AtEnd(c, Bare(ended)) = AtEnd(f, Bare(ended))
          BY <2>8, <2>9 DEF AtEnd, Decoders
        <5>2. c.lines = f.lines /\ (Terminated(c) <=> Terminated(f))
          BY <2>8, <2>9 DEF Terminated, Decoders
        <5>3. QED
          BY <5>1, <5>2, LineIs
      <4>2. QED
        BY <4>1
    <3>5. Piece(d, q) = Piece(y, one)
      BY <3>1, <3>2, <3>3, <3>4
    <3>6. QED
      BY <2>4, <3>5 DEF Same, q, one
  <2>12. QED
    BY <2>10, <2>11
<1>8. QED
  BY <1>5, <1>6, <1>7

LEMMA FoldedTyped ==
  ASSUME NEW d \in Decoders, NEW ps \in Seq(Seq(Octets) \ {<<>>})
  PROVE  FoldOf("piece", 0, d, ps) \in Decoders
<1> DEFINE P == Seq(Octets) \ {<<>>}
           T == {t \in Seq(P) : FoldOf("piece", 0, d, t) \in Decoders}
<1>1. <<>> \in T
  <2>1. <<>> \in Seq(P)
    BY EmptySeq
  <2>2. QED
    BY <2>1, FoldNothing
<1>2. ASSUME NEW t \in T, NEW p \in P PROVE Append(t, p) \in T
  <2>1. t \in Seq(P) /\ FoldOf("piece", 0, d, t) \in Decoders
    OBVIOUS
  <2>2. Piece(FoldOf("piece", 0, d, t), p) \in Decoders
    BY <2>1, PieceTyped
  <2> HIDE DEF P
  <2>3. Append(t, p) \in Seq(P)
    BY <2>1
  <2>4. FoldOf("piece", 0, d, Append(t, p)) = StepOf("piece", 0, FoldOf("piece", 0, d, t), p)
    BY <2>1, FoldAppend
  <2>5. QED
    BY <2>2, <2>3, <2>4 DEF StepOf
<1>3. T = Seq(P)
  <2>1. T \in SUBSET Seq(P)
    OBVIOUS
  <2> HIDE DEF T, P
  <2>2. QED
    BY <1>1, <1>2, <2>1, EverySequence
<1>4. QED
  BY <1>3

LEMMA FeedFolds ==
  ASSUME NEW d, NEW s \in Seq(Octets)
  PROVE  Feed(d, s) = FoldOf("piece", 0, d, Pieces(s)) /\ Pieces(s) \in Seq(Seq(Octets) \ {<<>>})
<1>1. Pieces(s) \in Seq(Seq(Octets) \ {<<>>})
  BY PiecesTyped
<1>2. Len(Pieces(s)) \in Nat /\ DOMAIN Pieces(s) = 1..Len(Pieces(s))
  BY <1>1, SeqShape
<1>3. Feed(d, s) = FoldOf("piece", 0, d, Pieces(s))
  <2> DEFINE ps == Pieces(s)
  <2>1. Len(ps) \in Nat /\ DOMAIN ps = 1..Len(ps) /\ ps = Pieces(s)
    BY <1>2
  <2> HIDE DEF ps
  <2>2. QED
    BY <2>1, FeedIsFold
<1>4. QED
  BY <1>1, <1>3

\* However a chunk is cut, it is decoded as byte for byte.
LEMMA FeedSame ==
  ASSUME StreamAssumption, NEW d \in Decoders, NEW before \in Seq(Octets), Single(before) \in Decoders,
         Same(d, Single(before)), NEW s \in Seq(Octets)
  PROVE  /\ Feed(d, s) \in Decoders /\ Single(before \o s) \in Decoders
         /\ Same(Feed(d, s), Single(before \o s))
<1> DEFINE P == Seq(Octets) \ {<<>>}
           T == {t \in Seq(Octets) : /\ Feed(d, t) \in Decoders /\ Single(before \o t) \in Decoders
                                     /\ Same(Feed(d, t), Single(before \o t))}
<1>1. <<>> \in T
  <2>1. <<>> \in Seq(Octets) /\ before \o <<>> = before
    BY EmptySeq, ConcatEmptySeq
  <2>2. Feed(d, <<>>) = d
    BY FeedNone
  <2>3. QED
    BY <2>1, <2>2
<1>2. ASSUME NEW t \in T, NEW b \in Octets PROVE Append(t, b) \in T
  <2> DEFINE ps == Pieces(t)
             x == FoldOf("piece", 0, d, Front(ps))
             p == Last(ps)
             one == <<b>>
             e == Single(before \o t)
  <2>1. /\ t \in Seq(Octets) /\ Feed(d, t) \in Decoders /\ e \in Decoders /\ Same(Feed(d, t), e)
        /\ Append(t, b) \in Seq(Octets)
    OBVIOUS
  <2>2. Feed(d, t) = FoldOf("piece", 0, d, ps) /\ ps \in Seq(P)
    BY <2>1, FeedFolds
  <2>3. one \in P
    BY LonelyTyped
  <2>4. Single(before \o Append(t, b)) = Piece(e, one)
    <3>1. before \o t \in Seq(Octets) /\ before \o Append(t, b) = Append(before \o t, b)
      BY <2>1, ConcatProperties, ConcatAppend
    <3>2. QED
      BY <3>1, SingleStep DEF SingleSteps
  <2>5. Piece(e, one) \in Decoders
    <3> HIDE DEF e, one
    <3>1. QED
      BY <2>1, <2>3, PieceTyped
  <2>6. Feed(d, Append(t, b)) = FoldOf("piece", 0, d, Cut(ps, b)) /\ Cut(ps, b) \in Seq(P)
    <3>1. Pieces(Append(t, b)) = Cut(ps, b)
      BY <2>1, PiecesAppend
    <3>2. QED
      BY <2>1, <3>1, FeedFolds
  <2> HIDE DEF ps, P, T, one, e
  <2>7. Feed(d, Append(t, b)) \in Decoders
    BY <2>6, FoldedTyped DEF P
  <2>8. CASE ps = <<>> \/ Last(Last(ps)) = Newline
    <3>1. Cut(ps, b) = Append(ps, one)
      BY <2>8 DEF Cut, one
    <3>2. FoldOf("piece", 0, d, Append(ps, one)) = StepOf("piece", 0, FoldOf("piece", 0, d, ps), one)
      BY <2>2, <2>3, FoldAppend
    <3>3. Feed(d, Append(t, b)) = Piece(Feed(d, t), one)
      BY <2>2, <2>6, <3>1, <3>2 DEF StepOf
    <3>4. Same(Piece(Feed(d, t), one), Piece(e, one))
      <4>1. CASE Feed(d, t).status = "open"
        <5>1. Feed(d, t) = e
          BY <2>1, <4>1 DEF Same
        <5>2. QED
          BY <5>1 DEF Same
      <4>2. CASE Feed(d, t).status # "open"
        <5>1. e.status # "open"
          BY <2>1, <4>2, SameStatus
        <5>2. Piece(Feed(d, t), one) = Feed(d, t) /\ Piece(e, one) = e
          BY <2>1, <4>2, <5>1, PieceIs
        <5>3. QED
          BY <2>1, <5>2
      <4>3. QED
        BY <4>1, <4>2
    <3>5. QED
      BY <2>1, <2>4, <2>5, <2>7, <3>3, <3>4 DEF T
  <2>9. CASE ~(ps = <<>> \/ Last(Last(ps)) = Newline)
    <3>1. /\ Front(ps) \in Seq(P) /\ p \in P /\ ps = Append(Front(ps), p)
          /\ Last(p) # Newline /\ Cut(ps, b) = Append(Front(ps), Append(p, b))
      BY <2>2, <2>9, FrontLast DEF Cut
    <3> HIDE DEF p
    <3>2. Append(p, b) \in P
      <4>1. p \in Seq(Octets)
        BY <3>1 DEF P
      <4>2. QED
        BY <4>1, LastAppended DEF P
    <3>3. FoldOf("piece", 0, d, Append(Front(ps), p)) = StepOf("piece", 0, x, p)
      BY <3>1, FoldAppend
    <3>4. FoldOf("piece", 0, d, Append(Front(ps), Append(p, b))) = StepOf("piece", 0, x, Append(p, b))
      BY <3>1, <3>2, FoldAppend
    <3>5. x \in Decoders
      BY <3>1, FoldedTyped DEF P
    <3> HIDE DEF x
    <3>6. Feed(d, t) = Piece(x, p) /\ Feed(d, Append(t, b)) = Piece(x, Append(p, b))
      BY <2>2, <2>6, <3>1, <3>3, <3>4 DEF StepOf
    <3>7. Same(Piece(x, Append(p, b)), Piece(e, <<b>>))
      <4>1. p \in Seq(Octets) \ {<<>>} /\ Same(Piece(x, p), e)
        BY <2>1, <3>1, <3>6 DEF P
      <4>2. QED
        BY <2>1, <3>1, <3>5, <4>1, PieceSplits
    <3>8. QED
      BY <2>1, <2>4, <2>5, <2>7, <3>6, <3>7 DEF T, one
  <2>10. QED
    BY <2>8, <2>9
<1>3. T = Seq(Octets)
  <2>1. T \in SUBSET Seq(Octets)
    OBVIOUS
  <2> HIDE DEF T, P
  <2>2. QED
    BY <1>1, <1>2, <2>1, EverySequence
<1>4. QED
  BY <1>3

-------------------------------------------------------------------------------
(* Wires                                                                      *)

Plain(b) == b \notin {Newline, Return}

\* Only a lead byte has something else than an end of line after it.
Shaped(w) ==
  /\ \A i \in 1..Len(w) : w[i].kind \in {"token", "done"} => w[i].value = 0
  /\ \A i \in 1..(Len(w) - 1) : Plain(w[i]) /\ Plain(w[i + 1]) => w[i].kind = "lead"

\* What ends with a line.
Ending(w) == w \in Seq(Octets) /\ Shaped(w) /\ (w # <<>> => Last(w) = Newline)

LEMMA EndingJoined ==
  ASSUME NEW v, NEW w, Ending(v), Ending(w)
  PROVE  Ending(v \o w)
<1> DEFINE z == v \o w
           m == Len(v)
           n == Len(w)
<1>1. v \in Seq(Octets) /\ w \in Seq(Octets) /\ Shaped(v) /\ Shaped(w) /\ m \in Nat /\ n \in Nat
  BY DEF Ending
<1>2. z \in Seq(Octets) /\ Len(z) = m + n
  BY <1>1, ConcatProperties
<1>3. ASSUME NEW i \in 1..m PROVE z[i] = v[i]
  <2>1. i \in 1..(m + n) /\ i <= m
    BY <1>1
  <2>2. QED
    BY <1>1, <2>1, ConcatProperties
<1>4. ASSUME NEW i \in 1..n PROVE z[m + i] = w[i]
  <2>1. m + i \in 1..(m + n) /\ ~(m + i <= m) /\ (m + i) - m = i
    BY <1>1
  <2>2. QED
    BY <1>1, <2>1, ConcatProperties
<1> HIDE DEF z
<1>5. ASSUME NEW i \in 1..(m + n) PROVE i \in 1..m \/ \E j \in 1..n : i = m + j
  <2>1. CASE i <= m
    BY <1>1, <2>1
  <2>2. CASE ~(i <= m)
    <3>1. i - m \in 1..n /\ i = m + (i - m)
      BY <1>1, <2>2
    <3>2. QED
      BY <3>1
  <2>3. QED
    BY <2>1, <2>2
<1>6. ASSUME NEW i \in 1..(m + n), z[i].kind \in {"token", "done"} PROVE z[i].value = 0
  <2>1. CASE i \in 1..m
    BY <1>1, <1>3, <1>6, <2>1 DEF Shaped
  <2>2. ASSUME NEW j \in 1..n, i = m + j PROVE z[i].value = 0
    BY <1>1, <1>4, <1>6, <2>2 DEF Shaped
  <2>3. QED
    BY <1>5, <2>1, <2>2
<1>7. ASSUME NEW i \in 1..(m + n - 1), Plain(z[i]), Plain(z[i + 1]) PROVE z[i].kind = "lead"
  <2>1. CASE i \in 1..(m - 1)
    <3>1. i \in 1..m /\ i + 1 \in 1..m
      BY <1>1, <2>1
    <3>2. z[i] = v[i] /\ z[i + 1] = v[i + 1]
      BY <1>3, <3>1
    <3>3. QED
      BY <1>1, <1>7, <2>1, <3>2 DEF Shaped
  <2>2. CASE i = m
    <3>1. i \in 1..m /\ v # <<>>
      BY <1>1, <2>2
    <3>2. z[i] = Newline
      BY <1>3, <2>2, <3>1 DEF Ending, Last
    <3>3. QED
      BY <1>7, <3>2 DEF Plain
  <2>3. CASE ~(i <= m)
    <3>1. i - m \in 1..(n - 1) /\ i - m \in 1..n /\ (i - m) + 1 \in 1..n
      BY <1>1, <2>3
    <3>2. m + (i - m) = i /\ m + ((i - m) + 1) = i + 1
      BY <1>1
    <3>3. z[i] = w[i - m] /\ z[i + 1] = w[(i - m) + 1]
      BY <1>4, <3>1, <3>2
    <3>4. QED
      BY <1>1, <1>7, <3>1, <3>3 DEF Shaped
  <2>4. i \in 1..(m - 1) \/ i = m \/ ~(i <= m)
    BY <1>1
  <2>5. QED
    BY <2>1, <2>2, <2>3, <2>4
<1>8. Shaped(z)
  BY <1>1, <1>2, <1>6, <1>7 DEF Shaped
<1>9. z # <<>> => Last(z) = Newline
  <2>1. CASE w = <<>>
    <3>1. z = v
      BY <1>1, <2>1, ConcatEmptySeq DEF z
    <3>2. QED
      BY <3>1 DEF Ending
  <2>2. CASE w # <<>>
    <3>1. n \in 1..n /\ w[n] = Newline
      BY <1>1, <2>2, EmptySeq DEF Ending, Last
    <3>2. z[m + n] = Newline
      BY <1>4, <3>1
    <3>3. QED
      BY <1>2, <3>2 DEF Last
  <2>3. QED
    BY <2>1, <2>2
<1>10. QED
  BY <1>2, <1>8, <1>9 DEF Ending, z

LEMMA BytesTyped ==
  ASSUME NEW kind \in {"token", "data", "done", "error", "lead", "tail"}, NEW value \in Int
  PROVE  /\ Byte(kind, value) \in Octets /\ Plain(Byte(kind, value))
         /\ Byte(kind, value).kind = kind /\ Byte(kind, value).value = value
<1>1. Byte(kind, value) \in Octets /\ Byte(kind, value).kind = kind /\ Byte(kind, value).value = value
  BY DEF Byte, Octets
<1>2. Newline.kind = "newline" /\ Return.kind = "return"
  BY DEF Newline, Return, Byte
<1>3. QED
  BY <1>1, <1>2 DEF Plain

LEMMA EndsOfLines == ~Plain(Newline) /\ ~Plain(Return) /\ Newline.kind = "newline" /\ Return.kind = "return"
  BY DEF Plain, Newline, Return, Byte

\* A line of one byte.
LEMMA LineEnding ==
  ASSUME NEW b \in Octets, b.kind \in {"token", "done"} => b.value = 0,
         NEW w, Ending(w), w # <<>>, ~Plain(w[1])
  PROVE  Ending(<<b>> \o w)
<1> DEFINE z == <<b>> \o w
           n == Len(w)
<1>1. <<b>> \in Seq(Octets) /\ Len(<<b>>) = 1 /\ <<b>>[1] = b
  OBVIOUS
<1>2. w \in Seq(Octets) /\ Shaped(w) /\ n \in Nat \ {0} /\ w[n] = Newline
  BY EmptySeq DEF Ending, Last
<1>3. z \in Seq(Octets) /\ Len(z) = n + 1
  BY <1>1, <1>2, ConcatProperties
<1>4. z[1] = b
  <2>1. 1 \in 1..(1 + n) /\ 1 <= 1
    BY <1>2
  <2>2. QED
    BY <1>1, <1>2, <2>1, ConcatProperties
<1>5. ASSUME NEW i \in 2..(n + 1) PROVE z[i] = w[i - 1]
  <2>1. i \in 1..(1 + n) /\ ~(i <= 1)
    BY <1>2
  <2>2. QED
    BY <1>1, <1>2, <2>1, ConcatProperties
<1> HIDE DEF z, n
<1>6. ASSUME NEW i \in 1..(n + 1), z[i].kind \in {"token", "done"} PROVE z[i].value = 0
  <2>1. CASE i = 1
    BY <1>4, <1>6, <2>1
  <2>2. CASE i \in 2..(n + 1)
    <3>1. i - 1 \in 1..n
      BY <1>2, <2>2
    <3>2. QED
      BY <1>2, <1>5, <1>6, <2>2, <3>1 DEF Shaped, n
  <2>3. i = 1 \/ i \in 2..(n + 1)
    BY <1>2
  <2>4. QED
    BY <2>1, <2>2, <2>3
<1>7. ASSUME NEW i \in 1..n, Plain(z[i]), Plain(z[i + 1]) PROVE z[i].kind = "lead"
  <2>1. i + 1 \in 2..(n + 1) /\ (i + 1) - 1 = i
    BY <1>2
  <2>2. z[i + 1] = w[i]
    BY <1>5, <2>1
  <2>3. i # 1
    BY <1>7, <2>2
  <2>4. i \in 2..(n + 1) /\ i - 1 \in 1..(n - 1) /\ (i - 1) + 1 = i
    BY <1>2, <2>3
  <2>5. z[i] = w[i - 1]
    BY <1>5, <2>4
  <2>6. QED
    BY <1>2, <1>7, <2>2, <2>4, <2>5 DEF Shaped, n
<1>8. (n + 1) - 1 = n /\ n + 1 \in 2..(n + 1)
  BY <1>2
<1>9. Shaped(z)
  BY <1>3, <1>6, <1>7, <1>8 DEF Shaped
<1>10. Last(z) = Newline
  BY <1>2, <1>3, <1>5, <1>8 DEF Last
<1>11. QED
  BY <1>3, <1>9, <1>10 DEF Ending, z

LEMMA BlankEnding == Ending(<<Newline>>) /\ Ending(<<Return, Newline>>)
<1>1. Newline \in Octets /\ Return \in Octets
  BY OctetsTyped
<1>2. <<Newline>> \in Seq(Octets) /\ <<Return, Newline>> \in Seq(Octets)
  BY <1>1
<1>3. Last(<<Newline>>) = Newline /\ Last(<<Return, Newline>>) = Newline
  BY DEF Last
<1>4. Shaped(<<Newline>>) /\ Shaped(<<Return, Newline>>)
  BY EndsOfLines DEF Shaped
<1>5. QED
  BY <1>2, <1>3, <1>4 DEF Ending

LEMMA TokenFrameEnds ==
  ASSUME NEW i \in Int, NEW eol \in {<<Newline>>, <<Return, Newline>>}
  PROVE  Ending(TokenFrame(i, eol))
<1> DEFINE t == <<Byte("token", 0)>>
           d == <<Byte("data", i)>>
<1>1. Ending(eol) /\ eol # <<>> /\ ~Plain(eol[1])
  BY BlankEnding, EndsOfLines
<1>2. Ending(t \o eol) /\ Ending(d \o eol)
  BY <1>1, BytesTyped, LineEnding
<1>3. t \in Seq(Octets) /\ d \in Seq(Octets) /\ eol \in Seq(Octets)
  BY <1>1, BytesTyped DEF Ending
<1> HIDE DEF t, d
<1>4. Ending((t \o eol) \o (d \o eol))
  BY <1>2, EndingJoined
<1>5. Ending(((t \o eol) \o (d \o eol)) \o eol)
  BY <1>1, <1>4, EndingJoined
<1>6. (t \o eol) \o (d \o eol) = ((t \o eol) \o d) \o eol
  <2>1. t \o eol \in Seq(Octets)
    BY <1>3, ConcatProperties
  <2> DEFINE u == t \o eol
  <2>2. u \in Seq(Octets)
    BY <2>1
  <2> HIDE DEF u
  <2>3. u \o (d \o eol) = (u \o d) \o eol
    BY <1>3, <2>2, Reassociated
  <2>4. QED
    BY <2>3 DEF u
<1>7. TokenFrame(i, eol) = (((t \o eol) \o d) \o eol) \o eol
  BY DEF TokenFrame, t, d
<1>8. QED
  BY <1>5, <1>6, <1>7

LEMMA TerminalsEnd ==
  ASSUME NEW n \in Int
  PROVE  Ending(DoneFrame(n)) /\ Ending(ErrorFrame) /\ Ending(<<Byte("token", 0), Newline, Newline>>)
<1> DEFINE N == Newline
           T == Byte("token", 0)
           D == Byte("done", 0)
           V == Byte("data", n)
           E == Byte("error", 0)
           L == Byte("lead", 0)
           C == Byte("tail", 0)
<1>1. /\ T \in Octets /\ T.kind = "token" /\ T.value = 0
      /\ D \in Octets /\ D.kind = "done" /\ D.value = 0 /\ V \in Octets /\ V.kind = "data"
      /\ E \in Octets /\ E.kind = "error" /\ L \in Octets /\ L.kind = "lead"
      /\ C \in Octets /\ C.kind = "tail"
  BY BytesTyped
<1>2. N \in Octets /\ ~Plain(N) /\ N.kind = "newline" /\ N = Newline
  BY OctetsTyped, EndsOfLines
<1>3. DoneFrame(n) = <<D, N, V, N, N>> /\ ErrorFrame = <<E, N, L, C, N, N>>
  BY DEF DoneFrame, ErrorFrame
<1> HIDE DEF N, T, D, V, E, L, C
<1>4. Ending(<<D, N, V, N, N>>)
  <2>1. <<D, N, V, N, N>> \in Seq(Octets) /\ Last(<<D, N, V, N, N>>) = N
    BY <1>1, <1>2 DEF Last
  <2>2. Shaped(<<D, N, V, N, N>>)
    BY <1>1, <1>2, SMTT(60) DEF Shaped
  <2>3. QED
    BY <1>2, <2>1, <2>2 DEF Ending
<1>5. Ending(<<E, N, L, C, N, N>>)
  <2>1. <<E, N, L, C, N, N>> \in Seq(Octets) /\ Last(<<E, N, L, C, N, N>>) = N
    BY <1>1, <1>2 DEF Last
  <2>2. Shaped(<<E, N, L, C, N, N>>)
    BY <1>1, <1>2, SMTT(60) DEF Shaped
  <2>3. QED
    BY <1>2, <2>1, <2>2 DEF Ending
<1>6. Ending(<<T, N, N>>)
  <2>1. <<T, N, N>> \in Seq(Octets) /\ Last(<<T, N, N>>) = N
    BY <1>1, <1>2 DEF Last
  <2>2. Shaped(<<T, N, N>>)
    BY <1>1, <1>2, SMTT(60) DEF Shaped
  <2>3. QED
    BY <1>2, <2>1, <2>2 DEF Ending
<1>7. QED
  BY <1>3, <1>4, <1>5, <1>6 DEF N, T

LEMMA FramesEnd == ASSUME StreamAssumption, NEW f \in Frames PROVE Ending(f)
<1>1. 0 \in Int /\ \A i \in 0..(MaxTokens - 1) : i \in Int
  BY DEF StreamAssumption
<1>2. \A i \in 0..MaxTokens : i \in Int
  BY DEF StreamAssumption
<1>3. CASE f \in {TokenFrame(i, <<Newline>>) : i \in 0..(MaxTokens - 1)}
  BY <1>1, <1>3, TokenFrameEnds
<1>4. CASE f \in {TokenFrame(0, <<Return, Newline>>), ErrorFrame, <<Newline>>,
                  <<Byte("token", 0), Newline, Newline>>}
  BY <1>1, <1>4, TokenFrameEnds, TerminalsEnd, BlankEnding
<1>5. CASE f \in {DoneFrame(n) : n \in 0..MaxTokens}
  BY <1>2, <1>5, TerminalsEnd
<1>6. QED
  BY <1>3, <1>4, <1>5 DEF Frames

LEMMA WiresEnd == ASSUME StreamAssumption, NEW w \in Wires PROVE Ending(w)
<1> DEFINE T == {t \in Seq(Frames) : Ending(FlattenSeq(t))}
<1>1. <<>> \in T
  <2>1. <<>> \in Seq(Frames) /\ <<>> \in Seq(Octets)
    BY EmptySeq
  <2>2. Shaped(<<>>)
    BY DEF Shaped
  <2>3. QED
    BY <2>1, <2>2, FlattenNothing DEF Ending
<1>2. ASSUME NEW t \in T, NEW f \in Frames PROVE Append(t, f) \in T
  <2>1. t \in Seq(Frames) /\ Ending(FlattenSeq(t)) /\ Append(t, f) \in Seq(Frames)
    OBVIOUS
  <2>2. Frames \subseteq Seq(Octets)
    BY FramesEnd DEF Ending
  <2>3. t \in Seq(Seq(Octets)) /\ f \in Seq(Octets)
    BY <2>1, <2>2, SeqMonotonic
  <2>4. FlattenSeq(Append(t, f)) = FlattenSeq(t) \o f
    BY <2>3, FlattenAppend
  <2>5. Ending(f)
    BY FramesEnd
  <2>6. Ending(FlattenSeq(t) \o f)
    BY <2>1, <2>5, EndingJoined
  <2>7. QED
    BY <2>1, <2>4, <2>6
<1>3. T = Seq(Frames)
  <2>1. T \in SUBSET Seq(Frames)
    OBVIOUS
  <2> HIDE DEF T
  <2>2. QED
    BY <1>1, <1>2, <2>1, EverySequence
<1>4. PICK n \in 0..MaxFrames : \E frames \in [1..n -> Frames] : w = FlattenSeq(frames)
  BY DEF Wires
<1>5. PICK frames \in [1..n -> Frames] : w = FlattenSeq(frames)
  BY <1>4
<1>6. frames \in Seq(Frames)
  BY <1>5 DEF StreamAssumption
<1>7. QED
  BY <1>3, <1>5, <1>6

-------------------------------------------------------------------------------
(* What an open decoder has heard                                             *)

LEMMA SpokenTyped == ASSUME NEW s \in Seq(Octets) PROVE Spoken(s) \in Seq(Octets)
<1> DEFINE T == {t \in Seq(Octets) : Spoken(t) \in Seq(Octets)}
<1>1. <<>> \in T
  <2>1. <<>> \in Seq(Octets)
    BY EmptySeq
  <2>2. QED
    BY <2>1, SpokenNone
<1>2. ASSUME NEW t \in T, NEW b \in Octets PROVE Append(t, b) \in T
  <2>1. t \in Seq(Octets) /\ Spoken(t) \in Seq(Octets)
    OBVIOUS
  <2>2. Spoken(Append(t, b)) = Say(Spoken(t), b)
    BY <2>1, SpokenAppend
  <2>3. Append(t, b) \in Seq(Octets) /\ Append(Spoken(t), b) \in Seq(Octets)
    BY <2>1
  <2>4. QED
    BY <2>1, <2>2, <2>3 DEF Say
<1>3. T = Seq(Octets)
  <2>1. T \in SUBSET Seq(Octets)
    OBVIOUS
  <2> HIDE DEF T
  <2>2. QED
    BY <1>1, <1>2, <2>1, EverySequence
<1>4. QED
  BY <1>3

LEMMA SpokenPlain ==
  ASSUME NEW s \in Seq(Octets), \A i \in 1..Len(s) : Plain(s[i])
  PROVE  Spoken(s) = s
<1> DEFINE Open(t) == \A i \in 1..Len(t) : Plain(t[i])
           T == {t \in Seq(Octets) : Open(t) => Spoken(t) = t}
<1>1. <<>> \in T
  BY SpokenNone
<1>2. ASSUME NEW t \in T, NEW b \in Octets PROVE Append(t, b) \in T
  <2> DEFINE u == Append(t, b)
  <2>1. t \in Seq(Octets) /\ (Open(t) => Spoken(t) = t)
    OBVIOUS
  <2>2. u \in Seq(Octets) /\ Len(u) = Len(t) + 1 /\ Len(t) \in Nat /\ u[Len(t) + 1] = b
    BY <2>1
  <2>3. \A i \in 1..Len(t) : u[i] = t[i]
    BY <2>1
  <2>4. Spoken(u) = Say(Spoken(t), b)
    BY <2>1, SpokenAppend
  <2> HIDE DEF u
  <2>5. Open(u) => Open(t) /\ Plain(b)
    <3>1. \A i \in 1..Len(t) : i \in 1..(Len(t) + 1)
      BY <2>2
    <3>2. Len(t) + 1 \in 1..(Len(t) + 1)
      BY <2>2
    <3>3. QED
      BY <2>2, <2>3, <3>1, <3>2
  <2>6. Open(u) => Spoken(u) = u
    BY <2>1, <2>4, <2>5 DEF Say, Plain, u
  <2>7. QED
    BY <2>2, <2>6 DEF u
<1>3. T = Seq(Octets)
  <2>1. T \in SUBSET Seq(Octets)
    OBVIOUS
  <2> HIDE DEF T
  <2>2. QED
    BY <1>1, <1>2, <2>1, EverySequence
<1>4. QED
  BY <1>3

\* The bytes of so many tokens.
Told(n) == [i \in 1..(2 * n) |-> IF i % 2 = 1 THEN Byte("token", 0) ELSE Byte("data", i \div 2 - 1)]

LEMMA ToldTyped ==
  ASSUME NEW n \in Nat
  PROVE  Told(n) \in Seq(Octets) /\ Len(Told(n)) = 2 * n
<1>1. 2 * n \in Nat
  OBVIOUS
<1>2. ASSUME NEW i \in 1..(2 * n)
      PROVE  (IF i % 2 = 1 THEN Byte("token", 0) ELSE Byte("data", i \div 2 - 1)) \in Octets
  <2>1. i \div 2 - 1 \in Int
    OBVIOUS
  <2> DEFINE v == i \div 2 - 1
  <2>2. v \in Int
    BY <2>1
  <2> HIDE DEF v
  <2>3. Byte("data", v) \in Octets /\ Byte("token", 0) \in Octets
    BY <2>2, BytesTyped
  <2>4. QED
    BY <2>3 DEF v
<1>3. Told(n) \in [1..(2 * n) -> Octets]
  BY <1>2 DEF Told
<1>4. QED
  BY <1>1, <1>3

LEMMA ToldMore ==
  ASSUME NEW n \in Nat, NEW g, NEW h, g = <<Byte("token", 0)>>, h = <<Byte("data", n)>>
  PROVE  Told(n + 1) = Told(n) \o (g \o h)
<1> DEFINE x == Byte("token", 0)
           y == Byte("data", n)
           two == g \o h
           m == 2 * n
<1>1. x \in Octets /\ y \in Octets /\ m \in Nat /\ 2 * (n + 1) = m + 2
  BY BytesTyped
<1> HIDE DEF x, y
<1>2. g \in Seq(Octets) /\ h \in Seq(Octets) /\ Len(g) = 1 /\ Len(h) = 1 /\ g[1] = x /\ h[1] = y
  BY <1>1 DEF x, y
<1>3. two \in Seq(Octets) /\ Len(two) = 2
  BY <1>2, ConcatProperties
<1>4. two[1] = x /\ two[2] = y
  <2>1. 1 \in 1..(1 + 1) /\ 2 \in 1..(1 + 1) /\ 1 <= 1 /\ ~(2 <= 1) /\ 2 - 1 = 1
    OBVIOUS
  <2>2. \A i \in 1..(Len(g) + Len(h)) : two[i] = IF i <= Len(g) THEN g[i] ELSE h[i - Len(g)]
    BY <1>2, ConcatProperties
  <2>3. two[1] = IF 1 <= Len(g) THEN g[1] ELSE h[1 - Len(g)]
    BY <1>2, <2>1, <2>2
  <2>4. two[2] = IF 2 <= Len(g) THEN g[2] ELSE h[2 - Len(g)]
    BY <1>2, <2>1, <2>2
  <2>5. QED
    BY <1>2, <2>1, <2>3, <2>4
<1> HIDE DEF two
<1>5. Told(n) \in Seq(Octets) /\ Len(Told(n)) = m /\ n + 1 \in Nat
  BY ToldTyped
<1>6. Told(n + 1) \in Seq(Octets) /\ Len(Told(n + 1)) = m + 2
  <2>1. Told(n + 1) \in Seq(Octets) /\ Len(Told(n + 1)) = 2 * (n + 1)
    BY <1>5, ToldTyped
  <2>2. QED
    BY <1>1, <2>1
<1> DEFINE z == Told(n) \o two
<1>7. /\ z \in Seq(Octets) /\ Len(z) = m + 2
      /\ \A i \in 1..(m + 2) : z[i] = IF i <= m THEN Told(n)[i] ELSE two[i - m]
  <2> DEFINE before == Told(n)
  <2>1. before \in Seq(Octets) /\ Len(before) = m /\ m \in Int /\ two \in Seq(Octets) /\ Len(two) = 2
    BY <1>1, <1>3, <1>5
  <2> HIDE DEF before, m
  <2>2. /\ before \o two \in Seq(Octets) /\ Len(before \o two) = Len(before) + Len(two)
        /\ \A i \in 1..(Len(before) + Len(two)) :
             (before \o two)[i] = IF i <= Len(before) THEN before[i] ELSE two[i - Len(before)]
    BY <2>1, ConcatProperties
  <2>3. QED
    BY <2>1, <2>2 DEF before
<1> HIDE DEF z
<1>9. \A i \in 1..(m + 2) :
        Told(n + 1)[i] = IF i % 2 = 1 THEN Byte("token", 0) ELSE Byte("data", i \div 2 - 1)
  BY <1>1 DEF Told
<1>10. \A i \in 1..m : Told(n)[i] = IF i % 2 = 1 THEN Byte("token", 0) ELSE Byte("data", i \div 2 - 1)
  BY DEF Told
<1>11. ASSUME NEW i \in 1..(m + 2) PROVE Told(n + 1)[i] = z[i]
  <2>1. CASE i \in 1..m
    <3>1. i <= m
      BY <1>1, <2>1
    <3>2. z[i] = Told(n)[i]
      BY <1>7, <3>1
    <3>3. QED
      BY <1>9, <1>10, <2>1, <3>2
  <2>2. CASE i = m + 1
    <3>1. i % 2 = 1 /\ ~(i <= m) /\ i - m = 1
      BY <2>2
    <3>2. z[i] = x
      BY <1>4, <1>7, <3>1
    <3>3. Told(n + 1)[i] = x
      BY <1>9, <3>1 DEF x
    <3>4. QED
      BY <3>2, <3>3
  <2>3. CASE i = m + 2
    <3>1. i % 2 # 1 /\ ~(i <= m) /\ i - m = 2 /\ i \div 2 - 1 = n
      BY <2>3
    <3>2. z[i] = y
      BY <1>4, <1>7, <3>1
    <3>3. Told(n + 1)[i] = y
      BY <1>9, <3>1 DEF y
    <3>4. QED
      BY <3>2, <3>3
  <2>4. i \in 1..m \/ i = m + 1 \/ i = m + 2
    BY <1>1
  <2>5. QED
    BY <2>1, <2>2, <2>3, <2>4
<1>12. Told(n + 1) = z
  BY <1>6, <1>7, <1>11, SeqEqual
<1>13. QED
  BY <1>12 DEF z, two

\* The bytes of the end.
Answered(d) == IF d.output = -1 THEN <<>> ELSE <<Byte("done", 0), Byte("data", Len(d.tokens))>>

\* The bytes of complete lines.
Heard(d) == (Told(Len(d.tokens)) \o Answered(d)) \o FlattenSeq(d.lines)

GoodLine(g) == g \in Seq(Octets) \ {<<>>} /\ (\A i \in 1..Len(g) : Plain(g[i])) /\ Shaped(g)

\* An open decoder has heard all of r but the line it is in.
Follows(d, r) ==
  d.status = "open" =>
    /\ Shaped(d.text) /\ \A i \in 1..Len(d.text) : d.text[i] # Newline
    /\ d.text # <<>> => r # <<>> /\ Last(r) = Last(d.text)
    /\ \A i \in 1..Len(d.lines) : GoodLine(d.lines[i])
    /\ Terminated(d) => d.lines = <<>>
    /\ d.output \in {-1, Len(d.tokens)} /\ (d.error => d.output = -1)
    /\ ~d.error => Spoken(r) = Heard(d) \o Spoken(d.text)

LEMMA HeardTyped ==
  ASSUME NEW d \in Decoders
  PROVE  /\ Told(Len(d.tokens)) \in Seq(Octets) /\ Answered(d) \in Seq(Octets)
         /\ FlattenSeq(d.lines) \in Seq(Octets) /\ Heard(d) \in Seq(Octets)
         /\ d.lines \in Seq(Seq(Octets))
<1>1. Told(Len(d.tokens)) \in Seq(Octets) /\ Len(d.tokens) \in Nat
  <2>1. Len(d.tokens) \in Nat
    BY DEF Decoders
  <2>2. QED
    BY <2>1, ToldTyped
<1>2. Answered(d) \in Seq(Octets)
  <2>1. Byte("done", 0) \in Octets /\ Byte("data", Len(d.tokens)) \in Octets
    BY <1>1, BytesTyped
  <2>2. QED
    BY <2>1 DEF Answered
<1>3. d.lines \in Seq(Seq(Octets))
  <2>1. d.lines \in Seq(Seq(Octets) \ {<<>>}) /\ (Seq(Octets) \ {<<>>}) \subseteq Seq(Octets)
    BY DEF Decoders
  <2>2. QED
    BY <2>1, SeqMonotonic
<1>4. FlattenSeq(d.lines) \in Seq(Octets)
  BY <1>3, FlattenType
<1>5. QED
  BY <1>1, <1>2, <1>3, <1>4, ConcatProperties DEF Heard

LEMMA SoleByte ==
  ASSUME NEW g, GoodLine(g), g[1].kind # "lead"
  PROVE  g = <<g[1]>> /\ g[1] \in Octets /\ (g[1].kind \in {"token", "done"} => g[1].value = 0)
<1>1. g \in Seq(Octets) /\ Len(g) \in Nat \ {0} /\ Shaped(g) /\ \A i \in 1..Len(g) : Plain(g[i])
  BY EmptySeq DEF GoodLine
<1>2. ASSUME Len(g) > 1 PROVE FALSE
  <2>1. 1 \in 1..(Len(g) - 1) /\ 1 \in 1..Len(g) /\ 1 + 1 \in 1..Len(g)
    BY <1>1, <1>2
  <2>2. Plain(g[1]) /\ Plain(g[1 + 1])
    BY <1>1, <2>1
  <2>3. QED
    BY <1>1, <2>1, <2>2 DEF Shaped
<1>3. Len(g) = 1
  <2>1. Len(g) \in Nat \ {0} /\ ~(Len(g) > 1)
    BY <1>1, <1>2
  <2>2. QED
    BY <2>1
<1>4. g[1] \in Octets /\ (g[1].kind \in {"token", "done"} => g[1].value = 0)
  <2>1. 1 \in 1..Len(g)
    BY <1>3
  <2>2. QED
    BY <1>1, <2>1, ElementOfSeq DEF Shaped
<1>5. g = <<g[1]>>
  BY <1>1, <1>3, <1>4
<1>6. QED
  BY <1>4, <1>5

LEMMA ByteOf ==
  ASSUME NEW b \in Octets
  PROVE  b = Byte(b.kind, b.value)
  BY DEF Octets, Byte

LEMMA FlattenTwo ==
  ASSUME NEW S, NEW s \in Seq(Seq(S)), Len(s) = 2
  PROVE  FlattenSeq(s) = s[1] \o s[2] /\ s[1] \in Seq(S) /\ s[2] \in Seq(S)
<1> DEFINE P == Seq(S)
           f == Front(s)
<1>1. s[1] \in P /\ s[2] \in P
  <2>1. 1 \in 1..Len(s) /\ 2 \in 1..Len(s) /\ s \in Seq(P)
    OBVIOUS
  <2> HIDE DEF P
  <2>2. QED
    BY <2>1, ElementOfSeq
<1>2. /\ f \in Seq(P) /\ Last(s) \in P /\ Len(f) = 1 /\ s = Append(f, Last(s))
      /\ f[1] = s[1] /\ Last(s) = s[2]
  <2>1. s \in Seq(P) /\ s # <<>>
    OBVIOUS
  <2> HIDE DEF P
  <2>2. /\ f \in Seq(P) /\ Last(s) \in P /\ Len(f) = 2 - 1 /\ s = Append(f, Last(s))
        /\ \A i \in 1..(2 - 1) : f[i] = s[i]
    BY <2>1, FrontLast
  <2>3. QED
    BY <2>2 DEF Last
<1> HIDE DEF f
<1>3. FlattenSeq(s) = FlattenSeq(f) \o s[2]
  BY <1>2, FlattenAppend
<1> DEFINE e == Front(f)
<1>4. e \in Seq(P) /\ Last(f) \in P /\ Len(e) = 0 /\ f = Append(e, Last(f)) /\ Last(f) = s[1]
  <2>1. f \in Seq(P) /\ f # <<>>
    BY <1>2
  <2> HIDE DEF P
  <2>2. e \in Seq(P) /\ Last(f) \in P /\ Len(e) = 1 - 1 /\ f = Append(e, Last(f))
    BY <1>2, <2>1, FrontLast
  <2>3. QED
    BY <1>2, <2>2 DEF Last
<1> HIDE DEF e
<1>5. FlattenSeq(f) = FlattenSeq(e) \o s[1]
  BY <1>4, FlattenAppend
<1>6. FlattenSeq(e) = <<>>
  <2>1. e = <<>>
    <3> HIDE DEF P
    <3>1. QED
      BY <1>4, EmptySeq
  <2>2. QED
    BY <2>1, FlattenNothing
<1>7. <<>> \o s[1] = s[1]
  BY <1>1, ConcatEmptySeq
<1>8. QED
  BY <1>1, <1>3, <1>5, <1>6, <1>7

LEMMA PairJoined ==
  ASSUME NEW S, NEW a \in S, NEW b \in S
  PROVE  <<a>> \o <<b>> = <<a, b>>
<1> DEFINE u == <<a>>
           v == <<b>>
           w == <<a, b>>
<1>1. u \in Seq(S) /\ v \in Seq(S) /\ Len(u) = 1 /\ Len(v) = 1 /\ u[1] = a /\ v[1] = b
  OBVIOUS
<1>2. w \in Seq(S) /\ Len(w) = 2 /\ w[1] = a /\ w[2] = b
  OBVIOUS
<1> HIDE DEF u, v, w
<1>3. /\ u \o v \in Seq(S) /\ Len(u \o v) = Len(u) + Len(v)
      /\ \A i \in 1..(Len(u) + Len(v)) : (u \o v)[i] = IF i <= Len(u) THEN u[i] ELSE v[i - Len(u)]
  BY <1>1, ConcatProperties
<1>4. Len(u \o v) = 2 /\ (u \o v)[1] = a /\ (u \o v)[2] = b
  <2>1. 1 \in 1..2 /\ 2 \in 1..2 /\ 1 <= 1 /\ ~(2 <= 1) /\ 2 - 1 = 1 /\ 1 + 1 = 2
    OBVIOUS
  <2>2. (u \o v)[1] = (IF 1 <= Len(u) THEN u[1] ELSE v[1 - Len(u)])
    BY <1>1, <1>3, <2>1
  <2>3. (u \o v)[2] = (IF 2 <= Len(u) THEN u[2] ELSE v[2 - Len(u)])
    BY <1>1, <1>3, <2>1
  <2>4. QED
    BY <1>1, <1>3, <2>1, <2>2, <2>3
<1>5. \A i \in 1..2 : (u \o v)[i] = w[i]
  <2>1. \A i \in 1..2 : i = 1 \/ i = 2
    OBVIOUS
  <2>2. QED
    BY <1>2, <1>4, <2>1
<1>6. u \o v = w
  BY <1>2, <1>3, <1>4, <1>5, SeqEqual
<1>7. QED
  BY <1>6 DEF u, v, w

LEMMA ShapedFront ==
  ASSUME NEW s \in Seq(Octets), Shaped(s), s # <<>>
  PROVE  Shaped(Front(s))
<1> DEFINE f == Front(s)
           n == Len(s)
<1>1. /\ n \in Nat \ {0} /\ f \in Seq(Octets) /\ Len(f) = n - 1 /\ \A i \in 1..(n - 1) : f[i] = s[i]
  BY FrontLast
<1> HIDE DEF f, n
<1>2. ASSUME NEW i \in 1..(n - 1) PROVE f[i].kind \in {"token", "done"} => f[i].value = 0
  <2>1. i \in 1..n /\ f[i] = s[i]
    BY <1>1
  <2>2. QED
    BY <2>1 DEF Shaped, n
<1>3. ASSUME NEW i \in 1..(n - 1 - 1), Plain(f[i]), Plain(f[i + 1]) PROVE f[i].kind = "lead"
  <2>1. i \in 1..(n - 1) /\ i + 1 \in 1..(n - 1)
    BY <1>1
  <2>2. f[i] = s[i] /\ f[i + 1] = s[i + 1]
    BY <1>1, <2>1
  <2>3. QED
    BY <1>3, <2>1, <2>2 DEF Shaped, n
<1>4. QED
  BY <1>1, <1>2, <1>3 DEF Shaped, f

LEMMA ShapedAppend ==
  ASSUME NEW s \in Seq(Octets), NEW b \in Octets, Shaped(s),
         b.kind \in {"token", "done"} => b.value = 0,
         s # <<>> /\ Plain(Last(s)) /\ Plain(b) => Last(s).kind = "lead"
  PROVE  Shaped(Append(s, b))
<1> DEFINE u == Append(s, b)
           n == Len(s)
<1>1. n \in Nat /\ Len(u) = n + 1 /\ u[n + 1] = b /\ \A i \in 1..n : u[i] = s[i]
  OBVIOUS
<1> HIDE DEF u
<1>2. ASSUME NEW i \in 1..(n + 1) PROVE u[i].kind \in {"token", "done"} => u[i].value = 0
  <2>1. i = n + 1 \/ i \in 1..n
    BY <1>1
  <2>2. QED
    BY <1>1, <2>1 DEF Shaped
<1>3. ASSUME NEW i \in 1..n, Plain(u[i]), Plain(u[i + 1]) PROVE u[i].kind = "lead"
  <2>1. CASE i = n
    <3>1. s # <<>> /\ Last(s) = s[i] /\ u[i] = s[i] /\ u[i + 1] = b
      BY <1>1, <2>1 DEF Last
    <3>2. QED
      BY <1>3, <3>1
  <2>2. CASE i \in 1..(n - 1)
    <3>1. i + 1 \in 1..n
      BY <1>1, <2>2
    <3>2. u[i] = s[i] /\ u[i + 1] = s[i + 1]
      BY <1>1, <3>1
    <3>3. QED
      BY <1>3, <2>2, <3>2 DEF Shaped
  <2>3. i = n \/ i \in 1..(n - 1)
    BY <1>1
  <2>4. QED
    BY <2>1, <2>2, <2>3
<1>4. (n + 1) - 1 = n
  BY <1>1
<1>5. QED
  BY <1>1, <1>2, <1>3, <1>4 DEF Shaped, u

\* What the end of r says of its last byte.
LEMMA ShapedEnd ==
  ASSUME NEW r \in Seq(Octets), NEW b \in Octets, Shaped(Append(r, b))
  PROVE  /\ b.kind \in {"token", "done"} => b.value = 0
         /\ r # <<>> /\ Plain(Last(r)) /\ Plain(b) => Last(r).kind = "lead"
<1> DEFINE u == Append(r, b)
           n == Len(r)
<1>1. n \in Nat /\ Len(u) = n + 1 /\ u[n + 1] = b /\ \A i \in 1..n : u[i] = r[i]
  OBVIOUS
<1>2. Shaped(u)
  OBVIOUS
<1> HIDE DEF u
<1>3. b.kind \in {"token", "done"} => b.value = 0
  <2>1. n + 1 \in 1..Len(u)
    BY <1>1
  <2>2. QED
    BY <1>1, <1>2, <2>1 DEF Shaped
<1>4. ASSUME r # <<>>, Plain(Last(r)), Plain(b) PROVE Last(r).kind = "lead"
  <2>1. n \in 1..n /\ n \in 1..(Len(u) - 1)
    BY <1>1, <1>4, EmptySeq
  <2>2. u[n] = Last(r) /\ u[n + 1] = b
    BY <1>1, <2>1 DEF Last
  <2>3. QED
    BY <1>2, <1>4, <2>1, <2>2 DEF Shaped
<1>5. QED
  BY <1>3, <1>4

\* A line without returns says what it is.
LEMMA BareSpoken ==
  ASSUME NEW s \in Seq(Octets), \A i \in 1..Len(s) : s[i] # Newline, Shaped(s),
         ~Contains(Bare(s), Return)
  PROVE  Spoken(s) = Bare(s) /\ (Bare(s) # <<>> => GoodLine(Bare(s)))
<1> DEFINE l == Bare(s)
<1>1. l \in Seq(Octets)
  BY BareTyped
<1>2. \A i \in 1..Len(l) : l[i] # Newline
  <2>1. CASE s # <<>> /\ Last(s) = Return
    <3>1. l = Front(s) /\ Len(s) \in Nat \ {0} /\ Len(Front(s)) = Len(s) - 1
          /\ \A i \in 1..(Len(s) - 1) : Front(s)[i] = s[i]
      BY <2>1, FrontLast DEF Bare
    <3>2. \A i \in 1..(Len(s) - 1) : i \in 1..Len(s)
      BY <3>1
    <3>3. QED
      BY <3>1, <3>2
  <2>2. CASE ~(s # <<>> /\ Last(s) = Return)
    BY <2>2 DEF Bare
  <2>3. QED
    BY <2>1, <2>2
<1>3. Shaped(l)
  BY ShapedFront DEF Bare
<1>4. Spoken(s) = Spoken(l)
  <2>1. CASE s # <<>> /\ Last(s) = Return
    <3>1. Front(s) \in Seq(Octets) /\ Last(s) \in Octets /\ s = Append(Front(s), Last(s)) /\ l = Front(s)
      BY <2>1, FrontLast DEF Bare
    <3>2. Spoken(s) = Say(Spoken(Front(s)), Last(s))
      BY <3>1, SpokenAppend
    <3>3. QED
      BY <2>1, <3>1, <3>2 DEF Say
  <2>2. CASE ~(s # <<>> /\ Last(s) = Return)
    BY <2>2 DEF Bare
  <2>3. QED
    BY <2>1, <2>2
<1>5. \A i \in 1..Len(l) : Plain(l[i])
  BY <1>2 DEF Contains, Plain
<1> HIDE DEF l
<1>6. Spoken(l) = l
  BY <1>1, <1>5, SpokenPlain
<1>7. QED
  BY <1>1, <1>3, <1>4, <1>5, <1>6 DEF GoodLine, l

\* An event says what was held of it.
LEMMA EventFollows ==
  ASSUME NEW d \in Decoders, WellFormed(d.lines), \A i \in 1..Len(d.lines) : GoodLine(d.lines[i]),
         ~Terminated(d), d.status = "open", d.text = <<>>, Event(d).status = "open"
  PROVE  /\ Event(d).text = <<>> /\ Event(d).lines = <<>>
         /\ Event(d).output \in {-1, Len(Event(d).tokens)} /\ (Event(d).error => Event(d).output = -1)
         /\ ~Event(d).error => Heard(Event(d)) = Heard(d)
<1> DEFINE g == d.lines[1]
           h == d.lines[2]
           name == g[1].kind
           data == h[1]
           next == [d EXCEPT !.lines = <<>>, !.eventBytes = 0]
           n == Len(d.tokens)
           e == Event(d)
<1>1. /\ Len(d.lines) = 2 /\ name \in {"token", "done", "error"} /\ data.kind \in {"data", "lead"}
      /\ GoodLine(g) /\ GoodLine(h)
  BY DEF WellFormed
<1>2. d.output = -1 /\ d.error = FALSE /\ n \in Nat
  BY DEF Terminated, Decoders
<1>3. Heard(d) = Told(n) \o (g \o h) /\ g \in Seq(Octets) /\ h \in Seq(Octets) /\ Told(n) \in Seq(Octets)
  <2>1. d.lines \in Seq(Seq(Octets)) /\ Told(n) \in Seq(Octets)
    BY HeardTyped
  <2>2. FlattenSeq(d.lines) = g \o h /\ g \in Seq(Octets) /\ h \in Seq(Octets)
    BY <1>1, <2>1, FlattenTwo
  <2>3. Answered(d) = <<>> /\ Told(n) \o <<>> = Told(n)
    BY <1>2, <2>1, ConcatEmptySeq DEF Answered
  <2>4. QED
    BY <2>1, <2>2, <2>3 DEF Heard
<1>4. g = <<g[1]>> /\ g[1] \in Octets /\ (name \in {"token", "done"} => g[1].value = 0)
  BY <1>1, SoleByte
<1>5. data.kind = "data" => h = <<data>> /\ data \in Octets
  BY <1>1, SoleByte
<1>6. /\ next.tokens = d.tokens /\ next.output = -1 /\ next.error = FALSE /\ next.status = "open"
      /\ next.lines = <<>> /\ next.text = <<>> /\ next \in Decoders
  <2>1. <<>> \in Seq(Seq(Octets) \ {<<>>})
    BY EmptySeq
  <2>2. QED
    BY <1>2, <2>1 DEF Decoders
<1>7. Fail(next).status # "open"
  BY <1>6 DEF Fail, Decoders
<1>8. FlattenSeq(<<>>) = <<>>
  BY FlattenNothing
<1> HIDE DEF next
<1>9. CASE name = "token"
  <2>1. /\ data.kind = "data" /\ data.value = n
        /\ e = [next EXCEPT !.tokens = Append(@, data.value),
                            !.status = IF n + 1 = cancelAfter THEN "cancelled" ELSE "open"]
    BY <1>7, <1>9 DEF Event, next
  <2>2. /\ e.tokens = Append(d.tokens, n) /\ e.output = -1 /\ e.error = FALSE /\ e.lines = <<>>
        /\ e.text = <<>>
    BY <1>6, <2>1 DEF Decoders
  <2>3. Len(e.tokens) = n + 1
    BY <2>2 DEF Decoders
  <2>4. g = <<Byte("token", 0)>> /\ h = <<Byte("data", n)>>
    BY <1>4, <1>5, <1>9, <2>1, ByteOf
  <2>5. Told(n + 1) = Told(n) \o (g \o h)
    <3> HIDE DEF g, h, n
    <3>1. QED
      BY <1>2, <2>4, ToldMore
  <2>6. Heard(e) = (Told(n + 1) \o <<>>) \o <<>>
    BY <1>8, <2>2, <2>3 DEF Heard, Answered
  <2>7. Told(n + 1) \in Seq(Octets)
    <3>1. n + 1 \in Nat
      BY <1>2
    <3>2. QED
      BY <3>1, ToldTyped
  <2>8. Heard(e) = Told(n + 1)
    BY <2>6, <2>7, ConcatEmptySeq
  <2>9. QED
    BY <1>3, <2>2, <2>5, <2>8
<1>10. CASE name = "done"
  <2>1. data.kind = "data" /\ data.value = n /\ e = [next EXCEPT !.output = n]
    BY <1>7, <1>10 DEF Event, next
  <2>2. e.tokens = d.tokens /\ e.output = n /\ e.error = FALSE /\ e.lines = <<>> /\ e.text = <<>>
    BY <1>6, <2>1 DEF Decoders
  <2>3. g = <<Byte("done", 0)>> /\ h = <<Byte("data", n)>>
    BY <1>4, <1>5, <1>10, <2>1, ByteOf
  <2>4. g \o h = <<Byte("done", 0), Byte("data", n)>>
    <3> DEFINE x == Byte("done", 0)
               y == Byte("data", n)
    <3>1. x \in Octets /\ y \in Octets
      BY <1>2, BytesTyped
    <3> HIDE DEF x, y
    <3>2. <<x>> \o <<y>> = <<x, y>>
      BY <3>1, PairJoined
    <3>3. QED
      BY <2>3, <3>2 DEF x, y
  <2>5. e.output # -1
    BY <1>2, <2>2
  <2>6. Answered(e) = g \o h
    BY <2>2, <2>4, <2>5 DEF Answered
  <2>7. Heard(e) = (Told(n) \o (g \o h)) \o <<>>
    BY <1>8, <2>2, <2>6 DEF Heard
  <2>8. Told(n) \o (g \o h) \in Seq(Octets)
    BY <1>3, ConcatProperties
  <2>9. Heard(e) = Told(n) \o (g \o h)
    BY <2>7, <2>8, ConcatEmptySeq
  <2>10. QED
    BY <1>3, <2>2, <2>9
<1>11. CASE name = "error"
  <2>1. e = [next EXCEPT !.error = TRUE]
    BY <1>7, <1>11 DEF Event, next
  <2>2. e.tokens = d.tokens /\ e.output = -1 /\ e.error = TRUE /\ e.lines = <<>> /\ e.text = <<>>
    BY <1>6, <2>1 DEF Decoders
  <2>3. QED
    BY <2>2
<1>12. QED
  BY <1>1, <1>9, <1>10, <1>11

\* The end of a line.
LEMMA LineFollows ==
  ASSUME NEW d \in Decoders, NEW r \in Seq(Octets), d.status = "open", Follows(d, r),
         Line(d, d.text).status = "open"
  PROVE  Follows(Line(d, d.text), Append(r, Newline))
<1> DEFINE line == Bare(d.text)
           c == AtEnd(d, line)
           e == Line(d, d.text)
           q == Append(r, Newline)
<1>1. /\ Shaped(d.text) /\ \A i \in 1..Len(d.text) : d.text[i] # Newline
      /\ \A i \in 1..Len(d.lines) : GoodLine(d.lines[i])
      /\ Terminated(d) => d.lines = <<>>
      /\ d.output \in {-1, Len(d.tokens)} /\ (d.error => d.output = -1)
      /\ ~d.error => Spoken(r) = Heard(d) \o Spoken(d.text)
  BY DEF Follows
<1>2. d.text \in Seq(Octets) /\ line \in Seq(Octets)
  BY BareTyped DEF Decoders
<1>3. /\ c \in Decoders /\ c.lines = d.lines /\ c.tokens = d.tokens /\ c.output = d.output
      /\ c.error = d.error /\ c.status = d.status /\ c.text = <<>>
  BY <1>2, AtEndTyped
<1> HIDE DEF c
<1>4. Fail(c).status # "open"
  BY <1>3 DEF Fail, Decoders
<1>5. e = IF Contains(line, Return) \/ (line # <<>> /\ Terminated(d)) THEN Fail(c)
          ELSE IF line # <<>> THEN [c EXCEPT !.lines = Append(@, line)]
          ELSE IF d.lines = <<>> THEN c
          ELSE IF WellFormed(d.lines) THEN Event(c) ELSE Fail(c)
  BY LineIs DEF c
<1>6. ~Contains(line, Return) /\ (line # <<>> => ~Terminated(d))
  BY <1>4, <1>5
<1>7. Spoken(d.text) = line /\ (line # <<>> => GoodLine(line))
  BY <1>1, <1>2, <1>6, BareSpoken
<1>8. Spoken(q) = Spoken(r)
  <2>1. Spoken(q) = Say(Spoken(r), Newline)
    BY OctetsTyped, SpokenAppend
  <2>2. QED
    BY <2>1 DEF Say
<1>9. Heard(d) \in Seq(Octets) /\ Heard(c) = Heard(d)
  BY <1>3, HeardTyped DEF Heard, Answered
<1>10. /\ Shaped(<<>>) /\ Spoken(<<>>) = <<>> /\ Len(<<>>) = 0 /\ Heard(d) \o <<>> = Heard(d)
       /\ (Terminated(c) <=> Terminated(d))
  BY <1>3, <1>9, SpokenNone, ConcatEmptySeq DEF Shaped, Terminated
<1> HIDE DEF line, e, q
<1>11. CASE line # <<>>
  <2>1. e = [c EXCEPT !.lines = Append(@, line)]
    BY <1>5, <1>6, <1>11
  <2>2. /\ e.lines = Append(d.lines, line) /\ e.tokens = d.tokens /\ e.output = d.output
        /\ e.error = d.error /\ e.text = <<>> /\ ~Terminated(d) /\ (Terminated(e) <=> Terminated(d))
    BY <1>3, <1>6, <1>11, <2>1 DEF Decoders, Terminated
  <2>3. d.lines \in Seq(Seq(Octets)) /\ FlattenSeq(d.lines) \in Seq(Octets)
        /\ Told(Len(d.tokens)) \o Answered(d) \in Seq(Octets)
    BY HeardTyped, ConcatProperties
  <2>4. \A i \in 1..Len(e.lines) : GoodLine(e.lines[i])
    <3>1. Len(e.lines) = Len(d.lines) + 1 /\ Len(d.lines) \in Nat /\ e.lines[Len(d.lines) + 1] = line
      BY <1>2, <2>2, <2>3
    <3>2. \A i \in 1..Len(d.lines) : e.lines[i] = d.lines[i]
      BY <1>2, <2>2, <2>3
    <3>3. \A i \in 1..(Len(d.lines) + 1) : i = Len(d.lines) + 1 \/ i \in 1..Len(d.lines)
      BY <3>1
    <3>4. QED
      BY <1>1, <1>7, <1>11, <3>1, <3>2, <3>3
  <2>5. Heard(e) = Heard(d) \o line
    <3> DEFINE x == Told(Len(d.tokens)) \o Answered(d)
               y == FlattenSeq(d.lines)
    <3>1. FlattenSeq(e.lines) = y \o line
      BY <1>2, <2>2, <2>3, FlattenAppend
    <3>2. Answered(e) = Answered(d)
      BY <2>2 DEF Answered
    <3>3. Heard(e) = x \o (y \o line) /\ Heard(d) = x \o y
      BY <2>2, <3>1, <3>2 DEF Heard
    <3>4. x \in Seq(Octets) /\ y \in Seq(Octets)
      BY <2>3
    <3> HIDE DEF x, y
    <3>5. x \o (y \o line) = (x \o y) \o line
      BY <1>2, <3>4, Reassociated
    <3>6. QED
      BY <3>3, <3>5
  <2>6. ~d.error => Spoken(q) = Heard(e) \o Spoken(e.text)
    <3>1. Heard(d) \o line \in Seq(Octets)
      BY <1>2, <1>9, ConcatProperties
    <3>2. Heard(e) \o <<>> = Heard(d) \o line
      BY <2>5, <3>1, ConcatEmptySeq
    <3>3. QED
      BY <1>1, <1>7, <1>8, <1>10, <2>2, <3>2
  <2>7. QED
    BY <1>1, <1>10, <2>2, <2>4, <2>6 DEF Follows, e, q
<1>12. CASE line = <<>> /\ d.lines = <<>>
  <2>1. e = c
    BY <1>5, <1>6, <1>12
  <2>2. ~d.error => Spoken(q) = Heard(e) \o Spoken(e.text)
    BY <1>1, <1>3, <1>7, <1>8, <1>9, <1>10, <1>12, <2>1
  <2>3. QED
    BY <1>1, <1>3, <1>10, <2>1, <2>2 DEF Follows, e, q
<1>13. CASE line = <<>> /\ d.lines # <<>>
  <2>1. WellFormed(c.lines) /\ e = Event(c) /\ Event(c).status = "open"
    BY <1>3, <1>4, <1>5, <1>6, <1>13 DEF e
  <2>2. /\ \A i \in 1..Len(c.lines) : GoodLine(c.lines[i])
        /\ ~Terminated(c) /\ c.status = "open" /\ c.text = <<>>
    BY <1>1, <1>3, <1>10, <1>13
  <2>3. /\ e.text = <<>> /\ e.lines = <<>>
        /\ e.output \in {-1, Len(e.tokens)} /\ (e.error => e.output = -1)
        /\ ~e.error => Heard(e) = Heard(c)
    BY <1>3, <2>1, <2>2, EventFollows
  <2>4. ~e.error => Spoken(q) = Heard(e) \o Spoken(e.text)
    <3>1. ~d.error
      BY <1>1, <1>13 DEF Terminated
    <3>2. QED
      BY <1>1, <1>7, <1>8, <1>9, <1>10, <1>13, <2>3, <3>1
  <2>5. QED
    BY <1>10, <2>3, <2>4 DEF Follows, e, q
<1>14. QED
  BY <1>11, <1>12, <1>13

\* A byte more.
LEMMA ByteFollows ==
  ASSUME NEW d \in Decoders, NEW r \in Seq(Octets), NEW b \in Octets, Follows(d, r),
         Shaped(Append(r, b))
  PROVE  Follows(Piece(d, <<b>>), Append(r, b))
<1> DEFINE one == <<b>>
           c == Counted(d, one)
           e == Piece(d, one)
           q == Append(r, b)
           grown == Append(d.text, b)
<1>1. SUFFICES ASSUME e.status = "open" PROVE Follows(e, q)
  BY DEF Follows
<1>2. one \in Seq(Octets)
  BY LonelyTyped
<1>3. /\ c \in Decoders /\ c.lines = d.lines /\ c.tokens = d.tokens /\ c.output = d.output
      /\ c.error = d.error /\ c.status = d.status /\ c.text = d.text
  BY <1>2, CountedTyped
<1>4. d.text \in Seq(Octets) /\ grown \in Seq(Octets)
  BY DEF Decoders
<1>5. d.text \o one = grown
  BY <1>4, AppendIsConcat
<1>6. Last(grown) = b /\ Front(grown) = d.text /\ grown # <<>> /\ Last(q) = b /\ q # <<>>
  BY <1>4, LastAppended
<1> HIDE DEF c, one, grown
<1>7. Fail(c).status # "open"
  BY <1>3 DEF Fail, Decoders
<1>8. d.status = "open" /\ e = IF b = Newline THEN Line(c, c.text) ELSE [c EXCEPT !.text = grown]
  <2>1. e = IF d.status # "open" THEN d
            ELSE IF TooMuch(d, one) THEN Fail(c)
            ELSE IF Last(grown) = Newline THEN Line(c, Front(grown))
            ELSE [c EXCEPT !.text = grown]
    BY <1>2, <1>5, PieceIs DEF c, e
  <2> HIDE DEF e
  <2>2. d.status = "open"
    BY <1>1, <2>1
  <2>3. ~TooMuch(d, one)
    BY <1>1, <1>7, <2>1, <2>2
  <2>4. QED
    BY <1>3, <1>6, <2>1, <2>2, <2>3
<1>9. /\ Shaped(d.text) /\ \A i \in 1..Len(d.text) : d.text[i] # Newline
      /\ d.text # <<>> => r # <<>> /\ Last(r) = Last(d.text)
      /\ \A i \in 1..Len(d.lines) : GoodLine(d.lines[i])
      /\ Terminated(d) => d.lines = <<>>
      /\ d.output \in {-1, Len(d.tokens)} /\ (d.error => d.output = -1)
      /\ ~d.error => Spoken(r) = Heard(d) \o Spoken(d.text)
  BY <1>8 DEF Follows
<1>10. Heard(c) = Heard(d) /\ (Terminated(c) <=> Terminated(d))
  BY <1>3 DEF Heard, Answered, Terminated
<1>11. CASE b = Newline
  <2>1. Follows(c, r)
    BY <1>3, <1>8, <1>9, <1>10 DEF Follows
  <2>2. e = Line(c, c.text)
    BY <1>8, <1>11
  <2>3. Follows(Line(c, c.text), Append(r, Newline))
    BY <1>1, <1>3, <1>8, <2>1, <2>2, LineFollows
  <2>4. QED
    BY <1>11, <2>2, <2>3
<1>12. CASE b # Newline
  <2>1. e = [c EXCEPT !.text = grown]
    BY <1>8, <1>12
  <2>2. /\ e.text = grown /\ e.lines = d.lines /\ e.tokens = d.tokens /\ e.output = d.output
        /\ e.error = d.error /\ (Terminated(e) <=> Terminated(d))
    BY <1>3, <2>1 DEF Decoders, Terminated
  <2>3. Shaped(grown)
    <3>1. b.kind \in {"token", "done"} => b.value = 0
      BY ShapedEnd
    <3>2. d.text # <<>> /\ Plain(Last(d.text)) /\ Plain(b) => Last(d.text).kind = "lead"
      BY <1>9, ShapedEnd
    <3>3. QED
      BY <1>4, <1>9, <3>1, <3>2, ShapedAppend DEF grown
  <2>4. \A i \in 1..Len(grown) : grown[i] # Newline
    <3>1. Len(grown) = Len(d.text) + 1 /\ Len(d.text) \in Nat /\ grown[Len(d.text) + 1] = b
      BY <1>4 DEF grown
    <3>2. \A i \in 1..Len(d.text) : grown[i] = d.text[i]
      BY <1>4 DEF grown
    <3>3. \A i \in 1..(Len(d.text) + 1) : i = Len(d.text) + 1 \/ i \in 1..Len(d.text)
      BY <3>1
    <3>4. QED
      BY <1>9, <1>12, <3>1, <3>2, <3>3
  <2>5. Heard(e) = Heard(d)
    BY <2>2 DEF Heard, Answered
  <2>6. ~d.error => Spoken(q) = Heard(d) \o Spoken(grown)
    <3>1. Spoken(q) = Say(Spoken(r), b)
      BY SpokenAppend
    <3>2. Spoken(grown) = Say(Spoken(d.text), b)
      BY <1>4, SpokenAppend DEF grown
    <3>3. Heard(d) \in Seq(Octets) /\ Spoken(d.text) \in Seq(Octets)
      BY <1>4, HeardTyped, SpokenTyped
    <3> DEFINE x == Heard(d)
               y == Spoken(d.text)
    <3>4. x \in Seq(Octets) /\ y \in Seq(Octets)
      BY <3>3
    <3> HIDE DEF x, y
    <3>5. x \o Append(y, b) = Append(x \o y, b)
      BY <3>4, ConcatAppend
    <3>6. ~d.error => Spoken(r) = x \o y
      BY <1>9 DEF x, y
    <3>7. Spoken(grown) = IF b \in {Newline, Return} THEN y ELSE Append(y, b)
      BY <3>2 DEF Say, y
    <3>8. QED
      BY <3>1, <3>5, <3>6, <3>7 DEF Say, x
  <2>7. grown # <<>> => q # <<>> /\ Last(q) = Last(grown)
    BY <1>6
  <2> HIDE DEF e, q
  <2>8. QED
    BY <1>9, <2>2, <2>3, <2>4, <2>5, <2>6, <2>7 DEF Follows
<1>13. QED
  BY <1>11, <1>12

LEMMA SingleFollows ==
  ASSUME NEW w \in Seq(Octets), Shaped(w)
  PROVE  Single(w) \in Decoders /\ Follows(Single(w), w)
<1> DEFINE T == {t \in Seq(Octets) : Shaped(t) => Single(t) \in Decoders /\ Follows(Single(t), t)}
<1>1. <<>> \in T
  <2>1. Single(<<>>) = Fresh /\ <<>> \in Seq(Octets)
    BY SingleStep, EmptySeq DEF SingleSteps
  <2>2. /\ Fresh.text = <<>> /\ Fresh.lines = <<>> /\ Fresh.output = -1 /\ Fresh.error = FALSE
        /\ Fresh.tokens = <<>> /\ Len(<<>>) = 0
    BY DEF Fresh
  <2>3. Told(0) = <<>>
    <3>1. Told(0) \in Seq(Octets) /\ Len(Told(0)) = 0
      <4>1. 0 \in Nat
        OBVIOUS
      <4>2. Told(0) \in Seq(Octets) /\ Len(Told(0)) = 2 * 0
        BY <4>1, ToldTyped
      <4>3. QED
        BY <4>2
    <3>2. QED
      BY <3>1, EmptySeq
  <2>4. <<>> \o <<>> = <<>>
    BY <2>1, ConcatEmptySeq
  <2>5. Heard(Fresh) = <<>>
    BY <2>2, <2>3, <2>4, FlattenNothing DEF Heard, Answered
  <2>6. Follows(Fresh, <<>>)
    BY <2>2, <2>4, <2>5, SpokenNone DEF Follows, Shaped, Terminated
  <2>7. QED
    BY <2>1, <2>6, FreshTyped
<1>2. ASSUME NEW t \in T, NEW b \in Octets PROVE Append(t, b) \in T
  <2> DEFINE u == Append(t, b)
             d == Single(t)
             one == <<b>>
  <2>1. t \in Seq(Octets) /\ (Shaped(t) => d \in Decoders /\ Follows(d, t)) /\ u \in Seq(Octets)
    OBVIOUS
  <2>2. Single(u) = Piece(d, one)
    BY <2>1, SingleStep DEF SingleSteps
  <2>3. ASSUME Shaped(u) PROVE Shaped(t)
    <3>1. Front(u) = t /\ u # <<>>
      BY <2>1, LastAppended
    <3> HIDE DEF u
    <3>2. QED
      BY <2>1, <2>3, <3>1, ShapedFront
  <2> HIDE DEF d, T
  <2>4. ASSUME Shaped(u) PROVE Piece(d, one) \in Decoders /\ Follows(Piece(d, one), u)
    <3>1. d \in Decoders /\ Follows(d, t)
      BY <2>1, <2>3, <2>4
    <3>2. Follows(Piece(d, one), u)
      BY <2>1, <2>4, <3>1, ByteFollows
    <3>3. one \in Seq(Octets) \ {<<>>}
      BY LonelyTyped
    <3> HIDE DEF one
    <3>4. QED
      BY <3>1, <3>2, <3>3, PieceTyped
  <2>5. QED
    BY <2>1, <2>2, <2>4 DEF T
<1>3. T = Seq(Octets)
  <2>1. T \in SUBSET Seq(Octets)
    OBVIOUS
  <2> HIDE DEF T
  <2>2. QED
    BY <1>1, <1>2, <2>1, EverySequence
<1>4. QED
  BY <1>3

-------------------------------------------------------------------------------
(* The measurement                                                            *)

\* What is cut off a wire keeps its shape.
LEMMA PrefixTyped ==
  ASSUME NEW w \in Seq(Octets), NEW m \in 1..(Len(w) + 1), NEW k \in Nat, k <= Len(w), m <= k + 1
  PROVE  /\ SubSeq(w, m, k) \in Seq(Octets) /\ Len(SubSeq(w, m, k)) = k - m + 1
         /\ \A i \in 1..(k - m + 1) : SubSeq(w, m, k)[i] = w[m + i - 1]
<1>1. \A i \in m..k : w[i] \in Octets
  <2>1. m..k \subseteq 1..Len(w)
    OBVIOUS
  <2>2. QED
    BY <2>1, ElementOfSeq
<1>2. /\ SubSeq(w, m, k) \in Seq(Octets)
      /\ Len(SubSeq(w, m, k)) = IF m <= k THEN k - m + 1 ELSE 0
      /\ \A i \in 1..(k - m + 1) : SubSeq(w, m, k)[i] = w[m + i - 1]
  BY <1>1, SubSeqProperties
<1>3. QED
  BY <1>2

LEMMA ShapedPrefix ==
  ASSUME NEW w \in Seq(Octets), Shaped(w), NEW k \in 0..Len(w)
  PROVE  SubSeq(w, 1, k) \in Seq(Octets) /\ Shaped(SubSeq(w, 1, k))
<1> DEFINE p == SubSeq(w, 1, k)
<1>1. p \in Seq(Octets) /\ Len(p) = k /\ \A i \in 1..k : p[i] = w[i]
  <2>1. p \in Seq(Octets) /\ Len(p) = k - 1 + 1 /\ \A i \in 1..(k - 1 + 1) : p[i] = w[1 + i - 1]
    BY PrefixTyped
  <2>2. QED
    BY <2>1
<1> HIDE DEF p
<1>2. ASSUME NEW i \in 1..k PROVE p[i].kind \in {"token", "done"} => p[i].value = 0
  <2>1. i \in 1..Len(w) /\ p[i] = w[i]
    BY <1>1
  <2>2. QED
    BY <2>1 DEF Shaped
<1>3. ASSUME NEW i \in 1..(k - 1), Plain(p[i]), Plain(p[i + 1]) PROVE p[i].kind = "lead"
  <2>1. i \in 1..k /\ i + 1 \in 1..k /\ i \in 1..(Len(w) - 1)
    OBVIOUS
  <2>2. p[i] = w[i] /\ p[i + 1] = w[i + 1]
    BY <1>1, <2>1
  <2>3. QED
    BY <1>3, <2>1, <2>2 DEF Shaped
<1>4. QED
  BY <1>1, <1>2, <1>3 DEF Shaped, p

\* The inductive invariant: the decoder is, but for what no caller sees once it has
\* stopped, the one that is fed byte for byte.
FedAlike ==
  \E p \in Seq(Octets) : /\ p = SubSeq(wire, 1, received) /\ Single(p) \in Decoders
                         /\ Same(decoder, Single(p))
StreamInv ==
  /\ wire \in Wires /\ received \in 0..Len(wire) /\ decoder \in Decoders
  /\ FedAlike
  /\ outcome = "completed" => /\ decoder.status = "open" /\ decoder.text = <<>>
                              /\ decoder.lines = <<>> /\ decoder.output # -1

LEMMA WireTyped == ASSUME StreamAssumption, wire \in Wires PROVE wire \in Seq(Octets) /\ Shaped(wire) /\ Len(wire) \in Nat
  BY WiresEnd DEF Ending

LEMMA StreamInitInv == ASSUME StreamAssumption, StreamInit PROVE StreamInv
<1>1. /\ wire \in Wires /\ received = 0 /\ decoder = Fresh /\ outcome = "none"
      /\ wire \in Seq(Octets) /\ Len(wire) \in Nat
  BY WireTyped DEF StreamInit
<1>2. SubSeq(wire, 1, received) = <<>> /\ <<>> \in Seq(Octets)
  BY <1>1, SubSeqEmpty, EmptySeq
<1>3. Single(<<>>) = Fresh
  BY SingleStep DEF SingleSteps
<1>4. FedAlike
  BY <1>1, <1>2, <1>3, FreshTyped DEF FedAlike, Same
<1>5. QED
  BY <1>1, <1>4, FreshTyped DEF StreamInv

LEMMA ReceiveInv ==
  ASSUME StreamAssumption, StreamInv, NEW n \in 1..Len(wire), Receive(n)
  PROVE  StreamInv'
<1> DEFINE s == SubSeq(wire, received + 1, received + n)
           q == SubSeq(wire, 1, received + n)
<1>1. /\ outcome = "none" /\ received + n <= Len(wire) /\ decoder' = Feed(decoder, s)
      /\ received' = received + n /\ wire' = wire /\ cancelAfter' = cancelAfter /\ outcome' = outcome
  BY DEF Receive, Receiving
<1>2. wire \in Wires /\ received \in 0..Len(wire) /\ decoder \in Decoders /\ FedAlike
  BY DEF StreamInv
<1>3. wire \in Seq(Octets) /\ Len(wire) \in Nat
  BY <1>2, WireTyped
<1>4. PICK p \in Seq(Octets) : /\ p = SubSeq(wire, 1, received) /\ Single(p) \in Decoders
                               /\ Same(decoder, Single(p))
  BY <1>2 DEF FedAlike
<1>5. s \in Seq(Octets)
  <2>1. received + 1 \in 1..(Len(wire) + 1) /\ received + n \in Nat /\ received + 1 <= received + n + 1
    BY <1>1, <1>2, <1>3
  <2>2. QED
    BY <1>1, <1>3, <2>1, PrefixTyped
<1>6. p \o s = q
  <2>1. 1 \in 1..(Len(wire) + 1) /\ received \in (1 - 1)..Len(wire) /\ received + n \in received..Len(wire)
    BY <1>1, <1>2, <1>3
  <2>2. SubSeq(wire, 1, received) \o SubSeq(wire, received + 1, received + n) = SubSeq(wire, 1, received + n)
    BY <1>3, <2>1, ConcatAdjacentSubSeq
  <2>3. QED
    BY <1>4, <2>2
<1> HIDE DEF s
<1>7. Feed(decoder, s) \in Decoders /\ Single(p \o s) \in Decoders /\ Same(Feed(decoder, s), Single(p \o s))
  BY <1>2, <1>4, <1>5, FeedSame
<1>8. q \in Seq(Octets) /\ q = SubSeq(wire', 1, received')
  <2>1. p \o s \in Seq(Octets)
    BY <1>5, ConcatProperties
  <2>2. QED
    BY <1>1, <1>6, <2>1
<1>9. received' \in 0..Len(wire')
  BY <1>1, <1>2, <1>3
<1>10. Single(q) \in Decoders /\ Same(decoder', Single(q))
  BY <1>1, <1>6, <1>7
<1> HIDE DEF q
<1>11. FedAlike'
  <2>1. PICK r \in Seq(Octets) : r = q
    BY <1>8
  <2>2. Single(r)' = Single(r)
    BY <1>1, SingleStays
  <2>3. r = SubSeq(wire', 1, received') /\ Single(r)' \in Decoders /\ Same(decoder', Single(r)')
    BY <1>8, <1>10, <2>1, <2>2
  <2>4. QED
    BY <2>3 DEF FedAlike, Same, View
<1>12. QED
  BY <1>1, <1>2, <1>7, <1>9, <1>11 DEF StreamInv

LEMMA StreamStep == ASSUME StreamAssumption, StreamInv, [StreamNext]_streamVars PROVE StreamInv'
<1>1. ASSUME NEW n \in 1..Len(wire), Receive(n) PROVE StreamInv'
  BY <1>1, ReceiveInv
<1>2. ASSUME UNCHANGED <<wire, received, cancelAfter, decoder>>,
             outcome' = "completed" => /\ decoder.status = "open" /\ decoder.text = <<>>
                                       /\ decoder.lines = <<>> /\ decoder.output # -1
      PROVE  StreamInv'
  <2>1. PICK p \in Seq(Octets) : /\ p = SubSeq(wire, 1, received) /\ Single(p) \in Decoders
                                 /\ Same(decoder, Single(p))
    BY DEF StreamInv, FedAlike
  <2>2. Single(p)' = Single(p)
    BY <1>2, SingleStays
  <2>3. FedAlike'
    BY <1>2, <2>1, <2>2 DEF FedAlike, Same, View
  <2>4. QED
    BY <1>2, <2>3 DEF StreamInv
<1>3. CASE EndOfStream
  <2>1. /\ UNCHANGED <<wire, received, cancelAfter, decoder>> /\ decoder.status = "open"
        /\ outcome' = "completed" => decoder.text = <<>> /\ decoder.lines = <<>> /\ decoder.output # -1
    BY <1>3 DEF EndOfStream, Receiving
  <2>2. QED
    BY <1>2, <2>1
<1>4. CASE Stop
  <2>1. decoder.status # "completed"
    BY DEF StreamInv, Decoders
  <2>2. QED
    BY <1>2, <1>4, <2>1 DEF Stop
<1>5. CASE Reset
  BY <1>2, <1>5 DEF Reset
<1>6. CASE Deadline
  BY <1>2, <1>6 DEF Deadline
<1>7. CASE UNCHANGED streamVars
  BY <1>2, <1>7 DEF streamVars, StreamInv
<1>8. QED
  BY <1>1, <1>3, <1>4, <1>5, <1>6, <1>7 DEF StreamNext

LEMMA AlikeSeen == ASSUME StreamInv PROVE ChunksDoNotMatter
<1>1. PICK p \in Seq(Octets) : p = SubSeq(wire, 1, received) /\ Same(decoder, Single(p))
  BY DEF StreamInv, FedAlike
<1>2. View(decoder) = View(Single(p))
  BY <1>1 DEF Same
<1>3. QED
  BY <1>1, <1>2 DEF ChunksDoNotMatter

\* A whole answer, told byte by byte.
LEMMA WholeAnswer ==
  ASSUME NEW n \in Nat
  PROVE  LET said == Told(n) \o <<Byte("done", 0), Byte("data", n)>>
         IN /\ said \in Seq(Octets)
            /\ \A k \in 1..n : said[2 * k - 1].kind = "token" /\ said[2 * k] = Byte("data", k - 1)
            /\ SubSeq(said, 2 * n + 1, Len(said)) = <<Byte("done", 0), Byte("data", n)>>
<1> DEFINE t == Told(n)
           x == Byte("done", 0)
           y == Byte("data", n)
           z == <<x, y>>
           said == t \o z
<1>1. t \in Seq(Octets) /\ Len(t) = 2 * n /\ x \in Octets /\ y \in Octets
  BY ToldTyped, BytesTyped
<1>2. \A k \in 1..n : t[2 * k - 1].kind = "token" /\ t[2 * k] = Byte("data", k - 1)
  <2>1. ASSUME NEW k \in 1..n PROVE t[2 * k - 1].kind = "token" /\ t[2 * k] = Byte("data", k - 1)
    <3>1. /\ 2 * k - 1 \in 1..(2 * n) /\ 2 * k \in 1..(2 * n) /\ (2 * k - 1) % 2 = 1
          /\ (2 * k) % 2 = 0 /\ (2 * k) \div 2 = k
      OBVIOUS
    <3>2. t[2 * k - 1] = Byte("token", 0) /\ t[2 * k] = Byte("data", (2 * k) \div 2 - 1)
      BY <3>1 DEF Told
    <3>3. QED
      BY <3>1, <3>2 DEF Byte
  <2>2. QED
    BY <2>1
<1> HIDE DEF t, x, y
<1>3. z \in Seq(Octets) /\ Len(z) = 2 /\ z[1] = x /\ z[2] = y
  BY <1>1
<1> HIDE DEF z
<1>4. /\ said \in Seq(Octets) /\ Len(said) = 2 * n + 2
      /\ \A i \in 1..(2 * n) : said[i] = t[i]
      /\ said[2 * n + 1] = x /\ said[2 * n + 2] = y
  <2>1. /\ said \in Seq(Octets) /\ Len(said) = Len(t) + Len(z)
        /\ \A i \in 1..(Len(t) + Len(z)) : said[i] = IF i <= Len(t) THEN t[i] ELSE z[i - Len(t)]
    BY <1>1, <1>3, ConcatProperties
  <2> HIDE DEF said
  <2>2. QED
    BY <1>1, <1>3, <2>1
<1> HIDE DEF said
<1>5. \A k \in 1..n : said[2 * k - 1].kind = "token" /\ said[2 * k] = Byte("data", k - 1)
  <2>1. \A k \in 1..n : 2 * k - 1 \in 1..(2 * n) /\ 2 * k \in 1..(2 * n)
    OBVIOUS
  <2>2. QED
    BY <1>2, <1>4, <2>1
<1>6. SubSeq(said, 2 * n + 1, Len(said)) = z
  <2> DEFINE u == SubSeq(said, 2 * n + 1, Len(said))
             m == 2 * n + 1
  <2>1. m \in 1..(Len(said) + 1) /\ Len(said) \in Nat /\ m <= Len(said) + 1 /\ Len(said) - m + 1 = 2
    BY <1>4
  <2>2. u \in Seq(Octets) /\ Len(u) = Len(said) - m + 1
        /\ \A i \in 1..(Len(said) - m + 1) : u[i] = said[m + i - 1]
    BY <1>4, <2>1, PrefixTyped
  <2> HIDE DEF u
  <2>3. Len(u) = 2 /\ u[1] = said[m + 1 - 1] /\ u[2] = said[m + 2 - 1]
    <3>1. 1 \in 1..(Len(said) - m + 1) /\ 2 \in 1..(Len(said) - m + 1)
      BY <2>1
    <3>2. QED
      BY <2>1, <2>2, <3>1
  <2>4. u[1] = z[1] /\ u[2] = z[2]
    <3>1. m + 1 - 1 = 2 * n + 1 /\ m + 2 - 1 = 2 * n + 2
      OBVIOUS
    <3>2. QED
      BY <1>3, <1>4, <2>3, <3>1
  <2>5. \A i \in 1..2 : i = 1 \/ i = 2
    OBVIOUS
  <2>6. \A i \in 1..Len(u) : u[i] = z[i]
    BY <2>3, <2>4, <2>5
  <2>7. u = z
    BY <1>3, <2>2, <2>3, <2>6, SeqEqual
  <2>8. QED
    BY <2>7 DEF u
<1>7. QED
  BY <1>4, <1>5, <1>6 DEF said, t, x, y, z

LEMMA CompletedWhole == ASSUME StreamAssumption, StreamInv PROVE CompletedIsWhole
<1> DEFINE n == Len(decoder.tokens)
<1>1. SUFFICES ASSUME outcome = "completed"
               PROVE  LET said == Spoken(SubSeq(wire, 1, received))
                      IN /\ \A k \in 1..n : /\ said[2 * k - 1].kind = "token"
                                            /\ said[2 * k] = Byte("data", k - 1)
                         /\ SubSeq(said, 2 * n + 1, Len(said)) = <<Byte("done", 0), Byte("data", n)>>
  BY DEF CompletedIsWhole
<1>2. /\ decoder.status = "open" /\ decoder.text = <<>> /\ decoder.lines = <<>> /\ decoder.output # -1
      /\ decoder \in Decoders /\ wire \in Wires /\ received \in 0..Len(wire)
  BY <1>1 DEF StreamInv
<1>3. PICK p \in Seq(Octets) : p = SubSeq(wire, 1, received) /\ Same(decoder, Single(p))
  BY DEF StreamInv, FedAlike
<1>4. decoder = Single(p)
  BY <1>2, <1>3 DEF Same
<1>5. Shaped(p)
  BY <1>2, <1>3, WireTyped, ShapedPrefix
<1>6. Follows(decoder, p)
  BY <1>4, <1>5, SingleFollows
<1>7. ~decoder.error /\ Spoken(p) = Heard(decoder) \o Spoken(decoder.text)
  BY <1>2, <1>6 DEF Follows
<1>8. n \in Nat
  BY <1>2 DEF Decoders
<1> HIDE DEF n
<1>9. Told(n) \o <<Byte("done", 0), Byte("data", n)>> \in Seq(Octets)
  BY <1>8, WholeAnswer
<1>10. Spoken(p) = Told(n) \o <<Byte("done", 0), Byte("data", n)>>
  <2> DEFINE a == Told(n) \o <<Byte("done", 0), Byte("data", n)>>
  <2>1. Answered(decoder) = <<Byte("done", 0), Byte("data", n)>>
    BY <1>2 DEF Answered, n
  <2>2. FlattenSeq(decoder.lines) = <<>>
    BY <1>2, FlattenNothing
  <2>3. Heard(decoder) = a \o <<>>
    BY <2>1, <2>2 DEF Heard, n
  <2>4. a \in Seq(Octets)
    BY <1>9
  <2> HIDE DEF a
  <2>5. Heard(decoder) = a
    BY <2>3, <2>4, ConcatEmptySeq
  <2>6. Spoken(decoder.text) = <<>>
    BY <1>2, SpokenNone
  <2>7. Spoken(p) = a \o <<>>
    BY <1>7, <2>5, <2>6
  <2>8. Spoken(p) = a
    BY <2>4, <2>7, ConcatEmptySeq
  <2>9. QED
    BY <2>8 DEF a
<1>11. QED
  BY <1>3, <1>8, <1>10, WholeAnswer

\* ChunksDoNotMatter and CompletedIsWhole: however the answer of /stream is cut into
\* chunks (http_stream.py), the client sees what its bytes say, and a measurement that
\* completed has received a whole answer and nothing else (http_measurements.py).
THEOREM StreamsDecoded == StreamSpec => [](ChunksDoNotMatter /\ CompletedIsWhole)
<1>1. StreamInit => StreamInv
  BY StreamAssumption, StreamInitInv
<1>2. StreamInv /\ [StreamNext]_streamVars => StreamInv'
  BY StreamAssumption, StreamStep
<1>3. StreamInv => ChunksDoNotMatter /\ CompletedIsWhole
  BY StreamAssumption, AlikeSeen, CompletedWhole
<1>4. QED
  BY <1>1, <1>2, <1>3, PTL DEF StreamSpec

\* StreamsLoseNothing: whatever a tokenizer stream is fed, refuses, saves and restores,
\* what it gave and what it holds are what it was fed, in whole characters or documents
\* (token_stream.py, token_encoder_stream.py).
THEOREM StreamsKept == TokensSpec => []StreamsLoseNothing
<1>1. TokensInit => TokenInv
  BY TokensAssumption, TokenInitInv
<1>2. TokenInv /\ [TokensNext]_tokenVars => TokenInv'
  BY TokensAssumption, TokenStep
<1>3. TokenInv => StreamsLoseNothing
  BY NothingLost
<1>4. QED
  BY <1>1, <1>2, <1>3, PTL DEF TokensSpec

\* Both where they are among the decoders that may run: the others leave them alone.
THEOREM StreamsStayFaithful == Spec => []StreamsAreFaithful
<1> DEFINE Inv == (planner = "stream" => StreamInv) /\ (planner = "tokens" => TokenInv)
<1>1. Init => Inv
  BY StreamAssumption, TokensAssumption, StreamInitInv, TokenInitInv DEF Init
<1>2. Inv /\ [Next]_vars => Inv'
  <2>1. SUFFICES ASSUME Inv, [Next]_vars
                 PROVE  (planner' = "stream" => StreamInv') /\ (planner' = "tokens" => TokenInv')
    OBVIOUS
  <2>2. planner' = planner
    BY <2>1 DEF Next, Done, vars
  <2>3. CASE planner = "stream"
    <3>1. [StreamNext]_streamVars
      BY <2>1, <2>2, <2>3 DEF Next, Done, vars
    <3>2. QED
      BY <2>1, <2>2, <2>3, <3>1, StreamAssumption, StreamStep
  <2>4. CASE planner = "tokens"
    <3>1. [TokensNext]_tokenVars
      BY <2>1, <2>2, <2>4 DEF Next, Done, vars
    <3>2. QED
      BY <2>1, <2>2, <2>4, <3>1, TokensAssumption, TokenStep
  <2>5. QED
    BY <2>2, <2>3, <2>4
<1>3. Inv => StreamsAreFaithful
  BY StreamAssumption, AlikeSeen, CompletedWhole, NothingLost DEF StreamsAreFaithful
<1>4. QED
  BY <1>1, <1>2, <1>3, PTL DEF Spec

-------------------------------------------------------------------------------
(* Sums over finite sets: a measure adds element by element,                  *)
(* so any order of adding gives it.                                           *)

\* Subsets of a finite set, one element more at a time.
LEMMA EverySubset ==
  ASSUME NEW S, IsFiniteSet(S), NEW T, {} \in T,
         ASSUME NEW s \in SUBSET S, s \in T, NEW x \in S, x \notin s PROVE s \cup {x} \in T
  PROVE  \A s \in SUBSET S : s \in T
<1> DEFINE Bad == {s \in SUBSET S : s \notin T}
           N == {Cardinality(s) : s \in Bad}
<1>1. \A s \in SUBSET S : IsFiniteSet(s) /\ Cardinality(s) \in Nat
  BY FS_Subset, FS_CardinalityType
<1>2. SUFFICES ASSUME Bad # {} PROVE FALSE
  OBVIOUS
<1>3. N \in SUBSET Nat /\ N # {}
  BY <1>1, <1>2
<1> HIDE DEF N
<1>4. PICK n \in N : \A y \in N : n =< y
  BY <1>3, LeastExists
<1>5. PICK s \in Bad : Cardinality(s) = n
  BY <1>4 DEF N
<1>6. s \in SUBSET S /\ s \notin T /\ s # {}
  OBVIOUS
<1>7. PICK x \in s : TRUE
  BY <1>6
<1> DEFINE r == s \ {x}
<1>8. r \in SUBSET S /\ x \in S /\ x \notin r /\ r \cup {x} = s
  BY <1>6, <1>7
<1>9. Cardinality(r) = n - 1 /\ n \in Nat
  BY <1>1, <1>5, <1>6, <1>7, FS_RemoveElement
<1>10. r \notin Bad
  <2>1. SUFFICES ASSUME r \in Bad PROVE FALSE
    OBVIOUS
  <2>2. n - 1 \in N
    BY <1>9, <2>1 DEF N
  <2>3. QED
    BY <1>4, <1>9, <2>2
<1>11. r \in T
  BY <1>8, <1>10
<1> HIDE DEF r, Bad
<1>12. QED
  BY <1>6, <1>8, <1>11

\* m sums c over the subsets of S.
MeasureOf(m, S, c) ==
  /\ m \in [SUBSET S -> Nat]
  /\ m[{}] = 0
  /\ \A T \in SUBSET S : \A t \in T : m[T] = m[T \ {t}] + c[t]

LEMMA MeasureGrows ==
  ASSUME NEW S, NEW s \in SUBSET S, NEW x \in S, x \notin s, NEW c \in [S -> Nat],
         NEW m, MeasureOf(m, s, c)
  PROVE  \E h : MeasureOf(h, s \cup {x}, c)
<1> DEFINE u == s \cup {x}
           h == [T \in SUBSET u |-> IF x \in T THEN m[T \ {x}] + c[x] ELSE m[T]]
<1>0. c[x] \in Nat /\ \A t \in s : c[t] \in Nat
  OBVIOUS
<1>1. ASSUME NEW T \in SUBSET u PROVE T \ {x} \in SUBSET s /\ (x \notin T => T \in SUBSET s)
  OBVIOUS
<1>2. h \in [SUBSET u -> Nat]
  <2>1. ASSUME NEW T \in SUBSET u PROVE (IF x \in T THEN m[T \ {x}] + c[x] ELSE m[T]) \in Nat
    BY <1>0, <1>1 DEF MeasureOf
  <2>2. QED
    BY <2>1
<1>3. h[{}] = 0
  BY DEF MeasureOf
<1>4. ASSUME NEW T \in SUBSET u, NEW t \in T PROVE h[T] = h[T \ {t}] + c[t]
  <2>1. h[T] = (IF x \in T THEN m[T \ {x}] + c[x] ELSE m[T])
        /\ h[T \ {t}] = (IF x \in T \ {t} THEN m[(T \ {t}) \ {x}] + c[x] ELSE m[T \ {t}])
    OBVIOUS
  <2> HIDE DEF h
  <2>2. CASE t = x
    BY <2>1, <2>2
  <2>3. CASE t # x /\ x \in T
    <3>1. t \in T \ {x} /\ T \ {x} \in SUBSET s /\ t \in s /\ (T \ {t}) \ {x} = (T \ {x}) \ {t}
      BY <1>1, <2>3
    <3>2. m[T \ {x}] = m[(T \ {x}) \ {t}] + c[t] /\ m[(T \ {x}) \ {t}] \in Nat
      BY <3>1 DEF MeasureOf
    <3>3. h[T] = m[T \ {x}] + c[x] /\ h[T \ {t}] = m[(T \ {x}) \ {t}] + c[x]
      BY <2>1, <2>3, <3>1
    <3>4. c[t] \in Nat
      BY <1>0, <3>1
    <3>5. QED
      BY <1>0, <3>2, <3>3, <3>4
  <2>4. CASE x \notin T
    <3>1. T \in SUBSET s
      BY <1>1, <2>4
    <3>2. QED
      BY <2>1, <2>4, <3>1 DEF MeasureOf
  <2>5. QED
    BY <2>2, <2>3, <2>4
<1> HIDE DEF h
<1>5. MeasureOf(h, u, c)
  BY <1>2, <1>3, <1>4 DEF MeasureOf
<1>6. QED
  BY <1>5

LEMMA MeasureExists ==
  ASSUME NEW S, IsFiniteSet(S), NEW c \in [S -> Nat]
  PROVE  \E m : MeasureOf(m, S, c)
<1> DEFINE There(s) == \E m : MeasureOf(m, s, c)
           T == {s \in SUBSET S : There(s)}
<1>1. There({})
  <2> DEFINE m == [s \in SUBSET {} |-> 0]
  <2>1. m \in [SUBSET {} -> Nat] /\ m[{}] = 0
    OBVIOUS
  <2>2. \A s \in SUBSET {} : s = {}
    OBVIOUS
  <2> HIDE DEF m
  <2>3. MeasureOf(m, {}, c)
    BY <2>1, <2>2 DEF MeasureOf
  <2>4. QED
    BY <2>3
<1>2. ASSUME NEW s \in SUBSET S, There(s), NEW x \in S, x \notin s PROVE There(s \cup {x})
  BY <1>2, MeasureGrows
<1> HIDE DEF There
<1>3. {} \in T
  BY <1>1
<1>4. ASSUME NEW s \in SUBSET S, s \in T, NEW x \in S, x \notin s PROVE s \cup {x} \in T
  BY <1>2, <1>4
<1> HIDE DEF T
<1>5. S \in T
  BY <1>3, <1>4, EverySubset
<1>6. There(S)
  BY <1>5 DEF T
<1>7. QED
  BY <1>6 DEF There

Total(S, c, s) == (CHOOSE m : MeasureOf(m, S, c))[s]

LEMMA TotalLaws ==
  ASSUME NEW S, IsFiniteSet(S), NEW c \in [S -> Nat]
  PROVE  /\ Total(S, c, {}) = 0
         /\ \A s \in SUBSET S : Total(S, c, s) \in Nat
         /\ \A s \in SUBSET S : \A x \in s : Total(S, c, s) = Total(S, c, s \ {x}) + c[x]
<1> DEFINE m == CHOOSE m : MeasureOf(m, S, c)
<1>1. MeasureOf(m, S, c)
  <2>1. \E g : MeasureOf(g, S, c)
    BY MeasureExists
  <2>2. QED
    BY <2>1, Zenon
<1>2. \A s : Total(S, c, s) = m[s]
  BY DEF Total
<1> HIDE DEF m
<1>3. QED
  BY <1>1, <1>2 DEF MeasureOf

LEMMA TotalMore ==
  ASSUME NEW S, IsFiniteSet(S), NEW c \in [S -> Nat], NEW s \in SUBSET S, NEW x \in S, x \notin s
  PROVE  Total(S, c, s \cup {x}) = Total(S, c, s) + c[x]
<1>1. s \cup {x} \in SUBSET S /\ x \in s \cup {x} /\ (s \cup {x}) \ {x} = s
  OBVIOUS
<1>2. Total(S, c, s \cup {x}) = Total(S, c, (s \cup {x}) \ {x}) + c[x]
  BY <1>1, TotalLaws
<1>3. QED
  BY <1>1, <1>2

\* More of each is more in all.
LEMMA TotalOrdered ==
  ASSUME NEW S, IsFiniteSet(S), NEW c \in [S -> Nat], NEW d \in [S -> Nat],
         \A x \in S : c[x] =< d[x]
  PROVE  \A s \in SUBSET S : Total(S, c, s) =< Total(S, d, s)
<1> DEFINE T == {s \in SUBSET S : Total(S, c, s) =< Total(S, d, s)}
<1>1. {} \in T
  BY TotalLaws
<1>2. ASSUME NEW s \in SUBSET S, s \in T, NEW x \in S, x \notin s PROVE s \cup {x} \in T
  <2>1. Total(S, c, s) =< Total(S, d, s) /\ Total(S, c, s) \in Nat /\ Total(S, d, s) \in Nat
    BY <1>2, TotalLaws
  <2>2. Total(S, c, s \cup {x}) = Total(S, c, s) + c[x]
    BY <1>2, TotalMore
  <2>3. Total(S, d, s \cup {x}) = Total(S, d, s) + d[x]
    BY <1>2, TotalMore
  <2>4. c[x] \in Nat /\ d[x] \in Nat /\ c[x] =< d[x]
    OBVIOUS
  <2>5. Total(S, c, s \cup {x}) =< Total(S, d, s \cup {x})
    BY <2>1, <2>2, <2>3, <2>4
  <2>6. s \cup {x} \in SUBSET S
    OBVIOUS
  <2>7. QED
    BY <2>5, <2>6
<1> HIDE DEF T
<1>3. \A s \in SUBSET S : s \in T
  BY <1>1, <1>2, EverySubset
<1>4. QED
  BY <1>3 DEF T

LEMMA TotalAscends ==
  ASSUME NEW S, IsFiniteSet(S), NEW c \in [S -> Nat], NEW d \in [S -> Nat],
         \A x \in S : c[x] =< d[x], NEW y \in S, c[y] < d[y]
  PROVE  Total(S, c, S) + 1 =< Total(S, d, S)
<1>1. S \in SUBSET S /\ S \ {y} \in SUBSET S
  OBVIOUS
<1>2. Total(S, c, S) = Total(S, c, S \ {y}) + c[y] /\ Total(S, c, S \ {y}) \in Nat
  BY <1>1, TotalLaws
<1>3. Total(S, d, S) = Total(S, d, S \ {y}) + d[y] /\ Total(S, d, S \ {y}) \in Nat
  BY <1>1, TotalLaws
<1>4. Total(S, c, S \ {y}) =< Total(S, d, S \ {y})
  BY <1>1, TotalOrdered
<1>5. c[y] \in Nat /\ d[y] \in Nat
  OBVIOUS
<1>6. QED
  BY <1>2, <1>3, <1>4, <1>5

\* A sum taken one picked element after the other is the total.
Sums(g, s, c) == g = [u \in SUBSET s |-> IF u = {} THEN 0
                                         ELSE c[CHOOSE x \in u : TRUE] + g[u \ {CHOOSE x \in u : TRUE}]]

LEMMA SumExists ==
  ASSUME NEW S, IsFiniteSet(S), NEW c \in [S -> Nat], NEW s \in SUBSET S
  PROVE  \E g : Sums(g, s, c)
<1> DEFINE g == [u \in SUBSET s |-> Total(S, c, u)]
<1>1. ASSUME NEW u \in SUBSET s
      PROVE  g[u] = IF u = {} THEN 0 ELSE c[CHOOSE x \in u : TRUE] + g[u \ {CHOOSE x \in u : TRUE}]
  <2>1. CASE u = {}
    BY <2>1, TotalLaws
  <2>2. CASE u # {}
    <3> DEFINE x == CHOOSE x \in u : TRUE
    <3>1. x \in u
      BY <2>2
    <3> HIDE DEF x
    <3>2. u \in SUBSET S /\ u \ {x} \in SUBSET S /\ x \in S /\ u \ {x} \in SUBSET s
      BY <3>1
    <3>3. Total(S, c, u) = Total(S, c, u \ {x}) + c[x] /\ Total(S, c, u \ {x}) \in Nat
      BY <3>1, <3>2, TotalLaws
    <3>4. c[x] \in Nat
      BY <3>2
    <3>5. g[u] = c[x] + g[u \ {x}]
      BY <3>2, <3>3, <3>4
    <3> HIDE DEF g
    <3>6. QED
      BY <2>2, <3>5 DEF x
  <2>3. QED
    BY <2>1, <2>2
<1>2. g = [u \in SUBSET s |-> g[u]]
  OBVIOUS
<1> HIDE DEF g
<1>3. Sums(g, s, c)
  BY <1>1, <1>2 DEF Sums
<1>4. QED
  BY <1>3

LEMMA SumIsTotal ==
  ASSUME NEW S, IsFiniteSet(S), NEW c \in [S -> Nat], NEW s \in SUBSET S, NEW g, Sums(g, s, c)
  PROVE  g[s] = Total(S, c, s)
<1> DEFINE Bad == {u \in SUBSET s : g[u] # Total(S, c, u)}
           N == {Cardinality(u) : u \in Bad}
<1>1. \A u \in SUBSET s : IsFiniteSet(u) /\ Cardinality(u) \in Nat
  <2>1. \A u \in SUBSET s : u \in SUBSET S
    OBVIOUS
  <2>2. QED
    BY <2>1, FS_Subset, FS_CardinalityType
<1>2. SUFFICES ASSUME Bad # {} PROVE FALSE
  OBVIOUS
<1>3. N \in SUBSET Nat /\ N # {}
  BY <1>1, <1>2
<1> HIDE DEF N
<1>4. PICK n \in N : \A y \in N : n =< y
  BY <1>3, LeastExists
<1>5. PICK u \in Bad : Cardinality(u) = n
  BY <1>4 DEF N
<1>6. u \in SUBSET s /\ g[u] # Total(S, c, u)
  OBVIOUS
<1> DEFINE x == CHOOSE x \in u : TRUE
<1>7. g[u] = IF u = {} THEN 0 ELSE c[x] + g[u \ {x}]
  BY <1>6 DEF Sums
<1>8. u # {}
  BY <1>6, <1>7, TotalLaws
<1>9. x \in u
  BY <1>8
<1> HIDE DEF x
<1>10. u \in SUBSET S /\ x \in S /\ u \ {x} \in SUBSET s /\ u \ {x} \in SUBSET S
  BY <1>6, <1>9
<1>11. Cardinality(u \ {x}) = n - 1 /\ n \in Nat
  BY <1>1, <1>5, <1>6, <1>9, FS_RemoveElement
<1>12. u \ {x} \notin Bad
  <2>1. SUFFICES ASSUME u \ {x} \in Bad PROVE FALSE
    OBVIOUS
  <2>2. n - 1 \in N
    BY <1>11, <2>1 DEF N
  <2>3. QED
    BY <1>4, <1>11, <2>2
<1>13. g[u \ {x}] = Total(S, c, u \ {x})
  BY <1>10, <1>12
<1>14. Total(S, c, u) = Total(S, c, u \ {x}) + c[x] /\ Total(S, c, u \ {x}) \in Nat
  BY <1>9, <1>10, TotalLaws
<1>15. c[x] \in Nat
  BY <1>10
<1>16. QED
  BY <1>6, <1>7, <1>8, <1>13, <1>14, <1>15

-------------------------------------------------------------------------------
(* What requests reserve and ask for, as totals, and the loop                 *)
(* over waiting requests as a fold.                                           *)

\* What each request reserves, and the tokens it asks for.
Reserves == [r \in Requests |-> Reserved(r)]
Asked == [r \in Requests |-> request[r].new]

RequestsTyped ==
  /\ request \in [Requests -> [arrival : Nat, prompt : Nat \ {0}, new : Nat \ {0}]]
  /\ limits \in [batch : Nat \ {0}, budget : Nat \ {0}]
  /\ \A r \in Requests : Reserved(r) =< limits.budget

LEMMA ReservedTyped ==
  ASSUME RequestsTyped
  PROVE  /\ Reserves \in [Requests -> Nat] /\ Asked \in [Requests -> Nat]
         /\ \A r \in Requests : Reserves[r] = Reserved(r) /\ Asked[r] = request[r].new
         /\ \A r \in Requests : Reserved(r) \in Nat
<1>1. ASSUME NEW r \in Requests PROVE Reserved(r) \in Nat /\ request[r].new \in Nat
  BY DEF RequestsTyped, Reserved
<1>2. QED
  BY <1>1 DEF Reserves, Asked

LEMMA ReservedIsTotal ==
  ASSUME BatchingAssumption, RequestsTyped, NEW rs \in SUBSET Requests
  PROVE  TotalReserved(rs) = Total(Requests, Reserves, rs)
<1> DEFINE P(g) == g = [u \in SUBSET rs |-> IF u = {} THEN 0
                          ELSE Reserved(CHOOSE x \in u : TRUE) + g[u \ {CHOOSE x \in u : TRUE}]]
<1>1. ASSUME NEW g PROVE Sums(g, rs, Reserves) <=> P(g)
  <2>1. ASSUME NEW u \in SUBSET rs, u # {}
        PROVE  Reserves[CHOOSE x \in u : TRUE] = Reserved(CHOOSE x \in u : TRUE)
    <3>1. (CHOOSE x \in u : TRUE) \in Requests
      BY <2>1
    <3>2. QED
      BY <3>1, ReservedTyped
  <2>2. [u \in SUBSET rs |-> IF u = {} THEN 0
           ELSE Reserves[CHOOSE x \in u : TRUE] + g[u \ {CHOOSE x \in u : TRUE}]]
        = [u \in SUBSET rs |-> IF u = {} THEN 0
             ELSE Reserved(CHOOSE x \in u : TRUE) + g[u \ {CHOOSE x \in u : TRUE}]]
    BY <2>1
  <2>3. QED
    BY <2>2 DEF Sums
<1>2. IsFiniteSet(Requests) /\ Reserves \in [Requests -> Nat]
  BY ReservedTyped DEF BatchingAssumption
<1>3. \E g : P(g)
  <2>1. PICK g : Sums(g, rs, Reserves)
    BY <1>2, SumExists
  <2>2. P(g)
    BY <1>1, <2>1
  <2> HIDE DEF P
  <2>3. QED
    BY <2>2
<1>4. P(CHOOSE g : P(g))
  <2> HIDE DEF P
  <2>1. QED
    BY <1>3, Zenon
<1>5. (CHOOSE g : P(g))[rs] = Total(Requests, Reserves, rs)
  <2> DEFINE chosen == CHOOSE g : P(g)
  <2>1. P(chosen)
    BY <1>4
  <2> HIDE DEF chosen, P
  <2>2. Sums(chosen, rs, Reserves)
    BY <1>1, <2>1
  <2>3. QED
    BY <1>2, <2>2, SumIsTotal DEF chosen
<1>6. TotalReserved(rs) = (CHOOSE g : P(g))[rs]
  BY Zenon DEF TotalReserved, FoldSet, MapThenFoldSet
<1>7. QED
  BY <1>5, <1>6

LEMMA ReservesMore ==
  ASSUME IsFiniteSet(Requests), Reserves \in [Requests -> Nat], NEW rs \in SUBSET Requests,
         NEW x \in Requests \ rs
  PROVE  Total(Requests, Reserves, rs \cup {x}) = Total(Requests, Reserves, rs) + Reserves[x]
<1>1. x \in Requests /\ x \notin rs
  OBVIOUS
<1>2. QED
  BY <1>1, TotalMore

LEMMA ReservedMore ==
  ASSUME BatchingAssumption, RequestsTyped, NEW rs \in SUBSET Requests
  PROVE  /\ TotalReserved(rs) \in Nat /\ TotalReserved({}) = 0
         /\ \A x \in Requests \ rs : TotalReserved(rs \cup {x}) = TotalReserved(rs) + Reserved(x)
<1>1. IsFiniteSet(Requests) /\ Reserves \in [Requests -> Nat] /\ {} \in SUBSET Requests
  BY ReservedTyped DEF BatchingAssumption
<1>2. \A u \in SUBSET Requests : TotalReserved(u) = Total(Requests, Reserves, u)
  BY ReservedIsTotal
<1>3. Total(Requests, Reserves, rs) \in Nat /\ Total(Requests, Reserves, {}) = 0
  BY <1>1, TotalLaws
<1>4. ASSUME NEW x \in Requests \ rs PROVE TotalReserved(rs \cup {x}) = TotalReserved(rs) + Reserved(x)
  <2>1. Total(Requests, Reserves, rs \cup {x}) = Total(Requests, Reserves, rs) + Reserves[x]
    BY <1>1, ReservesMore
  <2>2. rs \cup {x} \in SUBSET Requests
    OBVIOUS
  <2>3. Reserves[x] = Reserved(x)
    BY ReservedTyped
  <2>4. QED
    BY <1>2, <2>1, <2>2, <2>3
<1>5. QED
  BY <1>1, <1>2, <1>3, <1>4

LEMMA AskedIsTotal ==
  ASSUME BatchingAssumption, RequestsTyped
  PROVE  AllNew = Total(Requests, Asked, Requests)
<1> DEFINE rs == Requests
           P(g) == g = [u \in SUBSET Requests |-> IF u = {} THEN 0
                          ELSE request[CHOOSE x \in u : TRUE].new + g[u \ {CHOOSE x \in u : TRUE}]]
<1>1. ASSUME NEW g PROVE Sums(g, Requests, Asked) <=> P(g)
  <2>1. ASSUME NEW u \in SUBSET Requests, u # {}
        PROVE  Asked[CHOOSE x \in u : TRUE] = request[CHOOSE x \in u : TRUE].new
    <3>1. (CHOOSE x \in u : TRUE) \in Requests
      BY <2>1
    <3>2. QED
      BY <3>1, ReservedTyped
  <2>2. [u \in SUBSET Requests |-> IF u = {} THEN 0
           ELSE Asked[CHOOSE x \in u : TRUE] + g[u \ {CHOOSE x \in u : TRUE}]]
        = [u \in SUBSET Requests |-> IF u = {} THEN 0
             ELSE request[CHOOSE x \in u : TRUE].new + g[u \ {CHOOSE x \in u : TRUE}]]
    BY <2>1
  <2>3. QED
    BY <2>2 DEF Sums
<1>2. IsFiniteSet(Requests) /\ Asked \in [Requests -> Nat] /\ Requests \in SUBSET Requests
  BY ReservedTyped DEF BatchingAssumption
<1>3. \E g : P(g)
  <2>1. PICK g : Sums(g, Requests, Asked)
    BY <1>2, SumExists
  <2>2. P(g)
    BY <1>1, <2>1
  <2> HIDE DEF P
  <2>3. QED
    BY <2>2
<1>4. P(CHOOSE g : P(g))
  <2> HIDE DEF P
  <2>1. QED
    BY <1>3, Zenon
<1>5. (CHOOSE g : P(g))[Requests] = Total(Requests, Asked, Requests)
  <2> DEFINE chosen == CHOOSE g : P(g)
  <2>1. P(chosen)
    BY <1>4
  <2> HIDE DEF chosen, P
  <2>2. Sums(chosen, Requests, Asked)
    BY <1>1, <2>1
  <2>3. QED
    BY <1>2, <2>2, SumIsTotal DEF chosen
<1>6. AllNew = (CHOOSE g : P(g))[Requests]
  BY Zenon DEF AllNew, FoldSet, MapThenFoldSet
<1>7. QED
  BY <1>5, <1>6

\* The last arrival is one.
LEMMA LatestIs ==
  ASSUME BatchingAssumption, RequestsTyped
  PROVE  Latest \in Nat /\ \A r \in Requests : request[r].arrival =< Latest
<1> DEFINE A(s) == {request[r].arrival : r \in s}
           T == {s \in SUBSET Requests : s # {} => \E a \in A(s) : \A b \in A(s) : b =< a}
<1>1. {} \in T
  OBVIOUS
<1>2. ASSUME NEW s \in SUBSET Requests, s \in T, NEW x \in Requests, x \notin s PROVE s \cup {x} \in T
  <2>1. request[x].arrival \in Nat /\ \A r \in s : request[r].arrival \in Nat
    BY DEF RequestsTyped
  <2>2. A(s \cup {x}) = A(s) \cup {request[x].arrival}
    OBVIOUS
  <2>3. \E a \in A(s \cup {x}) : \A b \in A(s \cup {x}) : b =< a
    <3>1. CASE s = {}
      <4>1. A(s \cup {x}) = {request[x].arrival}
        BY <2>2, <3>1
      <4>2. request[x].arrival =< request[x].arrival
        BY <2>1
      <4> HIDE DEF A
      <4>3. QED
        BY <4>1, <4>2
    <3>2. CASE s # {}
      <4>1. PICK a \in A(s) : \A b \in A(s) : b =< a
        BY <1>2, <3>2
      <4>2. a \in Nat /\ \A b \in A(s) : b \in Nat
        BY <2>1
      <4> DEFINE q == request[x].arrival
                 B == A(s)
                 C == A(s \cup {x})
      <4>3. q \in Nat /\ C = B \cup {q} /\ a \in B /\ a \in Nat /\ \A b \in B : b \in Nat /\ b =< a
        BY <2>1, <2>2, <4>1, <4>2
      <4> HIDE DEF q, B, C
      <4>4. \E p \in C : \A b \in C : b =< p
        <5>1. CASE q =< a
          BY <4>3, <5>1
        <5>2. CASE ~(q =< a)
          <6>1. \A b \in C : b =< q
            BY <4>3, <5>2
          <6>2. QED
            BY <4>3, <6>1
        <5>3. QED
          BY <5>1, <5>2
      <4>5. QED
        BY <4>4 DEF C
    <3>3. QED
      BY <3>1, <3>2
  <2> HIDE DEF A
  <2>4. QED
    BY <2>3
<1>3. Requests \in T
  <2> HIDE DEF T
  <2>1. IsFiniteSet(Requests) /\ Requests \in SUBSET Requests
    BY DEF BatchingAssumption
  <2>2. \A s \in SUBSET Requests : s \in T
    BY <1>1, <1>2, <2>1, EverySubset
  <2>3. QED
    BY <2>1, <2>2
<1>4. PICK a \in A(Requests) : \A b \in A(Requests) : b =< a
  BY <1>3 DEF BatchingAssumption
<1>5. \A r \in Requests : request[r].arrival =< a
  BY <1>4
<1>6. Latest \in A(Requests) /\ \A r \in Requests : request[r].arrival =< Latest
  BY <1>4, <1>5 DEF Latest
<1>7. Latest \in Nat
  <2>1. \A r \in Requests : request[r].arrival \in Nat
    BY DEF RequestsTyped
  <2>2. QED
    BY <1>6, <2>1
<1>8. QED
  BY <1>6, <1>7

LEMMA AdmissionIsFold ==
  ASSUME NEW s, Len(s) \in Nat, DOMAIN s = 1..Len(s)
  PROVE  AdmissionOf(s) = FoldOf("admit", 0, [admitted |-> <<>>, left |-> <<>>, ended |-> FALSE,
                                              reserved |-> TotalReserved(DOMAIN active)], s)
<1> DEFINE S == DOMAIN s
           base == [admitted |-> <<>>, left |-> <<>>, ended |-> FALSE,
                    reserved |-> TotalReserved(DOMAIN active)]
           P(g) == g = [u \in SUBSET S |-> IF u = {} THEN base ELSE Admit(g[u \ {Max(u)}], s[Max(u)])]
<1>1. ASSUME NEW g PROVE Folds(g, "admit", 0, base, s, Len(s)) <=> P(g)
  BY DEF Folds, StepOf
<1>2. PICK h : P(h)
  <2>1. PICK h : Folds(h, "admit", 0, base, s, Len(s))
    BY FoldExists
  <2>2. P(h)
    BY <1>1, <2>1
  <2> HIDE DEF P
  <2>3. QED
    BY <2>2
<1>3. P(CHOOSE g : P(g))
  <2> HIDE DEF P
  <2>1. QED
    BY <1>2, Zenon
<1>4. (CHOOSE g : P(g))[S] = FoldOf("admit", 0, base, s)
  <2> DEFINE chosen == CHOOSE g : P(g)
  <2>1. P(chosen)
    BY <1>3
  <2> HIDE DEF chosen, P
  <2>2. Folds(chosen, "admit", 0, base, s, Len(s))
    BY <1>1, <2>1
  <2>3. QED
    BY <2>2, FoldIs DEF chosen
<1>5. AdmissionOf(s) = (CHOOSE g : P(g))[S]
  BY Zenon DEF AdmissionOf, FoldLeft, MapThenFoldSet
<1>6. QED
  BY <1>4, <1>5

-------------------------------------------------------------------------------
(* The loop over waiting requests.                                            *)

Ascending(s) == \A i, j \in DOMAIN s : i < j => Earlier(s[i], s[j])

\* The rows being decoded keep within the limits.
BatchShape ==
  /\ RequestsTyped
  /\ tick \in Nat
  /\ DOMAIN active \subseteq Requests
  /\ Cardinality(DOMAIN active) =< limits.batch
  /\ TotalReserved(DOMAIN active) =< limits.budget

\* Requests by arrival, none of them being decoded.
Queue(s) ==
  /\ s \in Seq(Requests)
  /\ Ascending(s)
  /\ Range(s) \cap DOMAIN active = {}

\* The rows of the batch once the loop has come this far.
Decoding(a) == DOMAIN active \cup Range(a.admitted)
Filled(a) == Cardinality(DOMAIN active) + Len(a.admitted) >= limits.batch

Admission == [admitted : Seq(Requests), left : Seq(Requests), ended : BOOLEAN, reserved : Nat]

\* What the loop over waiting requests has done after those of s.
Admitting(s, a) ==
  /\ a \in Admission
  /\ Range(a.admitted) \cup Range(a.left) = Range(s)
  /\ Range(a.admitted) \cap Range(a.left) = {}
  /\ Cardinality(Decoding(a)) = Cardinality(DOMAIN active) + Len(a.admitted)
  /\ Cardinality(Decoding(a)) =< limits.batch
  /\ a.reserved = TotalReserved(Decoding(a)) /\ a.reserved =< limits.budget
  /\ Ascending(a.left)
  /\ \A r \in Range(a.left) :
       request[r].arrival =< tick => Filled(a) \/ a.reserved + Reserved(r) > limits.budget
  /\ a.ended => Filled(a) \/ \E r \in Range(s) : request[r].arrival > tick

LEMMA RangeAppend ==
  ASSUME NEW S, NEW s \in Seq(S), NEW x \in S
  PROVE  Range(Append(s, x)) = Range(s) \cup {x}
<1>1. Range(s) = ToSet(s) /\ Range(Append(s, x)) = ToSet(Append(s, x))
  BY DEF Range, ToSet
<1>2. QED
  BY <1>1, ToSetAppend

LEMMA NeverEarlier ==
  ASSUME BatchingAssumption, RequestsTyped, NEW r \in Requests
  PROVE  ~Earlier(r, r)
<1>1. r \in Nat /\ request[r].arrival \in Nat
  BY DEF BatchingAssumption, RequestsTyped
<1>2. QED
  BY <1>1 DEF Earlier

LEMMA AscendingAppend ==
  ASSUME NEW s \in Seq(Requests), NEW x \in Requests
  PROVE  Ascending(Append(s, x)) <=> Ascending(s) /\ \A r \in Range(s) : Earlier(r, x)
<1> DEFINE t == Append(s, x)
           n == Len(s)
<1>1. n \in Nat /\ DOMAIN s = 1..n /\ DOMAIN t = 1..(n + 1) /\ t[n + 1] = x
      /\ \A i \in 1..n : t[i] = s[i]
  OBVIOUS
<1> HIDE DEF t, n
<1>2. ASSUME Ascending(t) PROVE Ascending(s) /\ \A r \in Range(s) : Earlier(r, x)
  <2>1. ASSUME NEW i \in 1..n, NEW j \in 1..n, i < j PROVE Earlier(s[i], s[j])
    <3>1. i \in 1..(n + 1) /\ j \in 1..(n + 1)
      BY <1>1
    <3>2. QED
      BY <1>1, <1>2, <2>1, <3>1 DEF Ascending
  <2>2. ASSUME NEW i \in 1..n PROVE Earlier(s[i], x)
    <3>1. i \in 1..(n + 1) /\ n + 1 \in 1..(n + 1) /\ i < n + 1
      BY <1>1
    <3>2. Earlier(t[i], t[n + 1])
      BY <1>1, <1>2, <3>1 DEF Ascending
    <3>3. QED
      BY <1>1, <3>2
  <2>3. QED
    BY <1>1, <2>1, <2>2 DEF Ascending, Range
<1>3. ASSUME Ascending(s), \A r \in Range(s) : Earlier(r, x) PROVE Ascending(t)
  <2>1. ASSUME NEW i \in 1..(n + 1), NEW j \in 1..(n + 1), i < j PROVE Earlier(t[i], t[j])
    <3>1. i \in 1..n /\ (j \in 1..n \/ j = n + 1)
      BY <1>1, <2>1
    <3>2. CASE j \in 1..n
      BY <1>1, <1>3, <2>1, <3>1, <3>2 DEF Ascending
    <3>3. CASE j = n + 1
      <4>1. s[i] \in Range(s)
        BY <1>1, <3>1 DEF Range
      <4>2. QED
        BY <1>1, <1>3, <3>1, <3>3, <4>1
    <3>4. QED
      BY <3>1, <3>2, <3>3
  <2>2. QED
    BY <1>1, <2>1 DEF Ascending
<1>4. QED
  BY <1>2, <1>3 DEF t

LEMMA QueueAppend ==
  ASSUME BatchingAssumption, RequestsTyped, NEW s \in Seq(Requests), NEW x \in Requests,
         Queue(Append(s, x))
  PROVE  /\ Queue(s)
         /\ x \notin Range(s) /\ x \notin DOMAIN active
         /\ \A r \in Range(s) : Earlier(r, x)
<1>1. Ascending(s) /\ \A r \in Range(s) : Earlier(r, x)
  BY AscendingAppend DEF Queue
<1>2. Range(Append(s, x)) = Range(s) \cup {x}
  BY RangeAppend
<1>3. x \notin Range(s)
  BY <1>1, NeverEarlier
<1>4. QED
  BY <1>1, <1>2, <1>3 DEF Queue

LEMMA AdmitPasses ==
  ASSUME BatchingAssumption, BatchShape, NEW s \in Seq(Requests), NEW x \in Requests,
         Queue(Append(s, x)), NEW a, Admitting(s, a), NEW b \in Admission,
         b.admitted = a.admitted, b.left = Append(a.left, x), b.reserved = a.reserved,
         b.ended => Filled(a) \/ \E r \in Range(s) \cup {x} : request[r].arrival > tick,
         request[x].arrival =< tick => Filled(a) \/ a.reserved + Reserved(x) > limits.budget
  PROVE  Admitting(Append(s, x), b)
<1>1. a \in Admission
  BY DEF Admitting
<1>3. Append(a.left, x) \in Seq(Requests) /\ a.left \in Seq(Requests)
  BY <1>1 DEF Admission
<1>4. Range(Append(a.left, x)) = Range(a.left) \cup {x} /\ Range(Append(s, x)) = Range(s) \cup {x}
  BY <1>3, RangeAppend
<1>5. x \notin Range(s) /\ \A r \in Range(s) : Earlier(r, x)
  BY QueueAppend DEF BatchShape
<1>6. Ascending(Append(a.left, x))
  <2>1. Range(a.left) \subseteq Range(s) /\ Ascending(a.left)
    BY DEF Admitting
  <2>2. QED
    BY <1>3, <1>5, <2>1, AscendingAppend
<1> DEFINE l == Append(a.left, x)
<1> HIDE DEF l
<1>7. b.admitted = a.admitted /\ b.left = l /\ b.reserved = a.reserved
  BY DEF l
<1>8. Decoding(b) = Decoding(a) /\ (Filled(b) <=> Filled(a))
  BY <1>7 DEF Decoding, Filled
<1>10. Range(b.admitted) \cup Range(b.left) = Range(Append(s, x)) /\ Range(b.admitted) \cap Range(b.left) = {}
  <2>1. Range(l) = Range(a.left) \cup {x}
    BY <1>4 DEF l
  <2>2. Range(a.admitted) \cup Range(a.left) = Range(s) /\ Range(a.admitted) \cap Range(a.left) = {}
    BY DEF Admitting
  <2>3. QED
    BY <1>4, <1>5, <1>7, <2>1, <2>2
<1>11. \A r \in Range(b.left) :
         request[r].arrival =< tick => Filled(b) \/ b.reserved + Reserved(r) > limits.budget
  <2>1. Range(b.left) = Range(a.left) \cup {x}
    BY <1>4, <1>7 DEF l
  <2>2. \A r \in Range(a.left) :
          request[r].arrival =< tick => Filled(a) \/ a.reserved + Reserved(r) > limits.budget
    BY DEF Admitting
  <2>3. QED
    BY <1>7, <1>8, <2>1, <2>2
<1>12. b.ended => Filled(b) \/ \E r \in Range(Append(s, x)) : request[r].arrival > tick
  BY <1>4, <1>7, <1>8
<1>13. Ascending(b.left)
  BY <1>6, <1>7 DEF l
<1>14. /\ Cardinality(Decoding(b)) = Cardinality(DOMAIN active) + Len(b.admitted)
       /\ Cardinality(Decoding(b)) =< limits.batch
       /\ b.reserved = TotalReserved(Decoding(b)) /\ b.reserved =< limits.budget
  BY <1>7, <1>8 DEF Admitting
<1>15. QED
  BY <1>10, <1>11, <1>12, <1>13, <1>14 DEF Admitting

LEMMA AdmitTakes ==
  ASSUME BatchingAssumption, BatchShape, NEW s \in Seq(Requests), NEW x \in Requests,
         Queue(Append(s, x)), NEW a, Admitting(s, a), ~a.ended, ~Filled(a),
         a.reserved + Reserved(x) =< limits.budget, NEW b \in Admission,
         b.admitted = Append(a.admitted, x), b.left = a.left, b.ended = a.ended,
         b.reserved = a.reserved + Reserved(x)
  PROVE  Admitting(Append(s, x), b)
<1> DEFINE l == Append(a.admitted, x)
           k == a.reserved + Reserved(x)
<1>1. a \in Admission
  BY DEF Admitting
<1>3. l \in Seq(Requests) /\ a.admitted \in Seq(Requests) /\ Len(l) = Len(a.admitted) + 1
  BY <1>1 DEF Admission
<1>4. Range(l) = Range(a.admitted) \cup {x} /\ Range(Append(s, x)) = Range(s) \cup {x}
  BY <1>3, RangeAppend
<1>5. x \notin Range(s) /\ x \notin DOMAIN active
  BY QueueAppend DEF BatchShape
<1>6. Reserved(x) \in Nat /\ a.reserved \in Nat /\ \A r \in Requests : Reserved(r) \in Nat
  BY <1>1, ReservedTyped DEF BatchShape, Admission
<1>7. k \in Nat /\ a.reserved =< k
  BY <1>6
<1> HIDE DEF l
<1>8. b.admitted = l /\ b.left = a.left /\ b.ended = a.ended /\ b.reserved = k
  BY DEF l
<1> HIDE DEF k
<1>10. Range(b.admitted) \cup Range(b.left) = Range(Append(s, x)) /\ Range(b.admitted) \cap Range(b.left) = {}
  <2>1. Range(a.admitted) \cup Range(a.left) = Range(s) /\ Range(a.admitted) \cap Range(a.left) = {}
    BY DEF Admitting
  <2>2. QED
    BY <1>4, <1>5, <1>8, <2>1
<1>11. Decoding(a) \in SUBSET Requests /\ x \notin Decoding(a) /\ Decoding(b) = Decoding(a) \cup {x}
  <2>1. Range(a.admitted) \subseteq Range(s)
    BY DEF Admitting
  <2>2. Range(a.admitted) \subseteq Requests
    BY <1>3 DEF Range
  <2>3. QED
    BY <1>4, <1>5, <1>8, <2>1, <2>2 DEF Decoding, BatchShape
<1>12. IsFiniteSet(Requests) /\ IsFiniteSet(Decoding(a)) /\ IsFiniteSet(DOMAIN active)
  <2>1. IsFiniteSet(Requests) /\ DOMAIN active \in SUBSET Requests
    BY DEF BatchingAssumption, BatchShape
  <2>2. QED
    BY <1>11, <2>1, FS_Subset
<1>13. Cardinality(Decoding(b)) = Cardinality(DOMAIN active) + Len(b.admitted)
       /\ Cardinality(Decoding(b)) =< limits.batch
  <2>1. Cardinality(Decoding(b)) = Cardinality(Decoding(a)) + 1
    BY <1>11, <1>12, FS_AddElement
  <2>2. Cardinality(Decoding(a)) = Cardinality(DOMAIN active) + Len(a.admitted)
    BY DEF Admitting
  <2>3. Cardinality(DOMAIN active) \in Nat /\ Len(a.admitted) \in Nat /\ limits.batch \in Nat
    BY <1>3, <1>12, FS_CardinalityType DEF BatchShape, RequestsTyped
  <2>4. Cardinality(DOMAIN active) + Len(a.admitted) < limits.batch
    BY <2>3 DEF Filled
  <2>5. QED
    BY <1>3, <1>8, <2>1, <2>2, <2>3, <2>4
<1>14. b.reserved = TotalReserved(Decoding(b)) /\ b.reserved =< limits.budget
  <2>1. PICK rs : rs = Decoding(a)
    OBVIOUS
  <2>2. TotalReserved(rs \cup {x}) = TotalReserved(rs) + Reserved(x)
    BY <1>11, <2>1, ReservedMore DEF BatchShape
  <2>3. a.reserved = TotalReserved(Decoding(a))
    BY DEF Admitting
  <2>4. QED
    BY <1>8, <1>11, <2>1, <2>2, <2>3 DEF k
<1>15. \A r \in Range(b.left) :
         request[r].arrival =< tick => Filled(b) \/ b.reserved + Reserved(r) > limits.budget
  <2>1. SUFFICES ASSUME NEW r \in Range(a.left), request[r].arrival =< tick
                 PROVE  k + Reserved(r) > limits.budget
    BY <1>8
  <2>2. a.reserved + Reserved(r) > limits.budget
    BY <2>1 DEF Admitting
  <2>3. Reserved(r) \in Nat /\ limits.budget \in Nat
    <3>1. r \in Requests
      BY <1>1 DEF Range, Admission
    <3>2. QED
      BY <1>6, <3>1 DEF BatchShape, RequestsTyped
  <2>4. QED
    BY <1>6, <1>7, <2>2, <2>3
<1>16. ~b.ended /\ Ascending(b.left)
  BY <1>8 DEF Admitting
<1>17. QED
  BY <1>10, <1>13, <1>14, <1>15, <1>16 DEF Admitting

LEMMA AdmitStep ==
  ASSUME BatchingAssumption, BatchShape, NEW s \in Seq(Requests), NEW x \in Requests,
         Queue(Append(s, x)), NEW a, Admitting(s, a)
  PROVE  Admitting(Append(s, x), Admit(a, x))
<1>1. a \in Admission
  BY DEF Admitting
<1>2. request[x].arrival \in Nat /\ tick \in Nat /\ Reserved(x) \in Nat /\ limits.budget \in Nat
      /\ \A r \in Requests : request[r].arrival \in Nat
  BY ReservedTyped DEF BatchShape, RequestsTyped
<1> DEFINE b == Admit(a, x)
<1> HIDE DEF b
<1>7. Append(a.left, x) \in Seq(Requests) /\ Append(a.admitted, x) \in Seq(Requests)
      /\ a.reserved \in Nat /\ a.reserved + Reserved(x) \in Nat
  BY <1>1, <1>2 DEF Admission
<1>3. CASE a.ended \/ request[x].arrival > tick \/ Filled(a)
  <2>1. b = [a EXCEPT !.ended = TRUE, !.left = Append(a.left, x)]
    BY <1>3 DEF b, Admit, Filled
  <2>2. Filled(a) \/ \E r \in Range(s) \cup {x} : request[r].arrival > tick
    BY <1>3 DEF Admitting
  <2>3. request[x].arrival =< tick => Filled(a) \/ a.reserved + Reserved(x) > limits.budget
    <3>1. SUFFICES ASSUME request[x].arrival =< tick, ~Filled(a) PROVE FALSE
      OBVIOUS
    <3>2. a.ended
      BY <1>2, <1>3, <3>1
    <3>3. PICK r \in Range(s) : request[r].arrival > tick
      BY <3>1, <3>2 DEF Admitting
    <3>4. Earlier(r, x)
      BY QueueAppend DEF BatchShape
    <3>5. r \in Requests
      BY DEF Range
    <3>6. request[r].arrival =< request[x].arrival /\ request[r].arrival \in Nat
      BY <1>2, <3>4, <3>5 DEF Earlier
    <3> DEFINE at == request[r].arrival
               by == request[x].arrival
    <3>7. at \in Nat /\ by \in Nat /\ tick \in Nat /\ at =< by /\ by =< tick /\ at > tick
      BY <1>2, <3>1, <3>3, <3>6
    <3> HIDE DEF at, by
    <3>8. QED
      BY <3>7
  <2> DEFINE l == Append(a.left, x)
  <2> HIDE DEF l
  <2>4. b.admitted = a.admitted /\ b.left = l /\ b.reserved = a.reserved /\ b.ended = TRUE
        /\ b \in Admission
    BY <1>1, <1>7, <2>1 DEF Admission, l
  <2>5. QED
    BY <2>2, <2>3, <2>4, AdmitPasses DEF b, l
<1>4. CASE ~(a.ended \/ request[x].arrival > tick \/ Filled(a)) /\ a.reserved + Reserved(x) > limits.budget
  <2>1. b = [a EXCEPT !.left = Append(a.left, x)]
    BY <1>4 DEF b, Admit, Filled
  <2> DEFINE l == Append(a.left, x)
  <2> HIDE DEF l
  <2>2. b.admitted = a.admitted /\ b.left = l /\ b.reserved = a.reserved /\ b.ended = a.ended
        /\ b \in Admission
    BY <1>1, <1>7, <2>1 DEF Admission, l
  <2>3. QED
    BY <1>4, <2>2, AdmitPasses DEF b, l
<1>5. CASE ~(a.ended \/ request[x].arrival > tick \/ Filled(a)) /\ ~(a.reserved + Reserved(x) > limits.budget)
  <2>1. b = [a EXCEPT !.admitted = Append(a.admitted, x), !.reserved = a.reserved + Reserved(x)]
    BY <1>5 DEF b, Admit, Filled
  <2>2. a.reserved + Reserved(x) =< limits.budget
    BY <1>2, <1>5, <1>7
  <2> DEFINE l == Append(a.admitted, x)
             k == a.reserved + Reserved(x)
  <2> HIDE DEF l, k
  <2>3. b.admitted = l /\ b.left = a.left /\ b.reserved = k /\ b.ended = a.ended
        /\ b \in Admission
    BY <1>1, <1>7, <2>1 DEF Admission, l, k
  <2>4. QED
    BY <1>5, <2>2, <2>3, AdmitTakes DEF b, l, k
<1>6. QED
  BY <1>3, <1>4, <1>5 DEF b

LEMMA AdmissionHolds ==
  ASSUME BatchingAssumption, BatchShape, NEW s \in Seq(Requests), Queue(s)
  PROVE  Admitting(s, AdmissionOf(s))
<1> DEFINE base == [admitted |-> <<>>, left |-> <<>>, ended |-> FALSE,
                    reserved |-> TotalReserved(DOMAIN active)]
           T == {v \in Seq(Requests) : Queue(v) => Admitting(v, AdmissionOf(v))}
<1>0. \A v \in Seq(Requests) : AdmissionOf(v) = FoldOf("admit", 0, base, v)
  <2>1. ASSUME NEW v \in Seq(Requests) PROVE AdmissionOf(v) = FoldOf("admit", 0, base, v)
    <3>1. Len(v) \in Nat /\ DOMAIN v = 1..Len(v)
      BY LenProperties
    <3>2. QED
      BY <3>1, AdmissionIsFold
  <2>2. QED
    BY <2>1
<1>1. <<>> \in T
  <2>1. <<>> \in Seq(Requests) /\ Range(<<>>) = {} /\ Len(<<>>) = 0 /\ Ascending(<<>>)
    <3>1. <<>> \in Seq(Requests) /\ Len(<<>>) = 0 /\ DOMAIN <<>> = {}
      BY EmptySeq
    <3>2. QED
      BY <3>1 DEF Range, Ascending
  <2>2. AdmissionOf(<<>>) = base
    BY <1>0, <2>1, FoldNothing
  <2>3. IsFiniteSet(DOMAIN active) /\ DOMAIN active \in SUBSET Requests
    BY FS_Subset DEF BatchingAssumption, BatchShape
  <2>4. TotalReserved(DOMAIN active) \in Nat
    BY <2>3, ReservedMore DEF BatchShape
  <2>5. Cardinality(DOMAIN active) \in Nat
    BY <2>3, FS_CardinalityType
  <2>6. Decoding(base) = DOMAIN active
    BY <2>1 DEF Decoding
  <2>7. base \in Admission
    BY <2>1, <2>4 DEF Admission
  <2>8. Admitting(<<>>, base)
    BY <2>1, <2>5, <2>6, <2>7 DEF Admitting, BatchShape
  <2>9. QED
    BY <2>1, <2>2, <2>8
<1>2. ASSUME NEW v \in T, NEW x \in Requests PROVE Append(v, x) \in T
  <2>1. v \in Seq(Requests) /\ (Queue(v) => Admitting(v, AdmissionOf(v))) /\ Append(v, x) \in Seq(Requests)
    OBVIOUS
  <2>2. AdmissionOf(Append(v, x)) = Admit(AdmissionOf(v), x)
    <3>1. FoldOf("admit", 0, base, Append(v, x)) = StepOf("admit", 0, FoldOf("admit", 0, base, v), x)
      BY <2>1, FoldAppend
    <3>2. QED
      BY <1>0, <2>1, <3>1 DEF StepOf
  <2>3. ASSUME Queue(Append(v, x)) PROVE Admitting(Append(v, x), AdmissionOf(Append(v, x)))
    <3>1. Queue(v)
      BY <2>1, <2>3, QueueAppend DEF BatchShape
    <3>2. QED
      BY <2>1, <2>2, <2>3, <3>1, AdmitStep
  <2>4. QED
    BY <2>1, <2>3
<1>3. T = Seq(Requests)
  <2>1. T \in SUBSET Seq(Requests)
    OBVIOUS
  <2> HIDE DEF T
  <2>2. QED
    BY <1>1, <1>2, <2>1, EverySequence
<1>4. QED
  BY <1>3

-------------------------------------------------------------------------------
(* The invariant of continuous batching.                                      *)

LEMMA TotalWider ==
  ASSUME NEW S, IsFiniteSet(S), NEW c \in [S -> Nat], NEW s \in SUBSET S
  PROVE  \A t \in SUBSET S : Total(S, c, s) =< Total(S, c, s \cup t)
<1> DEFINE T == {t \in SUBSET S : Total(S, c, s) =< Total(S, c, s \cup t)}
<1>1. {} \in T
  <2>1. Total(S, c, s) \in Nat /\ s \cup {} = s
    BY TotalLaws
  <2>2. QED
    BY <2>1
<1>2. ASSUME NEW t \in SUBSET S, t \in T, NEW x \in S, x \notin t PROVE t \cup {x} \in T
  <2>1. Total(S, c, s) =< Total(S, c, s \cup t) /\ Total(S, c, s) \in Nat /\ Total(S, c, s \cup t) \in Nat
    BY <1>2, TotalLaws
  <2> DEFINE u == s \cup t
  <2>2. u \in SUBSET S /\ s \cup (t \cup {x}) = u \cup {x} /\ t \cup {x} \in SUBSET S /\ c[x] \in Nat
    OBVIOUS
  <2>3. Total(S, c, u) =< Total(S, c, u \cup {x})
    <3> HIDE DEF u, T
    <3>1. CASE x \in u
      <4>1. u \cup {x} = u /\ Total(S, c, u) \in Nat
        BY <2>2, <3>1, TotalLaws
      <4>2. QED
        BY <4>1
    <3>2. CASE x \notin u
      <4>1. Total(S, c, u \cup {x}) = Total(S, c, u) + c[x]
        BY <2>2, <3>2, TotalMore
      <4>2. Total(S, c, u) \in Nat
        BY <2>2, TotalLaws
      <4>3. QED
        BY <2>2, <4>1, <4>2
    <3>3. QED
      BY <3>1, <3>2
  <2>4. Total(S, c, u \cup {x}) \in Nat
    <3>1. u \cup {x} \in SUBSET S
      BY <2>2
    <3> HIDE DEF u, T
    <3>2. QED
      BY <3>1, TotalLaws
  <2>5. Total(S, c, s) =< Total(S, c, u \cup {x})
    <3>1. Total(S, c, s) =< Total(S, c, u) /\ Total(S, c, s) \in Nat /\ Total(S, c, u) \in Nat
      BY <2>1
    <3> HIDE DEF u, T
    <3>2. QED
      BY <2>3, <2>4, <3>1
  <2>6. QED
    BY <2>2, <2>5
<1> HIDE DEF T
<1>3. \A t \in SUBSET S : t \in T
  BY <1>1, <1>2, EverySubset
<1>4. QED
  BY <1>3 DEF T

\* The tokens a request has been given.
Spent == [r \in Requests |-> IF r \in Range(waiting) THEN 0
                             ELSE IF r \in DOMAIN active THEN active[r] ELSE request[r].new]

BatchInv ==
  /\ RequestsTyped
  /\ tick \in Nat
  /\ Queue(waiting)
  /\ DOMAIN active \subseteq last.decode /\ last.decode \subseteq Requests
  /\ \A r \in DOMAIN active : active[r] \in Nat /\ active[r] < request[r].new
  /\ Cardinality(last.decode) =< limits.batch
  /\ last.reserved = Total(Requests, Reserves, last.decode) /\ last.reserved =< limits.budget
  /\ \A r \in Range(waiting) :
       request[r].arrival < tick =>
         Cardinality(last.decode) = limits.batch \/ last.reserved + Reserved(r) > limits.budget
  /\ tick =< Latest + Total(Requests, Spent, Requests)
  /\ decoded = Spent

LEMMA InvShape ==
  ASSUME BatchingAssumption, BatchInv
  PROVE  BatchShape
<1>1. RequestsTyped /\ tick \in Nat /\ DOMAIN active \subseteq last.decode /\ last.decode \subseteq Requests
      /\ Cardinality(last.decode) =< limits.batch
      /\ last.reserved = Total(Requests, Reserves, last.decode) /\ last.reserved =< limits.budget
  BY DEF BatchInv
<1>2. PICK d : d = last.decode
  OBVIOUS
<1>3. PICK s : s = DOMAIN active
  OBVIOUS
<1>4. IsFiniteSet(Requests) /\ Reserves \in [Requests -> Nat] /\ s \in SUBSET Requests
      /\ d \in SUBSET Requests /\ s \in SUBSET d
  BY <1>1, <1>2, <1>3, ReservedTyped DEF BatchingAssumption
<1>5. IsFiniteSet(d) /\ IsFiniteSet(s) /\ Cardinality(s) =< Cardinality(d)
      /\ Cardinality(s) \in Nat /\ Cardinality(d) \in Nat
  BY <1>4, FS_Subset, FS_CardinalityType
<1>6. limits.batch \in Nat /\ limits.budget \in Nat
  BY <1>1 DEF RequestsTyped
<1>7. Cardinality(s) =< limits.batch
  BY <1>1, <1>2, <1>5, <1>6
<1>8. Total(Requests, Reserves, s) =< Total(Requests, Reserves, d)
  <2>1. Total(Requests, Reserves, s) =< Total(Requests, Reserves, s \cup d)
    BY <1>4, TotalWider
  <2>2. s \cup d = d
    BY <1>4
  <2>3. QED
    BY <2>1, <2>2
<1>9. TotalReserved(s) =< limits.budget
  <2>1. TotalReserved(s) = Total(Requests, Reserves, s)
    BY <1>1, <1>4, ReservedIsTotal
  <2>2. Total(Requests, Reserves, s) \in Nat /\ Total(Requests, Reserves, d) \in Nat
    BY <1>4, TotalLaws
  <2>3. Total(Requests, Reserves, d) =< limits.budget
    BY <1>1, <1>2
  <2>4. QED
    BY <1>6, <1>8, <2>1, <2>2, <2>3
<1>10. QED
  BY <1>1, <1>3, <1>4, <1>7, <1>9 DEF BatchShape

LEMMA SpentTyped ==
  ASSUME BatchInv
  PROVE  Spent \in [Requests -> Nat] /\ \A r \in Requests : Spent[r] =< request[r].new
<1>1. ASSUME NEW r \in Requests
      PROVE  LET n == IF r \in Range(waiting) THEN 0
                      ELSE IF r \in DOMAIN active THEN active[r] ELSE request[r].new
             IN  n \in Nat /\ n =< request[r].new
  <2>1. request[r].new \in Nat
    BY DEF BatchInv, RequestsTyped
  <2>2. r \in DOMAIN active => active[r] \in Nat /\ active[r] < request[r].new
    BY DEF BatchInv
  <2>3. QED
    BY <2>1, <2>2
<1>2. QED
  BY <1>1 DEF Spent

\* The queue a simulation starts with: each request has a place of its own, and
\* there are as many places as requests.
EveryoneQueued == \A r \in Requests : r \in Range(waiting)

LEMMA QueueIsWhole ==
  ASSUME BatchingAssumption, BatchingInit, RequestsTyped
  PROVE  EveryoneQueued
<1>1. PICK queue \in [1..Cardinality(Requests) -> Requests] :
        /\ \A i, j \in DOMAIN queue : i < j => Earlier(queue[i], queue[j])
        /\ waiting = queue
  BY DEF BatchingInit
<1>2. IsFiniteSet(Requests) /\ Cardinality(Requests) \in Nat
  BY FS_CardinalityType DEF BatchingAssumption
<1> DEFINE n == Cardinality(Requests)
<1>3. \A a, b \in Requests : Earlier(a, b) => a # b
  <2>1. \A a \in Requests : a \in Nat /\ request[a].arrival \in Nat
    BY DEF BatchingAssumption, RequestsTyped
  <2>2. QED
    BY <2>1 DEF Earlier
<1>4. \A i, j \in 1..n : queue[i] = queue[j] => i = j
  <2>1. SUFFICES ASSUME NEW i \in 1..n, NEW j \in 1..n, i < j
                 PROVE  queue[i] # queue[j]
    BY <1>2
  <2>2. Earlier(queue[i], queue[j]) /\ queue[i] \in Requests /\ queue[j] \in Requests
    BY <1>1, <2>1
  <2>3. QED
    BY <1>3, <2>2
<1>5. queue \in Injection(1..n, Requests)
  BY <1>1, <1>4 DEF Injection, IsInjective
<1>6. Cardinality(1..n) = n
  <2>1. n \in Nat
    BY <1>2
  <2> HIDE DEF n
  <2>2. QED
    BY <2>1, FS_Interval
<1>7. queue \in Surjection(1..n, Requests)
  BY <1>2, <1>5, <1>6, FS_Injection
<1>8. \A r \in Requests : \E i \in 1..n : queue[i] = r
  BY <1>7 DEF Surjection
<1>9. QED
  BY <1>1, <1>8 DEF EveryoneQueued, Range

LEMMA BatchInitInv ==
  ASSUME BatchingAssumption, BatchingInit
  PROVE  BatchInv
<1>1. RequestsTyped
  <2>1. request \in [Requests -> [arrival : Nat, prompt : Nat \ {0}, new : Nat \ {0}]]
    BY DEF BatchingAssumption, BatchingInit
  <2>2. limits \in [batch : Nat \ {0}, budget : Nat \ {0}]
    BY DEF BatchingAssumption, BatchingInit
  <2>3. QED
    BY <2>1, <2>2 DEF RequestsTyped, BatchingInit
<1>2. IsFiniteSet(Requests) /\ Reserves \in [Requests -> Nat]
  BY <1>1, ReservedTyped DEF BatchingAssumption
<1>3. active = <<>> /\ DOMAIN active = {} /\ tick = 0 /\ last.decode = {} /\ last.reserved = 0
  BY DEF BatchingInit
<1>4. Queue(waiting)
  <2>1. Cardinality(Requests) \in Nat
    BY <1>2, FS_CardinalityType
  <2>2. PICK queue \in [1..Cardinality(Requests) -> Requests] :
          /\ \A i, j \in DOMAIN queue : i < j => Earlier(queue[i], queue[j])
          /\ waiting = queue
    BY DEF BatchingInit
  <2>3. waiting \in Seq(Requests)
    BY <2>1, <2>2
  <2>4. QED
    BY <1>3, <2>2, <2>3 DEF Queue, Ascending
<1>5. Cardinality({}) = 0 /\ Total(Requests, Reserves, {}) = 0
  BY <1>2, FS_EmptySet, TotalLaws
<1>6. limits.batch \in Nat /\ limits.budget \in Nat
  BY <1>1 DEF RequestsTyped
<1>7. \A r \in Range(waiting) : ~(request[r].arrival < tick)
  <2>1. Range(waiting) \subseteq Requests
    BY <1>4 DEF Queue, Range
  <2>2. \A r \in Requests : request[r].arrival \in Nat
    BY <1>1 DEF RequestsTyped
  <2>3. QED
    BY <1>3, <2>1, <2>2
<1>8. tick =< Latest + Total(Requests, Spent, Requests)
  <2>1. Latest \in Nat
    BY <1>1, LatestIs
  <2>2. Spent \in [Requests -> Nat]
    <3>1. \A r \in Requests : request[r].new \in Nat
      BY <1>1 DEF RequestsTyped
    <3>2. QED
      BY <1>3, <3>1 DEF Spent
  <2>3. Requests \in SUBSET Requests
    OBVIOUS
  <2>4. Total(Requests, Spent, Requests) \in Nat
    BY <1>2, <2>2, <2>3, TotalLaws
  <2>5. QED
    BY <1>3, <2>1, <2>4
<1>9. decoded = Spent
  <2>1. \A r \in Requests : r \in Range(waiting)
    <3>1. EveryoneQueued
      BY <1>1, QueueIsWhole
    <3>2. QED
      BY <3>1 DEF EveryoneQueued
  <2>2. Spent = [r \in Requests |-> 0]
    BY <2>1 DEF Spent
  <2>3. QED
    BY <2>2 DEF BatchingInit
<1>10. QED
  BY <1>1, <1>3, <1>4, <1>5, <1>6, <1>7, <1>8, <1>9 DEF BatchInv

\* Nobody is lost.
LEMMA InvLosesNobody ==
  ASSUME BatchInv
  PROVE  NoRequestLost
<1>1. decoded = Spent /\ Range(waiting) \cap DOMAIN active = {}
  BY DEF BatchInv, Queue
<1>2. \A r \in DOMAIN active : active[r] < request[r].new
  BY DEF BatchInv
<1>3. \A r \in Requests :
        decoded[r] = IF r \in Range(waiting) THEN 0
                     ELSE IF r \in DOMAIN active THEN active[r] ELSE request[r].new
  BY <1>1 DEF Spent
<1>4. QED
  BY <1>1, <1>2, <1>3 DEF NoRequestLost

\* No tick wasted.
LEMMA InvWastesNothing ==
  ASSUME BatchingAssumption, BatchInv
  PROVE  NoTickWasted
<1>1. RequestsTyped /\ tick \in Nat
  BY DEF BatchInv
<1>2. last.reserved = TotalReserved(last.decode)
  <2>1. last.decode \in SUBSET Requests /\ last.reserved = Total(Requests, Reserves, last.decode)
    BY DEF BatchInv
  <2>2. QED
    BY <1>1, <2>1, ReservedIsTotal
<1>3. tick =< Latest + AllNew
  <2>1. PICK c : c = Spent
    OBVIOUS
  <2>2. PICK d : d = Asked
    OBVIOUS
  <2>3. IsFiniteSet(Requests) /\ c \in [Requests -> Nat] /\ d \in [Requests -> Nat]
        /\ Requests \in SUBSET Requests
    BY <1>1, <2>1, <2>2, SpentTyped, ReservedTyped DEF BatchingAssumption
  <2>4. \A r \in Requests : c[r] =< d[r]
    BY <1>1, <2>1, <2>2, SpentTyped, ReservedTyped
  <2>5. Total(Requests, c, Requests) =< Total(Requests, d, Requests)
    BY <2>3, <2>4, TotalOrdered
  <2>6. Total(Requests, c, Requests) \in Nat /\ Total(Requests, d, Requests) \in Nat
    BY <2>3, TotalLaws
  <2>7. AllNew = Total(Requests, d, Requests) /\ Latest \in Nat
    BY <1>1, <2>2, AskedIsTotal, LatestIs
  <2>8. tick =< Latest + Total(Requests, c, Requests)
    BY <2>1 DEF BatchInv
  <2>9. QED
    BY <1>1, <2>5, <2>6, <2>7, <2>8
<1>4. QED
  BY <1>2, <1>3 DEF BatchInv, NoTickWasted

-------------------------------------------------------------------------------
(* A tick keeps it, and spends a token or comes nearer the last arrival.      *)

\* The tokens a request of the batch has when the tick is over.
Generated(r) == (IF r \in DOMAIN active THEN active[r] ELSE 0) + 1

\* A tick decodes the batch the loop leaves, once a row.
LEMMA TickEffect ==
  ASSUME Tick, NEW a, a = AdmissionOf(waiting)
  PROVE  /\ waiting' = a.left
         /\ last'.decode = Decoding(a) /\ last'.reserved = a.reserved
         /\ DOMAIN active' = {r \in Decoding(a) : Generated(r) # request[r].new}
         /\ \A r \in DOMAIN active' : active'[r] = Generated(r)
         /\ tick' = tick + 1 /\ request' = request /\ limits' = limits
         /\ decoded' = [r \in Requests |-> IF r \in Decoding(a) THEN decoded[r] + 1 ELSE decoded[r]]
<1> DEFINE decode == DOMAIN active \union Range(a.admitted)
           generated == [r \in decode |-> (IF r \in DOMAIN active THEN active[r] ELSE 0) + 1]
           kept == {r \in decode : generated[r] # request[r].new}
<1>1. /\ waiting' = a.left
      /\ active' = [r \in kept |-> generated[r]]
      /\ last' = [decode |-> decode, reserved |-> a.reserved]
      /\ tick' = tick + 1 /\ request' = request /\ limits' = limits
      /\ decoded' = [r \in Requests |-> IF r \in decode THEN decoded[r] + 1 ELSE decoded[r]]
  BY DEF Tick
<1>2. decode = Decoding(a)
  BY DEF Decoding
<1>3. \A r \in decode : generated[r] = Generated(r)
  BY DEF Generated
<1> HIDE DEF decode, generated
<1>4. kept = {r \in Decoding(a) : Generated(r) # request[r].new}
  BY <1>2, <1>3
<1>5. last'.decode = decode /\ last'.reserved = a.reserved
  BY <1>1
<1> HIDE DEF kept
<1>6. DOMAIN active' = kept /\ \A r \in kept : active'[r] = generated[r]
  BY <1>1
<1>7. \A r \in kept : r \in decode
  BY <1>2, <1>4
<1>8. QED
  BY <1>1, <1>2, <1>3, <1>4, <1>5, <1>6, <1>7

LEMMA TickSpends ==
  ASSUME BatchInv, NEW a, Admitting(waiting, a), Tick, a = AdmissionOf(waiting)
  PROVE  /\ Spent' \in [Requests -> Nat]
         /\ \A r \in Requests : Spent[r] =< Spent'[r]
         /\ \A r \in Decoding(a) : Spent[r] < Spent'[r]
         /\ \A r \in DOMAIN active' : active'[r] \in Nat /\ active'[r] < request[r].new
         /\ Spent' = [r \in Requests |-> IF r \in Decoding(a) THEN Spent[r] + 1 ELSE Spent[r]]
<1>1. /\ waiting' = a.left
      /\ DOMAIN active' = {r \in Decoding(a) : Generated(r) # request[r].new}
      /\ \A r \in DOMAIN active' : active'[r] = Generated(r)
      /\ request' = request
  BY TickEffect
<1>2. \A r \in Requests : request[r].new \in Nat \ {0}
  BY DEF BatchInv, RequestsTyped
<1>3. \A r \in DOMAIN active : r \in Requests /\ active[r] \in Nat /\ active[r] < request[r].new
  BY DEF BatchInv
<1>4. Range(waiting) \cap DOMAIN active = {} /\ Range(a.admitted) \cup Range(a.left) = Range(waiting)
      /\ Range(a.admitted) \cap Range(a.left) = {}
  BY DEF BatchInv, Queue, Admitting
<1>5. Decoding(a) = DOMAIN active \cup Range(a.admitted)
  BY DEF Decoding
<1>6. Range(waiting) \subseteq Requests
  BY DEF BatchInv, Queue, Range
<1>7. ASSUME NEW r \in Decoding(a) PROVE Generated(r) \in Nat /\ Generated(r) =< request[r].new
  <2>1. CASE r \in DOMAIN active
    BY <1>3, <1>2, <2>1 DEF Generated
  <2>2. CASE r \notin DOMAIN active
    <3>1. r \in Requests
      BY <1>4, <1>5, <1>6, <2>2
    <3>2. QED
      BY <1>2, <2>2, <3>1 DEF Generated
  <2>3. QED
    BY <2>1, <2>2
<1>8. \A r \in DOMAIN active' : active'[r] \in Nat /\ active'[r] < request[r].new
  <2>1. ASSUME NEW r \in DOMAIN active' PROVE active'[r] \in Nat /\ active'[r] < request[r].new
    <3>1. r \in Decoding(a) /\ Generated(r) # request[r].new /\ active'[r] = Generated(r)
      BY <1>1
    <3>2. r \in Requests
      BY <1>3, <1>4, <1>5, <1>6, <3>1
    <3>3. QED
      BY <1>2, <1>7, <3>1, <3>2
  <2>2. QED
    BY <2>1
<1>9. Spent' = [r \in Requests |-> IF r \in Range(a.left) THEN 0
                                   ELSE IF r \in DOMAIN active' THEN active'[r] ELSE request[r].new]
  <2>1. Spent' = [r \in Requests |-> IF r \in Range(waiting') THEN 0
                                     ELSE IF r \in DOMAIN active' THEN active'[r] ELSE request'[r].new]
    BY DEF Spent, Range
  <2>2. QED
    BY <1>1, <2>1
<1>10. ASSUME NEW r \in Requests
       PROVE  /\ Spent'[r] \in Nat
              /\ Spent[r] =< Spent'[r]
              /\ r \in Decoding(a) => Spent[r] < Spent'[r]
              /\ Spent'[r] = IF r \in Decoding(a) THEN Spent[r] + 1 ELSE Spent[r]
  <2>1. Spent'[r] = IF r \in Range(a.left) THEN 0
                    ELSE IF r \in DOMAIN active' THEN active'[r] ELSE request[r].new
    BY <1>9
  <2>2. Spent[r] = IF r \in Range(waiting) THEN 0
                   ELSE IF r \in DOMAIN active THEN active[r] ELSE request[r].new
    BY DEF Spent
  <2>3. PICK p : p = Spent[r]
    OBVIOUS
  <2>4. PICK q : q = Spent'[r]
    OBVIOUS
  <2>5. PICK n : n = request[r].new
    OBVIOUS
  <2>6. n \in Nat \ {0}
    BY <1>2, <2>5
  <2>7. /\ q \in Nat /\ p =< q /\ (r \in Decoding(a) => p < q)
        /\ q = IF r \in Decoding(a) THEN p + 1 ELSE p
    <3>1. CASE r \in Range(a.left)
      <4>1. r \in Range(waiting) /\ r \notin Decoding(a)
        BY <1>4, <1>5, <3>1
      <4>2. p = 0 /\ q = 0
        BY <2>1, <2>2, <2>3, <2>4, <3>1, <4>1
      <4>3. QED
        BY <4>1, <4>2
    <3>2. CASE r \in Range(a.admitted)
      <4>1. r \in Range(waiting) /\ r \notin DOMAIN active /\ r \notin Range(a.left) /\ r \in Decoding(a)
        BY <1>4, <1>5, <3>2
      <4>2. p = 0 /\ Generated(r) = 1
        BY <2>2, <2>3, <4>1 DEF Generated
      <4>3. q = 1
        BY <1>1, <2>1, <2>4, <4>1, <4>2
      <4>4. QED
        BY <4>1, <4>2, <4>3
    <3>3. CASE r \in DOMAIN active
      <4>1. r \notin Range(waiting) /\ r \notin Range(a.left) /\ r \in Decoding(a)
        BY <1>4, <1>5, <3>3
      <4>2. p = active[r] /\ p \in Nat /\ Generated(r) = p + 1
        BY <1>3, <2>2, <2>3, <3>3, <4>1 DEF Generated
      <4>3. q = p + 1
        BY <1>1, <2>1, <2>4, <4>1, <4>2
      <4>4. QED
        BY <4>1, <4>2, <4>3
    <3>4. CASE r \notin Range(waiting) /\ r \notin DOMAIN active
      <4>1. r \notin Range(a.left) /\ r \notin Decoding(a) /\ r \notin DOMAIN active'
        BY <1>1, <1>4, <1>5, <3>4
      <4>2. p = n /\ q = n
        BY <2>1, <2>2, <2>3, <2>4, <2>5, <3>4, <4>1
      <4>3. QED
        BY <2>6, <4>1, <4>2
    <3>5. QED
      BY <1>4, <3>1, <3>2, <3>3, <3>4
  <2>8. QED
    BY <2>3, <2>4, <2>7
<1>11. Spent' \in [Requests -> Nat]
  <2>1. PICK d : d = Spent'
    OBVIOUS
  <2>2. d = [r \in Requests |-> d[r]]
    BY <1>9, <2>1
  <2>3. \A r \in Requests : d[r] \in Nat
    BY <1>10, <2>1
  <2>4. QED
    BY <2>1, <2>2, <2>3
<1>12. \A r \in Decoding(a) : r \in Requests
  BY <1>3, <1>4, <1>5, <1>6
<1>13. Spent' = [r \in Requests |-> IF r \in Decoding(a) THEN Spent[r] + 1 ELSE Spent[r]]
  <2>1. PICK d : d = Spent'
    OBVIOUS
  <2>2. d = [r \in Requests |-> d[r]]
    BY <1>11, <2>1
  <2>3. \A r \in Requests : d[r] = IF r \in Decoding(a) THEN Spent[r] + 1 ELSE Spent[r]
    BY <1>10, <2>1
  <2>4. QED
    BY <2>1, <2>2, <2>3
<1>14. QED
  BY <1>8, <1>10, <1>11, <1>12, <1>13

LEMMA TickStep ==
  ASSUME BatchingAssumption, BatchInv, Tick
  PROVE  BatchInv'
<1>1. PICK a : a = AdmissionOf(waiting)
  OBVIOUS
<1>2. BatchShape /\ Queue(waiting) /\ waiting \in Seq(Requests)
  BY InvShape DEF BatchInv, Queue
<1>3. Admitting(waiting, a)
  BY <1>1, <1>2, AdmissionHolds
<1>4. /\ waiting' = a.left
      /\ last'.decode = Decoding(a) /\ last'.reserved = a.reserved
      /\ DOMAIN active' = {r \in Decoding(a) : Generated(r) # request[r].new}
      /\ tick' = tick + 1 /\ request' = request /\ limits' = limits
  BY <1>1, TickEffect
<1>5. /\ Spent' \in [Requests -> Nat]
      /\ \A r \in Requests : Spent[r] =< Spent'[r]
      /\ \A r \in Decoding(a) : Spent[r] < Spent'[r]
      /\ \A r \in DOMAIN active' : active'[r] \in Nat /\ active'[r] < request[r].new
  BY <1>1, <1>3, TickSpends
<1>6. RequestsTyped' /\ tick' \in Nat /\ Reserves' = Reserves
  BY <1>4 DEF BatchInv, RequestsTyped, Reserved, Reserves
<1>7. a \in Admission
  BY <1>3 DEF Admitting
<1>8. Decoding(a) \subseteq Requests
  BY <1>2, <1>7 DEF Decoding, Admission, Range, BatchShape
<1>9. Queue(waiting)'
  <2>1. a.left \in Seq(Requests) /\ Ascending(a.left)
    BY <1>3, <1>7 DEF Admitting, Admission
  <2>2. Ascending(waiting)'
    BY <1>4, <2>1 DEF Ascending, Earlier
  <2>3. Range(a.left) \cap Decoding(a) = {}
    BY <1>2, <1>3 DEF Admitting, Queue, Decoding
  <2>4. Range(a.left) \cap DOMAIN active' = {}
    BY <1>4, <2>3
  <2>5. Range(waiting)' = Range(a.left)
    BY <1>4 DEF Range
  <2>6. QED
    BY <1>4, <2>1, <2>2, <2>4, <2>5 DEF Queue
<1>10. Cardinality(Decoding(a)) =< limits.batch /\ a.reserved =< limits.budget
       /\ a.reserved = Total(Requests, Reserves, Decoding(a))
  <2>1. a.reserved = TotalReserved(Decoding(a))
    BY <1>3 DEF Admitting
  <2>2. TotalReserved(Decoding(a)) = Total(Requests, Reserves, Decoding(a))
    BY <1>2, <1>8, ReservedIsTotal DEF BatchShape
  <2>3. QED
    BY <1>3, <2>1, <2>2 DEF Admitting
<1>11. \A r \in Range(a.left) : request[r].arrival \in Nat /\ r \in Requests
  <2>1. a.left \in Seq(Requests)
    BY <1>7 DEF Admission
  <2>2. Range(a.left) \subseteq Requests
    BY <2>1 DEF Range
  <2>3. \A r \in Requests : request[r].arrival \in Nat
    BY <1>2 DEF BatchShape, RequestsTyped
  <2>4. QED
    BY <2>2, <2>3
<1>12. limits.batch \in Nat \ {0} /\ limits.budget \in Nat \ {0} /\ tick \in Nat
  BY <1>2 DEF BatchShape, RequestsTyped
<1>13. \A r \in Range(a.left) :
         request[r].arrival < tick + 1 =>
           Cardinality(Decoding(a)) = limits.batch \/ a.reserved + Reserved(r) > limits.budget
  <2>1. SUFFICES ASSUME NEW r \in Range(a.left), request[r].arrival < tick + 1,
                        ~(a.reserved + Reserved(r) > limits.budget)
                 PROVE  Cardinality(Decoding(a)) = limits.batch
    OBVIOUS
  <2>2. request[r].arrival =< tick
    BY <1>11, <1>12, <2>1
  <2>3. Filled(a)
    BY <1>3, <2>1, <2>2 DEF Admitting
  <2>4. Cardinality(Decoding(a)) = Cardinality(DOMAIN active) + Len(a.admitted)
    BY <1>3 DEF Admitting
  <2>5. Cardinality(Decoding(a)) >= limits.batch
    BY <2>3, <2>4 DEF Filled
  <2>6. IsFiniteSet(Decoding(a)) /\ Cardinality(Decoding(a)) \in Nat
    <3>1. IsFiniteSet(Requests) /\ Decoding(a) \in SUBSET Requests
      BY <1>8 DEF BatchingAssumption
    <3>2. IsFiniteSet(Decoding(a))
      BY <3>1, FS_Subset
    <3>3. QED
      BY <3>2, FS_CardinalityType
  <2>7. QED
    BY <1>10, <1>12, <2>5, <2>6
<1>14. (tick =< Latest + Total(Requests, Spent, Requests))'
  <2>1. PICK c : c = Spent
    OBVIOUS
  <2>2. PICK d : d = Spent'
    OBVIOUS
  <2>3. IsFiniteSet(Requests) /\ c \in [Requests -> Nat] /\ d \in [Requests -> Nat]
        /\ Requests \in SUBSET Requests
    BY <1>5, <2>1, <2>2, SpentTyped DEF BatchingAssumption
  <2>4. (\A r \in Requests : c[r] =< d[r]) /\ \A r \in Decoding(a) : c[r] < d[r]
    BY <1>5, <2>1, <2>2
  <2>5. Total(Requests, c, Requests) \in Nat /\ Total(Requests, d, Requests) \in Nat
    BY <2>3, TotalLaws
  <2>6. Latest' = Latest
    BY <1>4 DEF Latest
  <2>7. Latest \in Nat /\ \A r \in Requests : request[r].arrival =< Latest
    BY <1>2, LatestIs DEF BatchShape
  <2>8. tick =< Latest + Total(Requests, c, Requests)
    BY <2>1 DEF BatchInv
  <2>9. CASE Decoding(a) # {}
    <3>1. PICK r \in Decoding(a) : TRUE
      BY <2>9
    <3>2. r \in Requests /\ c[r] < d[r]
      BY <1>8, <2>4
    <3>3. Total(Requests, c, Requests) + 1 =< Total(Requests, d, Requests)
      BY <2>3, <2>4, <3>2, TotalAscends
    <3>4. tick + 1 =< Latest + Total(Requests, d, Requests)
      BY <1>12, <2>5, <2>7, <2>8, <3>3
    <3>5. QED
      BY <1>4, <2>2, <2>6, <3>4
  <2>10. CASE Decoding(a) = {}
    <3>1. DOMAIN active = {} /\ Range(a.admitted) = {}
      BY <2>10 DEF Decoding
    <3>2. waiting # <<>>
      BY <3>1 DEF Tick, Served
    <3>3. Range(a.left) # {}
      <4>1. Len(waiting) \in Nat /\ Len(waiting) # 0 /\ DOMAIN waiting = 1..Len(waiting)
        BY <1>2, <3>2, EmptySeq
      <4>2. waiting[1] \in Range(waiting)
        BY <4>1 DEF Range
      <4>3. QED
        BY <1>3, <3>1, <4>2 DEF Admitting
    <3>4. PICK r \in Range(a.left) : TRUE
      BY <3>3
    <3>5. Cardinality(Decoding(a)) = 0 /\ a.reserved = 0
      <4>1. Cardinality({}) = 0
        BY FS_EmptySet
      <4>2. Reserves \in [Requests -> Nat]
        BY <1>2, ReservedTyped DEF BatchShape
      <4>3. Total(Requests, Reserves, {}) = 0
        BY <2>3, <4>2, TotalLaws
      <4>4. QED
        BY <1>10, <2>10, <4>1, <4>3
    <3>6. Reserved(r) \in Nat /\ Reserved(r) =< limits.budget
      BY <1>2, <1>11, ReservedTyped DEF BatchShape, RequestsTyped
    <3>7. ~(request[r].arrival < tick + 1)
      <4>1. Cardinality(Decoding(a)) # limits.batch
        BY <1>12, <3>5
      <4>2. ~(a.reserved + Reserved(r) > limits.budget)
        BY <1>12, <3>5, <3>6
      <4>3. QED
        BY <1>13, <4>1, <4>2
    <3>8. tick + 1 =< Latest
      <4>1. request[r].arrival \in Nat /\ request[r].arrival =< Latest
        BY <1>11, <2>7
      <4>2. QED
        BY <1>12, <2>7, <3>7, <4>1
    <3>9. tick + 1 =< Latest + Total(Requests, d, Requests)
      BY <1>12, <2>5, <2>7, <3>8
    <3>10. QED
      BY <1>4, <2>2, <2>6, <3>9
  <2>11. QED
    BY <2>9, <2>10
<1>15. (\A r \in Range(waiting) :
         request[r].arrival < tick =>
           Cardinality(last.decode) = limits.batch \/ last.reserved + Reserved(r) > limits.budget)'
  <2>1. Range(waiting)' = Range(a.left)
    BY <1>4 DEF Range
  <2>2. \A r : Reserved(r)' = Reserved(r)
    BY <1>4 DEF Reserved
  <2>3. QED
    BY <1>4, <1>13, <2>1, <2>2
<1>16. (DOMAIN active \subseteq last.decode /\ last.decode \subseteq Requests)'
  BY <1>4, <1>8
<1>17. (\A r \in DOMAIN active : active[r] \in Nat /\ active[r] < request[r].new)'
  BY <1>4, <1>5
<1>18. (/\ Cardinality(last.decode) =< limits.batch
        /\ last.reserved = Total(Requests, Reserves, last.decode) /\ last.reserved =< limits.budget)'
  BY <1>4, <1>6, <1>10
<1>19. decoded' = Spent'
  <2>1. decoded' = [r \in Requests |-> IF r \in Decoding(a) THEN decoded[r] + 1 ELSE decoded[r]]
    BY <1>1, TickEffect
  <2>2. Spent' = [r \in Requests |-> IF r \in Decoding(a) THEN Spent[r] + 1 ELSE Spent[r]]
    BY <1>1, <1>3, TickSpends
  <2>3. decoded = Spent
    BY DEF BatchInv
  <2>4. QED
    BY <2>1, <2>2, <2>3
<1>20. QED
  BY <1>6, <1>9, <1>14, <1>15, <1>16, <1>17, <1>18, <1>19 DEF BatchInv

LEMMA BatchStays ==
  ASSUME BatchInv, UNCHANGED batchingVars
  PROVE  BatchInv'
<1>1. /\ request' = request /\ limits' = limits /\ waiting' = waiting /\ active' = active
      /\ tick' = tick /\ last' = last /\ decoded' = decoded
  BY DEF batchingVars
<1>2. Latest' = Latest /\ Spent' = Spent /\ Reserves' = Reserves
  BY <1>1 DEF Latest, Spent, Reserves, Reserved, Range
<1>3. RequestsTyped' /\ Queue(waiting)'
  BY <1>1 DEF BatchInv, RequestsTyped, Reserved, Queue, Ascending, Earlier, Range
<1>4. (\A r \in Range(waiting) :
         request[r].arrival < tick =>
           Cardinality(last.decode) = limits.batch \/ last.reserved + Reserved(r) > limits.budget)'
  BY <1>1 DEF BatchInv, Reserved, Range
<1>5. QED
  BY <1>1, <1>2, <1>3, <1>4 DEF BatchInv

-------------------------------------------------------------------------------
(* The batches                                                                *)

\* BatchesAreSound: whatever the requests and the limits, the batches keep the limits,
\* no tick is wasted and no request is lost (inference_batching.py); whatever the numbers of samples, ranks,
\* micro-batches and accumulated steps, the ranks share an epoch (ddp_data.py).
THEOREM BatchesStaySound == Spec => []BatchesAreSound
<1> DEFINE Inv == (planner = "data" => IInv) /\ (planner = "batching" => BatchInv)
<1>1. Init => Inv
  BY BatchingAssumption, InitInv, BatchInitInv DEF Init
<1>2. Inv /\ [Next]_vars => Inv'
  <2>1. SUFFICES ASSUME Inv, [Next]_vars
                 PROVE  (planner' = "data" => IInv') /\ (planner' = "batching" => BatchInv')
    OBVIOUS
  <2>2. planner' = planner
    BY <2>1 DEF Next, Done, vars
  <2>3. CASE planner = "data"
    <3>1. [DataNext]_dataVars
      BY <2>1, <2>3 DEF Next, Done, vars
    <3>2. QED
      BY <2>1, <2>2, <2>3, <3>1, DataStep
  <2>4. CASE planner = "batching"
    <3>1. Tick \/ UNCHANGED batchingVars
      BY <2>1, <2>2, <2>4 DEF Next, Done, vars
    <3>2. QED
      BY <2>1, <2>2, <2>4, <3>1, BatchingAssumption, TickStep, BatchStays
  <2>5. QED
    BY <2>2, <2>3, <2>4
<1>3. Inv => BatchesAreSound
  BY BatchingAssumption, BatchesAreExact, InvWastesNothing, InvLosesNobody DEF BatchesAreSound
<1>4. QED
  BY <1>1, <1>2, <1>3, PTL DEF Spec

-------------------------------------------------------------------------------
(* The reference's pass                                                       *)

LEMMA MergePairIsFold ==
  ASSUME NEW s, Len(s) \in Nat, DOMAIN s = 1..Len(s), NEW pair, NEW token
  PROVE  MergePair(s, pair, token) = FoldOf("glue", [pair |-> pair, token |-> token], <<>>, s)
<1> DEFINE S == DOMAIN s
           c == [pair |-> pair, token |-> token]
           P(g) == g = [u \in SUBSET S |-> IF u = {} THEN <<>>
                          ELSE IF g[u \ {Max(u)}] # <<>> /\ <<Last(g[u \ {Max(u)}]), s[Max(u)]>> = pair
                               THEN Append(Front(g[u \ {Max(u)}]), token)
                               ELSE Append(g[u \ {Max(u)}], s[Max(u)])]
<1>1. ASSUME NEW g PROVE Folds(g, "glue", c, <<>>, s, Len(s)) <=> P(g)
  BY DEF Folds, StepOf, Glued
<1>2. PICK h : P(h)
  <2>1. PICK h : Folds(h, "glue", c, <<>>, s, Len(s))
    BY FoldExists
  <2>2. P(h)
    BY <1>1, <2>1
  <2> HIDE DEF P
  <2>3. QED
    BY <2>2
<1>3. P(CHOOSE g : P(g))
  <2> HIDE DEF P
  <2>1. QED
    BY <1>2, Zenon
<1>4. (CHOOSE g : P(g))[S] = FoldOf("glue", c, <<>>, s)
  <2> DEFINE chosen == CHOOSE g : P(g)
  <2>1. P(chosen)
    BY <1>3
  <2> HIDE DEF chosen, P
  <2>2. Folds(chosen, "glue", c, <<>>, s, Len(s))
    BY <1>1, <2>1
  <2>3. QED
    BY <2>2, FoldIs DEF chosen
<1>5. MergePair(s, pair, token) = (CHOOSE g : P(g))[S]
  BY Zenon DEF MergePair, FoldLeft, MapThenFoldSet
<1>6. QED
  BY <1>4, <1>5

LEMMA MergeNone == ASSUME NEW pair, NEW token PROVE MergePair(<<>>, pair, token) = <<>>
<1>1. Len(<<>>) \in Nat /\ DOMAIN <<>> = 1..Len(<<>>)
  OBVIOUS
<1>2. MergePair(<<>>, pair, token) = FoldOf("glue", [pair |-> pair, token |-> token], <<>>, <<>>)
  BY <1>1, MergePairIsFold
<1>3. QED
  BY <1>2, FoldNothing

LEMMA MergeAppend ==
  ASSUME NEW S, NEW s \in Seq(S), NEW v \in S, NEW pair, NEW token
  PROVE  MergePair(Append(s, v), pair, token)
           = Glued([pair |-> pair, token |-> token], MergePair(s, pair, token), v)
<1> DEFINE c == [pair |-> pair, token |-> token]
           t == Append(s, v)
<1>1. Len(s) \in Nat /\ DOMAIN s = 1..Len(s) /\ Len(t) \in Nat /\ DOMAIN t = 1..Len(t)
  OBVIOUS
<1>2. MergePair(s, pair, token) = FoldOf("glue", c, <<>>, s)
  BY <1>1, MergePairIsFold
<1>3. MergePair(t, pair, token) = FoldOf("glue", c, <<>>, t)
  BY <1>1, MergePairIsFold
<1>4. FoldOf("glue", c, <<>>, t) = StepOf("glue", c, FoldOf("glue", c, <<>>, s), v)
  BY FoldAppend
<1> HIDE DEF c, t
<1>5. QED
  BY <1>2, <1>3, <1>4 DEF StepOf, c, t

LEMMA PairsAppend ==
  ASSUME NEW S, NEW s \in Seq(S), NEW v \in S
  PROVE  PairsOf(Append(s, v)) = PairsOf(s) \cup (IF s = <<>> THEN {} ELSE {<<Last(s), v>>})
<1> DEFINE t == Append(s, v)
           n == Len(s)
<1>1. n \in Nat /\ Len(t) = n + 1 /\ t[n + 1] = v /\ \A i \in 1..n : t[i] = s[i]
  OBVIOUS
<1>2. s = <<>> <=> n = 0
  BY EmptySeq
<1>3. PairsOf(t) = {<<t[i], t[i + 1]>> : i \in 1..n}
  BY <1>1 DEF PairsOf, PairAt
<1>4. PairsOf(s) = {<<s[i], s[i + 1]>> : i \in 1..(n - 1)}
  BY DEF PairsOf, PairAt
<1>5. n # 0 => Last(s) = s[n]
  BY DEF Last
<1> HIDE DEF t, n
<1>6. \A i \in 1..(n - 1) : t[i] = s[i] /\ t[i + 1] = s[i + 1] /\ i \in 1..n
  BY <1>1
<1>7. n # 0 => n \in 1..n /\ t[n] = s[n] /\ \A i \in 1..n : i \in 1..(n - 1) \/ i = n
  BY <1>1
<1>8. QED
  <2>1. CASE n = 0
    <3>1. 1..n = {} /\ 1..(n - 1) = {}
      BY <2>1
    <3>2. QED
      BY <1>2, <1>3, <1>4, <2>1, <3>1 DEF t
  <2>2. CASE n # 0
    <3>1. \A q \in PairsOf(t) : q \in PairsOf(s) \/ q = <<Last(s), v>>
      <4>1. TAKE q \in PairsOf(t)
      <4>2. PICK i \in 1..n : q = <<t[i], t[i + 1]>>
        BY <1>3
      <4>3. CASE i \in 1..(n - 1)
        BY <1>4, <1>6, <4>2, <4>3
      <4>4. CASE i = n
        BY <1>1, <1>5, <1>7, <2>2, <4>2, <4>4
      <4>5. QED
        BY <1>7, <2>2, <4>3, <4>4
    <3>2. \A q \in PairsOf(s) : q \in PairsOf(t)
      <4>1. TAKE q \in PairsOf(s)
      <4>2. PICK i \in 1..(n - 1) : q = <<s[i], s[i + 1]>>
        BY <1>4
      <4>3. QED
        BY <1>3, <1>6, <4>2
    <3>3. <<Last(s), v>> \in PairsOf(t)
      BY <1>1, <1>3, <1>5, <1>7, <2>2
    <3>4. QED
      BY <1>2, <2>2, <3>1, <3>2, <3>3 DEF t
  <2>3. QED
    BY <2>1, <2>2

LEMMA PairsNone == PairsOf(<<>>) = {}
  BY DEF PairsOf

\* What one pass of merge_pair does to a text: the pair is gone, what is new is next to
\* the token, and only a text without the pair keeps its length.
Passed(s, pair, token) ==
  LET out == MergePair(s, pair, token) IN
    /\ out \in Seq(Nat) /\ Len(out) =< Len(s)
    /\ (out = <<>> <=> s = <<>>)
    /\ (out # <<>> => Last(out) = token \/ Last(out) = Last(s))
    /\ (Len(out) = Len(s) => out = s)
    /\ pair \notin PairsOf(out)
    /\ (pair \notin PairsOf(s) => out = s)
    /\ \A q \in PairsOf(out) : q \in PairsOf(s) \/ q[1] = token \/ q[2] = token

LEMMA MergePasses ==
  ASSUME NEW s \in Seq(Nat), NEW pair, NEW token \in Nat, pair[2] # token
  PROVE  Passed(s, pair, token)
<1> DEFINE T == {t \in Seq(Nat) : Passed(t, pair, token)}
<1>1. <<>> \in T
  <2>1. <<>> \in Seq(Nat) /\ MergePair(<<>>, pair, token) = <<>> /\ PairsOf(<<>>) = {} /\ Len(<<>>) = 0
    BY MergeNone, PairsNone, EmptySeq
  <2>2. PICK e \in Seq(Nat) : e = <<>>
    BY <2>1
  <2>3. e \in Seq(Nat) /\ MergePair(e, pair, token) = e /\ PairsOf(e) = {} /\ Len(e) = 0
    BY <2>1, <2>2
  <2>4. Passed(e, pair, token)
    <3> HIDE DEF T
    <3>1. Len(e) =< Len(e)
      BY <2>3
    <3>2. QED
      BY <2>2, <2>3, <3>1, Zenon DEF Passed
  <2>5. QED
    BY <2>2, <2>4
<1>2. ASSUME NEW t \in T, NEW v \in Nat PROVE Append(t, v) \in T
  <2> DEFINE out == MergePair(t, pair, token)
             u == Append(t, v)
             more == MergePair(u, pair, token)
  <2>1. t \in Seq(Nat) /\ Passed(t, pair, token)
    OBVIOUS
  <2>2. /\ out \in Seq(Nat) /\ Len(out) =< Len(t)
        /\ (out = <<>> <=> t = <<>>)
        /\ (out # <<>> => Last(out) = token \/ Last(out) = Last(t))
        /\ (Len(out) = Len(t) => out = t)
        /\ pair \notin PairsOf(out)
        /\ (pair \notin PairsOf(t) => out = t)
        /\ \A q \in PairsOf(out) : q \in PairsOf(t) \/ q[1] = token \/ q[2] = token
    BY <2>1 DEF Passed
  <2>3. /\ u \in Seq(Nat) /\ Len(u) = Len(t) + 1 /\ Last(u) = v /\ u # <<>> /\ Len(t) \in Nat
        /\ PairsOf(u) = PairsOf(t) \cup (IF t = <<>> THEN {} ELSE {<<Last(t), v>>})
    <3>1. u \in Seq(Nat) /\ Len(u) = Len(t) + 1 /\ Last(u) = v /\ Len(t) \in Nat
      BY <2>1 DEF Last
    <3>2. u # <<>>
      BY <3>1, EmptySeq
    <3>3. QED
      BY <2>1, <3>1, <3>2, PairsAppend
  <2>4. more = IF out # <<>> /\ <<Last(out), v>> = pair
               THEN Append(Front(out), token) ELSE Append(out, v)
    <3>1. more = Glued([pair |-> pair, token |-> token], out, v)
      BY <2>1, MergeAppend
    <3>2. QED
      BY <3>1 DEF Glued
  <2>5. /\ more \in Seq(Nat) /\ Len(more) =< Len(u) /\ more # <<>>
        /\ (Last(more) = token \/ Last(more) = Last(u))
        /\ (Len(more) = Len(u) => more = u)
        /\ pair \notin PairsOf(more)
        /\ (pair \notin PairsOf(u) => more = u)
        /\ \A q \in PairsOf(more) : q \in PairsOf(u) \/ q[1] = token \/ q[2] = token
    <3>1. CASE out # <<>> /\ <<Last(out), v>> = pair
      <4> DEFINE f == Front(out)
                 l == Last(out)
      <4>1. /\ f \in Seq(Nat) /\ l \in Nat /\ Len(f) = Len(out) - 1 /\ out = Append(f, l)
            /\ Len(out) \in Nat \ {0}
        BY <2>2, <3>1, FrontLast
      <4>2. more = Append(f, token)
        BY <2>4, <3>1
      <4> HIDE DEF f, l, more, out, u
      <4>3. PairsOf(out) = PairsOf(f) \cup (IF f = <<>> THEN {} ELSE {<<Last(f), l>>})
        BY <4>1, PairsAppend
      <4>4. PairsOf(more) = PairsOf(f) \cup (IF f = <<>> THEN {} ELSE {<<Last(f), token>>})
        BY <4>1, <4>2, PairsAppend
      <4>5. more \in Seq(Nat) /\ Len(more) = Len(out) /\ Last(more) = token
        BY <4>1, <4>2 DEF Last
      <4>6. more # <<>>
        BY <4>1, <4>5, EmptySeq
      <4>7. pair \notin PairsOf(more)
        <5>1. <<Last(f), token>> # pair
          OBVIOUS
        <5>2. QED
          BY <2>2, <4>3, <4>4, <5>1
      <4>8. \A q \in PairsOf(more) : q \in PairsOf(out) \/ q[2] = token
        BY <4>3, <4>4
      <4>9. Len(more) # Len(u)
        BY <2>2, <2>3, <4>1, <4>5
      <4>10. pair \in PairsOf(u)
        <5>1. CASE l = Last(t)
          BY <2>2, <2>3, <3>1, <5>1 DEF l
        <5>2. CASE l # Last(t)
          <6>1. out # t
            BY <5>2 DEF l
          <6>2. QED
            BY <2>2, <2>3, <6>1
        <5>3. QED
          BY <5>1, <5>2
      <4>11. Len(more) =< Len(u)
        BY <2>2, <2>3, <4>1, <4>5
      <4>12. QED
        BY <2>2, <2>3, <4>5, <4>6, <4>7, <4>8, <4>9, <4>10, <4>11
    <3>2. CASE ~(out # <<>> /\ <<Last(out), v>> = pair)
      <4>1. more = Append(out, v)
        BY <2>4, <3>2
      <4> HIDE DEF more, out, u
      <4>2. PairsOf(more) = PairsOf(out) \cup (IF out = <<>> THEN {} ELSE {<<Last(out), v>>})
        BY <2>2, <4>1, PairsAppend
      <4>3. more \in Seq(Nat) /\ Len(more) = Len(out) + 1 /\ Last(more) = v /\ Len(out) \in Nat
        BY <2>2, <4>1 DEF Last
      <4>4. more # <<>>
        BY <4>3, EmptySeq
      <4>5. pair \notin PairsOf(more)
        BY <2>2, <3>2, <4>2
      <4>6. \A q \in PairsOf(more) : q \in PairsOf(u) \/ q[1] = token \/ q[2] = token
        BY <2>2, <2>3, <4>2
      <4>7. out = t => more = u
        BY <4>1 DEF u
      <4>8. pair \notin PairsOf(u) => more = u
        BY <2>2, <2>3, <4>7
      <4>9. Len(more) =< Len(u) /\ (Len(more) = Len(u) => more = u)
        BY <2>2, <2>3, <4>3, <4>7
      <4>10. QED
        BY <2>3, <4>3, <4>4, <4>5, <4>6, <4>8, <4>9
    <3>3. QED
      BY <3>1, <3>2
  <2>6. Passed(u, pair, token)
    BY <2>3, <2>5 DEF Passed
  <2>7. QED
    BY <2>3, <2>6
<1>3. T = Seq(Nat)
  <2>1. T \in SUBSET Seq(Nat)
    OBVIOUS
  <2> HIDE DEF T
  <2>2. QED
    BY <1>1, <1>2, <2>1, EverySequence
<1>4. QED
  BY <1>3

-------------------------------------------------------------------------------
(* The reference encoder and the spelling of tokens, by their equations        *)

\* A table the constructor accepts.
Table(m) ==
  /\ m \in Seq(Nat \X Nat)
  /\ \A r, q \in DOMAIN m : m[r] = m[q] => r = q
  /\ \A r \in DOMAIN m : m[r][1] < Token(r) /\ m[r][2] < Token(r)

\* Available, Reference and Expand, of any table.
AvailableIn(m, s) == {r \in DOMAIN m : m[r] \in PairsOf(s)}

Lowest(m, v) == CHOOSE r \in AvailableIn(m, v) : \A other \in AvailableIn(m, v) : r <= other

ReferenceBy(m, s) ==
  LET encode[v \in Seq(Nat)] ==
        IF AvailableIn(m, v) = {} THEN v
        ELSE encode[MergePair(v, m[Lowest(m, v)], Token(Lowest(m, v)))]
  IN encode[s]

LEMMA TableTyped ==
  ASSUME NEW m, Table(m), NEW r \in DOMAIN m
  PROVE  /\ r \in Nat \ {0} /\ Token(r) \in Nat /\ Token(r) >= ByteValues
         /\ m[r][1] \in Nat /\ m[r][2] \in Nat /\ m[r] = <<m[r][1], m[r][2]>>
         /\ m[r][1] < Token(r) /\ m[r][2] < Token(r)
<1>1. r \in 1..Len(m) /\ Len(m) \in Nat /\ m[r] \in Nat \X Nat
  BY DEF Table
<1>2. QED
  BY <1>1, PairsAssumption DEF Table, Token

LEMMA LowestIs ==
  ASSUME NEW m, Table(m), NEW v, AvailableIn(m, v) # {}
  PROVE  /\ Lowest(m, v) \in AvailableIn(m, v)
         /\ \A other \in AvailableIn(m, v) : Lowest(m, v) <= other
<1>1. AvailableIn(m, v) \in SUBSET Nat
  BY TableTyped DEF AvailableIn
<1>2. \E r \in AvailableIn(m, v) : \A other \in AvailableIn(m, v) : r <= other
  BY <1>1, LeastExists
<1>3. QED
  BY <1>2 DEF Lowest

\* The text after one pass of the lowest rank.
After(m, v) == MergePair(v, m[Lowest(m, v)], Token(Lowest(m, v)))

\* A pass of a rank that occurs shortens the text: the reference ends.
LEMMA AfterShorter ==
  ASSUME NEW m, Table(m), NEW v \in Seq(Nat), AvailableIn(m, v) # {}
  PROVE  After(m, v) \in Seq(Nat) /\ Len(After(m, v)) < Len(v)
<1> DEFINE r == Lowest(m, v)
           out == MergePair(v, m[r], Token(r))
<1>1. r \in DOMAIN m /\ m[r] \in PairsOf(v)
  BY LowestIs DEF AvailableIn
<1>2. Token(r) \in Nat /\ m[r][2] # Token(r)
  BY <1>1, TableTyped
<1> HIDE DEF r
<1>3. Passed(v, m[r], Token(r))
  BY <1>2, MergePasses
<1>4. out \in Seq(Nat) /\ Len(out) =< Len(v) /\ (Len(out) = Len(v) => out = v) /\ m[r] \notin PairsOf(out)
  BY <1>3 DEF Passed
<1>5. out # v
  BY <1>1, <1>4
<1>6. QED
  BY <1>4, <1>5 DEF After, r

Short(n) == {v \in Seq(Nat) : Len(v) =< n}

Encodes(f, m, n) ==
  f = [v \in Short(n) |-> IF AvailableIn(m, v) = {} THEN v ELSE f[After(m, v)]]

LEMMA EncodesExists ==
  ASSUME NEW m, Table(m)
  PROVE  \A n \in Nat : \E f : Encodes(f, m, n)
<1> DEFINE T == {n \in Nat : \E f : Encodes(f, m, n)}
<1>1. 0 \in T
  <2> DEFINE f == [v \in Short(0) |-> v]
  <2>1. ASSUME NEW v \in Short(0) PROVE AvailableIn(m, v) = {}
    <3>1. v = <<>>
      BY EmptySeq DEF Short
    <3>2. QED
      BY <3>1, PairsNone DEF AvailableIn
  <2>2. f = [v \in Short(0) |-> IF AvailableIn(m, v) = {} THEN v ELSE f[After(m, v)]]
    BY <2>1
  <2> HIDE DEF f
  <2>3. Encodes(f, m, 0)
    BY <2>2 DEF Encodes
  <2>4. QED
    BY <2>3
<1>2. ASSUME NEW n \in T PROVE n + 1 \in T
  <2>1. n \in Nat /\ \E f : Encodes(f, m, n)
    OBVIOUS
  <2>2. PICK f : Encodes(f, m, n)
    BY <2>1
  <2> DEFINE h == [v \in Short(n + 1) |-> IF AvailableIn(m, v) = {} THEN v ELSE f[After(m, v)]]
  <2>3. ASSUME NEW v \in Short(n + 1), AvailableIn(m, v) # {} PROVE h[After(m, v)] = f[After(m, v)]
    <3> DEFINE w == After(m, v)
    <3>1. v \in Seq(Nat) /\ Len(v) =< n + 1 /\ Len(v) \in Nat
      BY DEF Short
    <3>2. w \in Seq(Nat) /\ Len(w) < Len(v)
      BY <2>3, <3>1, AfterShorter
    <3> HIDE DEF w
    <3>3. w \in Short(n) /\ w \in Short(n + 1)
      <4>1. Len(w) \in Nat
        BY <3>2
      <4>2. Len(w) =< n /\ Len(w) =< n + 1
        BY <2>1, <3>1, <3>2, <4>1
      <4>3. QED
        BY <3>2, <4>2 DEF Short
    <3>4. f[w] = IF AvailableIn(m, w) = {} THEN w ELSE f[After(m, w)]
      BY <2>2, <3>3 DEF Encodes
    <3>5. h[w] = f[w]
      BY <3>3, <3>4
    <3>6. QED
      BY <3>5 DEF w
  <2>4. h = [v \in Short(n + 1) |-> IF AvailableIn(m, v) = {} THEN v ELSE h[After(m, v)]]
    BY <2>3
  <2> HIDE DEF h
  <2>5. Encodes(h, m, n + 1)
    BY <2>4 DEF Encodes
  <2>6. QED
    BY <2>1, <2>5
<1>3. T = Nat
  <2>1. T \in SUBSET Nat
    OBVIOUS
  <2> HIDE DEF T
  <2>2. QED
    BY <1>1, <1>2, <2>1, EveryNumber
<1>4. QED
  BY <1>3

LEMMA EncodesUnique ==
  ASSUME NEW m, Table(m), NEW i \in Nat, NEW j \in Nat, NEW f, NEW g,
         Encodes(f, m, i), Encodes(g, m, j)
  PROVE  \A v \in Short(i) \cap Short(j) : f[v] = g[v]
<1> DEFINE D == {v \in Short(i) \cap Short(j) : f[v] # g[v]}
           N == {Len(v) : v \in D}
<1>1. D = {}
  <2>1. SUFFICES ASSUME D # {} PROVE FALSE
    OBVIOUS
  <2>2. N \in SUBSET Nat /\ N # {}
    <3>1. PICK v \in D : TRUE
      BY <2>1
    <3>2. \A x \in D : Len(x) \in Nat
      BY DEF Short
    <3>3. Len(v) \in N
      BY <3>1
    <3>4. \A x \in N : x \in Nat
      BY <3>2
    <3> HIDE DEF N, D
    <3>5. QED
      BY <3>3, <3>4
  <2>3. PICK n \in N : \A x \in N : n =< x
    <3> HIDE DEF N, D
    <3>1. QED
      BY <2>2, LeastExists
  <2>4. PICK v \in D : n = Len(v)
    BY <2>3
  <2>5. v \in Short(i) /\ v \in Short(j) /\ f[v] # g[v] /\ v \in Seq(Nat) /\ Len(v) \in Nat
    BY <2>4 DEF Short
  <2>6. /\ f[v] = IF AvailableIn(m, v) = {} THEN v ELSE f[After(m, v)]
        /\ g[v] = IF AvailableIn(m, v) = {} THEN v ELSE g[After(m, v)]
    BY <2>5 DEF Encodes
  <2>7. AvailableIn(m, v) # {} /\ f[After(m, v)] # g[After(m, v)]
    BY <2>5, <2>6
  <2>8. After(m, v) \in Seq(Nat) /\ Len(After(m, v)) < Len(v)
    BY <2>5, <2>7, AfterShorter
  <2>9. After(m, v) \in Short(i) /\ After(m, v) \in Short(j)
    <3>1. Len(v) =< i /\ Len(v) =< j /\ Len(After(m, v)) \in Nat
      BY <2>5, <2>8 DEF Short
    <3>2. Len(After(m, v)) =< i /\ Len(After(m, v)) =< j
      BY <2>5, <2>8, <3>1
    <3>3. QED
      BY <2>8, <3>2 DEF Short
  <2>10. Len(After(m, v)) \in N
    BY <2>7, <2>9
  <2>11. Len(v) =< Len(After(m, v))
    BY <2>3, <2>4, <2>10
  <2>12. QED
    BY <2>5, <2>8, <2>11
<1>2. QED
  BY <1>1

\* The recursion of _encode_bytes as an equation.
LEMMA ReferenceIs ==
  ASSUME NEW m, Table(m), NEW s \in Seq(Nat)
  PROVE  ReferenceBy(m, s) = IF AvailableIn(m, s) = {} THEN s ELSE ReferenceBy(m, After(m, s))
<1> DEFINE P(f) == f = [v \in Seq(Nat) |-> IF AvailableIn(m, v) = {} THEN v
                          ELSE f[MergePair(v, m[Lowest(m, v)], Token(Lowest(m, v)))]]
<1>1. \E f : P(f)
  <2> DEFINE e(n) == CHOOSE f : Encodes(f, m, n)
             f == [v \in Seq(Nat) |-> e(Len(v))[v]]
  <2>1. \A n \in Nat : Encodes(e(n), m, n)
    BY EncodesExists
  <2> HIDE DEF e
  <2>2. ASSUME NEW v \in Seq(Nat)
        PROVE  f[v] = IF AvailableIn(m, v) = {} THEN v ELSE f[After(m, v)]
    <3> DEFINE n == Len(v)
    <3>1. n \in Nat /\ v \in Short(n) /\ Encodes(e(n), m, n)
      BY <2>1 DEF Short
    <3>2. e(n)[v] = IF AvailableIn(m, v) = {} THEN v ELSE e(n)[After(m, v)]
      BY <3>1 DEF Encodes
    <3>3. CASE AvailableIn(m, v) = {}
      BY <3>2, <3>3
    <3>4. CASE AvailableIn(m, v) # {}
      <4> DEFINE w == After(m, v)
      <4>1. w \in Seq(Nat) /\ Len(w) < Len(v) /\ Len(w) \in Nat
        BY <3>4, AfterShorter
      <4> HIDE DEF w
      <4>2. w \in Short(Len(w)) /\ w \in Short(n) /\ Encodes(e(Len(w)), m, Len(w))
        BY <2>1, <3>1, <4>1 DEF Short
      <4> HIDE DEF n
      <4>3. e(Len(w))[w] = e(n)[w]
        BY <3>1, <4>1, <4>2, EncodesUnique
      <4>4. f[w] = e(n)[w]
        BY <4>1, <4>3
      <4>5. f[v] = e(n)[v]
        BY DEF n
      <4> HIDE DEF f
      <4>6. QED
        BY <3>2, <3>4, <4>4, <4>5 DEF w
    <3>5. QED
      BY <3>3, <3>4
  <2>3. P(f)
    <3>1. f = [v \in Seq(Nat) |-> IF AvailableIn(m, v) = {} THEN v ELSE f[After(m, v)]]
      BY <2>2
    <3> HIDE DEF f
    <3>2. QED
      BY <3>1 DEF After
  <2>4. QED
    <3> HIDE DEF P, f
    <3>1. QED
      BY <2>3
<1>2. P(CHOOSE f : P(f))
  <2> HIDE DEF P
  <2>1. QED
    BY <1>1, Zenon
<1> DEFINE chosen == CHOOSE f : P(f)
<1>3. chosen = [v \in Seq(Nat) |-> IF AvailableIn(m, v) = {} THEN v ELSE chosen[After(m, v)]]
  BY <1>2 DEF After
<1>4. \A v : ReferenceBy(m, v) = chosen[v]
  BY Zenon DEF ReferenceBy
<1> HIDE DEF chosen
<1>5. chosen[s] = IF AvailableIn(m, s) = {} THEN s ELSE chosen[After(m, s)]
  BY <1>3
<1>6. QED
  BY <1>4, <1>5

LEMMA ReferenceOf == \A s : Reference(s) = ReferenceBy(merges, s) /\ Available(s) = AvailableIn(merges, s)
  BY Zenon DEF Reference, ReferenceBy, Available, AvailableIn, Lowest

-------------------------------------------------------------------------------
(* What tokens spell                                                          *)

Tokens(m) == 0..Token(Len(m))

\* What decode_bytes says of the tokens up to n.
Spells(g, m, n) ==
  g = [v \in 0..n |-> IF v < ByteValues THEN <<v>>
                      ELSE g[m[v - ByteValues + 1][1]] \o g[m[v - ByteValues + 1][2]]]

Spelling(m) == CHOOSE g : Spells(g, m, Token(Len(m)))

ExpandBy(m, s) == FlattenSeq([i \in DOMAIN s |-> Spelling(m)[s[i]]])

LEMMA SpellsExists ==
  ASSUME NEW m, Table(m)
  PROVE  \A n \in Tokens(m) : \E g : Spells(g, m, n)
<1> DEFINE T == {n \in Nat : n \in Tokens(m) => \E g : Spells(g, m, n)}
<1>0. ByteValues \in Nat \ {0} /\ Len(m) \in Nat /\ DOMAIN m = 1..Len(m)
  BY PairsAssumption DEF Table
<1>1. 0 \in T
  <2> DEFINE g == [v \in 0..0 |-> <<v>>]
  <2>1. g = [v \in 0..0 |-> IF v < ByteValues THEN <<v>>
                      ELSE g[m[v - ByteValues + 1][1]] \o g[m[v - ByteValues + 1][2]]]
    <3> DEFINE longer(f, v) == f[m[v - ByteValues + 1][1]] \o f[m[v - ByteValues + 1][2]]
    <3>1. \A v \in 0..0 : v < ByteValues
      BY <1>0
    <3> HIDE DEF longer
    <3>2. g = [v \in 0..0 |-> IF v < ByteValues THEN <<v>> ELSE longer(g, v)]
      BY <3>1
    <3>3. QED
      BY <3>2 DEF longer
  <2> HIDE DEF g
  <2>2. Spells(g, m, 0)
    BY <2>1 DEF Spells
  <2>3. QED
    BY <2>2
<1>2. ASSUME NEW n \in T PROVE n + 1 \in T
  <2>1. SUFFICES ASSUME n + 1 \in Tokens(m) PROVE \E g : Spells(g, m, n + 1)
    OBVIOUS
  <2>2. n \in Nat /\ n + 1 =< Token(Len(m)) /\ Token(Len(m)) \in Nat
    BY <1>0, <2>1 DEF Tokens, Token
  <2>3. n \in Tokens(m)
    BY <2>2 DEF Tokens
  <2>4. PICK g : Spells(g, m, n)
    BY <2>3
  <2> DEFINE left(v) == m[v - ByteValues + 1][1]
             right(v) == m[v - ByteValues + 1][2]
             h == [v \in 0..(n + 1) |-> IF v < ByteValues THEN <<v>> ELSE g[left(v)] \o g[right(v)]]
  <2>5. ASSUME NEW v \in 0..(n + 1), ~(v < ByteValues)
        PROVE  left(v) \in 0..n /\ right(v) \in 0..n
    <3>1. v - ByteValues + 1 \in DOMAIN m /\ Token(v - ByteValues + 1) = v
      BY <1>0, <2>2, <2>5 DEF Token
    <3>2. left(v) \in Nat /\ right(v) \in Nat /\ left(v) < v /\ right(v) < v
      BY <3>1, TableTyped
    <3> HIDE DEF left, right
    <3>3. QED
      BY <2>2, <3>2
  <2>6. ASSUME NEW w \in 0..n PROVE h[w] = g[w]
    <3>1. g[w] = IF w < ByteValues THEN <<w>> ELSE g[left(w)] \o g[right(w)]
      BY <2>4 DEF Spells
    <3>2. w \in 0..(n + 1)
      BY <2>2
    <3> HIDE DEF left, right
    <3>3. QED
      BY <3>1, <3>2
  <2>7. h = [v \in 0..(n + 1) |-> IF v < ByteValues THEN <<v>> ELSE h[left(v)] \o h[right(v)]]
    <3> HIDE DEF left, right
    <3>1. QED
      BY <2>5, <2>6
  <2> HIDE DEF h
  <2>8. Spells(h, m, n + 1)
    BY <2>7 DEF Spells
  <2>9. QED
    BY <2>8
<1>3. T = Nat
  <2>1. T \in SUBSET Nat
    OBVIOUS
  <2> HIDE DEF T
  <2>2. QED
    BY <1>1, <1>2, <2>1, EveryNumber
<1>4. Tokens(m) \subseteq Nat
  BY <1>0 DEF Tokens, Token
<1>5. QED
  BY <1>3, <1>4

LEMMA SpellingIs ==
  ASSUME NEW m, Table(m)
  PROVE  /\ \A v \in Tokens(m) : v < ByteValues => Spelling(m)[v] = <<v>>
         /\ \A r \in DOMAIN m :
              /\ Token(r) \in Tokens(m) /\ m[r][1] \in Tokens(m) /\ m[r][2] \in Tokens(m)
              /\ Spelling(m)[Token(r)] = Spelling(m)[m[r][1]] \o Spelling(m)[m[r][2]]
<1> DEFINE g == Spelling(m)
<1>0. ByteValues \in Nat \ {0} /\ Len(m) \in Nat /\ DOMAIN m = 1..Len(m) /\ Token(Len(m)) \in Nat
  BY PairsAssumption DEF Table, Token
<1>1. Spells(g, m, Token(Len(m)))
  <2>1. Token(Len(m)) \in Tokens(m)
    BY <1>0 DEF Tokens
  <2>2. \E f : Spells(f, m, Token(Len(m)))
    BY <2>1, SpellsExists
  <2>3. QED
    BY <2>2 DEF Spelling
<1> HIDE DEF g
<1>2. \A v \in Tokens(m) : g[v] = IF v < ByteValues THEN <<v>>
                      ELSE g[m[v - ByteValues + 1][1]] \o g[m[v - ByteValues + 1][2]]
  BY <1>1 DEF Spells, Tokens
<1>3. ASSUME NEW r \in DOMAIN m
      PROVE  /\ Token(r) \in Tokens(m) /\ m[r][1] \in Tokens(m) /\ m[r][2] \in Tokens(m)
             /\ g[Token(r)] = g[m[r][1]] \o g[m[r][2]]
  <2>1. /\ r \in Nat \ {0} /\ r =< Len(m) /\ m[r][1] \in Nat /\ m[r][2] \in Nat
        /\ m[r][1] < Token(r) /\ m[r][2] < Token(r)
    BY <1>0, TableTyped
  <2>2. Token(r) \in Nat /\ Token(r) =< Token(Len(m)) /\ ~(Token(r) < ByteValues)
        /\ Token(r) - ByteValues + 1 = r
    BY <1>0, <2>1 DEF Token
  <2>3. Token(r) \in Tokens(m) /\ m[r][1] \in Tokens(m) /\ m[r][2] \in Tokens(m)
    BY <1>0, <2>1, <2>2 DEF Tokens
  <2>4. QED
    BY <1>2, <2>2, <2>3
<1>4. QED
  BY <1>2, <1>3 DEF g

LEMMA SpellingTyped ==
  ASSUME NEW m, Table(m)
  PROVE  \A v \in Tokens(m) : Spelling(m)[v] \in Seq(Nat)
<1> DEFINE D == {v \in Tokens(m) : Spelling(m)[v] \notin Seq(Nat)}
<1>1. D = {}
  <2>1. SUFFICES ASSUME D # {} PROVE FALSE
    OBVIOUS
  <2>0. ByteValues \in Nat \ {0} /\ Len(m) \in Nat /\ DOMAIN m = 1..Len(m)
    BY PairsAssumption DEF Table
  <2>2. D \in SUBSET Nat
    BY <2>0 DEF Tokens, Token
  <2>3. PICK v \in D : \A x \in D : v =< x
    <3> HIDE DEF D
    <3>1. QED
      BY <2>1, <2>2, LeastExists
  <2>4. v \in Tokens(m) /\ Spelling(m)[v] \notin Seq(Nat) /\ v \in Nat
    BY <2>2
  <2>5. ~(v < ByteValues)
    <3>1. <<v>> \in Seq(Nat)
      BY <2>4
    <3>2. QED
      BY <2>4, <3>1, SpellingIs
  <2>6. PICK r \in DOMAIN m : v = Token(r)
    <3>1. v - ByteValues + 1 \in DOMAIN m /\ v = Token(v - ByteValues + 1)
      BY <2>0, <2>4, <2>5 DEF Token, Tokens
    <3>2. QED
      BY <3>1
  <2>7. /\ m[r][1] \in Tokens(m) /\ m[r][2] \in Tokens(m)
        /\ Spelling(m)[v] = Spelling(m)[m[r][1]] \o Spelling(m)[m[r][2]]
    BY <2>6, SpellingIs
  <2>8. m[r][1] \in Nat /\ m[r][2] \in Nat /\ m[r][1] < v /\ m[r][2] < v
    BY <2>6, TableTyped
  <2>9. m[r][1] \notin D /\ m[r][2] \notin D
    BY <2>3, <2>4, <2>8
  <2>10. Spelling(m)[m[r][1]] \in Seq(Nat) /\ Spelling(m)[m[r][2]] \in Seq(Nat)
    BY <2>7, <2>9
  <2>11. QED
    BY <2>4, <2>7, <2>10, ConcatProperties
<1>2. QED
  BY <1>1

LEMMA ExpandNone == ASSUME NEW m PROVE ExpandBy(m, <<>>) = <<>>
<1>1. [i \in DOMAIN <<>> |-> Spelling(m)[<<>>[i]]] = <<>>
  OBVIOUS
<1>2. QED
  BY <1>1, FlattenNothing DEF ExpandBy

LEMMA ExpandAppend ==
  ASSUME NEW m, Table(m), NEW s \in Seq(Tokens(m)), NEW v \in Tokens(m)
  PROVE  /\ ExpandBy(m, s) \in Seq(Nat)
         /\ ExpandBy(m, Append(s, v)) = ExpandBy(m, s) \o Spelling(m)[v]
<1> DEFINE g == Spelling(m)
           D == Tokens(m)
           f == [i \in DOMAIN s |-> g[s[i]]]
           t == Append(s, v)
           h == [i \in DOMAIN t |-> g[t[i]]]
           P == Seq(Nat)
<1>1. \A x \in D : g[x] \in P
  BY SpellingTyped
<1> HIDE DEF g, D, P
<1>2. s \in Seq(D) /\ v \in D
  BY DEF D
<1>3. f \in Seq(P) /\ g[v] \in P
  BY <1>1, <1>2
<1>4. h = Append(f, g[v])
  <2>1. t \in Seq(D) /\ Len(t) = Len(s) + 1 /\ Len(s) \in Nat
    BY <1>2
  <2>2. h \in Seq(P) /\ Len(h) = Len(s) + 1
    BY <1>1, <2>1
  <2>3. Append(f, g[v]) \in Seq(P) /\ Len(Append(f, g[v])) = Len(s) + 1
    BY <1>3, <2>1
  <2>4. \A i \in 1..(Len(s) + 1) : h[i] = Append(f, g[v])[i]
    BY <1>2, <1>3, <2>1
  <2> HIDE DEF h, f
  <2>5. QED
    BY <2>1, <2>2, <2>3, <2>4, SeqEqual
<1>5. FlattenSeq(h) = FlattenSeq(f) \o g[v] /\ FlattenSeq(f) \in Seq(Nat)
  <2> HIDE DEF h, f
  <2>1. QED
    BY <1>3, <1>4, FlattenAppend, FlattenType DEF P
<1>6. QED
  BY <1>5 DEF ExpandBy, g

LEMMA ExpandOf == \A s : Expand(s) = ExpandBy(merges, s)
  BY Zenon DEF Expand, ExpandBy, Spelling, Spells

-------------------------------------------------------------------------------
(* One pair joined, and the rest of the text as before                         *)

LEMMA MergeSameStep ==
  ASSUME NEW x \in Seq(Nat), NEW y \in Seq(Nat), NEW v \in Nat, NEW pair, NEW token \in Nat
  PROVE  MergePair(x, pair, token) = MergePair(y, pair, token)
         => MergePair(Append(x, v), pair, token) = MergePair(Append(y, v), pair, token)
<1>1. MergePair(Append(x, v), pair, token)
        = Glued([pair |-> pair, token |-> token], MergePair(x, pair, token), v)
  BY MergeAppend
<1>2. MergePair(Append(y, v), pair, token)
        = Glued([pair |-> pair, token |-> token], MergePair(y, pair, token), v)
  BY MergeAppend
<1>3. QED
  BY <1>1, <1>2

\* Two beginnings of which a pass makes the same, and which spell the same.
LEMMA MergeSame ==
  ASSUME NEW x \in Seq(Nat), NEW y \in Seq(Nat), NEW pair, NEW token \in Nat,
         MergePair(x, pair, token) = MergePair(y, pair, token)
  PROVE  \A w \in Seq(Nat) : MergePair(x \o w, pair, token) = MergePair(y \o w, pair, token)
<1> DEFINE T == {w \in Seq(Nat) : MergePair(x \o w, pair, token) = MergePair(y \o w, pair, token)}
<1>1. <<>> \in T
  BY ConcatEmptySeq, EmptySeq
<1>2. ASSUME NEW w \in T, NEW v \in Nat PROVE Append(w, v) \in T
  <2>1. w \in Seq(Nat) /\ MergePair(x \o w, pair, token) = MergePair(y \o w, pair, token)
    OBVIOUS
  <2>2. /\ x \o Append(w, v) = Append(x \o w, v) /\ y \o Append(w, v) = Append(y \o w, v)
        /\ x \o w \in Seq(Nat) /\ y \o w \in Seq(Nat) /\ Append(w, v) \in Seq(Nat)
    <3> HIDE DEF T
    <3>1. w \in Seq(Nat)
      BY <2>1
    <3>2. x \o Append(w, v) = Append(x \o w, v)
      BY <3>1, ConcatAppend
    <3>3. y \o Append(w, v) = Append(y \o w, v)
      BY <3>1, ConcatAppend
    <3>4. x \o w \in Seq(Nat) /\ y \o w \in Seq(Nat)
      BY <3>1, ConcatProperties
    <3>5. QED
      BY <3>1, <3>2, <3>3, <3>4
  <2>3. MergePair(Append(x \o w, v), pair, token) = MergePair(Append(y \o w, v), pair, token)
    <3> DEFINE xw == x \o w
               yw == y \o w
    <3>1. xw \in Seq(Nat) /\ yw \in Seq(Nat)
      BY <2>2
    <3>0. MergePair(xw, pair, token) = MergePair(yw, pair, token)
      BY <2>1
    <3> HIDE DEF xw, yw, T
    <3>4. MergePair(Append(xw, v), pair, token) = MergePair(Append(yw, v), pair, token)
      BY <3>0, <3>1, MergeSameStep
    <3>5. QED
      BY <3>4 DEF xw, yw
  <2>4. QED
    BY <2>2, <2>3
<1>3. T = Seq(Nat)
  <2>1. T \in SUBSET Seq(Nat)
    OBVIOUS
  <2> HIDE DEF T
  <2>2. QED
    BY <1>1, <1>2, <2>1, EverySequence
<1>4. QED
  BY <1>3

LEMMA ExpandSame ==
  ASSUME NEW m, Table(m), NEW x \in Seq(Tokens(m)), NEW y \in Seq(Tokens(m)),
         ExpandBy(m, x) = ExpandBy(m, y)
  PROVE  \A w \in Seq(Tokens(m)) : ExpandBy(m, x \o w) = ExpandBy(m, y \o w)
<1> DEFINE D == Tokens(m)
           T == {w \in Seq(D) : ExpandBy(m, x \o w) = ExpandBy(m, y \o w)}
<1>1. <<>> \in T
  BY ConcatEmptySeq, EmptySeq
<1>2. ASSUME NEW w \in T, NEW v \in D PROVE Append(w, v) \in T
  <2>1. w \in Seq(D) /\ ExpandBy(m, x \o w) = ExpandBy(m, y \o w)
    OBVIOUS
  <2> HIDE DEF T
  <2>2. /\ x \o Append(w, v) = Append(x \o w, v) /\ y \o Append(w, v) = Append(y \o w, v)
        /\ x \o w \in Seq(D) /\ y \o w \in Seq(D) /\ Append(w, v) \in Seq(D)
    BY <2>1, ConcatAppend, ConcatProperties
  <2>3. ExpandBy(m, Append(x \o w, v)) = ExpandBy(m, Append(y \o w, v))
    <3>1. ExpandBy(m, Append(x \o w, v)) = ExpandBy(m, x \o w) \o Spelling(m)[v]
      BY <2>2, ExpandAppend
    <3>2. ExpandBy(m, Append(y \o w, v)) = ExpandBy(m, y \o w) \o Spelling(m)[v]
      BY <2>2, ExpandAppend
    <3>3. QED
      BY <2>1, <3>1, <3>2
  <2>4. QED
    BY <2>1, <2>2, <2>3 DEF T
<1>3. T = Seq(D)
  <2>1. T \in SUBSET Seq(D)
    OBVIOUS
  <2> HIDE DEF T, D
  <2>2. QED
    BY <1>1, <1>2, <2>1, EverySequence
<1>4. QED
  BY <1>3

\* A text with a pair somewhere, and the same with the pair joined there.
LEMMA PairsJoinedText ==
  ASSUME NEW u \in Seq(Nat), NEW a \in Nat, NEW b \in Nat, NEW token \in Nat
  PROVE  \A w \in Seq(Nat) : \A q \in PairsOf(Append(u, token) \o w) :
           q \in PairsOf(Append(Append(u, a), b) \o w) \/ q[1] = token \/ q[2] = token
<1> DEFINE x == Append(u, token)
           y == Append(Append(u, a), b)
           Like(w) == /\ \A q \in PairsOf(x \o w) : q \in PairsOf(y \o w) \/ q[1] = token \/ q[2] = token
                      /\ x \o w # <<>> /\ y \o w # <<>>
                      /\ Last(x \o w) = token \/ Last(x \o w) = Last(y \o w)
           T == {w \in Seq(Nat) : Like(w)}
<1>0. /\ x \in Seq(Nat) /\ y \in Seq(Nat) /\ x # <<>> /\ y # <<>> /\ Last(x) = token
      /\ x \o <<>> = x /\ y \o <<>> = y
  <2>1. Append(u, a) \in Seq(Nat) /\ Len(Append(u, a)) \in Nat
    OBVIOUS
  <2>2. x \in Seq(Nat) /\ y \in Seq(Nat) /\ Len(x) = Len(u) + 1 /\ Len(y) = Len(Append(u, a)) + 1
    OBVIOUS
  <2>3. x # <<>> /\ y # <<>> /\ Last(x) = token
    BY <2>1, <2>2, EmptySeq DEF Last
  <2>4. QED
    BY <2>2, <2>3, ConcatEmptySeq
<1>1. <<>> \in T
  <2>1. PairsOf(x) = PairsOf(u) \cup (IF u = <<>> THEN {} ELSE {<<Last(u), token>>})
    BY PairsAppend
  <2>2. PairsOf(u) \subseteq PairsOf(y)
    <3> DEFINE ua == Append(u, a)
    <3>1. PairsOf(u) \subseteq PairsOf(ua) /\ ua \in Seq(Nat)
      BY PairsAppend
    <3> HIDE DEF ua
    <3>2. PairsOf(ua) \subseteq PairsOf(Append(ua, b))
      BY <3>1, PairsAppend
    <3>3. QED
      BY <3>1, <3>2 DEF ua
  <2> HIDE DEF x, y
  <2>3. Like(<<>>)
    BY <1>0, <2>1, <2>2
  <2> HIDE DEF Like
  <2>4. QED
    BY <2>3, EmptySeq
<1> HIDE DEF x, y
<1>2. ASSUME NEW w \in T, NEW v \in Nat PROVE Append(w, v) \in T
  <2>1. w \in Seq(Nat) /\ Like(w)
    OBVIOUS
  <2>2. /\ x \o Append(w, v) = Append(x \o w, v) /\ y \o Append(w, v) = Append(y \o w, v)
        /\ x \o w \in Seq(Nat) /\ y \o w \in Seq(Nat) /\ Append(w, v) \in Seq(Nat)
    <3> HIDE DEF Like, T
    <3>1. w \in Seq(Nat) /\ x \in Seq(Nat) /\ y \in Seq(Nat)
      BY <1>0, <2>1
    <3>2. x \o Append(w, v) = Append(x \o w, v)
      BY <3>1, ConcatAppend
    <3>3. y \o Append(w, v) = Append(y \o w, v)
      BY <3>1, ConcatAppend
    <3>4. x \o w \in Seq(Nat) /\ y \o w \in Seq(Nat)
      BY <3>1, ConcatProperties
    <3>5. QED
      BY <3>1, <3>2, <3>3, <3>4
  <2> DEFINE xw == x \o w
             yw == y \o w
  <2>a. xw \in Seq(Nat) /\ yw \in Seq(Nat) /\ xw # <<>> /\ yw # <<>>
    BY <2>1, <2>2
  <2>3. /\ PairsOf(Append(xw, v)) = PairsOf(xw) \cup {<<Last(xw), v>>}
        /\ PairsOf(Append(yw, v)) = PairsOf(yw) \cup {<<Last(yw), v>>}
    <3> HIDE DEF xw, yw, T, Like
    <3>1. QED
      BY <2>a, PairsAppend
  <2>4. /\ Append(xw, v) # <<>> /\ Append(yw, v) # <<>>
        /\ Last(Append(xw, v)) = v /\ Last(Append(yw, v)) = v
    <3> HIDE DEF xw, yw, T, Like
    <3>1. QED
      BY <2>a, LastAppended
  <2>5. Like(Append(w, v))
    <3>1. \A q \in PairsOf(xw) : q \in PairsOf(yw) \/ q[1] = token \/ q[2] = token
      BY <2>1
    <3>2. Last(xw) = token \/ Last(xw) = Last(yw)
      BY <2>1
    <3> HIDE DEF xw, yw
    <3>3. \A q \in PairsOf(Append(xw, v)) : q \in PairsOf(Append(yw, v)) \/ q[1] = token \/ q[2] = token
      BY <2>3, <3>1, <3>2
    <3>4. x \o Append(w, v) = Append(xw, v) /\ y \o Append(w, v) = Append(yw, v)
      BY <2>2 DEF xw, yw
    <3>5. QED
      BY <2>4, <3>3, <3>4
  <2> HIDE DEF Like
  <2>6. QED
    BY <2>2, <2>5
<1>3. T = Seq(Nat)
  <2>1. T \in SUBSET Seq(Nat)
    OBVIOUS
  <2> HIDE DEF T
  <2>2. QED
    BY <1>1, <1>2, <2>1, EverySequence
<1>4. \A w \in Seq(Nat) : Like(w)
  <2> HIDE DEF Like
  <2>1. QED
    BY <1>3
<1>5. QED
  BY <1>4 DEF x, y

\* Joined at its first place, or left to the pass: the pass gives the same.
LEMMA MergeFirst ==
  ASSUME NEW u \in Seq(Nat), NEW a \in Nat, NEW b \in Nat, NEW token \in Nat, token # b,
         <<a, b>> \notin PairsOf(Append(u, a))
  PROVE  MergePair(Append(Append(u, a), b), <<a, b>>, token) = MergePair(Append(u, token), <<a, b>>, token)
<1> DEFINE pair == <<a, b>>
           c == [pair |-> pair, token |-> token]
           x == Append(u, a)
<1>1. x \in Seq(Nat) /\ x # <<>> /\ Last(x) = a /\ Front(x) = u
  BY LastAppended
<1>2. pair \notin PairsOf(u)
  BY PairsAppend
<1>3. pair[2] # token
  OBVIOUS
<1> HIDE DEF pair, x
<1>4. MergePair(x, pair, token) = x /\ MergePair(u, pair, token) = u
  <2>1. Passed(x, pair, token) /\ Passed(u, pair, token)
    BY <1>1, <1>3, MergePasses
  <2>2. QED
    BY <1>2, <2>1 DEF Passed, x, pair
<1>5. MergePair(Append(x, b), pair, token) = Glued(c, x, b)
  BY <1>1, <1>4, MergeAppend
<1>6. MergePair(Append(u, token), pair, token) = Glued(c, u, token)
  BY <1>4, MergeAppend
<1>7. Glued(c, x, b) = Append(u, token)
  <2>1. <<Last(x), b>> = pair
    BY <1>1 DEF pair
  <2>2. QED
    BY <1>1, <2>1 DEF Glued
<1>8. Glued(c, u, token) = Append(u, token)
  <2>1. <<Last(u), token>> # pair
    BY DEF pair
  <2>2. QED
    BY <2>1 DEF Glued
<1>9. QED
  BY <1>5, <1>6, <1>7, <1>8 DEF x, pair

\* The first place of the lowest rank joined: the reference goes the same way.
\* The lowest pair with a rank, met first between u and w, joined there.
JoinIn(m, r, u, a, b, w, s, t) ==
  /\ r \in DOMAIN m /\ u \in Seq(Nat) /\ w \in Seq(Nat) /\ a \in Nat /\ b \in Nat
  /\ m[r] = <<a, b>> /\ m[r] \notin PairsOf(Append(u, a))
  /\ s = Append(Append(u, a), b) \o w /\ t = Append(u, Token(r)) \o w
  /\ r \in AvailableIn(m, s) /\ \A q \in AvailableIn(m, s) : r =< q

\* So the text with that pair joined has the same reference encoding.
LEMMA ReferenceJoined ==
  ASSUME NEW m, Table(m), NEW r, NEW u, NEW w, NEW a, NEW b, NEW s, NEW t, JoinIn(m, r, u, a, b, w, s, t)
  PROVE  ReferenceBy(m, s) = ReferenceBy(m, t)
<1> SUFFICES ASSUME r \in DOMAIN m, u \in Seq(Nat), w \in Seq(Nat), a \in Nat, b \in Nat,
                    m[r] = <<a, b>>, m[r] \notin PairsOf(Append(u, a)),
                    s = Append(Append(u, a), b) \o w, t = Append(u, Token(r)) \o w,
                    r \in AvailableIn(m, s), \A q \in AvailableIn(m, s) : r =< q
             PROVE  ReferenceBy(m, s) = ReferenceBy(m, t)
  BY DEF JoinIn
<1> DEFINE token == Token(r)
           pair == m[r]
<1>1. token \in Nat /\ a # token /\ b # token /\ r \in Nat /\ pair[2] # token
  BY TableTyped
<1>2. Append(Append(u, a), b) \in Seq(Nat) /\ Append(u, token) \in Seq(Nat)
  <2>1. Append(u, a) \in Seq(Nat)
    OBVIOUS
  <2>2. QED
    BY <1>1, <2>1
<1> HIDE DEF token
<1>3. s \in Seq(Nat) /\ t \in Seq(Nat)
  BY <1>2, ConcatProperties DEF token
<1>4. MergePair(s, pair, token) = MergePair(t, pair, token)
  <2>1. MergePair(Append(Append(u, a), b), pair, token) = MergePair(Append(u, token), pair, token)
    BY <1>1, MergeFirst
  <2> DEFINE x == Append(Append(u, a), b)
             y == Append(u, token)
  <2>2. x \in Seq(Nat) /\ y \in Seq(Nat) /\ MergePair(x, pair, token) = MergePair(y, pair, token)
    BY <1>2, <2>1
  <2>3. s = x \o w /\ t = y \o w
    BY DEF token
  <2> HIDE DEF x, y, pair
  <2>4. MergePair(x \o w, pair, token) = MergePair(y \o w, pair, token)
    BY <1>1, <2>2, MergeSame
  <2>5. QED
    BY <2>3, <2>4
<1>5. \A q \in AvailableIn(m, t) : r =< q
  <2>1. TAKE q \in AvailableIn(m, t)
  <2>2. q \in DOMAIN m /\ m[q] \in PairsOf(t) /\ q \in Nat
    BY TableTyped DEF AvailableIn
  <2>3. m[q] \in PairsOf(s) \/ m[q][1] = token \/ m[q][2] = token
    BY <1>1, <2>2, PairsJoinedText DEF token
  <2>4. CASE m[q] \in PairsOf(s)
    BY <2>2, <2>4 DEF AvailableIn
  <2>5. CASE m[q][1] = token \/ m[q][2] = token
    <3>1. m[q][1] < Token(q) /\ m[q][2] < Token(q) /\ Token(q) \in Nat
      BY <2>2, TableTyped
    <3>2. Token(r) < Token(q)
      BY <2>5, <3>1 DEF token
    <3>3. ByteValues \in Nat
      BY PairsAssumption
    <3>4. QED
      BY <1>1, <2>2, <3>2, <3>3 DEF Token
  <2>6. QED
    BY <2>3, <2>4, <2>5
<1>6. Lowest(m, s) = r
  <2>1. Lowest(m, s) \in AvailableIn(m, s) /\ Lowest(m, s) =< r
    BY LowestIs
  <2>2. r =< Lowest(m, s) /\ Lowest(m, s) \in Nat
    BY <2>1, TableTyped DEF AvailableIn
  <2>3. QED
    BY <1>1, <2>1, <2>2
<1>7. ReferenceBy(m, s) = ReferenceBy(m, MergePair(s, pair, token))
  <2>1. AvailableIn(m, s) # {}
    OBVIOUS
  <2>2. After(m, s) = MergePair(s, pair, token)
    BY <1>6 DEF After, token
  <2> HIDE DEF pair
  <2>3. QED
    BY <1>3, <2>1, <2>2, ReferenceIs
<1>8. CASE r \in AvailableIn(m, t)
  <2>1. Lowest(m, t) = r
    <3>1. Lowest(m, t) \in AvailableIn(m, t) /\ Lowest(m, t) =< r
      BY <1>8, LowestIs
    <3>2. r =< Lowest(m, t) /\ Lowest(m, t) \in Nat
      BY <1>5, <3>1, TableTyped DEF AvailableIn
    <3>3. QED
      BY <1>1, <3>1, <3>2
  <2>2. AvailableIn(m, t) # {} /\ After(m, t) = MergePair(t, pair, token)
    BY <1>8, <2>1 DEF After, token
  <2>3. ReferenceBy(m, t) = ReferenceBy(m, MergePair(t, pair, token))
    <3> HIDE DEF pair
    <3>1. QED
      BY <1>3, <2>2, ReferenceIs
  <2>4. QED
    BY <1>4, <1>7, <2>3
<1>9. CASE r \notin AvailableIn(m, t)
  <2>1. pair \notin PairsOf(t)
    BY <1>9 DEF AvailableIn
  <2>2. MergePair(t, pair, token) = t
    <3> HIDE DEF pair
    <3>1. Passed(t, pair, token)
      BY <1>1, <1>3, MergePasses
    <3>2. QED
      BY <2>1, <3>1 DEF Passed
  <2>3. QED
    BY <1>4, <1>7, <2>2
<1>10. QED
  BY <1>8, <1>9

\* And it spells the same bytes.
LEMMA ExpandJoined ==
  ASSUME NEW m, Table(m), NEW r \in DOMAIN m, NEW u \in Seq(Tokens(m)), NEW w \in Seq(Tokens(m)),
         NEW a \in Tokens(m), NEW b \in Tokens(m), m[r] = <<a, b>>
  PROVE  ExpandBy(m, Append(Append(u, a), b) \o w) = ExpandBy(m, Append(u, Token(r)) \o w)
<1> DEFINE D == Tokens(m)
           g == Spelling(m)
           token == Token(r)
<1>1. token \in D /\ g[token] = g[a] \o g[b] /\ g[a] \in Seq(Nat) /\ g[b] \in Seq(Nat)
  <2>0. m[r][1] = a /\ m[r][2] = b
    OBVIOUS
  <2>1. token \in D /\ g[token] = g[m[r][1]] \o g[m[r][2]]
    BY SpellingIs, Zenon
  <2>2. g[a] \in Seq(Nat) /\ g[b] \in Seq(Nat)
    BY SpellingTyped
  <2>3. QED
    BY <2>0, <2>1, <2>2
<1>2. Append(u, a) \in Seq(D) /\ Append(Append(u, a), b) \in Seq(D) /\ Append(u, token) \in Seq(D)
  <2> HIDE DEF D
  <2>1. u \in Seq(D) /\ a \in D /\ b \in D
    BY DEF D
  <2>2. QED
    BY <1>1, <2>1
<1>3. ExpandBy(m, Append(Append(u, a), b)) = ExpandBy(m, Append(u, token))
  <2>1. ExpandBy(m, Append(u, token)) = ExpandBy(m, u) \o g[token] /\ ExpandBy(m, u) \in Seq(Nat)
    BY <1>1, ExpandAppend
  <2>2. ExpandBy(m, Append(u, a)) = ExpandBy(m, u) \o g[a]
    BY ExpandAppend
  <2>3. ExpandBy(m, Append(Append(u, a), b)) = ExpandBy(m, Append(u, a)) \o g[b]
    BY <1>2, ExpandAppend
  <2>4. (ExpandBy(m, u) \o g[a]) \o g[b] = ExpandBy(m, u) \o (g[a] \o g[b])
    <3> DEFINE e == ExpandBy(m, u)
               ga == g[a]
               gb == g[b]
    <3>1. e \in Seq(Nat) /\ ga \in Seq(Nat) /\ gb \in Seq(Nat)
      BY <1>1, <2>1
    <3> HIDE DEF e, ga, gb
    <3>2. (e \o ga) \o gb = e \o (ga \o gb)
      BY <3>1, ConcatAssociative
    <3>3. QED
      BY <3>2 DEF e, ga, gb
  <2>5. QED
    BY <1>1, <2>1, <2>2, <2>3, <2>4
<1>4. QED
  BY <1>2, <1>3, ExpandSame

-------------------------------------------------------------------------------
(* What the reference makes of a text, and of it once there is one more merge  *)

LEMMA MergeTyped ==
  ASSUME NEW S \in SUBSET Nat, NEW pair, NEW token \in S
  PROVE  \A s \in Seq(S) : MergePair(s, pair, token) \in Seq(S)
<1> DEFINE T == {s \in Seq(S) : MergePair(s, pair, token) \in Seq(S)}
<1>1. <<>> \in T
  BY MergeNone, EmptySeq
<1>2. ASSUME NEW s \in T, NEW v \in S PROVE Append(s, v) \in T
  <2> DEFINE out == MergePair(s, pair, token)
  <2>1. s \in Seq(S) /\ out \in Seq(S)
    OBVIOUS
  <2>2. Append(s, v) \in Seq(S)
    BY <2>1
  <2>3. MergePair(Append(s, v), pair, token) = Glued([pair |-> pair, token |-> token], out, v)
    <3>1. \A q, k : MergePair(Append(s, v), q, k) = Glued([pair |-> q, token |-> k], MergePair(s, q, k), v)
      <4>1. TAKE q, k
      <4> HIDE DEF T
      <4>2. s \in Seq(S)
        BY <2>1
      <4>3. QED
        BY <4>2, MergeAppend
    <3>2. QED
      BY <3>1
  <2> HIDE DEF T, out
  <2>4. out # <<>> => Front(out) \in Seq(S)
    BY <2>1, FrontLast
  <2>5. Glued([pair |-> pair, token |-> token], out, v) \in Seq(S)
    <3>1. Append(out, v) \in Seq(S)
      BY <2>1
    <3>2. out # <<>> => Append(Front(out), token) \in Seq(S)
      BY <2>4
    <3>3. QED
      BY <3>1, <3>2 DEF Glued
  <2>6. QED
    BY <2>2, <2>3, <2>5 DEF T
<1>3. T = Seq(S)
  <2>1. T \in SUBSET Seq(S)
    OBVIOUS
  <2> HIDE DEF T
  <2>2. QED
    BY <1>1, <1>2, <2>1, EverySequence
<1>4. QED
  BY <1>3

\* A set of texts that the lowest rank's merge does not leave has every text.
LEMMA EveryText ==
  ASSUME NEW m, Table(m), NEW T \in SUBSET Seq(Nat),
         ASSUME NEW v \in Seq(Nat), AvailableIn(m, v) = {} \/ After(m, v) \in T PROVE v \in T
  PROVE  T = Seq(Nat)
<1> DEFINE D == Seq(Nat) \ T
           N == {Len(v) : v \in D}
<1>1. D = {}
  <2>1. SUFFICES ASSUME D # {} PROVE FALSE
    OBVIOUS
  <2>2. N \in SUBSET Nat /\ N # {}
    <3>1. PICK v \in D : TRUE
      BY <2>1
    <3>2. \A x \in D : Len(x) \in Nat
      OBVIOUS
    <3>3. Len(v) \in N
      BY <3>1
    <3>4. \A x \in N : x \in Nat
      BY <3>2
    <3> HIDE DEF N, D
    <3>5. QED
      BY <3>3, <3>4
  <2>3. PICK n \in N : \A x \in N : n =< x
    <3> HIDE DEF N, D
    <3>1. QED
      BY <2>2, LeastExists
  <2>4. PICK v \in D : n = Len(v)
    BY <2>3
  <2>5. v \in Seq(Nat) /\ v \notin T
    OBVIOUS
  <2>6. AvailableIn(m, v) # {} /\ After(m, v) \notin T
    BY <2>5
  <2>7. After(m, v) \in Seq(Nat) /\ Len(After(m, v)) < Len(v)
    BY <2>5, <2>6, AfterShorter
  <2>8. Len(After(m, v)) \in N
    BY <2>6, <2>7
  <2>9. Len(v) =< Len(After(m, v))
    BY <2>3, <2>4, <2>8
  <2>10. Len(v) \in Nat /\ Len(After(m, v)) \in Nat
    BY <2>5, <2>7
  <2>11. QED
    BY <2>7, <2>9, <2>10
<1>2. QED
  BY <1>1

LEMMA ReferenceEnds ==
  ASSUME NEW m, Table(m)
  PROVE  \A v \in Seq(Nat) : ReferenceBy(m, v) \in Seq(Nat) /\ AvailableIn(m, ReferenceBy(m, v)) = {}
<1> DEFINE T == {v \in Seq(Nat) : ReferenceBy(m, v) \in Seq(Nat) /\ AvailableIn(m, ReferenceBy(m, v)) = {}}
<1>1. ASSUME NEW v \in Seq(Nat), AvailableIn(m, v) = {} \/ After(m, v) \in T PROVE v \in T
  <2>1. ReferenceBy(m, v) = IF AvailableIn(m, v) = {} THEN v ELSE ReferenceBy(m, After(m, v))
    BY ReferenceIs
  <2>2. QED
    BY <1>1, <2>1
<1>2. T = Seq(Nat)
  <2>1. T \in SUBSET Seq(Nat)
    OBVIOUS
  <2> HIDE DEF T
  <2>2. QED
    BY <1>1, <2>1, EveryText
<1>3. QED
  BY <1>2

\* One more merge is one more pass over what the reference made of a text before.
LEMMA ReferenceLonger ==
  ASSUME NEW m, Table(m), NEW pair, Table(Append(m, pair))
  PROVE  \A v \in Seq(Nat) :
           ReferenceBy(Append(m, pair), v) = MergePair(ReferenceBy(m, v), pair, Token(Len(m) + 1))
<1> SUFFICES ASSUME NEW n, n = Append(m, pair), Table(n), NEW token, token = Token(Len(m) + 1)
             PROVE  \A v \in Seq(Nat) : ReferenceBy(n, v) = MergePair(ReferenceBy(m, v), pair, token)
  OBVIOUS
<1> DEFINE k == Len(m) + 1
           T == {v \in Seq(Nat) : ReferenceBy(n, v) = MergePair(ReferenceBy(m, v), pair, token)}
<1>1. /\ Len(m) \in Nat /\ DOMAIN m = 1..Len(m) /\ DOMAIN n = 1..k /\ k \in DOMAIN n
      /\ n[k] = pair /\ \A q \in DOMAIN m : n[q] = m[q] /\ q \in DOMAIN n /\ q < k
      /\ \A q \in DOMAIN n : q \in DOMAIN m \/ q = k
  <2>1. m \in Seq(Nat \X Nat) /\ n \in Seq(Nat \X Nat)
    BY DEF Table
  <2>2. Len(m) \in Nat /\ DOMAIN m = 1..Len(m) /\ Len(n) = k /\ DOMAIN n = 1..Len(n)
        /\ n[k] = pair /\ \A q \in 1..Len(m) : n[q] = m[q]
    BY <2>1
  <2>3. QED
    BY <2>2
<1>2. token \in Nat /\ pair[2] # token
  <2>1. k \in DOMAIN n /\ token = Token(k) /\ n[k] = pair
    BY <1>1
  <2> HIDE DEF k, T
  <2>2. Token(k) \in Nat /\ n[k][2] \in Nat /\ n[k][2] < Token(k)
    BY <2>1, TableTyped
  <2>3. QED
    BY <2>1, <2>2
<1>3. \A q \in DOMAIN m : m[q][1] # token /\ m[q][2] # token
  <2>1. TAKE q \in DOMAIN m
  <2>2. q \in Nat /\ m[q][1] \in Nat /\ m[q][2] \in Nat /\ m[q][1] < Token(q) /\ m[q][2] < Token(q)
    BY TableTyped
  <2>3. Token(q) < token
    BY <1>1, <2>2, PairsAssumption DEF Token
  <2>4. QED
    BY <1>2, <2>2, <2>3, PairsAssumption DEF Token
<1> HIDE DEF k
<1>4. ASSUME NEW v \in Seq(Nat), AvailableIn(m, v) = {} \/ After(m, v) \in T PROVE v \in T
  <2>1. ReferenceBy(m, v) = IF AvailableIn(m, v) = {} THEN v ELSE ReferenceBy(m, After(m, v))
    BY ReferenceIs
  <2>2. ReferenceBy(n, v) = IF AvailableIn(n, v) = {} THEN v ELSE ReferenceBy(n, After(n, v))
    BY ReferenceIs
  <2>3. CASE AvailableIn(m, v) # {}
    <3>1. AvailableIn(m, v) \subseteq AvailableIn(n, v)
      BY <1>1 DEF AvailableIn
    <3>2. /\ Lowest(m, v) \in AvailableIn(m, v)
          /\ \A q \in AvailableIn(m, v) : Lowest(m, v) =< q
      BY <2>3, LowestIs
    <3>3. /\ Lowest(n, v) \in AvailableIn(n, v)
          /\ \A q \in AvailableIn(n, v) : Lowest(n, v) =< q
      BY <2>3, <3>1, LowestIs
    <3>4. Lowest(m, v) \in DOMAIN m /\ Lowest(m, v) \in Nat /\ Lowest(n, v) \in Nat
      BY <3>2, <3>3, TableTyped DEF AvailableIn
    <3>5. Lowest(n, v) =< Lowest(m, v)
      BY <3>1, <3>2, <3>3
    <3>6. Lowest(n, v) \in AvailableIn(m, v)
      <4>1. Lowest(n, v) \in DOMAIN n /\ n[Lowest(n, v)] \in PairsOf(v)
        BY <3>3 DEF AvailableIn
      <4>2. Lowest(m, v) < k /\ k \in Nat
        BY <1>1, <3>4 DEF k
      <4>3. Lowest(n, v) # k
        BY <3>4, <3>5, <4>2
      <4>4. QED
        BY <1>1, <4>1, <4>3 DEF AvailableIn
    <3>7. Lowest(n, v) = Lowest(m, v)
      BY <3>2, <3>4, <3>5, <3>6
    <3>8. After(n, v) = After(m, v)
      BY <1>1, <3>4, <3>7 DEF After
    <3>9. ReferenceBy(n, After(m, v)) = MergePair(ReferenceBy(m, After(m, v)), pair, token)
      BY <1>4, <2>3
    <3>10. AvailableIn(n, v) # {}
      BY <2>3, <3>1
    <3>11. QED
      BY <2>1, <2>2, <2>3, <3>8, <3>9, <3>10
  <2>4. CASE AvailableIn(m, v) = {}
    <3> DEFINE w == MergePair(v, pair, token)
    <3>1. /\ w \in Seq(Nat) /\ pair \notin PairsOf(w) /\ (pair \notin PairsOf(v) => w = v)
          /\ \A q \in PairsOf(w) : q \in PairsOf(v) \/ q[1] = token \/ q[2] = token
      <4>1. Passed(v, pair, token)
        BY <1>2, MergePasses
      <4>2. QED
        BY <4>1 DEF Passed
    <3> HIDE DEF w
    <3>2. AvailableIn(n, w) = {}
      <4>1. SUFFICES ASSUME NEW q \in DOMAIN n, n[q] \in PairsOf(w) PROVE FALSE
        BY DEF AvailableIn
      <4>2. q \in DOMAIN m /\ n[q] = m[q]
        BY <1>1, <3>1, <4>1
      <4>3. m[q] \in PairsOf(v)
        BY <1>3, <3>1, <4>1, <4>2
      <4>4. QED
        BY <2>4, <4>2, <4>3 DEF AvailableIn
    <3>3. ReferenceBy(n, w) = w
      BY <3>1, <3>2, ReferenceIs
    <3>4. ReferenceBy(n, v) = w
      <4>1. CASE pair \notin PairsOf(v)
        BY <3>1, <3>3, <4>1
      <4>2. CASE pair \in PairsOf(v)
        <5>1. AvailableIn(n, v) = {k}
          <6>1. k \in AvailableIn(n, v)
            BY <1>1, <4>2 DEF AvailableIn
          <6>2. ASSUME NEW q \in AvailableIn(n, v), q # k PROVE FALSE
            <7>1. q \in DOMAIN m /\ m[q] \in PairsOf(v)
              BY <1>1, <6>2 DEF AvailableIn
            <7>2. QED
              BY <2>4, <7>1 DEF AvailableIn
          <6>3. QED
            BY <6>1, <6>2
        <5>2. Lowest(n, v) = k
          <6>1. Lowest(n, v) \in AvailableIn(n, v)
            BY <5>1, LowestIs
          <6>2. QED
            BY <5>1, <6>1
        <5>3. After(n, v) = w
          BY <1>1, <5>2 DEF After, w, k
        <5>4. QED
          BY <2>2, <3>3, <5>1, <5>3
      <4>3. QED
        BY <4>1, <4>2
    <3>5. ReferenceBy(m, v) = v
      BY <2>1, <2>4
    <3>6. QED
      BY <3>4, <3>5 DEF w
  <2>5. QED
    BY <2>3, <2>4
<1>5. T = Seq(Nat)
  <2>1. T \in SUBSET Seq(Nat)
    OBVIOUS
  <2> HIDE DEF T
  <2>2. QED
    BY <1>4, <2>1, EveryText
<1>6. QED
  BY <1>5

-------------------------------------------------------------------------------
(* The heap encoder's lists                                                    *)

Upto(n) == [i \in 1..n |-> i]

\* The tokens that survive among the first places.
Surviving(e, n) == FoldOf("keep", e, <<>>, Upto(n))

ResultBy(e) ==
  FoldLeft(LAMBDA out, i : IF e.alive[i] THEN Append(out, e.values[i]) ELSE out,
           <<>>, [i \in DOMAIN e.values |-> i])

LEMMA ResultOf == Result = ResultBy(encoder)
  BY Zenon DEF Result, ResultBy

LEMMA ResultIsFold ==
  ASSUME NEW e, NEW n \in Nat, DOMAIN e.values = 1..n
  PROVE  ResultBy(e) = Surviving(e, n)
<1> DEFINE s == [i \in DOMAIN e.values |-> i]
           S == DOMAIN s
           P(g) == g = [u \in SUBSET S |-> IF u = {} THEN <<>>
                          ELSE IF e.alive[s[Max(u)]] THEN Append(g[u \ {Max(u)}], e.values[s[Max(u)]])
                               ELSE g[u \ {Max(u)}]]
<1>0. s = Upto(n) /\ Len(s) = n /\ S = 1..n
  BY DEF Upto
<1>1. ASSUME NEW g PROVE Folds(g, "keep", e, <<>>, s, n) <=> P(g)
  BY <1>0 DEF Folds, StepOf, Kept
<1>2. PICK h : P(h)
  <2>1. PICK h : Folds(h, "keep", e, <<>>, s, n)
    BY FoldExists
  <2>2. P(h)
    BY <1>1, <2>1
  <2> HIDE DEF P
  <2>3. QED
    BY <2>2
<1>3. P(CHOOSE g : P(g))
  <2> HIDE DEF P
  <2>1. QED
    BY <1>2, Zenon
<1>4. (CHOOSE g : P(g))[S] = FoldOf("keep", e, <<>>, s)
  <2> DEFINE chosen == CHOOSE g : P(g)
  <2>1. P(chosen)
    BY <1>3
  <2> HIDE DEF chosen, P
  <2>2. Folds(chosen, "keep", e, <<>>, s, Len(s))
    BY <1>0, <1>1, <2>1
  <2>3. Len(s) \in Nat
    BY <1>0
  <2> HIDE DEF s
  <2>4. FoldOf("keep", e, <<>>, s) = chosen[1..Len(s)]
    BY <2>2, <2>3, FoldIs
  <2>5. QED
    BY <1>0, <2>4 DEF chosen
<1>5. ResultBy(e) = (CHOOSE g : P(g))[S]
  BY Zenon DEF ResultBy, FoldLeft, MapThenFoldSet
<1> HIDE DEF P, s
<1>6. QED
  BY <1>0, <1>4, <1>5 DEF Surviving

LEMMA SurvivingNext ==
  ASSUME NEW e
  PROVE  /\ Surviving(e, 0) = <<>>
         /\ \A n \in Nat : Surviving(e, n + 1)
              = IF e.alive[n + 1] THEN Append(Surviving(e, n), e.values[n + 1]) ELSE Surviving(e, n)
<1>1. Upto(0) = <<>>
  BY DEF Upto
<1>2. ASSUME NEW n \in Nat
      PROVE  Surviving(e, n + 1)
               = IF e.alive[n + 1] THEN Append(Surviving(e, n), e.values[n + 1]) ELSE Surviving(e, n)
  <2>1. Upto(n) \in Seq(Nat) /\ n + 1 \in Nat
    BY DEF Upto
  <2>2. Upto(n + 1) = Append(Upto(n), n + 1)
    BY DEF Upto
  <2>3. FoldOf("keep", e, <<>>, Append(Upto(n), n + 1))
          = StepOf("keep", e, FoldOf("keep", e, <<>>, Upto(n)), n + 1)
    BY <2>1, FoldAppend
  <2>4. QED
    BY <2>2, <2>3 DEF Surviving, StepOf, Kept
<1>3. QED
  BY <1>1, <1>2, FoldNothing DEF Surviving

LEMMA SurvivingTyped ==
  ASSUME NEW S, NEW e, NEW n \in Nat, \A i \in 1..n : e.values[i] \in S
  PROVE  \A j \in 0..n : Surviving(e, j) \in Seq(S)
<1> DEFINE T == {j \in Nat : j =< n => Surviving(e, j) \in Seq(S)}
<1>1. 0 \in T
  BY SurvivingNext, EmptySeq
<1>2. ASSUME NEW j \in T PROVE j + 1 \in T
  <2>1. SUFFICES ASSUME j + 1 =< n PROVE Surviving(e, j + 1) \in Seq(S)
    OBVIOUS
  <2>2. j \in Nat /\ j =< n /\ Surviving(e, j) \in Seq(S)
    BY <2>1
  <2>3. e.values[j + 1] \in S
    BY <2>1, <2>2
  <2>4. Append(Surviving(e, j), e.values[j + 1]) \in Seq(S)
    BY <2>2, <2>3
  <2>5. QED
    BY <2>2, <2>4, SurvivingNext
<1>3. T = Nat
  <2>1. T \in SUBSET Nat
    OBVIOUS
  <2> HIDE DEF T
  <2>2. QED
    BY <1>1, <1>2, <2>1, EveryNumber
<1>4. QED
  BY <1>3

\* The lists link the surviving places, in order.
Links(n, alive, following, previous) ==
  \A i \in 1..n : alive[i] =>
    /\ following[i] = 0 => \A j \in 1..n : j > i => ~alive[j]
    /\ following[i] # 0 => /\ following[i] > i /\ alive[following[i]]
                           /\ \A j \in 1..n : j > i /\ j < following[i] => ~alive[j]
    /\ previous[i] = 0 => \A j \in 1..n : j < i => ~alive[j]
    /\ previous[i] # 0 => /\ previous[i] < i /\ alive[previous[i]]
                          /\ \A j \in 1..n : j < i /\ j > previous[i] => ~alive[j]

Lists(e, n) ==
  /\ n \in Nat
  /\ e.values \in [1..n -> Nat] /\ e.alive \in [1..n -> BOOLEAN]
  /\ e.following \in [1..n -> 0..n] /\ e.previous \in [1..n -> 0..n]
  /\ Links(n, e.alive, e.following, e.previous)

\* Neighbours, and the pair they make.
Neighbours(e, n) == {i \in 1..n : e.alive[i] /\ e.following[i] # 0}
PairFrom(e, i) == <<e.values[i], e.values[e.following[i]]>>

\* What is known once the first places were looked at.
LookedAt(e, n, j) ==
  LET s == Surviving(e, j) IN
    /\ s \in Seq(Nat)
    /\ \A q : q \in PairsOf(s) <=> \E i \in Neighbours(e, n) : e.following[i] =< j /\ q = PairFrom(e, i)
    /\ \/ s = <<>> /\ \A i \in 1..j : ~e.alive[i]
       \/ /\ s # <<>>
          /\ \E l \in 1..j : e.alive[l] /\ Last(s) = e.values[l] /\ \A i \in 1..j : i > l => ~e.alive[i]

LEMMA SurvivingPairs ==
  ASSUME NEW e, NEW n, Lists(e, n)
  PROVE  \A j \in 0..n : LookedAt(e, n, j)
<1> DEFINE T == {j \in Nat : j =< n => LookedAt(e, n, j)}
<1>0. /\ n \in Nat
      /\ e.values \in [1..n -> Nat] /\ e.alive \in [1..n -> BOOLEAN]
      /\ e.following \in [1..n -> 0..n] /\ e.previous \in [1..n -> 0..n]
      /\ Links(n, e.alive, e.following, e.previous)
  BY DEF Lists
<1>1. 0 \in T
  <2>1. Surviving(e, 0) = <<>> /\ <<>> \in Seq(Nat) /\ PairsOf(<<>>) = {}
    BY SurvivingNext, EmptySeq, PairsNone
  <2>2. \A i \in Neighbours(e, n) : ~(e.following[i] =< 0)
    BY <1>0 DEF Neighbours
  <2>3. LookedAt(e, n, 0)
    <3> HIDE DEF T
    <3>1. \A q : q \in PairsOf(<<>>) <=> \E i \in Neighbours(e, n) : e.following[i] =< 0 /\ q = PairFrom(e, i)
      BY <2>1, <2>2
    <3>2. \A i \in 1..0 : ~e.alive[i]
      OBVIOUS
    <3>3. QED
      BY <2>1, <3>1, <3>2, Zenon DEF LookedAt
  <2>4. QED
    BY <2>3
<1>2. ASSUME NEW j \in T PROVE j + 1 \in T
  <2>1. SUFFICES ASSUME j + 1 =< n PROVE LookedAt(e, n, j + 1)
    OBVIOUS
  <2> DEFINE s == Surviving(e, j)
             t == Surviving(e, j + 1)
             v == e.values[j + 1]
  <2>2. j \in Nat /\ j =< n /\ j + 1 \in 1..n /\ LookedAt(e, n, j)
    BY <1>0, <2>1
  <2>3. t = IF e.alive[j + 1] THEN Append(s, v) ELSE s
    BY <2>2, SurvivingNext
  <2>4. /\ s \in Seq(Nat)
        /\ \A q : q \in PairsOf(s) <=> \E i \in Neighbours(e, n) : e.following[i] =< j /\ q = PairFrom(e, i)
        /\ \/ s = <<>> /\ \A i \in 1..j : ~e.alive[i]
           \/ /\ s # <<>>
              /\ \E l \in 1..j : e.alive[l] /\ Last(s) = e.values[l] /\ \A i \in 1..j : i > l => ~e.alive[i]
    BY <2>2 DEF LookedAt
  <2>5. v \in Nat
    BY <1>0, <2>2
  <2> HIDE DEF s, t, v, T
  <2>6. CASE ~e.alive[j + 1]
    <3>1. t = s
      BY <2>3, <2>6
    <3>2. \A i \in Neighbours(e, n) : e.following[i] =< j + 1 <=> e.following[i] =< j
      <4>1. TAKE i \in Neighbours(e, n)
      <4>2. i \in 1..n /\ e.alive[e.following[i]] /\ e.following[i] \in 0..n
        BY <1>0 DEF Neighbours, Links
      <4>3. QED
        BY <1>0, <2>2, <2>6, <4>2
    <3>3. \/ s = <<>> /\ \A i \in 1..(j + 1) : ~e.alive[i]
          \/ /\ s # <<>>
             /\ \E l \in 1..(j + 1) : e.alive[l] /\ Last(s) = e.values[l]
                                      /\ \A i \in 1..(j + 1) : i > l => ~e.alive[i]
      <4>1. \A i \in 1..(j + 1) : i \in 1..j \/ i = j + 1
        BY <2>2
      <4>2. \A i \in 1..j : i \in 1..(j + 1)
        BY <2>2
      <4>3. QED
        BY <2>4, <2>6, <4>1, <4>2
    <3>4. QED
      BY <2>4, <3>1, <3>2, <3>3 DEF LookedAt, t
  <2>7. CASE e.alive[j + 1]
    <3>1. t = Append(s, v)
      BY <2>3, <2>7
    <3>2. t \in Seq(Nat) /\ t # <<>> /\ Last(t) = v
      <4>1. t \in Seq(Nat)
        BY <2>4, <2>5, <3>1
      <4>2. QED
        BY <2>4, <2>5, <3>1, <4>1, LastAppended
    <3>3. PairsOf(t) = PairsOf(s) \cup (IF s = <<>> THEN {} ELSE {<<Last(s), v>>})
      BY <2>4, <2>5, <3>1, PairsAppend
    <3>4. \E l \in 1..(j + 1) : e.alive[l] /\ Last(t) = e.values[l]
                                /\ \A i \in 1..(j + 1) : i > l => ~e.alive[i]
      <4>1. j + 1 \in 1..(j + 1) /\ \A i \in 1..(j + 1) : ~(i > j + 1)
        BY <2>2
      <4>2. QED
        BY <2>7, <3>2, <4>1 DEF v
    <3>5. \A q : q \in PairsOf(t) <=> \E i \in Neighbours(e, n) : e.following[i] =< j + 1 /\ q = PairFrom(e, i)
      <4>1. CASE s = <<>> /\ \A i \in 1..j : ~e.alive[i]
        <5>1. \A i \in Neighbours(e, n) : e.following[i] =< j + 1 <=> e.following[i] =< j
          <6>1. TAKE i \in Neighbours(e, n)
          <6>2. i \in 1..n /\ e.alive[i] /\ e.following[i] > i /\ e.following[i] \in 0..n
            BY <1>0 DEF Neighbours, Links
          <6>3. i \notin 1..j
            BY <4>1, <6>2
          <6>4. QED
            BY <1>0, <2>2, <6>2, <6>3
        <5>2. PairsOf(t) = PairsOf(s)
          BY <3>3, <4>1
        <5>3. QED
          BY <2>4, <5>1, <5>2
      <4>2. CASE s # <<>> /\ \E l \in 1..j : e.alive[l] /\ Last(s) = e.values[l]
                                             /\ \A i \in 1..j : i > l => ~e.alive[i]
        <5>1. PICK l \in 1..j : e.alive[l] /\ Last(s) = e.values[l] /\ \A i \in 1..j : i > l => ~e.alive[i]
          BY <4>2
        <5>2. l \in 1..n /\ l < j + 1 /\ l \in Nat
          BY <1>0, <2>2
        <5>3. e.following[l] = j + 1
          <6>1. e.following[l] \in 0..n
            BY <1>0, <5>2
          <6>2. e.following[l] # 0
            BY <1>0, <2>2, <2>7, <5>1, <5>2 DEF Links
          <6>3. e.following[l] > l /\ e.alive[e.following[l]]
                /\ \A i \in 1..n : i > l /\ i < e.following[l] => ~e.alive[i]
            BY <1>0, <5>1, <5>2, <6>2 DEF Links
          <6>4. ~(j + 1 < e.following[l])
            BY <2>2, <2>7, <5>2, <6>3
          <6>5. e.following[l] \notin 1..j
            BY <5>1, <6>3
          <6>6. QED
            BY <2>2, <6>1, <6>2, <6>4, <6>5
        <5>4. l \in Neighbours(e, n) /\ PairFrom(e, l) = <<Last(s), v>>
          BY <2>2, <5>1, <5>2, <5>3 DEF Neighbours, PairFrom, v
        <5>5. \A i \in Neighbours(e, n) : e.following[i] =< j + 1 <=> e.following[i] =< j \/ i = l
          <6>1. TAKE i \in Neighbours(e, n)
          <6>2. /\ i \in 1..n /\ e.alive[i] /\ e.following[i] > i /\ e.following[i] \in 0..n
                /\ \A k \in 1..n : k > i /\ k < e.following[i] => ~e.alive[k]
            BY <1>0 DEF Neighbours, Links
          <6>3. e.following[i] = j + 1 => i = l
            <7>1. SUFFICES ASSUME e.following[i] = j + 1 PROVE i = l
              OBVIOUS
            <7>2. i \in 1..j
              BY <2>2, <6>2, <7>1
            <7>3. ~(i > l)
              BY <5>1, <6>2, <7>2
            <7>4. ~(i < l)
              BY <5>1, <5>2, <6>2, <7>1
            <7>5. QED
              BY <5>2, <6>2, <7>3, <7>4
          <6>4. QED
            BY <2>2, <5>2, <5>3, <6>2, <6>3
        <5>6. PairsOf(t) = PairsOf(s) \cup {PairFrom(e, l)}
          BY <3>3, <4>2, <5>4
        <5>7. QED
          BY <2>4, <5>4, <5>5, <5>6
      <4>3. QED
        BY <2>4, <4>1, <4>2
    <3>6. QED
      BY <3>2, <3>4, <3>5 DEF LookedAt, t
  <2>8. QED
    BY <2>6, <2>7
<1>3. T = Nat
  <2>1. T \in SUBSET Nat
    OBVIOUS
  <2> HIDE DEF T
  <2>2. QED
    BY <1>1, <1>2, <2>1, EveryNumber
<1>4. QED
  BY <1>3

\* Two neighbours joined: the left one is the new token, the right one is gone.
Merged(e, f, n, l, r, token) ==
  \A i \in 1..n : /\ f.values[i] = IF i = l THEN token ELSE e.values[i]
                  /\ f.alive[i] <=> e.alive[i] /\ i # r

Relinked(e, f, n, l, next) ==
  \A i \in 1..n : /\ f.following[i] = IF i = l THEN next ELSE e.following[i]
                  /\ f.previous[i] = IF next # 0 /\ i = next THEN l ELSE e.previous[i]

FieldsTyped(f, n) ==
  /\ f.values \in [1..n -> Nat] /\ f.alive \in [1..n -> BOOLEAN]
  /\ f.following \in [1..n -> 0..n] /\ f.previous \in [1..n -> 0..n]

LEMMA LinkIs ==
  ASSUME NEW e, NEW n, Lists(e, n), NEW i \in 1..n, e.alive[i]
  PROVE  /\ n \in Nat /\ e.following[i] \in 0..n /\ e.previous[i] \in 0..n
         /\ e.following[i] = 0 => \A j \in 1..n : j > i => ~e.alive[j]
         /\ e.following[i] # 0 => /\ e.following[i] > i /\ e.following[i] \in 1..n /\ e.alive[e.following[i]]
                                /\ \A j \in 1..n : j > i /\ j < e.following[i] => ~e.alive[j]
         /\ e.previous[i] = 0 => \A j \in 1..n : j < i => ~e.alive[j]
         /\ e.previous[i] # 0 => /\ e.previous[i] < i /\ e.previous[i] \in 1..n /\ e.alive[e.previous[i]]
                               /\ \A j \in 1..n : j < i /\ j > e.previous[i] => ~e.alive[j]
<1>1. /\ n \in Nat /\ e.following[i] \in 0..n /\ e.previous[i] \in 0..n
      /\ e.following[i] # 0 => e.following[i] \in 1..n
      /\ e.previous[i] # 0 => e.previous[i] \in 1..n
  BY DEF Lists
<1>2. QED
  BY <1>1 DEF Lists, Links

LEMMA NeighbourIs ==
  ASSUME NEW e, NEW n, Lists(e, n), NEW l \in Neighbours(e, n), NEW r, r = e.following[l]
  PROVE  /\ n \in Nat /\ l \in 1..n /\ e.alive[l] /\ r \in 1..n /\ l < r /\ e.alive[r]
         /\ \A j \in 1..n : j > l /\ j < r => ~e.alive[j]
<1>1. r \in 0..n /\ l \in 1..n /\ e.alive[l] /\ r # 0 /\ n \in Nat /\ Links(n, e.alive, e.following, e.previous)
  BY DEF Lists, Neighbours
<1>2. r > l /\ e.alive[r] /\ \A j \in 1..n : j > l /\ j < r => ~e.alive[j]
  BY <1>1 DEF Links
<1>3. QED
  BY <1>1, <1>2

\* A join of two neighbours, and what it does to the text.
JoinAt(S, e, n, l, r, token, f) ==
  /\ S \in SUBSET Nat /\ Lists(e, n) /\ e.values \in [1..n -> S] /\ l \in Neighbours(e, n)
  /\ r = e.following[l] /\ token \in S /\ Merged(e, f, n, l, r, token)

Parted(S, e, n, l, r, token, f) ==
  \E w \in Seq(S) :
    /\ Surviving(e, n) = Append(Append(Surviving(e, l - 1), e.values[l]), e.values[r]) \o w
    /\ Surviving(f, n) = Append(Surviving(e, l - 1), token) \o w

\* The places of a text before and after two neighbours are joined.
LEMMA SurvivingJoined ==
  ASSUME NEW S, NEW e, NEW n, NEW l, NEW r, NEW token, NEW f, JoinAt(S, e, n, l, r, token, f)
  PROVE  Parted(S, e, n, l, r, token, f)
<1> SUFFICES ASSUME S \in SUBSET Nat, Lists(e, n), e.values \in [1..n -> S], l \in Neighbours(e, n),
                    r = e.following[l], token \in S, Merged(e, f, n, l, r, token)
             PROVE  \E w \in Seq(S) :
               /\ Surviving(e, n) = Append(Append(Surviving(e, l - 1), e.values[l]), e.values[r]) \o w
               /\ Surviving(f, n) = Append(Surviving(e, l - 1), token) \o w
  BY DEF JoinAt, Parted
<1> DEFINE u == Surviving(e, l - 1)
           x == Append(Append(u, e.values[l]), e.values[r])
           y == Append(u, token)
           Claim(j) == /\ j < l => Surviving(f, j) = Surviving(e, j)
                       /\ l =< j /\ j < r => /\ Surviving(e, j) = Append(u, e.values[l])
                                            /\ Surviving(f, j) = y
                       /\ r =< j => \E w \in Seq(S) : Surviving(e, j) = x \o w /\ Surviving(f, j) = y \o w
           T == {j \in Nat : j =< n => Claim(j)}
<1>1. /\ n \in Nat /\ e.values \in [1..n -> S] /\ e.alive \in [1..n -> BOOLEAN]
      /\ l \in 1..n /\ e.alive[l] /\ r \in 1..n /\ l < r /\ e.alive[r]
      /\ \A j \in 1..n : j > l /\ j < r => ~e.alive[j]
  <2> HIDE DEF T, Claim
  <2>1. n \in Nat /\ e.alive \in [1..n -> BOOLEAN]
    BY DEF Lists
  <2>2. /\ l \in 1..n /\ e.alive[l] /\ r \in 1..n /\ l < r /\ e.alive[r]
        /\ \A j \in 1..n : j > l /\ j < r => ~e.alive[j]
    <3> HIDE DEF u, x, y
    <3>1. QED
      BY NeighbourIs
  <2>3. QED
    BY <2>1, <2>2
<1>2. /\ \A j \in 1..n : j # l => f.values[j] = e.values[j]
      /\ \A j \in 1..n : j # r => (f.alive[j] <=> e.alive[j])
      /\ f.values[l] = token /\ ~f.alive[r] /\ f.alive[l]
  <2> HIDE DEF T, Claim
  <2>1. QED
    BY <1>1 DEF Merged
<1>3. u \in Seq(S) /\ x \in Seq(S) /\ y \in Seq(S)
  <2>1. u \in Seq(S)
    <3>1. \A i \in 1..n : e.values[i] \in S
      BY <1>1
    <3>2. l - 1 \in 0..n
      BY <1>1
    <3>3. QED
      BY <1>1, <3>1, <3>2, SurvivingTyped
  <2> HIDE DEF u
  <2>2. e.values[l] \in S /\ e.values[r] \in S
    BY <1>1
  <2>3. Append(u, e.values[l]) \in Seq(S)
    BY <2>1, <2>2
  <2>4. QED
    BY <2>1, <2>2, <2>3
<1>4. 0 \in T
  <2>1. ~(r =< 0) /\ ~(l =< 0)
    BY <1>1
  <2>2. Surviving(e, 0) = <<>> /\ Surviving(f, 0) = <<>>
    BY SurvivingNext
  <2>3. Claim(0)
    BY <2>1, <2>2
  <2> HIDE DEF Claim
  <2>4. QED
    BY <2>3
<1>5. ASSUME NEW j \in T PROVE j + 1 \in T
  <2>1. SUFFICES ASSUME j + 1 =< n PROVE Claim(j + 1)
    <3> HIDE DEF Claim
    <3>1. QED
      OBVIOUS
  <2>2. j \in Nat /\ j =< n /\ j + 1 \in 1..n /\ Claim(j)
    <3> HIDE DEF Claim
    <3>1. QED
      BY <1>1, <2>1
  <2>3. /\ Surviving(e, j + 1) = IF e.alive[j + 1] THEN Append(Surviving(e, j), e.values[j + 1]) ELSE Surviving(e, j)
        /\ Surviving(f, j + 1) = IF f.alive[j + 1] THEN Append(Surviving(f, j), f.values[j + 1]) ELSE Surviving(f, j)
    BY <2>2, SurvivingNext
  <2>4. l \in Nat /\ r \in Nat /\ l < r
    BY <1>1
  <2>a. /\ j < l => Surviving(f, j) = Surviving(e, j)
        /\ l =< j /\ j < r => Surviving(e, j) = Append(u, e.values[l]) /\ Surviving(f, j) = y
        /\ r =< j => \E w \in Seq(S) : Surviving(e, j) = x \o w /\ Surviving(f, j) = y \o w
    BY <2>2
  <2> SUFFICES
        /\ j + 1 < l => Surviving(f, j + 1) = Surviving(e, j + 1)
        /\ l =< j + 1 /\ j + 1 < r => Surviving(e, j + 1) = Append(u, e.values[l]) /\ Surviving(f, j + 1) = y
        /\ r =< j + 1 => \E w \in Seq(S) : Surviving(e, j + 1) = x \o w /\ Surviving(f, j + 1) = y \o w
    OBVIOUS
  <2>b. j \in Nat /\ j + 1 \in 1..n
    BY <2>2
  <2> HIDE DEF T, Claim
  <2>5. CASE j + 1 < l
    <3>1. Surviving(f, j) = Surviving(e, j)
      <4>1. j < l
        BY <2>b, <2>4, <2>5
      <4>2. QED
        BY <2>a, <4>1
    <3>2. (f.alive[j + 1] <=> e.alive[j + 1]) /\ f.values[j + 1] = e.values[j + 1]
      BY <1>2, <2>b, <2>4, <2>5
    <3>3. ~(l =< j + 1) /\ ~(r =< j + 1)
      BY <2>b, <2>4, <2>5
    <3> HIDE DEF u, x, y
    <3>4. QED
      BY <2>3, <3>1, <3>2, <3>3
  <2>6. CASE j + 1 = l
    <3>1. Surviving(f, j) = Surviving(e, j) /\ Surviving(e, j) = u
      <4>1. j < l /\ j = l - 1
        BY <2>b, <2>4, <2>6
      <4>2. QED
        BY <2>a, <4>1
    <3>2. Surviving(e, l) = Append(u, e.values[l]) /\ Surviving(f, l) = y
      <4> HIDE DEF u, x
      <4>1. QED
        BY <1>1, <1>2, <2>3, <2>6, <3>1
    <3>3. ~(j + 1 < l) /\ ~(r =< j + 1)
      BY <2>b, <2>4, <2>6
    <3> HIDE DEF u, y
    <3>4. QED
      BY <2>6, <3>2, <3>3
  <2>7. CASE l < j + 1 /\ j + 1 < r
    <3>1. Surviving(e, j) = Append(u, e.values[l]) /\ Surviving(f, j) = y
      <4>1. l =< j /\ j < r
        BY <2>b, <2>4, <2>7
      <4>2. QED
        BY <2>a, <4>1
    <3>2. ~e.alive[j + 1] /\ ~f.alive[j + 1]
      BY <1>1, <1>2, <2>b, <2>4, <2>7
    <3>3. ~(j + 1 < l) /\ ~(r =< j + 1)
      BY <2>b, <2>4, <2>7
    <3> HIDE DEF u, y
    <3>4. QED
      BY <2>3, <3>1, <3>2, <3>3
  <2>8. CASE j + 1 = r
    <3>1. Surviving(e, j) = Append(u, e.values[l]) /\ Surviving(f, j) = y
      <4>1. l =< j /\ j < r
        BY <2>b, <2>4, <2>8
      <4>2. QED
        BY <2>a, <4>1
    <3>2. Surviving(e, r) = x /\ Surviving(f, r) = y
      <4> HIDE DEF u
      <4>1. QED
        BY <1>1, <1>2, <2>3, <2>8, <3>1
    <3>3. ~(j + 1 < l) /\ ~(j + 1 < r)
      BY <2>b, <2>4, <2>8
    <3> HIDE DEF u, x, y
    <3>4. x = x \o <<>> /\ y = y \o <<>> /\ <<>> \in Seq(S)
      BY <1>3, ConcatEmptySeq, EmptySeq
    <3>5. \E w \in Seq(S) : Surviving(e, r) = x \o w /\ Surviving(f, r) = y \o w
      BY <3>2, <3>4
    <3>6. QED
      BY <2>8, <3>3, <3>5
  <2>9. CASE r < j + 1
    <3>1. PICK w \in Seq(S) : Surviving(e, j) = x \o w /\ Surviving(f, j) = y \o w
      <4>1. r =< j
        BY <2>b, <2>4, <2>9
      <4>2. QED
        BY <2>a, <4>1
    <3>2. (f.alive[j + 1] <=> e.alive[j + 1]) /\ f.values[j + 1] = e.values[j + 1] /\ e.values[j + 1] \in S
      BY <1>1, <1>2, <2>b, <2>4, <2>9
    <3>3. ~(j + 1 < l) /\ ~(j + 1 < r)
      BY <2>b, <2>4, <2>9
    <3> DEFINE v == e.values[j + 1]
    <3> HIDE DEF u, x, y, v
    <3>4. \E z \in Seq(S) : Surviving(e, j + 1) = x \o z /\ Surviving(f, j + 1) = y \o z
      <4>1. CASE e.alive[j + 1]
        <5>1. x \o Append(w, v) = Append(x \o w, v) /\ y \o Append(w, v) = Append(y \o w, v)
          BY <1>3, <3>2, ConcatAppend DEF v
        <5>2. Append(w, v) \in Seq(S)
          BY <3>2 DEF v
        <5>3. Surviving(e, j + 1) = Append(x \o w, v) /\ Surviving(f, j + 1) = Append(y \o w, v)
          BY <2>3, <3>1, <3>2, <4>1 DEF v
        <5>4. QED
          BY <5>1, <5>2, <5>3
      <4>2. CASE ~e.alive[j + 1]
        BY <2>3, <3>1, <3>2, <4>2
      <4>3. QED
        BY <4>1, <4>2
    <3>5. QED
      BY <3>3, <3>4
  <2>10. j + 1 < l \/ j + 1 = l \/ (l < j + 1 /\ j + 1 < r) \/ j + 1 = r \/ r < j + 1
    BY <2>b, <2>4
  <2> HIDE DEF u, x, y
  <2>11. QED
    BY <2>10, <2>5, <2>6, <2>7, <2>8, <2>9
<1>6. T = Nat
  <2>1. T \in SUBSET Nat
    OBVIOUS
  <2> HIDE DEF T
  <2>2. QED
    BY <1>4, <1>5, <2>1, EveryNumber
<1>7. Claim(n)
  <2> HIDE DEF Claim
  <2>1. QED
    BY <1>1, <1>6
<1>8. QED
  <2>1. r =< n
    BY <1>1
  <2>2. \E w \in Seq(S) : Surviving(e, n) = x \o w /\ Surviving(f, n) = y \o w
    <3> HIDE DEF u, x, y
    <3>1. QED
      BY <1>7, <2>1
  <2>3. QED
    BY <2>2

\* What joining two neighbours does to the lists: the right one is gone.
RelinkedAt(e, n, l, r, token, next, f) ==
  /\ Lists(e, n) /\ l \in Neighbours(e, n) /\ r = e.following[l] /\ token \in Nat
  /\ next = e.following[r] /\ FieldsTyped(f, n)
  /\ Merged(e, f, n, l, r, token) /\ Relinked(e, f, n, l, next)

\* Only the joined token and the one before it begin pairs that were not there.
RelinkedWell(e, n, l, r, f) ==
  /\ Lists(f, n) /\ f.previous[l] = e.previous[l]
  /\ \A i \in Neighbours(f, n) :
       i = l \/ i = e.previous[l]
       \/ /\ i \in Neighbours(e, n) /\ f.following[i] = e.following[i] /\ i # r
          /\ PairFrom(f, i) = PairFrom(e, i)

\* The lists link the surviving places after a join as before it.
LEMMA ListsJoined ==
  ASSUME NEW e, NEW n, NEW l, NEW r, NEW token, NEW next, NEW f, RelinkedAt(e, n, l, r, token, next, f)
  PROVE  RelinkedWell(e, n, l, r, f)
<1> SUFFICES ASSUME Lists(e, n), l \in Neighbours(e, n), r = e.following[l], token \in Nat,
                    next = e.following[r], FieldsTyped(f, n),
                    Merged(e, f, n, l, r, token), Relinked(e, f, n, l, next)
             PROVE  /\ Lists(f, n) /\ f.previous[l] = e.previous[l]
                    /\ \A i \in Neighbours(f, n) :
                         i = l \/ i = e.previous[l]
                         \/ /\ i \in Neighbours(e, n) /\ f.following[i] = e.following[i] /\ i # r
                            /\ PairFrom(f, i) = PairFrom(e, i)
  BY DEF RelinkedAt, RelinkedWell
<1>1. /\ n \in Nat /\ e.values \in [1..n -> Nat] /\ e.alive \in [1..n -> BOOLEAN]
      /\ e.following \in [1..n -> 0..n] /\ e.previous \in [1..n -> 0..n]
      /\ Links(n, e.alive, e.following, e.previous)
  BY DEF Lists
<1>2. /\ l \in 1..n /\ e.alive[l] /\ r \in 1..n /\ l < r /\ e.alive[r] /\ next \in 0..n
      /\ e.following[l] = r /\ e.following[r] = next
      /\ \A j \in 1..n : j > l /\ j < r => ~e.alive[j]
  BY <1>1, NeighbourIs
<1>3. /\ next = 0 => \A j \in 1..n : j > r => ~e.alive[j]
      /\ next # 0 => /\ next > r /\ e.alive[next] /\ next \in 1..n
                     /\ \A j \in 1..n : j > r /\ j < next => ~e.alive[j]
  <2>1. /\ e.following[r] = 0 => \A j \in 1..n : j > r => ~e.alive[j]
        /\ e.following[r] # 0 => /\ e.following[r] > r /\ e.following[r] \in 1..n
                                /\ e.alive[e.following[r]]
                                /\ \A j \in 1..n : j > r /\ j < e.following[r] => ~e.alive[j]
    BY <1>2, LinkIs
  <2>2. QED
    BY <2>1
<1>4. \A i \in 1..n : /\ (e.alive[i] /\ e.following[i] = r => i = l)
                      /\ (e.alive[i] /\ e.following[i] = l => i = e.previous[l])
                      /\ (e.alive[i] /\ e.previous[i] = r => i = next)
  <2>1. TAKE i \in 1..n
  <2>2. e.alive[i] /\ e.following[i] = r => i = l
    <3>1. SUFFICES ASSUME e.alive[i], e.following[i] = r PROVE i = l
      OBVIOUS
    <3>2. i < r /\ \A j \in 1..n : j > i /\ j < r => ~e.alive[j]
      <4>1. e.following[i] # 0
        BY <1>2, <3>1
      <4>2. e.following[i] > i /\ \A j \in 1..n : j > i /\ j < e.following[i] => ~e.alive[j]
        BY <3>1, <4>1, LinkIs
      <4>3. QED
        BY <3>1, <4>2
    <3>3. QED
      BY <1>1, <1>2, <3>1, <3>2
  <2>3. e.alive[i] /\ e.following[i] = l => i = e.previous[l]
    <3>1. SUFFICES ASSUME e.alive[i], e.following[i] = l PROVE i = e.previous[l]
      OBVIOUS
    <3>2. i < l /\ \A j \in 1..n : j > i /\ j < l => ~e.alive[j]
      <4>1. e.following[i] # 0
        BY <1>2, <3>1
      <4>2. e.following[i] > i /\ \A j \in 1..n : j > i /\ j < e.following[i] => ~e.alive[j]
        BY <3>1, <4>1, LinkIs
      <4>3. QED
        BY <3>1, <4>2
    <3>3. e.previous[l] # 0
      BY <1>1, <1>2, <3>1, <3>2 DEF Links
    <3>4. /\ e.previous[l] \in 1..n /\ e.previous[l] < l /\ e.alive[e.previous[l]]
          /\ \A j \in 1..n : j < l /\ j > e.previous[l] => ~e.alive[j]
      <4>1. l \in 1..n /\ e.alive[l]
        BY <1>2
      <4>2. QED
        BY <3>3, <4>1, LinkIs
    <3>5. ~(i > e.previous[l])
      BY <3>1, <3>2, <3>4
    <3>6. ~(i < e.previous[l])
      BY <3>2, <3>4
    <3>7. i \in Nat /\ e.previous[l] \in Nat
      BY <1>1, <3>4
    <3>8. QED
      BY <3>5, <3>6, <3>7
  <2>4. e.alive[i] /\ e.previous[i] = r => i = next
    <3>1. SUFFICES ASSUME e.alive[i], e.previous[i] = r PROVE i = next
      OBVIOUS
    <3>2. r < i /\ \A j \in 1..n : j < i /\ j > r => ~e.alive[j]
      <4>1. e.previous[i] # 0
        BY <1>2, <3>1
      <4>2. e.previous[i] < i /\ \A j \in 1..n : j < i /\ j > e.previous[i] => ~e.alive[j]
        BY <3>1, <4>1, LinkIs
      <4>3. QED
        BY <3>1, <4>2
    <3>3. next # 0
      BY <1>1, <1>2, <1>3, <3>1, <3>2
    <3>4. i \in Nat /\ next \in Nat /\ ~(next < i) /\ ~(i < next)
      <4>1. next \in 1..n /\ next > r /\ e.alive[next] /\ \A j \in 1..n : j > r /\ j < next => ~e.alive[j]
        BY <1>3, <3>3
      <4>2. ~(next < i)
        BY <3>2, <4>1
      <4>3. ~(i < next)
        BY <3>1, <3>2, <4>1
      <4>4. QED
        BY <4>1, <4>2, <4>3
    <3>5. QED
      BY <3>4
  <2>5. QED
    BY <2>2, <2>3, <2>4
<1>5. /\ f.values \in [1..n -> Nat] /\ f.alive \in [1..n -> BOOLEAN]
      /\ f.following \in [1..n -> 0..n] /\ f.previous \in [1..n -> 0..n]
  BY DEF FieldsTyped
<1>6. /\ \A i \in 1..n : f.alive[i] <=> e.alive[i] /\ i # r
      /\ \A i \in 1..n : f.following[i] = IF i = l THEN next ELSE e.following[i]
      /\ \A i \in 1..n : f.values[i] = IF i = l THEN token ELSE e.values[i]
      /\ \A i \in 1..n : f.previous[i] = IF next # 0 /\ i = next THEN l ELSE e.previous[i]
  BY DEF Merged, Relinked
<1>7. Links(n, f.alive, f.following, f.previous)
  <2>1. SUFFICES ASSUME NEW i \in 1..n, f.alive[i]
                 PROVE  /\ f.following[i] = 0 => \A j \in 1..n : j > i => ~f.alive[j]
                        /\ f.following[i] # 0 =>
                             /\ f.following[i] > i /\ f.alive[f.following[i]]
                             /\ \A j \in 1..n : j > i /\ j < f.following[i] => ~f.alive[j]
                        /\ f.previous[i] = 0 => \A j \in 1..n : j < i => ~f.alive[j]
                        /\ f.previous[i] # 0 =>
                             /\ f.previous[i] < i /\ f.alive[f.previous[i]]
                             /\ \A j \in 1..n : j < i /\ j > f.previous[i] => ~f.alive[j]
    BY DEF Links
  <2>2. e.alive[i] /\ i # r
    BY <1>6, <2>1
  <2>3. /\ e.following[i] \in 0..n /\ e.previous[i] \in 0..n
        /\ e.following[i] = 0 => \A j \in 1..n : j > i => ~e.alive[j]
        /\ e.following[i] # 0 => /\ e.following[i] > i /\ e.alive[e.following[i]]
                               /\ \A j \in 1..n : j > i /\ j < e.following[i] => ~e.alive[j]
        /\ e.previous[i] = 0 => \A j \in 1..n : j < i => ~e.alive[j]
        /\ e.previous[i] # 0 => /\ e.previous[i] < i /\ e.alive[e.previous[i]]
                              /\ \A j \in 1..n : j < i /\ j > e.previous[i] => ~e.alive[j]
    BY <1>1, <2>2 DEF Links
  <2>4. /\ f.following[i] = 0 => \A j \in 1..n : j > i => ~f.alive[j]
        /\ f.following[i] # 0 =>
             /\ f.following[i] > i /\ f.alive[f.following[i]]
             /\ \A j \in 1..n : j > i /\ j < f.following[i] => ~f.alive[j]
    <3>1. CASE i = l
      <4>1. f.following[i] = next
        BY <1>6, <3>1
      <4>2. \A j \in 1..n : j > l => j < r \/ j = r \/ j > r
        BY <1>1, <1>2
      <4>3. next = 0 => \A j \in 1..n : j > i => ~f.alive[j]
        BY <1>2, <1>3, <1>6, <3>1, <4>2
      <4>4. next # 0 => /\ next > i /\ f.alive[next]
                        /\ \A j \in 1..n : j > i /\ j < next => ~f.alive[j]
        <5>1. SUFFICES ASSUME next # 0
                       PROVE  next > l /\ f.alive[next]
                              /\ \A j \in 1..n : j > l /\ j < next => ~f.alive[j]
          BY <3>1
        <5>2. /\ next \in 1..n /\ next > r /\ e.alive[next]
              /\ \A j \in 1..n : j > r /\ j < next => ~e.alive[j]
          BY <1>3, <5>1
        <5>3. next > l /\ next # r
          BY <1>2, <5>2
        <5>4. f.alive[next]
          BY <1>6, <5>2, <5>3
        <5>5. \A j \in 1..n : j > l /\ j < next => ~f.alive[j]
          BY <1>2, <1>6, <4>2, <5>2
        <5>6. QED
          BY <5>3, <5>4, <5>5
      <4>5. QED
        BY <4>1, <4>3, <4>4
    <3>2. CASE i # l
      <4>1. f.following[i] = e.following[i] /\ e.following[i] # r
        BY <1>2, <1>4, <1>6, <2>2, <3>2
      <4>2. e.following[i] # 0 => e.following[i] \in 1..n
        BY <1>1, <2>3
      <4>3. QED
        BY <1>6, <2>3, <4>1, <4>2
    <3>3. QED
      BY <3>1, <3>2
  <2>5. /\ f.previous[i] = 0 => \A j \in 1..n : j < i => ~f.alive[j]
        /\ f.previous[i] # 0 =>
             /\ f.previous[i] < i /\ f.alive[f.previous[i]]
             /\ \A j \in 1..n : j < i /\ j > f.previous[i] => ~f.alive[j]
    <3>1. CASE next # 0 /\ i = next
      <4>1. f.previous[i] = l
        BY <1>6, <3>1
      <4>2. \A j \in 1..n : j > l => j < r \/ j = r \/ j > r
        BY <1>1, <1>2
      <4>3. \A j \in 1..n : j < i /\ j > l => ~f.alive[j]
        BY <1>2, <1>3, <1>6, <3>1, <4>2
      <4>4. l < i /\ f.alive[l] /\ l # 0
        <5>1. i > r
          BY <1>3, <3>1
        <5>2. l < i /\ l # 0 /\ l # r
          BY <1>2, <5>1
        <5>3. QED
          BY <1>2, <1>6, <5>2
      <4>5. QED
        BY <4>1, <4>3, <4>4
    <3>2. CASE ~(next # 0 /\ i = next)
      <4>1. f.previous[i] = e.previous[i]
        BY <1>6, <3>2
      <4>2. e.previous[i] # 0 => e.previous[i] # r
        <5>1. i # 0
          OBVIOUS
        <5>2. QED
          BY <1>4, <2>2, <3>2, <5>1
      <4>3. e.previous[i] # 0 => e.previous[i] \in 1..n
        BY <1>1, <2>3
      <4>4. QED
        BY <1>6, <2>3, <4>1, <4>2, <4>3
    <3>3. QED
      BY <3>1, <3>2
  <2>6. QED
    BY <2>4, <2>5
<1>8. f.previous[l] = e.previous[l]
  BY <1>1, <1>2, <1>3, <1>6
<1>9. ASSUME NEW i \in Neighbours(f, n), i # l, i # e.previous[l]
      PROVE  /\ i \in Neighbours(e, n) /\ f.following[i] = e.following[i] /\ i # r
             /\ PairFrom(f, i) = PairFrom(e, i)
  <2>1. i \in 1..n /\ f.alive[i] /\ f.following[i] # 0
    BY DEF Neighbours
  <2>2. e.alive[i] /\ i # r /\ f.following[i] = e.following[i]
    BY <1>6, <1>9, <2>1
  <2>3. e.following[i] # l /\ e.following[i] \in 1..n
    BY <1>1, <1>4, <1>9, <2>1, <2>2
  <2>4. PairFrom(f, i) = PairFrom(e, i)
    BY <1>6, <1>9, <2>1, <2>2, <2>3 DEF PairFrom
  <2>5. QED
    BY <2>1, <2>2, <2>4 DEF Neighbours
<1>10. QED
  BY <1>1, <1>5, <1>7, <1>8, <1>9 DEF Lists

-------------------------------------------------------------------------------
(* The heap                                                                    *)

LEMMA TailOfThree ==
  ASSUME NEW a \in Nat, NEW b \in Nat, NEW c \in Nat
  PROVE  Tail(<<a, b, c>>)[1] = b /\ Tail(<<a, b, c>>)[2] = c
<1> DEFINE s == <<a, b, c>>
<1>1. s \in Seq(Nat) /\ Len(s) = 3 /\ s[2] = b /\ s[3] = c
  OBVIOUS
<1> HIDE DEF s
<1>2. Len(Tail(s)) = 2 /\ \A i \in 1..Len(Tail(s)) : Tail(s)[i] = s[i + 1]
  <2>1. Len(<<>>) = 0 /\ Len(s) # 0
    BY <1>1
  <2>2. s # <<>>
    BY <2>1, Zenon
  <2>3. QED
    BY <1>1, <2>2, HeadTailProperties
<1>3. QED
  BY <1>1, <1>2 DEF s

\* heappop: the lowest rank, and the leftmost of that rank.
LEMMA TopIs ==
  ASSUME NEW heap, heap \subseteq Nat \X Nat \X Nat, heap # {}
  PROVE  /\ Top(heap) \in heap
         /\ \A other \in heap :
              \/ Top(heap)[1] < other[1]
              \/ Top(heap)[1] = other[1] /\ Top(heap)[2] =< other[2]
<1> DEFINE A == {x[1] : x \in heap}
<1>1. \A x \in heap : x[1] \in Nat /\ x[2] \in Nat /\ x[3] \in Nat /\ x = <<x[1], x[2], x[3]>>
  OBVIOUS
<1>2. PICK a \in A : \A y \in A : a =< y
  <2>1. A \in SUBSET Nat /\ A # {}
    BY <1>1
  <2> HIDE DEF A
  <2>2. QED
    BY <2>1, LeastExists
<1> DEFINE B == {x[2] : x \in {y \in heap : y[1] = a}}
<1>3. PICK b \in B : \A y \in B : b =< y
  <2>1. B \in SUBSET Nat /\ B # {}
    BY <1>1, <1>2
  <2> HIDE DEF B
  <2>2. QED
    BY <2>1, LeastExists
<1> DEFINE C == {x[3] : x \in {y \in heap : y[1] = a /\ y[2] = b}}
<1>4. PICK c \in C : \A y \in C : c =< y
  <2>1. C \in SUBSET Nat /\ C # {}
    BY <1>1, <1>3
  <2> HIDE DEF C
  <2>2. QED
    BY <2>1, LeastExists
<1>5. PICK e \in heap : e[1] = a /\ e[2] = b /\ e[3] = c
  BY <1>4
<1>6. \A x \in heap : /\ a =< x[1]
                      /\ x[1] = a => b =< x[2]
                      /\ x[1] = a /\ x[2] = b => c =< x[3]
  BY <1>2, <1>3, <1>4
<1> HIDE DEF A, B, C
<1>7. \A x \in heap : Tail(x)[1] = x[2] /\ Tail(x)[2] = x[3]
  <2>1. TAKE x \in heap
  <2>2. Tail(<<x[1], x[2], x[3]>>)[1] = x[2] /\ Tail(<<x[1], x[2], x[3]>>)[2] = x[3]
    BY <1>1, TailOfThree
  <2>3. QED
    BY <1>1, <2>2
<1>8. \A x, y \in heap : NotAfter(Tail(x), Tail(y)) <=> x[2] < y[2] \/ (x[2] = y[2] /\ x[3] =< y[3])
  BY <1>7 DEF NotAfter
<1>9. \A other \in heap : \/ e[1] < other[1]
                          \/ e[1] = other[1] /\ NotAfter(Tail(e), Tail(other))
  <2>1. TAKE other \in heap
  <2>2. /\ e[1] =< other[1]
        /\ other[1] = e[1] => e[2] =< other[2]
        /\ other[1] = e[1] /\ other[2] = e[2] => e[3] =< other[3]
    BY <1>5, <1>6
  <2>3. e[1] \in Nat /\ e[2] \in Nat /\ e[3] \in Nat /\ other[1] \in Nat /\ other[2] \in Nat /\ other[3] \in Nat
    BY <1>1
  <2>4. e[1] = other[1] => e[2] < other[2] \/ (e[2] = other[2] /\ e[3] =< other[3])
    BY <2>2, <2>3
  <2>5. e[1] = other[1] => NotAfter(Tail(e), Tail(other))
    BY <1>8, <2>4
  <2>6. QED
    BY <2>2, <2>3, <2>5
<1> DEFINE First(x) == \A other \in heap : \/ x[1] < other[1]
                                           \/ x[1] = other[1] /\ NotAfter(Tail(x), Tail(other))
           top == CHOOSE x \in heap : First(x)
<1>10. top \in heap /\ First(top)
  <2>1. First(e)
    BY <1>9
  <2> HIDE DEF First
  <2>2. QED
    BY <2>1
<1>11. Top(heap) = top
  BY Zenon DEF Top
<1> HIDE DEF top
<1>12. \A other \in heap : top[1] < other[1] \/ (top[1] = other[1] /\ top[2] =< other[2])
  <2>1. TAKE other \in heap
  <2>2. top[1] < other[1] \/ (top[1] = other[1] /\ NotAfter(Tail(top), Tail(other)))
    BY <1>10
  <2>3. NotAfter(Tail(top), Tail(other)) => top[2] < other[2] \/ top[2] = other[2]
    BY <1>8, <1>10
  <2>4. top[2] \in Nat /\ other[2] \in Nat
    BY <1>1, <1>10
  <2>5. QED
    BY <2>2, <2>3, <2>4
<1>13. QED
  BY <1>10, <1>11, <1>12

Entries(n) == (DOMAIN merges) \X (1..n) \X (1..n)

\* The heap has an entry for each pair that has a rank.
HeapComplete(e, n) ==
  /\ e.heap \subseteq Entries(n)
  /\ \A i \in Neighbours(e, n) : \A r \in DOMAIN merges :
       merges[r] = PairFrom(e, i) => <<r, i, e.following[i]>> \in e.heap

EncoderTyped(e, n) ==
  /\ n \in Nat
  /\ e \in [values : [1..n -> Tokens(merges)], alive : [1..n -> BOOLEAN],
            previous : [1..n -> 0..n], following : [1..n -> 0..n], heap : SUBSET Entries(n)]

LEMMA TokensNat ==
  ASSUME NEW m, Table(m)
  PROVE  Tokens(m) \subseteq Nat /\ ByteValues \in Nat \ {0} /\ 0..(ByteValues - 1) \subseteq Tokens(m)
<1>1. Len(m) \in Nat /\ ByteValues \in Nat \ {0}
  BY PairsAssumption DEF Table
<1>2. QED
  BY <1>1 DEF Tokens, Token

LEMMA EncoderFields ==
  ASSUME Table(merges), NEW e, NEW n, EncoderTyped(e, n)
  PROVE  /\ n \in Nat /\ e.values \in [1..n -> Tokens(merges)] /\ FieldsTyped(e, n)
         /\ e.heap \subseteq Entries(n)
<1>1. /\ n \in Nat /\ e.values \in [1..n -> Tokens(merges)] /\ e.alive \in [1..n -> BOOLEAN]
      /\ e.previous \in [1..n -> 0..n] /\ e.following \in [1..n -> 0..n] /\ e.heap \in SUBSET Entries(n)
  BY DEF EncoderTyped
<1>2. e.values \in [1..n -> Nat]
  BY <1>1, TokensNat
<1>3. QED
  BY <1>1, <1>2 DEF FieldsTyped

LEMMA OfferIs ==
  ASSUME NEW e, NEW n, n \in Nat, e.following \in [1..n -> 0..n], NEW i \in 0..n
  PROVE  /\ Offer(e, i) \subseteq Entries(n)
         /\ i \in Neighbours(e, n) =>
              \A r \in DOMAIN merges : merges[r] = PairFrom(e, i) => <<r, i, e.following[i]>> \in Offer(e, i)
<1>1. CASE i = 0 \/ ~e.alive[i] \/ e.following[i] = 0
  BY <1>1 DEF Offer, Neighbours
<1>2. CASE ~(i = 0 \/ ~e.alive[i] \/ e.following[i] = 0)
  <2>1. i \in 1..n /\ e.following[i] \in 1..n
    BY <1>2
  <2>2. Offer(e, i) = {<<r, i, e.following[i]>> : r \in {r \in DOMAIN merges : merges[r] = PairFrom(e, i)}}
    BY <1>2 DEF Offer, PairFrom
  <2>3. Offer(e, i) \subseteq Entries(n)
    BY <2>1, <2>2 DEF Entries
  <2>4. QED
    BY <2>2, <2>3
<1>3. QED
  BY <1>1, <1>2

JoinedAt(e, n, k, l, r, f) ==
  /\ EncoderTyped(e, n) /\ k \in DOMAIN merges /\ l \in 1..n /\ r \in 1..n /\ f = Joined(e, k, l, r)

JoinedWell(e, n, k, l, r, f) ==
  /\ EncoderTyped(f, n)
  /\ Merged(e, f, n, l, r, Token(k)) /\ Relinked(e, f, n, l, e.following[r])
  /\ f.heap = e.heap \cup Offer(f, f.previous[l]) \cup Offer(f, l)

\* What Joined does to each field.
LEMMA JoinedIs ==
  ASSUME Table(merges), NEW e, NEW n, NEW k, NEW l, NEW r, NEW f, JoinedAt(e, n, k, l, r, f)
  PROVE  JoinedWell(e, n, k, l, r, f)
<1> SUFFICES ASSUME EncoderTyped(e, n), k \in DOMAIN merges, l \in 1..n, r \in 1..n, f = Joined(e, k, l, r)
             PROVE  /\ EncoderTyped(f, n)
                    /\ Merged(e, f, n, l, r, Token(k)) /\ Relinked(e, f, n, l, e.following[r])
                    /\ f.heap = e.heap \cup Offer(f, f.previous[l]) \cup Offer(f, l)
  BY DEF JoinedAt, JoinedWell
<1> DEFINE next == e.following[r]
           values == [e.values EXCEPT ![l] = Token(k)]
           alive == [e.alive EXCEPT ![r] = FALSE]
           following == [e.following EXCEPT ![l] = next]
           previous == IF next = 0 THEN e.previous ELSE [e.previous EXCEPT ![next] = l]
           j == [e EXCEPT !.values[l] = Token(k), !.alive[r] = FALSE, !.following[l] = next,
                          !.previous = IF next = 0 THEN @ ELSE [@ EXCEPT ![next] = l]]
<1>1. /\ n \in Nat /\ e.values \in [1..n -> Tokens(merges)] /\ e.alive \in [1..n -> BOOLEAN]
      /\ e.previous \in [1..n -> 0..n] /\ e.following \in [1..n -> 0..n] /\ e.heap \in SUBSET Entries(n)
  BY DEF EncoderTyped
<1>2. next \in 0..n /\ Token(k) \in Tokens(merges)
  <2>1. Token(k) \in Tokens(merges)
    BY SpellingIs
  <2>2. QED
    BY <1>1, <2>1
<1>3. /\ j.values = values /\ j.alive = alive /\ j.following = following /\ j.previous = previous
      /\ j.heap = e.heap
  BY DEF EncoderTyped
<1>4. j = [values |-> j.values, alive |-> j.alive, previous |-> j.previous,
           following |-> j.following, heap |-> j.heap]
  <2> HIDE DEF values, alive, following, previous
  <2>1. DOMAIN e = {"values", "alive", "previous", "following", "heap"}
    BY DEF EncoderTyped
  <2>2. DOMAIN j = DOMAIN e /\ j = [x \in DOMAIN j |-> j[x]]
    OBVIOUS
  <2> HIDE DEF j
  <2>3. QED
    BY <2>1, <2>2
<1>5. /\ values \in [1..n -> Tokens(merges)] /\ alive \in [1..n -> BOOLEAN]
      /\ previous \in [1..n -> 0..n] /\ following \in [1..n -> 0..n]
  <2>1. previous \in [1..n -> 0..n]
    BY <1>1, <1>2
  <2>2. values \in [1..n -> Tokens(merges)] /\ alive \in [1..n -> BOOLEAN] /\ following \in [1..n -> 0..n]
    BY <1>1, <1>2
  <2>3. QED
    BY <2>1, <2>2
<1>6. \A i \in 1..n : /\ values[i] = IF i = l THEN Token(k) ELSE e.values[i]
                      /\ alive[i] <=> e.alive[i] /\ i # r
                      /\ following[i] = IF i = l THEN next ELSE e.following[i]
                      /\ previous[i] = IF next # 0 /\ i = next THEN l ELSE e.previous[i]
  <2>1. TAKE i \in 1..n
  <2>2. previous[i] = IF next # 0 /\ i = next THEN l ELSE e.previous[i]
    BY <1>1, <1>2
  <2>3. QED
    BY <1>1, <1>2, <2>2
<1> DEFINE heap == j.heap \cup Offer(j, j.previous[l]) \cup Offer(j, l)
<1>7. f = [j EXCEPT !.heap = heap]
  BY DEF Joined
<1> HIDE DEF j, heap, values, alive, following, previous
<1>8. /\ f.values = values /\ f.alive = alive /\ f.following = following /\ f.previous = previous
      /\ f.heap = heap
      /\ f = [values |-> values, alive |-> alive, previous |-> previous, following |-> following, heap |-> heap]
  BY <1>3, <1>4, <1>7
<1>9. \A i : Offer(f, i) = Offer(j, i)
  BY <1>3, <1>8 DEF Offer
<1>10. heap = e.heap \cup Offer(f, f.previous[l]) \cup Offer(f, l)
  BY <1>3, <1>8, <1>9 DEF heap
<1>11. heap \in SUBSET Entries(n)
  <2>1. f.previous[l] \in 0..n /\ l \in 0..n /\ f.following \in [1..n -> 0..n]
    BY <1>5, <1>8
  <2>2. Offer(f, f.previous[l]) \subseteq Entries(n) /\ Offer(f, l) \subseteq Entries(n)
    BY <1>1, <2>1, OfferIs
  <2>3. QED
    BY <1>1, <1>10, <2>2
<1>12. EncoderTyped(f, n)
  BY <1>1, <1>5, <1>8, <1>11 DEF EncoderTyped
<1>13. Merged(e, f, n, l, r, Token(k)) /\ Relinked(e, f, n, l, e.following[r])
  BY <1>6, <1>8 DEF Merged, Relinked
<1>14. QED
  BY <1>8, <1>10, <1>12, <1>13

LEMMA SurvivingAlike ==
  ASSUME NEW e, NEW f, f.values = e.values, f.alive = e.alive
  PROVE  \A n \in Nat : Surviving(f, n) = Surviving(e, n)
<1> DEFINE T == {n \in Nat : Surviving(f, n) = Surviving(e, n)}
<1>1. 0 \in T
  BY SurvivingNext
<1>2. ASSUME NEW n \in T PROVE n + 1 \in T
  <2>1. n \in Nat /\ Surviving(f, n) = Surviving(e, n)
    OBVIOUS
  <2>2. Surviving(e, n + 1)
          = IF e.alive[n + 1] THEN Append(Surviving(e, n), e.values[n + 1]) ELSE Surviving(e, n)
    BY <2>1, SurvivingNext
  <2>3. Surviving(f, n + 1)
          = IF f.alive[n + 1] THEN Append(Surviving(f, n), f.values[n + 1]) ELSE Surviving(f, n)
    BY <2>1, SurvivingNext
  <2>4. Surviving(f, n + 1) = Surviving(e, n + 1)
    BY <2>1, <2>2, <2>3
  <2>5. QED
    BY <2>1, <2>4
<1>3. T = Nat
  <2>1. T \in SUBSET Nat
    OBVIOUS
  <2> HIDE DEF T
  <2>2. QED
    BY <1>1, <1>2, <2>1, EveryNumber
<1>4. QED
  BY <1>3

\* The lists and the heap of the encoder.
EncoderInv(e, n) ==
  /\ EncoderTyped(e, n)
  /\ Links(n, e.alive, e.following, e.previous)
  /\ HeapComplete(e, n)

LEMMA InvLists ==
  ASSUME Table(merges), NEW e, NEW n, EncoderTyped(e, n), Links(n, e.alive, e.following, e.previous)
  PROVE  Lists(e, n)
  BY EncoderFields DEF Lists, FieldsTyped

\* An entry taken off the heap, and nothing else.
LEMMA PoppedIs ==
  ASSUME NEW e, NEW n, EncoderTyped(e, n), NEW entry, NEW p, p = [e EXCEPT !.heap = @ \ {entry}]
  PROVE  /\ EncoderTyped(p, n)
         /\ p.values = e.values /\ p.alive = e.alive /\ p.following = e.following
         /\ p.previous = e.previous /\ p.heap = e.heap \ {entry}
         /\ Neighbours(p, n) = Neighbours(e, n) /\ \A i : PairFrom(p, i) = PairFrom(e, i)
<1>1. /\ p.values = e.values /\ p.alive = e.alive /\ p.following = e.following
      /\ p.previous = e.previous /\ p.heap = e.heap \ {entry}
  BY DEF EncoderTyped
<1>2. EncoderTyped(p, n)
  BY DEF EncoderTyped
<1>3. QED
  BY <1>1, <1>2 DEF Neighbours, PairFrom

\* A stale entry is the entry of no pair: without it the heap is as complete.
LEMMA StaleKeeps ==
  ASSUME Table(merges), NEW e, NEW n, EncoderInv(e, n), NEW entry, Stale(e, entry),
         NEW p, p = [e EXCEPT !.heap = @ \ {entry}]
  PROVE  EncoderInv(p, n) /\ Surviving(p, n) = Surviving(e, n)
<1>1. EncoderTyped(e, n) /\ Links(n, e.alive, e.following, e.previous) /\ HeapComplete(e, n)
  BY DEF EncoderInv
<1>2. /\ EncoderTyped(p, n)
      /\ p.values = e.values /\ p.alive = e.alive /\ p.following = e.following
      /\ p.previous = e.previous /\ p.heap = e.heap \ {entry}
      /\ Neighbours(p, n) = Neighbours(e, n) /\ \A i : PairFrom(p, i) = PairFrom(e, i)
  BY <1>1, PoppedIs
<1>3. Lists(e, n) /\ n \in Nat
  BY <1>1, InvLists DEF Lists
<1>4. HeapComplete(p, n)
  <2>1. p.heap \subseteq Entries(n)
    BY <1>1, <1>2 DEF HeapComplete
  <2>2. ASSUME NEW i \in Neighbours(e, n), NEW r \in DOMAIN merges, merges[r] = PairFrom(e, i)
        PROVE  <<r, i, e.following[i]>> \in p.heap
    <3> DEFINE x == <<r, i, e.following[i]>>
    <3>1. x \in e.heap
      BY <1>1, <2>2 DEF HeapComplete
    <3>2. e.alive[i] /\ e.alive[e.following[i]]
      BY <1>3, NeighbourIs DEF Neighbours
    <3>3. ~Stale(e, x)
      BY <2>2, <3>2 DEF Stale, PairFrom
    <3>4. QED
      BY <1>2, <3>1, <3>3
  <2>3. QED
    BY <1>2, <2>1, <2>2 DEF HeapComplete
<1>5. QED
  BY <1>1, <1>2, <1>3, <1>4, SurvivingAlike DEF EncoderInv

LEMMA NeighbourOf ==
  ASSUME NEW e, NEW n, Lists(e, n), NEW l \in Neighbours(e, n)
  PROVE  /\ n \in Nat /\ l \in 1..n /\ l \in Nat /\ e.alive[l] /\ e.following[l] \in 1..n /\ l < e.following[l]
         /\ e.following[l] \in Nat /\ e.alive[e.following[l]]
         /\ l - 1 \in 0..n /\ l - 1 \in Nat /\ (l - 1) + 1 = l /\ l \in 0..n
<1>1. n \in Nat /\ l \in 1..n /\ e.alive[l] /\ e.following[l] \in 1..n /\ l < e.following[l] /\ e.alive[e.following[l]]
  BY NeighbourIs
<1>2. QED
  BY <1>1

\* After a join, the heap is complete again: two pairs are new and are offered.
OfferedAt(e, f, n, l, entry) ==
  /\ n \in Nat /\ l \in 0..n /\ entry[2] = l /\ HeapComplete(e, n)
  /\ f.following \in [1..n -> 0..n] /\ f.previous[l] \in 0..n /\ f.heap \subseteq Entries(n)
  /\ f.heap = (e.heap \ {entry}) \cup Offer(f, f.previous[l]) \cup Offer(f, l)
  /\ \A i \in Neighbours(f, n) :
       i = l \/ i = f.previous[l]
       \/ /\ i \in Neighbours(e, n) /\ f.following[i] = e.following[i]
          /\ PairFrom(f, i) = PairFrom(e, i)

LEMMA JoinHeap ==
  ASSUME NEW e, NEW f, NEW n, NEW l, NEW entry, OfferedAt(e, f, n, l, entry)
  PROVE  HeapComplete(f, n)
<1> SUFFICES ASSUME n \in Nat, l \in 0..n, entry[2] = l, HeapComplete(e, n),
                    f.following \in [1..n -> 0..n], f.previous[l] \in 0..n, f.heap \subseteq Entries(n),
                    f.heap = (e.heap \ {entry}) \cup Offer(f, f.previous[l]) \cup Offer(f, l),
                    \A i \in Neighbours(f, n) :
                      i = l \/ i = f.previous[l]
                      \/ /\ i \in Neighbours(e, n) /\ f.following[i] = e.following[i]
                         /\ PairFrom(f, i) = PairFrom(e, i)
             PROVE  HeapComplete(f, n)
  BY DEF OfferedAt
<1>1. SUFFICES ASSUME NEW i \in Neighbours(f, n), NEW q \in DOMAIN merges, merges[q] = PairFrom(f, i)
               PROVE  <<q, i, f.following[i]>> \in f.heap
  BY DEF HeapComplete
<1>2. CASE i = l
  <2>1. \A x \in DOMAIN merges : merges[x] = PairFrom(f, i) => <<x, i, f.following[i]>> \in Offer(f, i)
    BY <1>2, OfferIs
  <2>2. QED
    BY <1>1, <1>2, <2>1
<1>3. CASE i = f.previous[l]
  <2>0. i \in 0..n
    BY <1>3
  <2>1. \A x \in DOMAIN merges : merges[x] = PairFrom(f, i) => <<x, i, f.following[i]>> \in Offer(f, i)
    BY <2>0, OfferIs
  <2>2. QED
    BY <1>1, <1>3, <2>1
<1>4. CASE i # l /\ i # f.previous[l]
  <2>1. i \in Neighbours(e, n) /\ f.following[i] = e.following[i] /\ PairFrom(f, i) = PairFrom(e, i)
    BY <1>4
  <2>2. <<q, i, e.following[i]>> \in e.heap
    BY <1>1, <2>1 DEF HeapComplete
  <2>3. <<q, i, e.following[i]>> # entry
    BY <1>4
  <2>4. QED
    BY <2>1, <2>2, <2>3
<1>5. QED
  BY <1>2, <1>3, <1>4

\* The lowest pair with a rank, and the first with that rank.
Foremost(e, n, k, l) ==
  \A i \in Neighbours(e, n) : \A q \in DOMAIN merges :
    merges[q] = PairFrom(e, i) => k < q \/ (k = q /\ l =< i)

\* The pair at the top is the lowest that occurs, and does not occur further left.
LEMMA JoinLowest ==
  ASSUME Table(merges), NEW e, NEW n, Lists(e, n), NEW k \in DOMAIN merges, NEW l \in Neighbours(e, n),
         merges[k] = PairFrom(e, l), Foremost(e, n, k, l)
  PROVE  /\ merges[k] \notin PairsOf(Surviving(e, l))
         /\ k \in AvailableIn(merges, Surviving(e, n))
         /\ \A q \in AvailableIn(merges, Surviving(e, n)) : k =< q
<1>1. /\ n \in Nat /\ l \in 1..n /\ l \in Nat /\ e.following[l] \in 1..n /\ l \in 0..n
  BY NeighbourOf
<1>2. k \in Nat
  BY TableTyped
<1>3. LookedAt(e, n, l) /\ LookedAt(e, n, n)
  <2>1. n \in 0..n
    BY <1>1
  <2>2. \A j \in 0..n : LookedAt(e, n, j)
    BY SurvivingPairs
  <2>3. QED
    BY <1>1, <2>1, <2>2
<1>4. merges[k] \notin PairsOf(Surviving(e, l))
  <2>1. SUFFICES ASSUME merges[k] \in PairsOf(Surviving(e, l)) PROVE FALSE
    OBVIOUS
  <2>2. \E i \in Neighbours(e, n) : e.following[i] =< l /\ merges[k] = PairFrom(e, i)
    BY <1>3, <2>1 DEF LookedAt
  <2>3. PICK i \in Neighbours(e, n) : e.following[i] =< l /\ merges[k] = PairFrom(e, i)
    BY <2>2
  <2>4. k < k \/ (k = k /\ l =< i)
    BY <2>3 DEF Foremost
  <2>5. i < e.following[i] /\ i \in Nat /\ e.following[i] \in Nat
    BY NeighbourOf
  <2>6. QED
    BY <1>1, <1>2, <2>3, <2>4, <2>5
<1>5. k \in AvailableIn(merges, Surviving(e, n))
  <2>1. e.following[l] =< n
    BY <1>1
  <2>2. merges[k] \in PairsOf(Surviving(e, n))
    BY <1>3, <2>1 DEF LookedAt
  <2>3. QED
    BY <2>2 DEF AvailableIn
<1>6. \A q \in AvailableIn(merges, Surviving(e, n)) : k =< q
  <2>1. TAKE q \in AvailableIn(merges, Surviving(e, n))
  <2>2. q \in DOMAIN merges /\ merges[q] \in PairsOf(Surviving(e, n))
    BY DEF AvailableIn
  <2>3. q \in Nat
    BY <2>2, TableTyped
  <2>4. \E i \in Neighbours(e, n) : merges[q] = PairFrom(e, i)
    BY <1>3, <2>2 DEF LookedAt
  <2>5. PICK i \in Neighbours(e, n) : merges[q] = PairFrom(e, i)
    BY <2>4
  <2>6. k < q \/ (k = q /\ l =< i)
    BY <2>2, <2>5 DEF Foremost
  <2>7. QED
    BY <1>2, <2>3, <2>6
<1>7. QED
  BY <1>4, <1>5, <1>6

LEMMA Wider == ASSUME NEW D, NEW E, D \in SUBSET E, NEW u \in Seq(D) PROVE u \in Seq(E)
  OBVIOUS

MergedFirst(e, n, k, l, f) ==
  /\ Lists(e, n) /\ e.values \in [1..n -> Tokens(merges)]
  /\ k \in DOMAIN merges /\ l \in Neighbours(e, n)
  /\ merges[k] = PairFrom(e, l) /\ Foremost(e, n, k, l)
  /\ Merged(e, f, n, l, e.following[l], Token(k))

\* Joining it changes neither what the text spells nor what it leads to.
LEMMA JoinText ==
  ASSUME Table(merges), NEW e, NEW n, NEW k, NEW l, NEW f, MergedFirst(e, n, k, l, f)
  PROVE  /\ ExpandBy(merges, Surviving(f, n)) = ExpandBy(merges, Surviving(e, n))
         /\ ReferenceBy(merges, Surviving(f, n)) = ReferenceBy(merges, Surviving(e, n))
<1> SUFFICES ASSUME Lists(e, n), e.values \in [1..n -> Tokens(merges)],
                    k \in DOMAIN merges, l \in Neighbours(e, n),
                    merges[k] = PairFrom(e, l), Foremost(e, n, k, l),
                    Merged(e, f, n, l, e.following[l], Token(k))
             PROVE  /\ ExpandBy(merges, Surviving(f, n)) = ExpandBy(merges, Surviving(e, n))
                    /\ ReferenceBy(merges, Surviving(f, n)) = ReferenceBy(merges, Surviving(e, n))
  BY DEF MergedFirst
<1> DEFINE D == Tokens(merges)
           r == e.following[l]
           u == Surviving(e, l - 1)
           a == e.values[l]
           b == e.values[r]
           s == Surviving(e, n)
           t == Surviving(f, n)
<1>1. /\ n \in Nat /\ l \in 1..n /\ r \in 1..n /\ e.alive[l]
      /\ l - 1 \in 0..n /\ l - 1 \in Nat /\ (l - 1) + 1 = l
  BY NeighbourOf
<1>2. Token(k) \in D
  BY SpellingIs
<1>3. D \in SUBSET Nat
  BY TokensNat
<1>4. a \in D /\ b \in D /\ \A i \in 1..n : e.values[i] \in D
  BY <1>1
<1>5. u \in Seq(D)
  <2> HIDE DEF D
  <2>1. \A j \in 0..n : Surviving(e, j) \in Seq(D)
    BY <1>1, <1>4, SurvivingTyped
  <2>2. QED
    BY <1>1, <2>1
<1>6. JoinAt(D, e, n, l, r, Token(k), f)
  <2>1. e.values \in [1..n -> D]
    OBVIOUS
  <2> HIDE DEF D
  <2>2. QED
    BY <1>2, <1>3, <2>1 DEF JoinAt
<1>7. PICK w \in Seq(D) : s = Append(Append(u, a), b) \o w /\ t = Append(u, Token(k)) \o w
  <2>1. Parted(D, e, n, l, r, Token(k), f)
    <3> HIDE DEF D, r
    <3>1. QED
      BY <1>6, SurvivingJoined
  <2>2. \E w \in Seq(D) : s = Append(Append(u, a), b) \o w /\ t = Append(u, Token(k)) \o w
    BY <2>1 DEF Parted
  <2> HIDE DEF D, u, a, b, s, t
  <2>3. QED
    BY <2>2
<1>8. merges[k] = <<a, b>>
  BY DEF PairFrom
<1>9. Append(u, a) = Surviving(e, l)
  <2>1. Surviving(e, (l - 1) + 1)
          = IF e.alive[(l - 1) + 1] THEN Append(Surviving(e, l - 1), e.values[(l - 1) + 1])
            ELSE Surviving(e, l - 1)
    BY <1>1, SurvivingNext
  <2>2. QED
    BY <1>1, <2>1
<1>10. /\ merges[k] \notin PairsOf(Append(u, a))
       /\ k \in AvailableIn(merges, s)
       /\ \A q \in AvailableIn(merges, s) : k =< q
  BY <1>9, JoinLowest
<1>11. /\ u \in Seq(Nat) /\ w \in Seq(Nat) /\ a \in Nat /\ b \in Nat
       /\ u \in Seq(Tokens(merges)) /\ w \in Seq(Tokens(merges))
       /\ a \in Tokens(merges) /\ b \in Tokens(merges)
  <2>1. a \in Nat /\ b \in Nat
    BY <1>3, <1>4
  <2>2. u \in Seq(Nat) /\ w \in Seq(Nat)
    <3> HIDE DEF D, u, s, t, a, b
    <3>1. u \in Seq(Nat)
      BY <1>3, <1>5, Wider
    <3>2. w \in Seq(Nat)
      BY <1>3, Wider
    <3>3. QED
      BY <3>1, <3>2
  <2>3. u \in Seq(Tokens(merges)) /\ w \in Seq(Tokens(merges))
    BY <1>5, <1>7
  <2>4. QED
    BY <1>4, <2>1, <2>2, <2>3
<1> HIDE DEF u, a, b, s, t, r, D
<1>12. ExpandBy(merges, Append(Append(u, a), b) \o w) = ExpandBy(merges, Append(u, Token(k)) \o w)
  BY <1>8, <1>11, ExpandJoined
<1>13. ReferenceBy(merges, s) = ReferenceBy(merges, t)
  <2>1. JoinIn(merges, k, u, a, b, w, s, t)
    BY <1>7, <1>8, <1>10, <1>11 DEF JoinIn
  <2>2. QED
    BY <2>1, ReferenceJoined
<1>14. QED
  BY <1>7, <1>12, <1>13 DEF s, t

LEMMA FieldIs ==
  ASSUME NEW f, NEW n \in Nat, FieldsTyped(f, n), NEW l \in 1..n
  PROVE  f.following \in [1..n -> 0..n] /\ f.previous[l] \in 0..n /\ l \in 0..n
  BY DEF FieldsTyped

\* One iteration of _encode_piece that joins two tokens.
LEMMA JoinKeeps ==
  ASSUME Table(merges), NEW e, NEW n, EncoderInv(e, n), e.heap # {},
         NEW entry, entry = Top(e.heap), ~Stale(e, entry),
         NEW p, p = [e EXCEPT !.heap = @ \ {entry}],
         NEW f, f = Joined(p, entry[1], entry[2], entry[3])
  PROVE  /\ EncoderInv(f, n)
         /\ ExpandBy(merges, Surviving(f, n)) = ExpandBy(merges, Surviving(e, n))
         /\ ReferenceBy(merges, Surviving(f, n)) = ReferenceBy(merges, Surviving(e, n))
<1> DEFINE k == entry[1]
           l == entry[2]
           r == entry[3]
           D == Tokens(merges)
<1>1. EncoderTyped(e, n) /\ Links(n, e.alive, e.following, e.previous) /\ HeapComplete(e, n)
  BY DEF EncoderInv
<1>2. /\ EncoderTyped(p, n)
      /\ p.values = e.values /\ p.alive = e.alive /\ p.following = e.following
      /\ p.previous = e.previous /\ p.heap = e.heap \ {entry}
      /\ Neighbours(p, n) = Neighbours(e, n) /\ \A i : PairFrom(p, i) = PairFrom(e, i)
  BY <1>1, PoppedIs
<1>3. Lists(p, n) /\ n \in Nat /\ Surviving(p, n) = Surviving(e, n)
  BY <1>1, <1>2, InvLists, SurvivingAlike DEF Lists
<1>4. /\ entry \in e.heap /\ entry = <<k, l, r>>
      /\ k \in DOMAIN merges /\ k \in Nat /\ l \in 1..n /\ r \in 1..n
      /\ \A other \in e.heap : k < other[1] \/ (k = other[1] /\ l =< other[2])
  <2>1. e.heap \subseteq Entries(n) /\ \A x \in DOMAIN merges : x \in Nat
    BY <1>1, TableTyped DEF HeapComplete
  <2>2. e.heap \subseteq Nat \X Nat \X Nat
    BY <1>3, <2>1 DEF Entries
  <2>3. /\ entry \in e.heap
        /\ \A other \in e.heap : k < other[1] \/ (k = other[1] /\ l =< other[2])
    BY <2>2, TopIs
  <2>4. QED
    BY <2>1, <2>3 DEF Entries
<1>5. p.alive[l] /\ p.alive[r] /\ p.following[l] = r /\ merges[k] = <<p.values[l], p.values[r]>>
  BY <1>2 DEF Stale
<1>a. f = Joined(p, k, l, r)
  OBVIOUS
<1> HIDE DEF k, l, r, D
<1>6. l \in Neighbours(p, n) /\ merges[k] = PairFrom(p, l) /\ r = p.following[l]
  <2>1. r # 0
    BY <1>4
  <2>2. QED
    BY <1>4, <1>5, <2>1 DEF Neighbours, PairFrom
<1>7. /\ EncoderTyped(f, n)
      /\ Merged(p, f, n, l, r, Token(k)) /\ Relinked(p, f, n, l, p.following[r])
      /\ f.heap = p.heap \cup Offer(f, f.previous[l]) \cup Offer(f, l)
  <2>1. JoinedAt(p, n, k, l, r, f)
    BY <1>a, <1>2, <1>4 DEF JoinedAt
  <2>2. JoinedWell(p, n, k, l, r, f)
    BY <2>1, JoinedIs
  <2>3. QED
    BY <2>2 DEF JoinedWell
<1>8. FieldsTyped(f, n) /\ f.heap \subseteq Entries(n)
  BY <1>7, EncoderFields
<1>9. EncoderInv(f, n) /\ p.values \in [1..n -> D]
  <2>1. Token(k) \in Nat
    BY <1>4, SpellingIs, TokensNat DEF D
  <2>2. /\ Lists(f, n) /\ f.previous[l] = p.previous[l]
        /\ \A i \in Neighbours(f, n) :
             i = l \/ i = p.previous[l]
             \/ /\ i \in Neighbours(p, n) /\ f.following[i] = p.following[i] /\ i # r
                /\ PairFrom(f, i) = PairFrom(p, i)
    <3> DEFINE next == p.following[r]
    <3>1. RelinkedAt(p, n, l, r, Token(k), next, f)
      BY <1>3, <1>6, <1>7, <1>8, <2>1 DEF RelinkedAt
    <3> HIDE DEF next
    <3>2. RelinkedWell(p, n, l, r, f)
      BY <3>1, ListsJoined
    <3>3. QED
      BY <3>2 DEF RelinkedWell
  <2>3. f.following \in [1..n -> 0..n] /\ f.previous[l] \in 0..n /\ l \in 0..n
    BY <1>3, <1>4, <1>8, FieldIs
  <2>4. f.heap = (e.heap \ {entry}) \cup Offer(f, f.previous[l]) \cup Offer(f, l)
    BY <1>2, <1>7
  <2>5. \A i \in Neighbours(f, n) :
          i = l \/ i = f.previous[l]
          \/ /\ i \in Neighbours(e, n) /\ f.following[i] = e.following[i]
             /\ PairFrom(f, i) = PairFrom(e, i)
    BY <1>2, <2>2
  <2>6. entry[2] = l
    BY DEF l
  <2>7. HeapComplete(f, n)
    <3>1. OfferedAt(e, f, n, l, entry)
      BY <1>1, <1>3, <1>8, <2>3, <2>4, <2>5, <2>6 DEF OfferedAt
    <3>2. QED
      BY <3>1, JoinHeap
  <2>8. p.values \in [1..n -> D]
    BY <1>2, EncoderFields DEF D
  <2>9. QED
    BY <1>7, <2>2, <2>7, <2>8 DEF EncoderInv, Lists
<1>10. Foremost(p, n, k, l)
  <2>1. ASSUME NEW i \in Neighbours(p, n), NEW q \in DOMAIN merges, merges[q] = PairFrom(p, i)
        PROVE  k < q \/ (k = q /\ l =< i)
    <3>1. <<q, i, e.following[i]>> \in e.heap
      BY <1>1, <1>2, <2>1 DEF HeapComplete
    <3>2. QED
      BY <1>4, <3>1
  <2>2. QED
    BY <2>1 DEF Foremost
<1>11. Merged(p, f, n, l, p.following[l], Token(k)) /\ k \in DOMAIN merges
  BY <1>4, <1>6, <1>7
<1>12. /\ ExpandBy(merges, Surviving(f, n)) = ExpandBy(merges, Surviving(p, n))
       /\ ReferenceBy(merges, Surviving(f, n)) = ReferenceBy(merges, Surviving(p, n))
  <2>1. MergedFirst(p, n, k, l, f)
    BY <1>3, <1>6, <1>9, <1>10, <1>11 DEF D, MergedFirst
  <2>2. QED
    BY <2>1, JoinText
<1>13. QED
  BY <1>3, <1>9, <1>12

-------------------------------------------------------------------------------
(* A text just linked                                                          *)

LEMMA LinkedIs ==
  ASSUME NEW s, NEW n, n = Len(s), NEW e, e = Linked(s)
  PROVE  /\ e = [values |-> s, alive |-> [i \in 1..n |-> TRUE], previous |-> [i \in 1..n |-> i - 1],
                 following |-> [i \in 1..n |-> IF i = n THEN 0 ELSE i + 1], heap |-> e.heap]
         /\ e.heap = UNION {Offer(e, i) : i \in 1..(n - 1)}
<1> DEFINE alive == [i \in 1..n |-> TRUE]
           previous == [i \in 1..n |-> i - 1]
           following == [i \in 1..n |-> IF i = n THEN 0 ELSE i + 1]
           b == [values |-> s, alive |-> alive, previous |-> previous, following |-> following, heap |-> {}]
           heap == UNION {Offer(b, i) : i \in 1..(n - 1)}
<1>1. e = [b EXCEPT !.heap = heap]
  BY DEF Linked
<1>2. b.values = s /\ b.alive = alive /\ b.following = following
  OBVIOUS
<1> HIDE DEF heap
<1>3. e = [values |-> s, alive |-> alive, previous |-> previous, following |-> following, heap |-> heap]
  <2> HIDE DEF alive, previous, following
  <2>1. QED
    BY <1>1
<1>4. e.values = s /\ e.alive = alive /\ e.following = following /\ e.heap = heap
  <2> HIDE DEF alive, previous, following
  <2>1. QED
    BY <1>3
<1>5. \A i : Offer(e, i) = Offer(b, i)
  <2> HIDE DEF b, alive, previous, following
  <2>1. e.values = b.values /\ e.alive = b.alive /\ e.following = b.following
    BY <1>2, <1>4
  <2>2. QED
    BY <2>1 DEF Offer
<1>6. heap = UNION {Offer(e, i) : i \in 1..(n - 1)}
  <2> HIDE DEF b
  <2>1. QED
    BY <1>5 DEF heap
<1>7. QED
  BY <1>3, <1>4, <1>6

\* _encode_piece begins with all tokens linked and all pairs offered.
LEMMA LinkedInv ==
  ASSUME Table(merges), NEW s \in Seq(Tokens(merges))
  PROVE  EncoderInv(Linked(s), Len(s)) /\ Linked(s).values = s
<1> DEFINE n == Len(s)
           e == Linked(s)
           D == Tokens(merges)
<1>1. n \in Nat /\ s \in [1..n -> D]
  OBVIOUS
<1>2. /\ e = [values |-> s, alive |-> [i \in 1..n |-> TRUE], previous |-> [i \in 1..n |-> i - 1],
              following |-> [i \in 1..n |-> IF i = n THEN 0 ELSE i + 1], heap |-> e.heap]
      /\ e.heap = UNION {Offer(e, i) : i \in 1..(n - 1)}
  BY LinkedIs
<1> HIDE DEF e, n, D
<1>3. /\ e.values = s /\ e.alive = [i \in 1..n |-> TRUE] /\ e.previous = [i \in 1..n |-> i - 1]
      /\ e.following = [i \in 1..n |-> IF i = n THEN 0 ELSE i + 1]
  BY <1>2
<1>4. \A i \in 1..n : e.alive[i] /\ e.previous[i] = i - 1 /\ e.following[i] = IF i = n THEN 0 ELSE i + 1
  BY <1>3
<1>5. /\ e.alive \in [1..n -> BOOLEAN] /\ e.previous \in [1..n -> 0..n]
      /\ e.following \in [1..n -> 0..n]
  BY <1>1, <1>3
<1>6. \A i \in 0..n : /\ Offer(e, i) \subseteq Entries(n)
                      /\ i \in Neighbours(e, n) =>
                           \A r \in DOMAIN merges :
                             merges[r] = PairFrom(e, i) => <<r, i, e.following[i]>> \in Offer(e, i)
  BY <1>1, <1>5, OfferIs
<1>7. e.heap \in SUBSET Entries(n)
  <2>1. \A i \in 1..(n - 1) : i \in 0..n
    BY <1>1
  <2>2. QED
    BY <1>2, <1>6, <2>1
<1>8. EncoderTyped(e, n)
  <2>1. e \in [values : [1..n -> D], alive : [1..n -> BOOLEAN],
               previous : [1..n -> 0..n], following : [1..n -> 0..n], heap : SUBSET Entries(n)]
    BY <1>1, <1>2, <1>3, <1>5, <1>7
  <2>2. QED
    BY <1>1, <2>1 DEF EncoderTyped, D
<1>9. Links(n, e.alive, e.following, e.previous)
  <2>1. SUFFICES ASSUME NEW i \in 1..n
                 PROVE  /\ e.following[i] = 0 => \A j \in 1..n : j > i => ~e.alive[j]
                        /\ e.following[i] # 0 => /\ e.following[i] > i /\ e.alive[e.following[i]]
                                               /\ \A j \in 1..n : j > i /\ j < e.following[i] => ~e.alive[j]
                        /\ e.previous[i] = 0 => \A j \in 1..n : j < i => ~e.alive[j]
                        /\ e.previous[i] # 0 => /\ e.previous[i] < i /\ e.alive[e.previous[i]]
                                              /\ \A j \in 1..n : j < i /\ j > e.previous[i] => ~e.alive[j]
    BY DEF Links
  <2>2. i \in Nat /\ i # 0 /\ i =< n
    BY <1>1
  <2>3. e.previous[i] = i - 1 /\ e.following[i] = IF i = n THEN 0 ELSE i + 1
    BY <1>4
  <2>4. CASE i = n
    BY <1>1, <1>4, <2>2, <2>3, <2>4
  <2>5. CASE i # n
    BY <1>1, <1>4, <2>2, <2>3, <2>5
  <2>6. QED
    BY <2>4, <2>5
<1>10. HeapComplete(e, n)
  <2>1. ASSUME NEW i \in Neighbours(e, n), NEW r \in DOMAIN merges, merges[r] = PairFrom(e, i)
        PROVE  <<r, i, e.following[i]>> \in e.heap
    <3>1. i \in 1..n /\ e.following[i] # 0
      BY DEF Neighbours
    <3>2. i \in 1..(n - 1) /\ i \in 0..n
      BY <1>1, <1>4, <3>1
    <3>3. <<r, i, e.following[i]>> \in Offer(e, i)
      BY <1>6, <2>1, <3>2
    <3>4. QED
      BY <1>2, <3>2, <3>3
  <2>2. QED
    BY <1>7, <2>1 DEF HeapComplete
<1>11. QED
  BY <1>3, <1>8, <1>9, <1>10 DEF EncoderInv, e, n

LEMMA LinkedSurvives ==
  ASSUME NEW D, NEW s \in Seq(D)
  PROVE  ResultBy(Linked(s)) = s
<1> DEFINE n == Len(s)
           e == Linked(s)
           T == {j \in Nat : j =< n => /\ Surviving(e, j) \in Seq(D) /\ Len(Surviving(e, j)) = j
                                      /\ \A i \in 1..j : Surviving(e, j)[i] = s[i]}
<1>1. n \in Nat /\ s \in [1..n -> D]
  OBVIOUS
<1>2. e = [values |-> s, alive |-> [i \in 1..n |-> TRUE], previous |-> [i \in 1..n |-> i - 1],
           following |-> [i \in 1..n |-> IF i = n THEN 0 ELSE i + 1], heap |-> e.heap]
  <2> HIDE DEF T
  <2>1. QED
    BY LinkedIs
<1>3. e.values = s /\ \A i \in 1..n : e.alive[i]
  <2> HIDE DEF T, e, n
  <2>1. e.values = s /\ e.alive = [i \in 1..n |-> TRUE]
    BY <1>2
  <2>2. QED
    BY <2>1
<1> HIDE DEF e, n
<1>4. 0 \in T
  <2> DEFINE x == Surviving(e, 0)
  <2>1. x = <<>> /\ <<>> \in Seq(D) /\ Len(<<>>) = 0
    BY SurvivingNext, EmptySeq
  <2> HIDE DEF x
  <2>2. x \in Seq(D) /\ Len(x) = 0
    BY <2>1, Zenon
  <2>3. \A i \in 1..0 : x[i] = s[i]
    OBVIOUS
  <2>4. QED
    BY <2>2, <2>3 DEF x
<1>5. ASSUME NEW j \in T PROVE j + 1 \in T
  <2>1. SUFFICES ASSUME j + 1 =< n
                 PROVE  /\ Surviving(e, j + 1) \in Seq(D) /\ Len(Surviving(e, j + 1)) = j + 1
                        /\ \A i \in 1..(j + 1) : Surviving(e, j + 1)[i] = s[i]
    OBVIOUS
  <2> DEFINE x == Surviving(e, j)
             y == Surviving(e, j + 1)
  <2>2. j \in Nat /\ x \in Seq(D) /\ Len(x) = j /\ \A i \in 1..j : x[i] = s[i]
    BY <1>1, <2>1
  <2>3. j + 1 \in 1..n
    BY <1>1, <2>1, <2>2
  <2> HIDE DEF T
  <2>4. y = Append(x, s[j + 1]) /\ s[j + 1] \in D
    BY <1>1, <1>3, <2>2, <2>3, SurvivingNext
  <2> HIDE DEF x, y
  <2>5. y \in Seq(D) /\ Len(y) = j + 1 /\ y[j + 1] = s[j + 1] /\ \A i \in 1..j : y[i] = x[i]
    BY <2>2, <2>4
  <2>6. \A i \in 1..(j + 1) : y[i] = s[i]
    BY <2>2, <2>5
  <2>7. QED
    BY <2>5, <2>6 DEF y
<1>6. T = Nat
  <2>1. T \in SUBSET Nat
    OBVIOUS
  <2> HIDE DEF T
  <2>2. QED
    BY <1>4, <1>5, <2>1, EveryNumber
<1>7. Surviving(e, n) \in Seq(D) /\ Len(Surviving(e, n)) = Len(s) /\ \A i \in 1..Len(s) : Surviving(e, n)[i] = s[i]
  BY <1>1, <1>6 DEF n
<1>8. Surviving(e, n) = s
  <2> DEFINE x == Surviving(e, n)
  <2>1. x \in Seq(D) /\ Len(x) = Len(s) /\ \A i \in 1..Len(x) : x[i] = s[i]
    BY <1>7
  <2> HIDE DEF x
  <2>2. x = s
    BY <2>1, SeqEqual
  <2>3. QED
    BY <2>2 DEF x
<1>9. ResultBy(e) = Surviving(e, n)
  BY <1>1, <1>3, ResultIsFold
<1>10. QED
  BY <1>8, <1>9 DEF e

-------------------------------------------------------------------------------
(* Bytes, and a table that grows                                               *)

\* Bytes spell themselves.
LEMMA BytesSpell ==
  ASSUME NEW m, Table(m)
  PROVE  \A s \in Seq(0..(ByteValues - 1)) : ExpandBy(m, s) = s
<1> DEFINE B == 0..(ByteValues - 1)
           T == {s \in Seq(B) : ExpandBy(m, s) = s}
<1>0. B \subseteq Tokens(m) /\ \A v \in B : Spelling(m)[v] = <<v>>
  <2>1. B \subseteq Tokens(m) /\ ByteValues \in Nat
    BY TokensNat
  <2>2. \A v \in B : v < ByteValues
    BY <2>1
  <2>3. \A v \in Tokens(m) : v < ByteValues => Spelling(m)[v] = <<v>>
    BY SpellingIs
  <2> HIDE DEF B
  <2>4. QED
    BY <2>1, <2>2, <2>3
<1> HIDE DEF B
<1>1. <<>> \in T
  BY ExpandNone, EmptySeq
<1>2. ASSUME NEW s \in T, NEW v \in B PROVE Append(s, v) \in T
  <2>1. s \in Seq(B) /\ ExpandBy(m, s) = s
    OBVIOUS
  <2> HIDE DEF T
  <2>2. s \in Seq(Tokens(m)) /\ v \in Tokens(m)
    <3>1. s \in Seq(Tokens(m))
      BY <1>0, <2>1, Wider
    <3>2. QED
      BY <1>0, <3>1
  <2>3. ExpandBy(m, Append(s, v)) = ExpandBy(m, s) \o Spelling(m)[v]
    BY <2>2, ExpandAppend
  <2>4. ExpandBy(m, Append(s, v)) = s \o <<v>>
    BY <1>0, <2>1, <2>3
  <2>5. s \o <<v>> = Append(s, v) /\ Append(s, v) \in Seq(B)
    BY <2>1
  <2>6. QED
    BY <2>4, <2>5 DEF T
<1>3. T = Seq(B)
  <2>1. T \in SUBSET Seq(B)
    OBVIOUS
  <2> HIDE DEF T
  <2>2. QED
    BY <1>1, <1>2, <2>1, EverySequence
<1>4. QED
  BY <1>3 DEF B

LEMMA NoMerges ==
  /\ Table(<<>>)
  /\ \A s \in Seq(Nat) : ReferenceBy(<<>>, s) = s
<1>1. <<>> \in Seq(Nat \X Nat) /\ DOMAIN <<>> = {}
  OBVIOUS
<1>2. PICK m : m = <<>>
  OBVIOUS
<1>3. m \in Seq(Nat \X Nat) /\ DOMAIN m = {}
  BY <1>1, <1>2
<1>4. Table(m)
  BY <1>3 DEF Table
<1>5. \A s \in Seq(Nat) : ReferenceBy(m, s) = s
  <2>1. TAKE s \in Seq(Nat)
  <2>2. AvailableIn(m, s) = {}
    BY <1>3 DEF AvailableIn
  <2>3. QED
    BY <1>4, <2>2, ReferenceIs
<1>6. QED
  BY <1>2, <1>4, <1>5

\* A pair of tokens that has no rank may get the next one.
LEMMA TableGrows ==
  ASSUME NEW m, Table(m), NEW pair, pair \in Tokens(m) \X Tokens(m), \A r \in DOMAIN m : m[r] # pair
  PROVE  Table(Append(m, pair)) /\ Tokens(m) \subseteq Tokens(Append(m, pair))
         /\ Token(Len(m) + 1) \in Tokens(Append(m, pair))
<1> DEFINE n == Append(m, pair)
           k == Len(m) + 1
<1>1. m \in Seq(Nat \X Nat) /\ Tokens(m) \subseteq Nat
  BY TokensNat DEF Table
<1>2. pair \in Nat \X Nat /\ pair[1] \in Tokens(m) /\ pair[2] \in Tokens(m)
  BY <1>1
<1>3. /\ n \in Seq(Nat \X Nat) /\ Len(n) = k /\ Len(m) \in Nat /\ DOMAIN n = 1..k /\ DOMAIN m = 1..Len(m)
      /\ n[k] = pair /\ \A r \in DOMAIN m : n[r] = m[r]
  BY <1>1, <1>2
<1>4. \A r \in DOMAIN n : r \in DOMAIN m \/ r = k
  BY <1>3
<1>5. ByteValues \in Nat
  BY PairsAssumption
<1>6. Tokens(m) \subseteq Tokens(n) /\ Token(k) \in Tokens(n)
  BY <1>3, <1>5 DEF Tokens, Token
<1>7. \A v \in Tokens(m) : v < Token(k)
  BY <1>3, <1>5 DEF Tokens, Token
<1> HIDE DEF n, k
<1>8. \A r, q \in DOMAIN n : n[r] = n[q] => r = q
  <2>1. \A r, q \in DOMAIN m : m[r] = m[q] => r = q
    BY DEF Table
  <2>2. QED
    BY <1>3, <1>4, <2>1
<1>9. \A r \in DOMAIN n : n[r][1] < Token(r) /\ n[r][2] < Token(r)
  <2>1. \A r \in DOMAIN m : m[r][1] < Token(r) /\ m[r][2] < Token(r)
    BY DEF Table
  <2>2. pair[1] < Token(k) /\ pair[2] < Token(k)
    BY <1>2, <1>7
  <2>3. QED
    BY <1>3, <1>4, <2>1, <2>2
<1>10. Table(n)
  BY <1>3, <1>8, <1>9 DEF Table
<1>11. QED
  BY <1>6, <1>10 DEF n, k

-------------------------------------------------------------------------------
(* The invariant of learning and encoding                                      *)

ByteRange == 0..(ByteValues - 1)

\* The trainer's segments are the reference encodings of those it began with.
LearnerInv ==
  /\ learner = [corpus |-> learner.corpus, streams |-> learner.streams]
  /\ learner.corpus \in Seq(Seq(ByteRange)) /\ learner.streams \in Seq(Seq(Tokens(merges)))
  /\ Len(learner.streams) = Len(learner.corpus)
  /\ \A i \in DOMAIN learner.corpus : learner.streams[i] = ReferenceBy(merges, learner.corpus[i])

\* The tokens that survive still spell the text and still lead to its encoding.
Encoding(e, s) ==
  /\ EncoderInv(e, Len(s))
  /\ ExpandBy(merges, ResultBy(e)) = s
  /\ ReferenceBy(merges, ResultBy(e)) = ReferenceBy(merges, s)

PairsInv ==
  /\ Table(merges) /\ payload \in Seq(ByteRange)
  /\ Encoding(encoder, payload)
  /\ LearnerInv

LEMMA LinkedEncodes ==
  ASSUME Table(merges), NEW s \in Seq(ByteRange)
  PROVE  Encoding(Linked(s), s)
<1>1. s \in Seq(Tokens(merges))
  <2>1. ByteRange \in SUBSET Tokens(merges)
    BY TokensNat DEF ByteRange
  <2>2. QED
    BY <2>1, Wider
<1>2. EncoderInv(Linked(s), Len(s))
  BY <1>1, LinkedInv
<1>3. ResultBy(Linked(s)) = s
  BY LinkedSurvives
<1>4. ExpandBy(merges, s) = s
  BY BytesSpell DEF ByteRange
<1>5. QED
  BY <1>2, <1>3, <1>4 DEF Encoding

LEMMA IdleIs == Idle = Linked(<<>>)
<1>0. PICK s : s = <<>>
  OBVIOUS
<1> DEFINE n == Len(s)
           e == Linked(s)
<1>1. n = 0
  BY <1>0
<1>2. /\ e = [values |-> s, alive |-> [i \in 1..n |-> TRUE], previous |-> [i \in 1..n |-> i - 1],
              following |-> [i \in 1..n |-> IF i = n THEN 0 ELSE i + 1], heap |-> e.heap]
      /\ e.heap = UNION {Offer(e, i) : i \in 1..(n - 1)}
  BY LinkedIs
<1> HIDE DEF e, n
<1>3. e.heap = {}
  <2>1. 1..(n - 1) = {}
    BY <1>1
  <2>2. QED
    BY <1>2, <2>1
<1>4. /\ [i \in 1..n |-> TRUE] = <<>> /\ [i \in 1..n |-> i - 1] = <<>>
      /\ [i \in 1..n |-> IF i = n THEN 0 ELSE i + 1] = <<>>
  BY <1>1
<1>5. e = [values |-> <<>>, alive |-> <<>>, previous |-> <<>>, following |-> <<>>, heap |-> {}]
  BY <1>0, <1>2, <1>3, <1>4, Zenon
<1>6. QED
  BY <1>0, <1>5, Zenon DEF Idle, e

LEMMA EncoderStays ==
  ASSUME merges' = merges, Encoding(encoder', payload')
  PROVE  Encoding(encoder, payload)'
<1>1. EncoderInv(encoder, Len(payload))'
  BY DEF Encoding, EncoderInv, EncoderTyped, HeapComplete, Entries, Neighbours, PairFrom, Tokens
<1>2. QED
  BY <1>1 DEF Encoding

LEMMA LearnerStays ==
  ASSUME merges' = merges, learner' = learner, LearnerInv
  PROVE  LearnerInv'
  BY DEF LearnerInv, Tokens

-------------------------------------------------------------------------------
(* It holds at first                                                           *)

LEMMA TableOf == ASSUME merges \in Tables PROVE Table(merges)
<1>1. PICK n \in 0..MaxMerges : merges \in [1..n -> (0..Token(n)) \X (0..Token(n))]
  BY DEF Tables
<1>2. /\ \A r, q \in DOMAIN merges : merges[r] = merges[q] => r = q
      /\ \A r \in DOMAIN merges : merges[r][1] < Token(r) /\ merges[r][2] < Token(r)
  BY DEF Tables, IsInjective
<1>3. n \in Nat /\ Token(n) \in Nat \cup {-1} /\ 0..Token(n) \subseteq Nat
  BY PairsAssumption DEF Token
<1>4. merges \in [1..n -> Nat \X Nat]
  <2> DEFINE D == 0..Token(n)
  <2>1. D \subseteq Nat /\ merges \in [1..n -> D \X D]
    BY <1>1, <1>3
  <2> HIDE DEF D
  <2>2. QED
    BY <2>1
<1>5. merges \in Seq(Nat \X Nat)
  BY <1>3, <1>4
<1>6. QED
  BY <1>2, <1>5 DEF Table

LEMMA PairsInitInv == ASSUME PairsInit PROVE PairsInv
<1>1. CASE /\ merges \in Tables
           /\ payload \in UNION {[1..n -> 0..(ByteValues - 1)] : n \in 1..MaxPayload}
           /\ learner = [corpus |-> <<>>, streams |-> <<>>]
           /\ encoder = Linked(payload)
  <2>1. Table(merges)
    BY <1>1, TableOf
  <2>2. payload \in Seq(ByteRange)
    BY <1>1, PairsAssumption DEF ByteRange
  <2>3. Encoding(encoder, payload)
    BY <1>1, <2>1, <2>2, LinkedEncodes
  <2>4. LearnerInv
    <3>1. learner.corpus = <<>> /\ learner.streams = <<>>
          /\ learner = [corpus |-> learner.corpus, streams |-> learner.streams]
      BY <1>1
    <3>2. <<>> \in Seq(Seq(ByteRange)) /\ <<>> \in Seq(Seq(Tokens(merges))) /\ DOMAIN <<>> = {}
      BY EmptySeq
    <3>3. QED
      BY <3>1, <3>2, Zenon DEF LearnerInv
  <2>5. QED
    BY <2>1, <2>2, <2>3, <2>4 DEF PairsInv
<1>2. CASE /\ merges = <<>> /\ payload = <<>> /\ encoder = Idle
           /\ learner \in {[corpus |-> corpus, streams |-> corpus] : corpus \in Corpora}
  <2>1. Table(merges) /\ \A s \in Seq(Nat) : ReferenceBy(merges, s) = s
    BY <1>2, NoMerges, Zenon
  <2>2. payload \in Seq(ByteRange)
    BY <1>2, EmptySeq, Zenon
  <2>3. encoder = Linked(payload)
    BY <1>2, IdleIs, Zenon
  <2>4. Encoding(encoder, payload)
    BY <2>1, <2>2, <2>3, LinkedEncodes
  <2>5. LearnerInv
    <3>1. PICK corpus \in Corpora : learner = [corpus |-> corpus, streams |-> corpus]
      BY <1>2
    <3>2. corpus \in Seq(Seq(ByteRange))
      BY PairsAssumption DEF ByteRange
    <3>3. ByteRange \in SUBSET Tokens(merges) /\ ByteRange \in SUBSET Nat
      BY <2>1, TokensNat DEF ByteRange
    <3>4. Seq(ByteRange) \in SUBSET Seq(Tokens(merges)) /\ Seq(ByteRange) \in SUBSET Seq(Nat)
      BY <3>3, Wider
    <3>5. corpus \in Seq(Seq(Tokens(merges)))
      BY <3>2, <3>4, Wider
    <3>6. \A i \in DOMAIN corpus : corpus[i] \in Seq(Nat)
      BY <3>2, <3>4
    <3>7. learner.corpus = corpus /\ learner.streams = corpus
      BY <3>1
    <3>8. QED
      BY <2>1, <3>1, <3>2, <3>5, <3>6, <3>7 DEF LearnerInv
  <2>6. QED
    BY <2>1, <2>2, <2>4, <2>5 DEF PairsInv
<1>3. QED
  BY <1>1, <1>2 DEF PairsInit

-------------------------------------------------------------------------------
(* Every step keeps it                                                         *)

\* A segment has no pair that has a rank already.
LEMMA SegmentsEncoded ==
  ASSUME Table(merges), LearnerInv, NEW i \in DOMAIN learner.streams
  PROVE  /\ i \in DOMAIN learner.corpus /\ learner.corpus[i] \in Seq(Nat)
         /\ learner.streams[i] \in Seq(Tokens(merges))
         /\ learner.streams[i] = ReferenceBy(merges, learner.corpus[i])
         /\ \A r \in DOMAIN merges : merges[r] \notin PairsOf(learner.streams[i])
<1>1. /\ learner.corpus \in Seq(Seq(ByteRange)) /\ learner.streams \in Seq(Seq(Tokens(merges)))
      /\ Len(learner.streams) = Len(learner.corpus)
      /\ \A j \in DOMAIN learner.corpus : learner.streams[j] = ReferenceBy(merges, learner.corpus[j])
  BY DEF LearnerInv
<1>2. i \in DOMAIN learner.corpus /\ learner.streams[i] \in Seq(Tokens(merges))
  BY <1>1
<1>3. learner.corpus[i] \in Seq(ByteRange)
  BY <1>1, <1>2
<1>4. ByteRange \in SUBSET Nat
  BY PairsAssumption DEF ByteRange
<1>5. learner.corpus[i] \in Seq(Nat)
  BY <1>3, <1>4, Wider
<1>6. learner.streams[i] = ReferenceBy(merges, learner.corpus[i])
  BY <1>1, <1>2
<1>7. AvailableIn(merges, learner.streams[i]) = {}
  BY <1>5, <1>6, ReferenceEnds
<1>8. QED
  BY <1>2, <1>5, <1>6, <1>7 DEF AvailableIn

LEMMA PairsTyped ==
  ASSUME NEW S, NEW s \in Seq(S), NEW q \in PairsOf(s)
  PROVE  q \in S \X S
<1>1. PICK i \in 1..(Len(s) - 1) : q = <<s[i], s[i + 1]>>
  BY DEF PairsOf, PairAt
<1>2. i \in 1..Len(s) /\ i + 1 \in 1..Len(s)
  OBVIOUS
<1>3. QED
  BY <1>1, <1>2

\* With no text there is no token, whatever the merges.
LEMMA NothingEncodes ==
  ASSUME payload = <<>>, payload' = <<>>, encoder' = encoder, Encoding(encoder, payload), Table(merges),
         Table(merges')
  PROVE  Encoding(encoder, payload)'
<1>1. EncoderInv(encoder, 0) /\ Len(payload) = 0 /\ Len(payload') = 0
  BY DEF Encoding
<1>2. EncoderTyped(encoder, 0)
  BY <1>1 DEF EncoderInv
<1>3. /\ encoder \in [values : [1..0 -> Tokens(merges)], alive : [1..0 -> BOOLEAN],
                      previous : [1..0 -> 0..0], following : [1..0 -> 0..0], heap : SUBSET Entries(0)]
  BY <1>2 DEF EncoderTyped
<1>4. encoder.heap = {} /\ DOMAIN encoder.values = 1..0 /\ encoder.values \in [1..0 -> Tokens(merges)]
  BY <1>3 DEF Entries
<1>5. ResultBy(encoder) = <<>>
  BY <1>4, ResultIsFold, SurvivingNext
<1>6. EncoderTyped(encoder, 0)'
  <2>1. encoder.values \in [1..0 -> Tokens(merges)']
    BY <1>4
  <2>2. encoder.heap \in SUBSET Entries(0)'
    BY <1>4
  <2>3. encoder \in [values : [1..0 -> Tokens(merges)'], alive : [1..0 -> BOOLEAN],
                     previous : [1..0 -> 0..0], following : [1..0 -> 0..0], heap : SUBSET (Entries(0)')]
    BY <1>3, <2>1, <2>2
  <2>4. QED
    BY <2>3 DEF EncoderTyped
<1>7. Links(0, encoder.alive, encoder.following, encoder.previous)'
  BY DEF Links
<1>8. HeapComplete(encoder, 0)'
  BY <1>4 DEF HeapComplete, Neighbours
<1>9. EncoderInv(encoder, Len(payload))'
  BY <1>1, <1>6, <1>7, <1>8 DEF EncoderInv
<1>10. ExpandBy(merges', <<>>) = <<>>
  BY ExpandNone
<1>11. ResultBy(encoder') = <<>>
  BY <1>5
<1>12. QED
  BY <1>9, <1>10, <1>11, Zenon DEF Encoding

LEMMA LearnStep ==
  ASSUME PairsInv, Learn
  PROVE  PairsInv'
<1>1. PICK pair \in Seen :
        /\ learner' = [learner EXCEPT !.streams =
             [i \in DOMAIN @ |-> MergePair(@[i], pair, Token(Len(merges) + 1))]]
        /\ merges' = Append(merges, pair)
  BY DEF Learn
<1>2. payload = <<>> /\ payload' = payload /\ encoder' = encoder
  BY DEF Learn, Learning
<1>3. Table(merges) /\ payload \in Seq(ByteRange) /\ Encoding(encoder, payload) /\ LearnerInv
  BY DEF PairsInv
<1> DEFINE token == Token(Len(merges) + 1)
           n == Append(merges, pair)
<1>4. pair \in Tokens(merges) \X Tokens(merges) /\ \A r \in DOMAIN merges : merges[r] # pair
  <2>1. PICK i \in DOMAIN learner.streams : pair \in PairsOf(learner.streams[i])
    BY DEF Seen
  <2>2. /\ learner.streams[i] \in Seq(Tokens(merges))
        /\ \A r \in DOMAIN merges : merges[r] \notin PairsOf(learner.streams[i])
    BY <1>3, SegmentsEncoded
  <2>3. pair \in Tokens(merges) \X Tokens(merges)
    BY <2>1, <2>2, PairsTyped
  <2>4. QED
    BY <2>1, <2>2, <2>3
<1>5. Table(n) /\ Tokens(merges) \in SUBSET Tokens(n) /\ token \in Tokens(n) /\ merges' = n
  BY <1>1, <1>3, <1>4, TableGrows
<1>6. Table(merges')
  BY <1>5
<1>7. Encoding(encoder, payload)'
  BY <1>2, <1>3, <1>6, NothingEncodes
<1>8. LearnerInv'
  <2> DEFINE old == learner.streams
             new == [i \in DOMAIN old |-> MergePair(old[i], pair, token)]
  <2>1. /\ learner = [corpus |-> learner.corpus, streams |-> old]
        /\ learner.corpus \in Seq(Seq(ByteRange)) /\ old \in Seq(Seq(Tokens(merges)))
        /\ Len(old) = Len(learner.corpus)
    BY <1>3 DEF LearnerInv
  <2>2. learner' = [learner EXCEPT !.streams = new]
    BY <1>1
  <2> HIDE DEF new, token, n
  <2>3. learner'.corpus = learner.corpus /\ learner'.streams = new
        /\ learner' = [corpus |-> learner'.corpus, streams |-> learner'.streams]
    BY <2>1, <2>2
  <2>4. ASSUME NEW i \in DOMAIN old
        PROVE  /\ new[i] \in Seq(Tokens(n)) /\ new[i] = ReferenceBy(n, learner.corpus[i])
    <3>1. /\ learner.corpus[i] \in Seq(Nat) /\ old[i] \in Seq(Tokens(merges))
          /\ old[i] = ReferenceBy(merges, learner.corpus[i])
      BY <1>3, SegmentsEncoded
    <3>2. new[i] = MergePair(old[i], pair, token)
      BY DEF new
    <3>3. \A v \in Seq(Nat) : ReferenceBy(n, v) = MergePair(ReferenceBy(merges, v), pair, token)
      <4>1. Table(Append(merges, pair))
        BY <1>5 DEF n
      <4>2. QED
        BY <1>3, <4>1, ReferenceLonger DEF n, token
    <3>4. old[i] \in Seq(Tokens(n))
      BY <1>5, <3>1, Wider
    <3>5. Tokens(n) \in SUBSET Nat
      BY <1>5, TokensNat
    <3>6. MergePair(old[i], pair, token) \in Seq(Tokens(n))
      BY <1>5, <3>4, <3>5, MergeTyped
    <3>7. QED
      BY <3>1, <3>2, <3>3, <3>6
  <2>5. new \in Seq(Seq(Tokens(n))) /\ Len(new) = Len(learner.corpus) /\ DOMAIN old = DOMAIN learner.corpus
    <3>1. Len(old) \in Nat /\ DOMAIN old = 1..Len(old) /\ DOMAIN new = DOMAIN old
      BY <2>1 DEF new
    <3>2. new = [i \in 1..Len(old) |-> new[i]]
      BY <3>1 DEF new
    <3>3. new \in [1..Len(old) -> Seq(Tokens(n))]
      BY <2>4, <3>1, <3>2
    <3>4. new \in Seq(Seq(Tokens(n))) /\ Len(new) = Len(old)
      BY <3>1, <3>3
    <3>5. QED
      BY <2>1, <3>4
  <2>6. Tokens(merges)' = Tokens(n)
    BY <1>5 DEF Tokens
  <2>7. \A i \in DOMAIN learner'.corpus : learner'.streams[i] = ReferenceBy(merges', learner'.corpus[i])
    BY <1>5, <2>3, <2>4, <2>5
  <2>8. QED
    BY <2>1, <2>3, <2>5, <2>6, <2>7 DEF LearnerInv
<1>9. QED
  BY <1>2, <1>3, <1>6, <1>7, <1>8 DEF PairsInv

LEMMA EncodeStep ==
  ASSUME PairsInv, NEW i \in DOMAIN learner.corpus, Encode(i)
  PROVE  PairsInv'
<1>1. payload' = learner.corpus[i] /\ encoder' = Linked(payload') /\ merges' = merges /\ learner' = learner
  BY DEF Encode
<1>2. Table(merges) /\ LearnerInv
  BY DEF PairsInv
<1>3. payload' \in Seq(ByteRange)
  <2>1. learner.corpus \in Seq(Seq(ByteRange))
    BY <1>2 DEF LearnerInv
  <2>2. QED
    BY <1>1, <2>1
<1>4. Encoding(encoder', payload')
  BY <1>1, <1>2, <1>3, LinkedEncodes
<1>5. Encoding(encoder, payload)' /\ LearnerInv'
  BY <1>1, <1>2, <1>4, EncoderStays, LearnerStays
<1>6. QED
  BY <1>1, <1>2, <1>3, <1>5 DEF PairsInv

LEMMA EncoderResult ==
  ASSUME Table(merges), NEW e, NEW n, EncoderInv(e, n)
  PROVE  ResultBy(e) = Surviving(e, n) /\ n \in Nat /\ Lists(e, n)
<1>1. EncoderTyped(e, n) /\ Links(n, e.alive, e.following, e.previous)
  BY DEF EncoderInv
<1>2. Lists(e, n)
  BY <1>1, InvLists
<1>3. n \in Nat /\ DOMAIN e.values = 1..n
  BY <1>2 DEF Lists
<1>4. QED
  BY <1>2, <1>3, ResultIsFold

LEMMA PopStep ==
  ASSUME PairsInv, Pop
  PROVE  PairsInv'
<1> DEFINE entry == Top(encoder.heap)
           popped == [encoder EXCEPT !.heap = @ \ {entry}]
           n == Len(payload)
<1>1. /\ encoder.heap # {} /\ merges' = merges /\ learner' = learner /\ payload' = payload
      /\ encoder' = IF Stale(encoder, entry) THEN popped ELSE Joined(popped, entry[1], entry[2], entry[3])
  BY DEF Pop
<1>2. Table(merges) /\ LearnerInv /\ payload \in Seq(ByteRange) /\ EncoderInv(encoder, n)
      /\ ExpandBy(merges, ResultBy(encoder)) = payload
      /\ ReferenceBy(merges, ResultBy(encoder)) = ReferenceBy(merges, payload)
  BY DEF PairsInv, Encoding
<1>3. EncoderInv(encoder', n)
      /\ ExpandBy(merges, Surviving(encoder', n)) = ExpandBy(merges, Surviving(encoder, n))
      /\ ReferenceBy(merges, Surviving(encoder', n)) = ReferenceBy(merges, Surviving(encoder, n))
  <2> DEFINE f == Joined(popped, entry[1], entry[2], entry[3])
  <2>1. CASE Stale(encoder, entry)
    <3>1. EncoderInv(popped, n) /\ Surviving(popped, n) = Surviving(encoder, n)
      <4> HIDE DEF n, entry
      <4>1. QED
        BY <1>2, <2>1, StaleKeeps
    <3>2. encoder' = popped
      BY <1>1, <2>1
    <3> HIDE DEF popped, n, entry
    <3>3. QED
      BY <3>1, <3>2
  <2>2. CASE ~Stale(encoder, entry)
    <3>1. /\ EncoderInv(f, n)
          /\ ExpandBy(merges, Surviving(f, n)) = ExpandBy(merges, Surviving(encoder, n))
          /\ ReferenceBy(merges, Surviving(f, n)) = ReferenceBy(merges, Surviving(encoder, n))
      BY <1>1, <1>2, <2>2, JoinKeeps
    <3>2. encoder' = f
      BY <1>1, <2>2
    <3> HIDE DEF f, n, entry, popped
    <3>3. QED
      BY <3>1, <3>2
  <2>3. QED
    BY <2>1, <2>2
<1> HIDE DEF n, entry, popped
<1>4. ResultBy(encoder) = Surviving(encoder, n) /\ ResultBy(encoder') = Surviving(encoder', n)
  BY <1>2, <1>3, EncoderResult
<1>5. Encoding(encoder', payload')
  BY <1>1, <1>2, <1>3, <1>4 DEF Encoding, n
<1>6. Encoding(encoder, payload)' /\ LearnerInv'
  BY <1>1, <1>2, <1>5, EncoderStays, LearnerStays
<1>7. QED
  BY <1>1, <1>2, <1>6 DEF PairsInv

LEMMA PairsStep ==
  ASSUME PairsInv, [PairsNext]_pairVars
  PROVE  PairsInv'
<1>1. CASE UNCHANGED pairVars
  <2>1. merges' = merges /\ learner' = learner /\ payload' = payload /\ encoder' = encoder
    BY <1>1 DEF pairVars
  <2>2. Encoding(encoder, payload)' /\ LearnerInv'
    BY <2>1, EncoderStays, LearnerStays DEF PairsInv
  <2>3. QED
    BY <2>1, <2>2 DEF PairsInv
<1>2. QED
  BY <1>1, LearnStep, EncodeStep, PopStep DEF PairsNext

-------------------------------------------------------------------------------
(* What it says of the encoders                                                *)

LEMMA InvEncodes == ASSUME PairsInv PROVE EncodersAgree
<1> DEFINE n == Len(payload)
           s == ResultBy(encoder)
<1>1. Table(merges) /\ LearnerInv /\ payload \in Seq(ByteRange) /\ EncoderInv(encoder, n)
      /\ ExpandBy(merges, s) = payload
      /\ ReferenceBy(merges, s) = ReferenceBy(merges, payload)
  BY DEF PairsInv, Encoding
<1>2. s = Surviving(encoder, n) /\ n \in Nat /\ Lists(encoder, n)
  <2> HIDE DEF n, s
  <2>1. QED
    BY <1>1, EncoderResult DEF s
<1>3. Result = s
  BY ResultOf
<1> HIDE DEF n, s
<1>4. Expand(Result) = payload /\ Reference(Result) = Reference(payload)
  BY <1>1, <1>3, ExpandOf, ReferenceOf
<1>5. encoder.heap = {} => Result = Reference(payload)
  <2>1. SUFFICES ASSUME encoder.heap = {} PROVE s = Reference(payload)
    BY <1>3
  <2>2. LookedAt(encoder, n, n)
    <3>1. n \in 0..n
      BY <1>2
    <3>2. \A j \in 0..n : LookedAt(encoder, n, j)
      BY <1>2, SurvivingPairs
    <3>3. QED
      BY <3>1, <3>2
  <2>3. AvailableIn(merges, s) = {}
    <3>1. SUFFICES ASSUME NEW r \in DOMAIN merges, merges[r] \in PairsOf(s) PROVE FALSE
      BY DEF AvailableIn
    <3>2. PICK i \in Neighbours(encoder, n) : merges[r] = PairFrom(encoder, i)
      BY <1>2, <2>2, <3>1 DEF LookedAt
    <3>3. HeapComplete(encoder, n)
      BY <1>1 DEF EncoderInv
    <3>4. <<r, i, encoder.following[i]>> \in encoder.heap
      BY <3>2, <3>3 DEF HeapComplete
    <3>5. QED
      BY <2>1, <3>4
  <2>4. s \in Seq(Nat)
    BY <1>2, <2>2 DEF LookedAt
  <2>5. ReferenceBy(merges, s) = s
    BY <1>1, <2>3, <2>4, ReferenceIs
  <2>6. QED
    BY <1>1, <2>5, ReferenceOf
<1>6. \A i \in DOMAIN learner.corpus : learner.streams[i] = Reference(learner.corpus[i])
  BY <1>1, ReferenceOf DEF LearnerInv
<1>7. QED
  BY <1>4, <1>5, <1>6 DEF EncodersAgree

-------------------------------------------------------------------------------
(* Both encoders.                                                              *)

\* EncodingsAreExact: from any table the constructor accepts and any text, or from the
\* merges learned from any corpus, the heap encoder's surviving tokens spell the text
\* at every step and end as the reference encoding (bpe.py, bpe_fast.py); and what a
\* trainer holds of each segment is the reference encoding of that segment.
THEOREM EncodingsStayExact == Spec => []EncodingsAreExact
<1> DEFINE Inv == planner = "pairs" => PairsInv
<1>1. Init => Inv
  BY PairsInitInv DEF Init
<1>2. Inv /\ [Next]_vars => Inv'
  <2>1. SUFFICES ASSUME Inv, [Next]_vars, planner' = "pairs" PROVE PairsInv'
    OBVIOUS
  <2>2. planner = "pairs"
    BY <2>1 DEF Next, Done, vars
  <2>3. [PairsNext]_pairVars
    BY <2>1, <2>2 DEF Next, Done, vars
  <2>4. QED
    BY <2>1, <2>2, <2>3, PairsStep
<1>3. Inv => EncodingsAreExact
  BY InvEncodes DEF EncodingsAreExact
<1>4. QED
  BY <1>1, <1>2, <1>3, PTL DEF Spec

================================================================================
