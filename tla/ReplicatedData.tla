----------------------------- MODULE ReplicatedData -----------------------------
(***************************************************************************)
(* ddp_data.py, and train_segment of ddp_training.py: which samples of the *)
(* source each rank learns from in each update.  The global update count   *)
(* is all that a resumed run knows; the order of an epoch is drawn from    *)
(* the seed and the epoch alone.                                           *)
(***************************************************************************)
EXTENDS Integers, Sequences, FiniteSets, SequencesExt

CONSTANTS
  SampleCounts, WorldSizes, MicroBatches, Accumulations,   \* values of a run's plan
  MaxStep                                                  \* bound: optimizer steps

ASSUME DataAssumption ==
  /\ \A values \in {SampleCounts, WorldSizes, MicroBatches, Accumulations} :
       values \subseteq Nat \ {0}
  /\ MaxStep \in Nat

VARIABLES
  run,        \* sampler, samples, world size, micro-batch and accumulation
  order,      \* the global order of the epoch
  step,       \* updates completed, of all epochs
  learned     \* the samples of each update of the epoch, of all ranks together

dataVars == <<run, order, step, learned>>

Samplers == {"truncated", "full"}

\* BatchPlan, for a record of the plan's numbers.
GlobalBatch(b) == b.world * b.micro * b.accumulation
UpdatesPerEpoch(b) == b.samples \div GlobalBatch(b)
Usable(b) == b.samples - (b.samples % GlobalBatch(b))

\* The first sampler shuffles what it will use, the second one everything.
Shuffled(b) == IF b.sampler = "full" THEN b.samples ELSE Usable(b)
Orders(b) ==
  LET positions == 0..(Shuffled(b) - 1)
  IN {o \in [positions -> positions] : IsInjective(o)}

\* shard_indices: every world-th sample of the order from the rank's on, without
\* the tail that not all ranks have; byte_batches keeps whole updates.
ShardLength(b, rank) ==
  LET usable == Shuffled(b) - (Shuffled(b) % b.world)
      length == (usable - rank + b.world - 1) \div b.world
      whole == Usable(b) \div b.world
  IN IF length < whole THEN length ELSE whole

\* Variant: each rank takes a stretch of the order of its own.
ShardStretch(b, o, rank) ==
  [i \in 0..(ShardLength(b, rank) - 1) |-> o[rank * ShardLength(b, rank) + i]]

Shard(b, o, rank) == [i \in 0..(ShardLength(b, rank) - 1) |-> o[rank + i * b.world]]

\* The samples of a rank's micro-batches for the update at this offset of an epoch.
Taken(b, o, rank, offset) ==
  LET shard == Shard(b, o, rank)
      length == b.micro * b.accumulation
      first == offset * length
  IN {shard[i] : i \in DOMAIN shard \intersect (first..(first + length - 1))}

-------------------------------------------------------------------------------
Runs ==
  {b \in [sampler : Samplers, samples : SampleCounts, world : WorldSizes,
          micro : MicroBatches, accumulation : Accumulations] : UpdatesPerEpoch(b) > 0}

DataInit ==
  /\ run \in Runs
  /\ order \in Orders(run)
  /\ step = 0
  /\ learned = <<>>

Ranks == 0..(run.world - 1)
Offset == step % UpdatesPerEpoch(run)

\* One update, on every rank.  The first one of an epoch sees another order.
Update ==
  /\ step < MaxStep
  /\ IF Offset = 0 /\ step > 0 THEN order' \in Orders(run) ELSE UNCHANGED order
  /\ learned' = Append(IF Offset = 0 THEN <<>> ELSE learned,
                       UNION {Taken(run, order', rank, Offset) : rank \in Ranks})
  /\ step' = step + 1
  /\ UNCHANGED run

\* An update that some rank rejects is undone on all, and ends the run; the next
\* run goes on from the step of a checkpoint (of this epoch: an older one brings
\* back the state that was looked at there).
Resume(back) ==
  /\ back < Len(learned)
  /\ step' = step - back
  /\ learned' = SubSeq(learned, 1, Len(learned) - back)
  /\ UNCHANGED <<run, order>>

DataNext == Update \/ \E back \in 1..MaxStep : Resume(back)

DataSpec == DataInit /\ [][DataNext]_dataVars

-------------------------------------------------------------------------------
(* Properties                                                                 *)

\* However many ranks share it, and wherever the run was resumed, an update
\* learns from exactly the next global batch of the epoch's order: no sample
\* twice in an epoch, none left out but the tail that fills no update.
EachSampleOnce ==
  LET size == GlobalBatch(run)
  IN \A k \in 1..Len(learned) :
       /\ learned[k] = {order[i] : i \in ((k - 1) * size)..(k * size - 1)}
       /\ Cardinality(learned[k]) = size

===============================================================================
