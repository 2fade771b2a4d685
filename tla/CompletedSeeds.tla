----------------------------- MODULE CompletedSeeds -----------------------------
(***************************************************************************)
(* moe_experiment_restart.py with write_new_report: a comparison trains    *)
(* one trial per seed and links each completed one into a progress         *)
(* directory; a later or a concurrent run reuses what is there.  Runs are  *)
(* interrupted anywhere, and somebody may remove or corrupt a file.        *)
(*                                                                         *)
(* A trial is the work it belongs to (plan, sources, runtime) and what was *)
(* measured.  That a file is there, and its content, are looked at in one  *)
(* step: a file is linked complete and never rewritten.                    *)
(***************************************************************************)
EXTENDS Integers, Sequences, FiniteSets, SequencesExt

CONSTANTS
  NoTrial,
  Runners,
  Works,
  Measured,        \* what a trial may measure
  SeedCount,
  MaxComparisons,  \* bound: runs begun
  MaxInterrupted,  \* bound: runs killed or failed by a call
  MaxTampered      \* bound: files removed or corrupted

ASSUME SeedsAssumption ==
  /\ SeedCount \in Nat \ {0}
  /\ NoTrial \notin [trial : [work : Works, measured : Measured], sealed : BOOLEAN]

VARIABLES
  progress,    \* per seed, the file: [trial, sealed]
  runner,
  begun, interrupted, tampered,
  linked       \* every <<seed, trial>> that was ever published

seedVars == <<progress, runner, begun, interrupted, tampered, linked>>

AllSeeds == 1..SeedCount
Resting == [at |-> "resting", work |-> NoTrial, seen |-> <<>>, trials |-> <<>>,
            trained |-> FALSE, disturbed |-> FALSE]
Active == {p \in Runners : runner[p].at \in {"scanning", "next", "linking", "comparing", "syncing"}}

Exists(i) == progress[i] # NoTrial
Current(p) == Len(runner[p].trials) + 1
Becomes(p, r) == runner' = [runner EXCEPT ![p] = r]

-------------------------------------------------------------------------------
(* run_restarting_moe_comparison                                              *)

BeginComparison(p, work) ==
  /\ p \notin Active /\ begun < MaxComparisons
  /\ begun' = begun + 1
  /\ Becomes(p, [Resting EXCEPT !.at = "scanning", !.work = work])
  /\ UNCHANGED <<progress, interrupted, tampered, linked>>

\* Variant: whatever is there is taken up in the order of the seeds.
ContiguousAlways(seen) == TRUE

Contiguous(seen) == \A i \in 1..(Len(seen) - 1) : seen[i + 1] => seen[i]

\* The paths are looked at one after the other; a hole refuses the run.
ScanPath(p) ==
  LET seen == Append(runner[p].seen, Exists(Len(runner[p].seen) + 1))
  IN /\ runner[p].at = "scanning"
     /\ Becomes(p, [runner[p] EXCEPT
          !.seen = seen,
          !.at = IF Len(seen) < SeedCount THEN "scanning"
                 ELSE IF Contiguous(seen) THEN "next" ELSE "refused"])
     /\ UNCHANGED <<progress, begun, interrupted, tampered, linked>>

\* A completed seed is reused if it is sealed and of this work.
Reuse(p) ==
  LET i == Current(p)
  IN /\ runner[p].at = "next" /\ i <= SeedCount /\ Exists(i)
     /\ Becomes(p, IF progress[i].sealed /\ progress[i].trial.work = runner[p].work
                   THEN [runner[p] EXCEPT !.trials = Append(@, progress[i].trial)]
                   ELSE [runner[p] EXCEPT !.at = "refused"])
     /\ UNCHANGED <<progress, begun, interrupted, tampered, linked>>

\* Another seed is trained from its beginning.
Train(p, measured) ==
  /\ runner[p].at = "next" /\ Current(p) <= SeedCount /\ ~Exists(Current(p))
  /\ Becomes(p, [runner[p] EXCEPT
       !.trials = Append(@, [work |-> runner[p].work, measured |-> measured]),
       !.at = "linking", !.trained = TRUE])
  /\ UNCHANGED <<progress, begun, interrupted, tampered, linked>>

\* The trial that was trained last, and its seed.
Trained(p) == Last(runner[p].trials)
At(p) == Len(runner[p].trials)

\* os.link publishes it where nothing is; the others' view of the directory is old.
LinkTrial(p) ==
  /\ runner[p].at = "linking" /\ ~Exists(At(p))
  /\ progress' = [progress EXCEPT ![At(p)] = [trial |-> Trained(p), sealed |-> TRUE]]
  /\ linked' = linked \cup {<<At(p), Trained(p)>>}
  /\ runner' = [q \in Runners |->
       IF q = p THEN [runner[p] EXCEPT !.at = "syncing"]
       ELSE [runner[q] EXCEPT !.disturbed = @ \/ q \in Active]]
  /\ UNCHANGED <<begun, interrupted, tampered>>

Lost(p) ==
  /\ runner[p].at = "linking" /\ Exists(At(p))
  /\ Becomes(p, [runner[p] EXCEPT !.at = "comparing"])
  /\ UNCHANGED <<progress, begun, interrupted, tampered, linked>>

\* Variant: that another run published the seed is good enough.
AgreesAnyway(p) == Exists(At(p))

Agrees(p) ==
  /\ Exists(At(p))
  /\ progress[At(p)] = [trial |-> Trained(p), sealed |-> TRUE]

\* Another writer's evidence must be the same.
Compare(p) ==
  /\ runner[p].at = "comparing"
  /\ Becomes(p, [runner[p] EXCEPT !.at = IF Agrees(p) THEN "next" ELSE "refused"])
  /\ UNCHANGED <<progress, begun, interrupted, tampered, linked>>

Synced(p) ==
  /\ runner[p].at = "syncing"
  /\ Becomes(p, [runner[p] EXCEPT !.at = "next"])
  /\ UNCHANGED <<progress, begun, interrupted, tampered, linked>>

Assemble(p) ==
  /\ runner[p].at = "next" /\ Current(p) > SeedCount
  /\ Becomes(p, [runner[p] EXCEPT !.at = "reported"])
  /\ UNCHANGED <<progress, begun, interrupted, tampered, linked>>

-------------------------------------------------------------------------------
(* Interruptions, and hands in the directory                                  *)

\* A kill, or an exception of the training or of a file system call, at any point.
Interrupt(p) ==
  /\ p \in Active /\ interrupted < MaxInterrupted
  /\ interrupted' = interrupted + 1
  /\ Becomes(p, Resting)
  /\ UNCHANGED <<progress, begun, tampered, linked>>

Tamper(i) ==
  /\ Exists(i) /\ tampered < MaxTampered
  /\ tampered' = tampered + 1
  /\ \/ progress' = [progress EXCEPT ![i] = NoTrial]
     \/ progress' = [progress EXCEPT ![i].sealed = FALSE]
  /\ runner' = [q \in Runners |-> [runner[q] EXCEPT !.disturbed = @ \/ q \in Active]]
  /\ UNCHANGED <<begun, interrupted, linked>>

SeedsInit ==
  /\ progress = [i \in AllSeeds |-> NoTrial]
  /\ runner = [p \in Runners |-> Resting]
  /\ begun = 0 /\ interrupted = 0 /\ tampered = 0
  /\ linked = {}

SeedsNext ==
  \/ \E p \in Runners :
       \/ \E work \in Works : BeginComparison(p, work)
       \/ ScanPath(p) \/ Reuse(p) \/ LinkTrial(p) \/ Lost(p) \/ Compare(p)
       \/ Synced(p) \/ Assemble(p) \/ Interrupt(p)
       \/ \E measured \in Measured : Train(p, measured)
  \/ \E i \in AllSeeds : Tamper(i)

SeedsSpec == SeedsInit /\ [][SeedsNext]_seedVars

Settled == Active = {} /\ begun = MaxComparisons

-------------------------------------------------------------------------------
(* Properties                                                                 *)

\* Whatever is interrupted and whoever else runs: a report consists of one work's
\* trials, each of them the one that was published for its seed, and a seed is
\* published once, unless its file was taken away.
ReportsMatchProgress ==
  /\ \A p \in Runners : runner[p].at = "reported" =>
       \A i \in AllSeeds : /\ runner[p].trials[i].work = runner[p].work
                           /\ <<i, runner[p].trials[i]>> \in linked
  /\ Cardinality(linked) <= SeedCount + tampered

\* What a run finds wrong with the directory it finds before it trains anything,
\* unless the directory changed under it.
RefusedBeforeTraining ==
  \A p \in Runners : runner[p].at = "refused" /\ runner[p].trained => runner[p].disturbed

================================================================================
