----------------------------- MODULE Gpt2Training -----------------------------
(***************************************************************************)
(* gpt2_training.py and gpt2_training_cli.py: a run builds or restores a   *)
(* model, its optimizer and a cursor over the shuffled corpus, performs a  *)
(* segment of the schedule, saves a checkpoint and publishes a report.     *)
(* Processes share the two files without a lock; any of them may fail or   *)
(* die anywhere, and a failed segment may be called again.                 *)
(*                                                                         *)
(* A micro-batch is its epoch and its number in that epoch's order.  Model *)
(* and optimizer are the updates they have received: for each one, the     *)
(* index of its learning rate in the schedule and its micro-batches.       *)
(* Numerically equal runs are those with equal updates.                    *)
(***************************************************************************)
EXTENDS Integers, Sequences

CONSTANTS
  Processes,
  OptimizerSteps,     \* length of the schedule
  AccumulationSteps,  \* micro-batches of an update
  BatchesPerEpoch,    \* usable_samples \div micro_batch_size
  MaxRuns,            \* bound: runs started
  MaxFaults,          \* bound: failures and crashes
  None

ASSUME Gpt2Assumption ==
  /\ OptimizerSteps \in Nat \ {0}
  /\ AccumulationSteps \in Nat \ {0}
  /\ BatchesPerEpoch \in Nat \ {0}
  /\ MaxRuns \in Nat /\ MaxFaults \in Nat

VARIABLES
  checkpoint, report,  \* the two files
  pc,       \* where each process is
  start,    \* update its segment starts from
  count,    \* updates of its segment
  done,     \* updates the current call of train_optimizer_steps has performed
  model,    \* model and optimizer
  cursor,   \* epoch and batches consumed of it
  batches,  \* micro-batches accumulated for the current update
  saved,    \* what train_optimizer_step restores
  runs, faults

files == <<checkpoint, report>>
segment == <<start, count>>
memory == <<model, cursor, batches>>
vars == <<files, pc, segment, done, memory, saved, runs, faults>>

Phases == {"idle", "training", "accumulating", "updated", "raised", "saving", "reporting"}
Goto(p, stage) == pc' = [pc EXCEPT ![p] = stage]
Fault == faults < MaxFaults /\ faults' = faults + 1

Beginning == [epoch |-> 0, offset |-> 0]

Init ==
  /\ checkpoint = None /\ report = None
  /\ pc = [p \in Processes |-> "idle"]
  /\ start = [p \in Processes |-> 0]
  /\ count = [p \in Processes |-> 0]
  /\ done = [p \in Processes |-> 0]
  /\ model = [p \in Processes |-> <<>>]
  /\ cursor = [p \in Processes |-> Beginning]
  /\ batches = [p \in Processes |-> <<>>]
  /\ saved = [p \in Processes |-> None]
  /\ runs = 0 /\ faults = 0

-------------------------------------------------------------------------------
(* GPT2BatchCursor, and what is required of a checkpoint                      *)

Batch(epoch, number) == [epoch |-> epoch, number |-> number]

\* An epoch ends when the next micro-batch is wanted, not with its last one.
Turned(c) ==
  IF c.offset >= BatchesPerEpoch THEN [epoch |-> c.epoch + 1, offset |-> 0] ELSE c

\* _validate_cursor_progress: the position after a number of updates.
CursorAfter(step) ==
  LET consumed == step * AccumulationSteps
  IN IF consumed = 0 THEN Beginning
     ELSE [epoch |-> (consumed - 1) \div BatchesPerEpoch,
           offset |-> ((consumed - 1) % BatchesPerEpoch) + 1]

\* Variant: the controls of the optimizer are compared, not its progress.
AdmittedByControls(m, c, step) == step > 0 => m[Len(m)].rate = step - 1

\* _validate_optimizer_contract and _validate_cursor_progress.
Admitted(m, c, step) ==
  /\ Len(m) = step
  /\ step > 0 => m[step].rate = step - 1   \* the group's learning rate
  /\ c = CursorAfter(step)

-------------------------------------------------------------------------------
(* run_training_experiment                                                    *)

\* n is step_count, and 0 the rest of the schedule.
Begin(p, n, m, c, from) ==
  /\ pc[p] = "idle" /\ runs < MaxRuns
  /\ from + n <= OptimizerSteps
  /\ model' = [model EXCEPT ![p] = m]
  /\ cursor' = [cursor EXCEPT ![p] = c]
  /\ batches' = [batches EXCEPT ![p] = <<>>]
  /\ saved' = [saved EXCEPT ![p] = None]
  /\ start' = [start EXCEPT ![p] = from]
  /\ count' = [count EXCEPT ![p] = IF n = 0 THEN OptimizerSteps - from ELSE n]
  /\ done' = [done EXCEPT ![p] = 0]
  /\ Goto(p, IF from = OptimizerSteps THEN "saving" ELSE "training")
  /\ runs' = runs + 1
  /\ UNCHANGED <<files, faults>>

Fresh(p, n) == Begin(p, n, <<>>, Beginning, 0)

\* load_training_checkpoint restores everything or nothing.
Resume(p, n) ==
  /\ checkpoint # None
  /\ Admitted(checkpoint.model, checkpoint.cursor, checkpoint.step)
  /\ Begin(p, n, checkpoint.model, checkpoint.cursor, checkpoint.step)

-------------------------------------------------------------------------------
(* train_optimizer_steps and train_optimizer_step                             *)

StartUpdate(p) ==
  /\ pc[p] = "training"
  /\ saved' = [saved EXCEPT ![p] = [model |-> model[p], cursor |-> cursor[p]]]
  /\ batches' = [batches EXCEPT ![p] = <<>>]
  /\ Goto(p, "accumulating")
  /\ UNCHANGED <<files, segment, done, model, cursor, runs, faults>>

MicroBatch(p) ==
  /\ pc[p] = "accumulating" /\ Len(batches[p]) < AccumulationSteps
  /\ LET c == Turned(cursor[p])
     IN /\ batches' = [batches EXCEPT ![p] = Append(@, Batch(c.epoch, c.offset))]
        /\ cursor' = [cursor EXCEPT ![p] = [c EXCEPT !.offset = @ + 1]]
  /\ UNCHANGED <<files, pc, segment, done, model, saved, runs, faults>>

Update(p) ==
  /\ pc[p] = "accumulating" /\ Len(batches[p]) = AccumulationSteps
  /\ model' = [model EXCEPT ![p] =
                 Append(@, [rate |-> start[p] + done[p], batches |-> batches[p]])]
  /\ Goto(p, "updated")
  /\ UNCHANGED <<files, segment, done, cursor, batches, saved, runs, faults>>

\* The new state is finite and the update is measured.
Accept(p) ==
  /\ pc[p] = "updated"
  /\ done' = [done EXCEPT ![p] = @ + 1]
  /\ Goto(p, IF done[p] + 1 = count[p] THEN "saving" ELSE "training")
  /\ UNCHANGED <<files, segment, memory, saved, runs, faults>>

\* Variant: the cursor keeps the micro-batches of the failed update.
RestoreModel(p) ==
  /\ model' = [model EXCEPT ![p] = saved[p].model]
  /\ UNCHANGED cursor

Restore(p) ==
  /\ model' = [model EXCEPT ![p] = saved[p].model]
  /\ cursor' = [cursor EXCEPT ![p] = saved[p].cursor]

\* A loss, a gradient, the clipping or the updated state is refused.
FailUpdate(p) ==
  /\ pc[p] \in {"accumulating", "updated"} /\ Fault
  /\ Restore(p)
  /\ batches' = [batches EXCEPT ![p] = <<>>]
  /\ Goto(p, "raised")
  /\ UNCHANGED <<files, segment, done, saved, runs>>

\* A caller of the library tries the segment again; how many of its updates had
\* succeeded the exception did not say.
Retry(p) ==
  /\ pc[p] = "raised"
  /\ done' = [done EXCEPT ![p] = 0]
  /\ Goto(p, "training")
  /\ UNCHANGED <<files, segment, memory, saved, runs, faults>>

GiveUp(p) ==
  /\ pc[p] = "raised"
  /\ Goto(p, "idle")
  /\ UNCHANGED <<files, segment, done, memory, saved, runs, faults>>

-------------------------------------------------------------------------------
(* save_training_checkpoint and the report                                    *)

Completed(p) == start[p] + done[p]
Snapshot(p) == [step |-> Completed(p), model |-> model[p], cursor |-> cursor[p]]
Fits(p) == Admitted(model[p], cursor[p], Completed(p))

Save(p) ==
  /\ pc[p] = "saving" /\ Fits(p)
  /\ checkpoint' = Snapshot(p)
  /\ Goto(p, "reporting")
  /\ UNCHANGED <<report, segment, done, memory, saved, runs, faults>>

RefuseSave(p) ==
  /\ pc[p] = "saving" /\ ~Fits(p)
  /\ Goto(p, "idle")
  /\ UNCHANGED <<files, segment, done, memory, saved, runs, faults>>

\* The file cannot be written, or is replaced and its directory not flushed.
FailSave(p) ==
  /\ pc[p] = "saving" /\ Fits(p) /\ Fault
  /\ checkpoint' \in {checkpoint, Snapshot(p)}
  /\ Goto(p, "idle")
  /\ UNCHANGED <<report, segment, done, memory, saved, runs>>

Publish(p) ==
  /\ pc[p] = "reporting"
  /\ report' = [from |-> start[p], to |-> Completed(p), model |-> model[p]]
  /\ Goto(p, "idle")
  /\ UNCHANGED <<checkpoint, segment, done, memory, saved, runs, faults>>

\* The process dies; files are replaced as a whole or not at all.
Crash(p) ==
  /\ pc[p] # "idle" /\ Fault
  /\ Goto(p, "idle")
  /\ UNCHANGED <<files, segment, done, memory, saved, runs>>

-------------------------------------------------------------------------------
Next ==
  \E p \in Processes :
    \/ \E n \in 0..OptimizerSteps : Fresh(p, n) \/ Resume(p, n)
    \/ StartUpdate(p) \/ MicroBatch(p) \/ Update(p) \/ Accept(p)
    \/ FailUpdate(p) \/ Retry(p) \/ GiveUp(p)
    \/ Save(p) \/ RefuseSave(p) \/ FailSave(p) \/ Publish(p) \/ Crash(p)

Spec == Init /\ [][Next]_vars

-------------------------------------------------------------------------------
(* Properties                                                                 *)

\* The updates of a run that nothing interrupts: micro-batches in order of
\* epochs, at the rates of the schedule.
Nth(n) == Batch(n \div BatchesPerEpoch, n % BatchesPerEpoch)
Uninterrupted(step) ==
  [i \in 1..step |->
     [rate |-> i - 1,
      batches |-> [j \in 1..AccumulationSteps |-> Nth((i - 1) * AccumulationSteps + j - 1)]]]

\* The type invariant.
TypeOK ==
  /\ pc \in [Processes -> Phases]
  /\ start \in [Processes -> 0..OptimizerSteps]
  /\ count \in [Processes -> 0..OptimizerSteps]
  /\ done \in [Processes -> 0..OptimizerSteps]
  /\ cursor \in [Processes -> [epoch : Nat, offset : 0..BatchesPerEpoch]]
  /\ runs \in 0..MaxRuns /\ faults \in 0..MaxFaults

\* Whatever was interrupted, retried or resumed, and whichever process wrote it
\* last, a checkpoint holds the state a run without interruption has there, and
\* a report is of such a run.
FilesAreExact ==
  /\ checkpoint # None =>
       /\ checkpoint.model = Uninterrupted(checkpoint.step)
       /\ checkpoint.cursor = CursorAfter(checkpoint.step)
  /\ report # None => report.model = Uninterrupted(report.to)

\* Between updates, also after one that failed half way, the data consumed is
\* the data learned from: nothing is skipped and nothing is seen twice.
DataConsumedOnce ==
  \A p \in Processes :
    pc[p] \in {"training", "raised", "saving", "reporting"} =>
      /\ cursor[p] = CursorAfter(Len(model[p]))
      /\ \A i \in DOMAIN model[p] :
           model[p][i].batches = Uninterrupted(Len(model[p]))[i].batches

===============================================================================
