------------------------------- MODULE MoeDdpRun -------------------------------
(***************************************************************************)
(* Replicated expert training: moe_ddp_launch.py starts one process per    *)
(* rank, moe_ddp_worker.py restores, updates and saves, and every update   *)
(* is a call of MoEDDPTrainingSession.step of moe_ddp_training.py, a chain *)
(* of collectives with one local fault or another before each of them.     *)
(*                                                                         *)
(* A failed call leaves its session in one of two ways.  Until every rank  *)
(* has completed its backward pass, and for whatever was not rejected by   *)
(* all ranks alike, the session is poisoned and its process is of no more  *)
(* use.  After it, a common rejection restores the replica and the caller  *)
(* may call step again: the library's callers do, the worker gives up.     *)
(*                                                                         *)
(* A replica is the update it stands at and the ranks whose own error is   *)
(* in its numbers: those the schedule defines have none, and the errors of *)
(* two ranks are different numbers.  A collective is the one of DdpRun: it *)
(* is left with a common verdict once every rank has entered it, or by an  *)
(* exception when one of them does not come.                               *)
(***************************************************************************)
EXTENDS Integers, FiniteSets

CONSTANTS
  Ranks,         \* 0..world_size-1
  MaxStep,       \* optimizer_steps of the plan
  Lengths,       \* --steps of a launch
  MaxLaunches,   \* bound: launches over one checkpoint
  MaxCalls,      \* bound: calls of step by one process
  MaxFaults,     \* bound: local failures, broken transports and kills
  None

ASSUME MoeRunAssumption ==
  /\ 0 \in Ranks
  /\ MaxStep \in Nat \ {0}
  /\ Lengths \subseteq 1..MaxStep
  /\ MaxLaunches \in Nat /\ MaxCalls \in Nat /\ MaxFaults \in Nat
  /\ None \notin Nat

VARIABLES
  checkpoint,   \* replica in the published checkpoint, or None
  length,       \* --steps of this launch
  begun,        \* update each worker started from
  pc,           \* collective each rank is about to enter or inside of
  inside,       \* whether it has entered it
  entered,      \* collectives it has entered
  vetoed,       \* numbers of the collectives with a failed verdict
  cut,          \* ranks whose transport is broken
  replica,      \* model and optimizer of each rank
  saved,        \* what step restores when the call fails
  armed,        \* whether the reducer waits for a backward pass
  calls,        \* calls of step each session has returned from
  launches, faults

progress == <<length, begun, pc, inside, entered, vetoed, cut>>
session == <<replica, saved, armed, calls>>
vars == <<checkpoint, progress, session, launches, faults>>

Replica == [step : 0..MaxStep, skew : SUBSET Ranks]
Fresh == [step |-> 0, skew |-> {}]

Loading == {"load", "restore", "schedule"}
BeforeForward == {"admission", "consensus"}
BeforeRetry == {"forward", "objective", "backward"}
Retryable == {"gradients", "update", "confirm"}
Saving == {"save", "agreement", "publication"}
StepCall == BeforeForward \union BeforeRetry \union Retryable
Ended == {"exited", "failed"}
Phases == Loading \union StepCall \union Saving \union Ended \union {"idle"}

\* The collective that follows one with a good verdict.
After == [p \in Phases \ (Ended \union {"idle"}) |->
  CASE p = "load" -> "restore"
    [] p = "restore" -> "schedule"
    [] p = "schedule" -> "idle"
    [] p = "admission" -> "consensus"
    [] p = "consensus" -> "forward"
    [] p = "forward" -> "objective"
    [] p = "objective" -> "backward"
    [] p = "backward" -> "gradients"
    [] p = "gradients" -> "update"
    [] p = "update" -> "confirm"
    [] p = "confirm" -> "idle"
    [] p = "save" -> "agreement"
    [] p = "agreement" -> "publication"
    [] p = "publication" -> "exited"]

Live(r) == pc[r] \notin Ended
Fault == faults < MaxFaults
Count(bad) == faults' = IF bad THEN faults + 1 ELSE faults
Goto(r, p) == pc' = [pc EXCEPT ![r] = p]
End(r) == begun[r] + length
Restored(r) == replica' = [replica EXCEPT ![r] = saved[r]]

Init ==
  /\ checkpoint = None
  /\ length = 0
  /\ begun = [r \in Ranks |-> 0]
  /\ pc = [r \in Ranks |-> "exited"]
  /\ inside = [r \in Ranks |-> FALSE]
  /\ entered = [r \in Ranks |-> 0]
  /\ vetoed = {} /\ cut = {}
  /\ replica = [r \in Ranks |-> Fresh]
  /\ saved = [r \in Ranks |-> Fresh]
  /\ armed = [r \in Ranks |-> FALSE]
  /\ calls = [r \in Ranks |-> 0]
  /\ launches = 0 /\ faults = 0

-------------------------------------------------------------------------------
(* The supervisor: launch_moe_ddp                                             *)

\* A checkpoint is a new output or an explicit resume input.
ResumeFits(resume) == resume <=> checkpoint # None

Launch(resume, n) ==
  /\ launches < MaxLaunches
  /\ \A r \in Ranks : ~Live(r)
  /\ ResumeFits(resume)
  /\ launches' = launches + 1
  /\ length' = n
  /\ begun' = [r \in Ranks |-> 0]
  /\ pc' = [r \in Ranks |-> IF resume THEN "load" ELSE "schedule"]
  /\ inside' = [r \in Ranks |-> FALSE]
  /\ entered' = [r \in Ranks |-> 0]
  /\ vetoed' = {} /\ cut' = {}
  /\ replica' = [r \in Ranks |-> Fresh]
  /\ saved' = [r \in Ranks |-> Fresh]
  /\ armed' = [r \in Ranks |-> FALSE]
  /\ calls' = [r \in Ranks |-> 0]
  /\ UNCHANGED <<checkpoint, faults>>

\* A worker failed or the deadline passed: what is left is taken down.
Reap ==
  /\ \E r \in Ranks : Live(r)
  /\ pc' = [r \in Ranks |-> IF Live(r) THEN "failed" ELSE pc[r]]
  /\ UNCHANGED <<checkpoint, length, begun, inside, entered, vetoed, cut, session, launches, faults>>

\* A process is lost, or raises where the code takes no vote.
Kill(r) ==
  /\ Live(r) /\ Fault
  /\ Goto(r, "failed")
  /\ Count(TRUE)
  /\ UNCHANGED <<checkpoint, length, begun, inside, entered, vetoed, cut, session, launches>>

-------------------------------------------------------------------------------
(* Collectives                                                                *)

\* r enters; its vote, or a comparison the last rank in completes, decides.
Join(r, good) ==
  /\ inside' = [inside EXCEPT ![r] = TRUE]
  /\ entered' = [entered EXCEPT ![r] = @ + 1]
  /\ vetoed' = IF good THEN vetoed ELSE vetoed \union {entered[r] + 1}
  /\ UNCHANGED <<length, begun, pc, cut>>

Ready(r, p) == pc[r] = p /\ ~inside[r] /\ r \notin cut
Complete(r) == inside[r] /\ \A s \in Ranks : entered[s] >= entered[r]
Accepted(r) == Complete(r) /\ entered[r] \notin vetoed
Rejected(r) == Complete(r) /\ entered[r] \in vetoed

\* Variant: collectives wait for ever.
Unbounded(r) == FALSE

\* Somebody r waits for will not come, or the transport fails under it.
Absent(s) == ~Live(s) \/ s \in cut
Abandoned(r) == \E s \in Ranks : s # r /\ Absent(s) /\ entered[s] < entered[r]

\* require_model_consensus and require_optimizer_consensus: the replicas of
\* all ranks inside are compared.
Agree(r) == \A s \in Ranks : entered[s] = entered[r] + 1 => replica[s] = replica[r]

-------------------------------------------------------------------------------
(* MoEDDPTrainingSession.step                                                 *)

\* The caller calls step while updates are left; the worker once per update.
Call(r) ==
  /\ pc[r] = "idle"
  /\ replica[r].step < End(r) /\ calls[r] < MaxCalls
  /\ Goto(r, "admission")
  /\ UNCHANGED <<checkpoint, length, begun, inside, entered, vetoed, cut, session, launches, faults>>

\* The window is validated and, beside it, the progress of the optimizer.
Admit(r) ==
  /\ Ready(r, "admission")
  /\ \E good \in {TRUE} \union (IF Fault THEN {FALSE} ELSE {}) :
       Join(r, good /\ replica[r].step < MaxStep) /\ Count(~good)
  /\ UNCHANGED <<checkpoint, session, launches>>

Compare(r) ==
  /\ Ready(r, "consensus") \/ Ready(r, "confirm") \/ Ready(r, "agreement")
  /\ Join(r, Agree(r))
  /\ UNCHANGED <<checkpoint, session, launches, faults>>

\* The rollback point is taken and the wrapped model is called.
Forward(r) ==
  /\ Ready(r, "forward")
  /\ saved' = [saved EXCEPT ![r] = replica[r]]
  /\ armed' = [armed EXCEPT ![r] = TRUE]
  /\ \E good \in {TRUE} \union (IF Fault THEN {FALSE} ELSE {}) : Join(r, good) /\ Count(~good)
  /\ UNCHANGED <<checkpoint, replica, calls, launches>>

\* The objective and the gradients: finite or not, clipped or not.
Vote(r) ==
  /\ Ready(r, "objective") \/ Ready(r, "gradients")
  /\ \E good \in {TRUE} \union (IF Fault THEN {FALSE} ELSE {}) : Join(r, good) /\ Count(~good)
  /\ UNCHANGED <<checkpoint, session, launches>>

\* The reducer's own collective and the vote that it is complete everywhere.
Backward(r) ==
  /\ Ready(r, "backward")
  /\ Join(r, TRUE)
  /\ UNCHANGED <<checkpoint, session, launches, faults>>

\* optimizer.step: done, done with other numbers, or failed half way.
Update(r) ==
  /\ Ready(r, "update")
  /\ \E good \in BOOLEAN, sound \in BOOLEAN :
       /\ Fault \/ (good /\ sound)
       /\ ~good => ~sound
       /\ replica' = [replica EXCEPT ![r] =
                        [step |-> @.step + 1, skew |-> IF sound THEN @.skew ELSE @.skew \union {r}]]
       /\ Join(r, good)
       /\ Count(~sound)
  /\ UNCHANGED <<checkpoint, saved, armed, calls, launches>>

\* Good verdicts: the next collective, and after the last one the call returns.
Proceed(r) ==
  /\ pc[r] \in StepCall /\ Accepted(r)
  /\ Goto(r, After[pc[r]])
  /\ inside' = [inside EXCEPT ![r] = FALSE]
  /\ armed' = IF pc[r] = "backward" THEN [armed EXCEPT ![r] = FALSE] ELSE armed
  /\ calls' = IF pc[r] = "confirm" THEN [calls EXCEPT ![r] = @ + 1] ELSE calls
  /\ UNCHANGED <<checkpoint, length, begun, entered, vetoed, cut, replica, saved, launches, faults>>

\* A rejection before the forward call: nothing was touched.
RejectCall(r) ==
  /\ pc[r] \in BeforeForward /\ Rejected(r)
  /\ Goto(r, "idle")
  /\ inside' = [inside EXCEPT ![r] = FALSE]
  /\ calls' = [calls EXCEPT ![r] = @ + 1]
  /\ UNCHANGED <<checkpoint, length, begun, entered, vetoed, cut, replica, saved, armed, launches, faults>>

\* Variant: a rejected forward pass may be retried as well.
RetryEarly(r) ==
  /\ pc[r] \in BeforeRetry \union Retryable /\ Rejected(r)
  /\ Restored(r)
  /\ Goto(r, "idle")
  /\ inside' = [inside EXCEPT ![r] = FALSE]
  /\ calls' = [calls EXCEPT ![r] = @ + 1]
  /\ UNCHANGED <<checkpoint, length, begun, entered, vetoed, cut, saved, armed, launches, faults>>

\* A common rejection after every backward pass: MoEDDPRetryableError.  A
\* confirmation is voted down only where replicas differ: an update without a
\* fingerprint was rejected before it.
RetryLater(r) ==
  /\ pc[r] \in Retryable /\ Rejected(r)
  /\ Restored(r)
  /\ Goto(r, "idle")
  /\ inside' = [inside EXCEPT ![r] = FALSE]
  /\ calls' = [calls EXCEPT ![r] = @ + 1]
  /\ UNCHANGED <<checkpoint, length, begun, entered, vetoed, cut, saved, armed, launches, faults>>

\* Any other failure of a call that had begun its forward pass, a common one
\* or its own: MoEDDPFatalError.  The caller has no more use for the session.
Poison(r) ==
  /\ \/ pc[r] \in BeforeRetry /\ Rejected(r)
     \/ pc[r] \in BeforeRetry \union Retryable /\ inside[r] /\ Abandoned(r)
  /\ Restored(r)
  /\ Goto(r, "failed")
  /\ inside' = [inside EXCEPT ![r] = FALSE]
  /\ UNCHANGED <<checkpoint, length, begun, entered, vetoed, cut, saved, armed, calls, launches, faults>>

\* The transport breaks before the forward call: the session stays usable, but
\* none of its collectives will complete again.
Disconnect(r) ==
  /\ pc[r] \in BeforeForward
  /\ \/ inside[r] /\ Abandoned(r) /\ Count(FALSE)
     \/ r \in cut /\ Count(FALSE)
     \/ Fault /\ Count(TRUE)
  /\ cut' = cut \union {r}
  /\ Goto(r, "idle")
  /\ inside' = [inside EXCEPT ![r] = FALSE]
  /\ calls' = [calls EXCEPT ![r] = @ + 1]
  /\ UNCHANGED <<checkpoint, length, begun, entered, vetoed, replica, saved, armed, launches>>

\* A caller that does not retry, or may not any more.
GiveUp(r) ==
  /\ pc[r] = "idle" /\ calls[r] > replica[r].step - begun[r]
  /\ Goto(r, "failed")
  /\ UNCHANGED <<checkpoint, length, begun, inside, entered, vetoed, cut, session, launches, faults>>

-------------------------------------------------------------------------------
(* The worker: load_moe_ddp_checkpoint, the schedule, save_moe_ddp_checkpoint *)

\* Every rank reads and validates the file, then restores from it, and the
\* launch must fit the schedule.
Recover(r) ==
  /\ Ready(r, "load") \/ Ready(r, "restore")
  /\ \E good \in {TRUE} \union (IF Fault THEN {FALSE} ELSE {}) :
       /\ Join(r, good) /\ Count(~good)
       /\ replica' = IF pc[r] = "restore" /\ good
                     THEN [replica EXCEPT ![r] = checkpoint] ELSE replica
  /\ UNCHANGED <<checkpoint, saved, armed, calls, launches>>

Schedule(r) ==
  /\ Ready(r, "schedule")
  /\ Join(r, replica[r].step + length <= MaxStep)
  /\ UNCHANGED <<checkpoint, session, launches, faults>>

AllDone(r) == replica[r].step >= End(r)

StartSave(r) ==
  /\ pc[r] = "idle" /\ AllDone(r)
  /\ Goto(r, "save")
  /\ UNCHANGED <<checkpoint, length, begun, inside, entered, vetoed, cut, session, launches, faults>>

AdmitSave(r) ==
  /\ Ready(r, "save")
  /\ \E good \in {TRUE} \union (IF Fault THEN {FALSE} ELSE {}) : Join(r, good) /\ Count(~good)
  /\ UNCHANGED <<checkpoint, session, launches>>

\* Variant: rank 0 publishes but its failure is not voted on.
PublishUnvoted(r) ==
  /\ Ready(r, "publication")
  /\ \E good \in BOOLEAN, replaced \in BOOLEAN :
       /\ Fault \/ good
       /\ good => replaced
       /\ checkpoint' = IF r = 0 /\ replaced THEN replica[0] ELSE checkpoint
       /\ Join(r, TRUE)
       /\ Count(~good)
  /\ UNCHANGED <<session, launches>>

\* Rank 0 replaces the file; a failure to flush its directory comes after.
Publish(r) ==
  /\ Ready(r, "publication")
  /\ \E good \in BOOLEAN, replaced \in BOOLEAN :
       /\ Fault \/ good
       /\ good => replaced
       /\ checkpoint' = IF r = 0 /\ replaced THEN replica[0] ELSE checkpoint
       /\ Join(r, good)
       /\ Count(~good)
  /\ UNCHANGED <<session, launches>>

\* Outside of step a good verdict leads on, and anything else ends the worker.
Advance(r) ==
  /\ pc[r] \in Loading \union Saving /\ Accepted(r)
  /\ Goto(r, After[pc[r]])
  /\ inside' = [inside EXCEPT ![r] = FALSE]
  /\ begun' = IF pc[r] = "schedule" THEN [begun EXCEPT ![r] = replica[r].step] ELSE begun
  /\ UNCHANGED <<checkpoint, length, entered, vetoed, cut, session, launches, faults>>

Fail(r) ==
  /\ pc[r] \in Loading \union Saving
  /\ \/ Rejected(r) /\ Count(FALSE)
     \/ r \in cut
     \/ inside[r] /\ Abandoned(r)
  /\ Goto(r, "failed")
  /\ inside' = [inside EXCEPT ![r] = FALSE]
  /\ UNCHANGED <<checkpoint, length, begun, entered, vetoed, cut, session, launches, faults>>

-------------------------------------------------------------------------------
Step(r) ==
  \/ Call(r) \/ GiveUp(r) \/ StartSave(r)
  \/ Recover(r) \/ Schedule(r) \/ AdmitSave(r) \/ Publish(r)
  \/ Admit(r) \/ Compare(r) \/ Forward(r) \/ Vote(r) \/ Backward(r) \/ Update(r)
  \/ Proceed(r) \/ RejectCall(r) \/ RetryLater(r) \/ Poison(r)
  \/ Advance(r) \/ Fail(r)

Next ==
  \/ \E resume \in BOOLEAN, n \in Lengths : Launch(resume, n)
  \/ Reap
  \/ \E r \in Ranks : Step(r) \/ Disconnect(r) \/ Kill(r)

Spec == Init /\ [][Next]_vars

\* Processes run, collectives that lack a rank time out, and a worker goes on
\* to its next update.  Nothing is assumed of the supervisor.
FairSpec == Spec /\ \A r \in Ranks : WF_vars(Step(r)) /\ WF_vars(Disconnect(r))

-------------------------------------------------------------------------------
(* Properties                                                                 *)

\* The type invariant.
TypeOK ==
  /\ checkpoint \in Replica \union {None}
  /\ length \in {0} \union Lengths
  /\ begun \in [Ranks -> 0..MaxStep]
  /\ pc \in [Ranks -> Phases]
  /\ inside \in [Ranks -> BOOLEAN]
  /\ entered \in [Ranks -> Nat]
  /\ vetoed \in SUBSET Nat
  /\ cut \in SUBSET Ranks
  /\ replica \in [Ranks -> Replica] /\ saved \in [Ranks -> Replica]
  /\ armed \in [Ranks -> BOOLEAN]
  /\ calls \in [Ranks -> 0..MaxCalls]
  /\ launches \in 0..MaxLaunches /\ faults \in 0..MaxFaults

\* Whatever failed on which rank, sessions their callers may use again stand at
\* the same update with the same sound numbers once they have returned from the
\* same number of calls, and no reducer among them waits for a backward pass.
UsableSessionsAgree ==
  \A r, s \in Ranks :
    pc[r] = "idle" /\ pc[s] = "idle" /\ calls[r] = calls[s] =>
      replica[r] = replica[s] /\ replica[r].skew = {} /\ ~armed[r]

\* A worker that exits normally has its replica in the checkpoint, at the end
\* of its launch; what is in the checkpoint is always what the schedule defines.
SuccessIsSaved ==
  /\ checkpoint # None => checkpoint.skew = {}
  /\ \A r \in Ranks : pc[r] = "exited" /\ launches > 0 =>
       checkpoint = replica[r] /\ replica[r].step = End(r)

\* No rank hangs in a call because another one failed in a different place.
StepReturns == \A r \in Ranks : pc[r] \in StepCall ~> pc[r] \notin StepCall

===============================================================================
