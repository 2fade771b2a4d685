---------------------------- MODULE MCTrainingFiles ----------------------------
(* The trainings whose files several runs write, for TLC: GPT-2 over a         *)
(* checkpoint and a report, expert comparisons over their progress, publishers  *)
(* of a trained artifact, or operators over a run directory; and the schedule   *)
(* of a pipelined update.  One of them runs.                                    *)
EXTENDS Gpt2Training, CompletedSeeds, TrainedArtifact, Project1Run, PipelineSchedule

VARIABLE training

fileVars == <<training, vars, seedVars, artifactVars, operatorVars, pipelineVars>>

NoPipeline == plan = 0 /\ pending = 0 /\ completed = 0 /\ slots = 0

FilesInit ==
  /\ training \in {"gpt2", "seeds", "artifact", "operator", "pipeline"}
  /\ Init /\ SeedsInit /\ ArtifactInit /\ OperatorInit
  /\ IF training = "pipeline" THEN PipelineInit ELSE NoPipeline

\* Every run has ended, and no other may begin.
Done ==
  /\ \/ training = "gpt2" /\ runs = MaxRuns /\ \A p \in Processes : pc[p] = "idle"
     \/ training = "seeds" /\ Settled
     \/ training = "artifact" /\ Over
     \/ training = "pipeline" /\ Drained
  /\ UNCHANGED fileVars

FilesNext ==
  \/ training = "gpt2" /\ Next /\ UNCHANGED <<training, seedVars, artifactVars, operatorVars, pipelineVars>>
  \/ training = "seeds" /\ SeedsNext /\ UNCHANGED <<training, vars, artifactVars, operatorVars, pipelineVars>>
  \/ training = "artifact" /\ ArtifactNext /\ UNCHANGED <<training, vars, seedVars, operatorVars, pipelineVars>>
  \/ training = "operator" /\ OperatorNext /\ UNCHANGED <<training, vars, seedVars, artifactVars, pipelineVars>>
  \/ /\ training = "pipeline" /\ PipelineNext
     /\ UNCHANGED <<training, vars, seedVars, artifactVars, operatorVars>>
  \/ Done

FilesSpec == FilesInit /\ [][FilesNext]_fileVars

\* Reports and artifacts of interrupted and concurrent experiments are whole
\* (moe_experiment_restart.py, moe_experiment_artifacts.py).
ExperimentsAreWhole ==
  /\ ReportsMatchProgress /\ RefusedBeforeTraining
  /\ LoadsAreWhole

\* Every generated pipeline schedule runs to its end, passes its validation and keeps
\* few activations (pipeline_schedule.py).
SchedulesAreSound == training = "pipeline" => ScheduleIsSound

================================================================================
