------------------------------ MODULE Project1Run ------------------------------
(***************************************************************************)
(* project1_operator.py and project1_cli.py: a run directory is created,   *)
(* its schedule executed once, every update journaled, and the files       *)
(* sealed by an index that can be verified later.  No command takes a      *)
(* lock: each reads what it finds, and replaces single files atomically.   *)
(*                                                                         *)
(* The checkpoint and the report are known by the execution that wrote     *)
(* them, and so are the digests in the journal and in the index: two       *)
(* executions of one schedule need not produce the same bytes.  An event   *)
(* is its kind, its step, its time and its digest; its sequence number is  *)
(* its place in the journal, and the chain of digests is intact because    *)
(* write_event_chain verifies what it writes.                              *)
(***************************************************************************)
EXTENDS Integers, Sequences, FiniteSets, SequencesExt

CONSTANTS
  Operators,       \* processes that run commands
  ScheduleSteps,
  Times,           \* --recorded-at-utc
  MaxExecutions,   \* bound: schedules started
  MaxCut,          \* bound: failed and killed commands
  Missing          \* what is read of a file that is not there

Kinds == {"started", "step", "checkpoint", "completed"}
Events == [kind : Kinds, step : Nat, time : Times, digest : Nat]

ASSUME Project1Assumption ==
  /\ ScheduleSteps \in Nat \ {0}
  /\ Times \subseteq Nat /\ 0 \in Times
  /\ MaxExecutions \in Nat /\ MaxCut \in Nat
  /\ Missing \notin Nat
  /\ Missing \notin Seq(Events)

VARIABLES
  journal, checkpointFile, reportFile, bundle,   \* files of the run directory, or Missing
  command,     \* where each operator is
  execution,   \* execution of each operator
  time,        \* its --recorded-at-utc
  read,        \* journal it has read to append to, or digests it has read to seal
  appended,    \* events it has appended
  executions, cut,
  overlap      \* history: two commands have worked on the directory at once

directory == <<journal, checkpointFile, reportFile, bundle>>
operatorVars == <<directory, command, execution, time, read, appended, executions, cut, overlap>>

Commands == {"idle", "training", "reporting", "journaling", "appending", "admitting",
             "hashing", "sealing"}

Event(kind, step, at, digest) == [kind |-> kind, step |-> step, time |-> at, digest |-> digest]

Proceed(o, stage) == command' = [command EXCEPT ![o] = stage]
Busy(o) == command[o] # "idle"

\* A command begins: it is alone if no other one is under way.
Enter(o) == overlap' = (overlap \/ \E other \in Operators \ {o} : Busy(other))

OperatorInit ==
  /\ journal = Missing /\ checkpointFile = Missing /\ reportFile = Missing /\ bundle = Missing
  /\ command = [o \in Operators |-> "idle"]
  /\ execution = [o \in Operators |-> 0]
  /\ time = [o \in Operators |-> 0]
  /\ read = [o \in Operators |-> Missing]
  /\ appended = [o \in Operators |-> 0]
  /\ executions = 0 /\ cut = 0
  /\ overlap = FALSE

-------------------------------------------------------------------------------
(* The journal: reduce_run_state                                              *)

\* Whether event i is a legal successor of the one before it.
Follows(events, i) ==
  LET event == events[i]
      before == events[i - 1]
  IN /\ event.time >= before.time
     /\ event.step = IF event.kind = "step" THEN before.step + 1 ELSE before.step
     /\ before.kind # "completed"

Reducible(events) ==
  /\ events # <<>>
  /\ events[1].kind = "started"
  /\ \A i \in 2..Len(events) : Follows(events, i)

Complete(events) == Reducible(events) /\ Last(events).kind = "completed"

\* Variant: a journal is not asked whether the run was executed before.
TouchedToo(events) == TRUE

\* An initialized run that nobody has executed.
Untouched(events) == Reducible(events) /\ Len(events) = 1 /\ ~Complete(events)

-------------------------------------------------------------------------------
(* initialize_run                                                             *)

\* A directory with its first event is renamed into place.
Initialize(o, at) ==
  /\ command[o] = "idle" /\ journal = Missing
  /\ journal' = <<Event("started", 0, at, 0)>>
  /\ Enter(o)
  /\ UNCHANGED <<checkpointFile, reportFile, bundle, command, execution, time, read, appended, executions, cut>>

-------------------------------------------------------------------------------
(* execute_fresh_run                                                          *)

Execute(o, at) ==
  /\ command[o] = "idle" /\ executions < MaxExecutions
  /\ journal # Missing /\ Untouched(journal)
  /\ Proceed(o, "training")
  /\ executions' = executions + 1
  /\ execution' = [execution EXCEPT ![o] = executions + 1]
  /\ time' = [time EXCEPT ![o] = at]
  /\ appended' = [appended EXCEPT ![o] = 0]
  /\ Enter(o)
  /\ UNCHANGED <<directory, read, cut>>

\* run_and_publish replaces the checkpoint, and then the report.
ReplaceCheckpoint(o) ==
  /\ command[o] = "training"
  /\ checkpointFile' = execution[o]
  /\ Proceed(o, "reporting")
  /\ UNCHANGED <<journal, reportFile, bundle, execution, time, read, appended, executions, cut, overlap>>

ReplaceReport(o) ==
  /\ command[o] = "reporting"
  /\ reportFile' = execution[o]
  /\ Proceed(o, "journaling")
  /\ UNCHANGED <<journal, checkpointFile, bundle, execution, time, read, appended, executions, cut, overlap>>

\* The events of an execution after "started"; the digest of the checkpoint is
\* that of the file, the one of the report is remembered.
NextEvent(o) ==
  LET n == appended[o] + 1
  IN IF n <= ScheduleSteps THEN Event("step", n, time[o], 0)
     ELSE IF n = ScheduleSteps + 1
          THEN Event("checkpoint", ScheduleSteps, time[o], checkpointFile)
          ELSE Event("completed", ScheduleSteps, time[o], execution[o])

\* append_event reads the journal; the event must carry the next number.
ReadJournal(o) ==
  /\ command[o] = "journaling"
  /\ Len(journal) = appended[o] + 1
  /\ read' = [read EXCEPT ![o] = Append(journal, NextEvent(o))]
  /\ Proceed(o, "appending")
  /\ UNCHANGED <<directory, execution, time, appended, executions, cut, overlap>>

NotContiguous(o) ==
  /\ command[o] = "journaling"
  /\ Len(journal) # appended[o] + 1
  /\ Proceed(o, "idle")
  /\ UNCHANGED <<directory, execution, time, read, appended, executions, cut, overlap>>

\* ... and replaces it with its own copy.
WriteJournal(o) ==
  /\ command[o] = "appending"
  /\ journal' = read[o]
  /\ read' = [read EXCEPT ![o] = Missing]
  /\ appended' = [appended EXCEPT ![o] = @ + 1]
  /\ Proceed(o, IF appended[o] + 1 = ScheduleSteps + 2 THEN "admitting" ELSE "journaling")
  /\ UNCHANGED <<checkpointFile, reportFile, bundle, execution, time, executions, cut, overlap>>

-------------------------------------------------------------------------------
(* finalize_run_bundle and verify_run_bundle                                  *)

\* The index may also be wanted for a run executed before.
Finalize(o) ==
  /\ command[o] = "idle" /\ journal # Missing
  /\ Proceed(o, "admitting")
  /\ Enter(o)
  /\ UNCHANGED <<directory, execution, time, read, appended, executions, cut>>

Sealable == Complete(journal) /\ reportFile # Missing /\ checkpointFile # Missing

Admit(o) ==
  /\ command[o] = "admitting"
  /\ Proceed(o, IF Sealable THEN "hashing" ELSE "idle")
  /\ UNCHANGED <<directory, execution, time, read, appended, executions, cut, overlap>>

\* The manifest is made file after file.
Index == [checkpoint |-> checkpointFile, journal |-> journal, report |-> reportFile]

Hash(o) ==
  /\ command[o] = "hashing"
  /\ \/ read[o] = Missing
        /\ read' = [read EXCEPT ![o] = [Index EXCEPT !.journal = Missing, !.report = Missing]]
        /\ UNCHANGED command
     \/ read[o] # Missing /\ read[o].journal = Missing
        /\ read' = [read EXCEPT ![o].journal = journal]
        /\ UNCHANGED command
     \/ read[o] # Missing /\ read[o].journal # Missing
        /\ read' = [read EXCEPT ![o].report = reportFile]
        /\ Proceed(o, "sealing")
  /\ UNCHANGED <<directory, execution, time, appended, executions, cut, overlap>>

\* Variant: the index is written in place, and may be cut short.
SealInPlace(o) ==
  /\ command[o] = "sealing"
  /\ bundle' \in {read[o], [read[o] EXCEPT !.report = Missing]}
  /\ read' = [read EXCEPT ![o] = Missing]
  /\ Proceed(o, "idle")
  /\ UNCHANGED <<journal, checkpointFile, reportFile, execution, time, appended, executions, cut, overlap>>

Seal(o) ==
  /\ command[o] = "sealing"
  /\ bundle' = read[o]
  /\ read' = [read EXCEPT ![o] = Missing]
  /\ Proceed(o, "idle")
  /\ UNCHANGED <<journal, checkpointFile, reportFile, execution, time, appended, executions, cut, overlap>>

\* A command fails or is killed between two of its steps.
CutShort(o) ==
  /\ Busy(o) /\ cut < MaxCut
  /\ cut' = cut + 1
  /\ read' = [read EXCEPT ![o] = Missing]
  /\ Proceed(o, "idle")
  /\ UNCHANGED <<directory, execution, time, appended, executions, overlap>>

-------------------------------------------------------------------------------
OperatorNext ==
  \E o \in Operators :
    \/ \E at \in Times : Initialize(o, at) \/ Execute(o, at)
    \/ ReplaceCheckpoint(o) \/ ReplaceReport(o) \/ ReadJournal(o) \/ NotContiguous(o) \/ WriteJournal(o)
    \/ Finalize(o) \/ Admit(o) \/ Hash(o) \/ Seal(o) \/ CutShort(o)

OperatorSpec == OperatorInit /\ [][OperatorNext]_operatorVars

-------------------------------------------------------------------------------
(* Properties                                                                 *)

\* What verify_run_bundle accepts: the files are those of the index, and the
\* journal is complete.
Verified == bundle # Missing /\ bundle = Index /\ Complete(journal)

\* Commands one after the other, whichever of them were cut short: a directory
\* that verifies is the work of one execution, and its journal names the very
\* checkpoint and report beside it.  Nothing in the verification compares them.
BundleConsistent ==
  Verified /\ ~overlap =>
    /\ Len(journal) = ScheduleSteps + 3
    /\ journal[ScheduleSteps + 2].digest = checkpointFile
    /\ journal[ScheduleSteps + 3].digest = reportFile
    /\ checkpointFile = reportFile

\* Once a directory verifies, no command that is alone can undo it.
StaysVerified == [][Verified /\ ~overlap' => Verified']_operatorVars

===============================================================================
