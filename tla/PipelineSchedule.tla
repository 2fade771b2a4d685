---------------------------- MODULE PipelineSchedule ----------------------------
(***************************************************************************)
(* pipeline_schedule.py: the slots in which the stages of a pipeline run   *)
(* the forwards and backwards of their microbatches, slot after slot as    *)
(* the two generators emit them.  The phase of an operation is a label     *)
(* that follows from its place, and is left out.                           *)
(***************************************************************************)
EXTENDS Integers, Sequences, FiniteSets, SequencesExt

CONSTANTS MaxStages, MaxMicrobatches   \* bounds on the plans looked at

ASSUME PipelineAssumption == MaxStages \in Nat \ {0} /\ MaxMicrobatches \in Nat \ {0}

VARIABLES
  plan,        \* policy, number of stages and of microbatches
  pending,     \* 1F1B: operations each stage has yet to run, in order
  completed,   \* operations of the slots so far
  slots

pipelineVars == <<plan, pending, completed, slots>>

Plans == [policy : {"gpipe", "1f1b"}, stages : 1..MaxStages, microbatches : 1..MaxMicrobatches]

Stages == 0..(plan.stages - 1)
Microbatches == 0..(plan.microbatches - 1)
Span == plan.stages + plan.microbatches - 1

Op(direction, stage, microbatch) ==
  [direction |-> direction, stage |-> stage, microbatch |-> microbatch]

Operations == {Op(d, s, m) : d \in {"forward", "backward"}, s \in Stages, m \in Microbatches}

\* Activations come from the stage before, gradients from the stage after.
Dependencies(op) ==
  IF op.direction = "forward"
  THEN {Op("forward", s, op.microbatch) : s \in Stages \cap {op.stage - 1}}
  ELSE {Op("forward", op.stage, op.microbatch)}
         \union {Op("backward", s, op.microbatch) : s \in Stages \cap {op.stage + 1}}

-------------------------------------------------------------------------------
(* The order of one stage under 1F1B                                          *)

Least(a, b) == IF a < b THEN a ELSE b

\* Variant: one forward more before the first backward.
WarmupLonger(stages, microbatches, s) == Least(stages - s, microbatches)

WarmupCount(stages, microbatches, s) == Least(stages - s - 1, microbatches)

StageOperations(stages, microbatches, s) ==
  LET warmup == WarmupCount(stages, microbatches, s)
      steady == microbatches - warmup
  IN [i \in 1..warmup |-> Op("forward", s, i - 1)]
     \o FlattenSeq([i \in 1..steady |->
                      <<Op("forward", s, warmup + i - 1), Op("backward", s, i - 1)>>])
     \o [i \in 1..warmup |-> Op("backward", s, steady + i - 1)]

-------------------------------------------------------------------------------
(* The generators                                                             *)

PipelineInit ==
  /\ plan \in Plans
  /\ pending = [s \in Stages |->
                  IF plan.policy = "gpipe" THEN <<>>
                  ELSE StageOperations(plan.stages, plan.microbatches, s)]
  /\ completed = {}
  /\ slots = <<>>

Drained ==
  IF plan.policy = "gpipe" THEN Len(slots) = 2 * Span
  ELSE \A s \in Stages : pending[s] = <<>>

Emit(operations) ==
  /\ slots' = Append(slots, operations)
  /\ completed' = completed \union operations
  /\ UNCHANGED plan

\* Forwards move one stage on per slot; backwards return the same way, last first.
GpipeForward ==
  /\ plan.policy = "gpipe" /\ Len(slots) < Span
  /\ Emit({op \in Operations : op.direction = "forward"
                                 /\ op.stage + op.microbatch = Len(slots)})
  /\ UNCHANGED pending

GpipeBackward ==
  /\ plan.policy = "gpipe" /\ Span =< Len(slots) /\ Len(slots) < 2 * Span
  /\ Emit({op \in Operations : op.direction = "backward"
                                 /\ op.stage + op.microbatch = 2 * Span - 1 - Len(slots)})
  /\ UNCHANGED pending

\* Every stage whose next operation has its inputs.
Runnable == {s \in Stages : pending[s] # <<>> /\ Dependencies(Head(pending[s])) \subseteq completed}

OneFOneB ==
  /\ plan.policy = "1f1b" /\ Runnable # {}
  /\ Emit({Head(pending[s]) : s \in Runnable})
  /\ pending' = [s \in Stages |-> IF s \in Runnable THEN Tail(pending[s]) ELSE pending[s]]

PipelineNext == GpipeForward \/ GpipeBackward \/ OneFOneB

-------------------------------------------------------------------------------
(* validate_pipeline_schedule                                                 *)

Before(i) == UNION {slots[j] : j \in 1..(i - 1)}

ValidSlots ==
  /\ UNION Range(slots) = Operations
  /\ \A i \in 1..Len(slots) :
       /\ slots[i] \intersect Before(i) = {}
       /\ \A a, b \in slots[i] : a.stage = b.stage => a = b
       /\ \A op \in slots[i] : Dependencies(op) \subseteq Before(i)

\* GPipe: no forward beside or after a backward.
ForwardsFirst ==
  \A i \in 1..Len(slots) : \A op \in slots[i] :
    op.direction = "forward" => \A other \in Before(i) \union slots[i] : other.direction = "forward"

\* 1F1B: every stage keeps its own order.
StageOrder(s) ==
  LET its(i) == SetToSeq({op \in slots[i] : op.stage = s})
  IN FlattenSeq([i \in 1..Len(slots) |-> its(i)])

Valid ==
  /\ ValidSlots
  /\ plan.policy = "gpipe" => ForwardsFirst
  /\ plan.policy = "1f1b" =>
       \A s \in Stages : StageOrder(s) = StageOperations(plan.stages, plan.microbatches, s)

-------------------------------------------------------------------------------
(* Properties                                                                 *)

InFlight(s) ==
  Cardinality({m \in Microbatches : Op("forward", s, m) \in completed
                                      /\ Op("backward", s, m) \notin completed})

\* A generator never runs dry, so that the RuntimeError of the 1F1B loop is never
\* raised and no idle slot is emitted; what it ends with passes its own
\* validation, in as many slots as forwards and backwards need to cross the
\* stages; and under 1F1B a stage never holds more activations than there are
\* stages from it to the last.
ScheduleIsSound ==
  /\ plan.policy = "1f1b" => \A s \in Stages : InFlight(s) =< plan.stages - s
  /\ \A i \in 1..Len(slots) : slots[i] # {}
  /\ Drained => Valid /\ Len(slots) = 2 * Span
  /\ ~Drained /\ plan.policy = "1f1b" => Runnable # {}

===============================================================================
