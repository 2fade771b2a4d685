-------------------------- MODULE TrainingFilesProofs --------------------------
(***************************************************************************)
(* Training files are exact and whole, for any number of processes,        *)
(* length of the schedule, accumulation and length of an epoch, and any    *)
(* number of seeds, comparisons, publishers and readers.                   *)
(*                                                                         *)
(* Of GPT-2 training, neither property is inductive.  A segment that is    *)
(* retried counts its updates from zero again while its model keeps the    *)
(* earlier ones, so that model and count part, and the rates are wrong     *)
(* from there on: Sound says that this shows in the lengths, and a save    *)
(* compares them.  Within an update the cursor is ahead of the model by    *)
(* the micro-batches taken.                                                *)
(*                                                                         *)
(* Of an artifact, Whole says that its files follow each other and         *)
(* PublisherInv that they are of the one publisher that claimed it.  Of a  *)
(* comparison, ViewInv says what a run that nobody disturbed knows of a    *)
(* directory others write to, and LinkedInv counts what was published.     *)
(*                                                                         *)
(* Pipeline schedules: the plan alone says when an operation is to run     *)
(* (Moment).  What an operation needs is due earlier, a stage is due one   *)
(* at a time, and under 1F1B in its own order (OrderAscends); the slots so *)
(* far are those of the moments so far (PipelineInv).                      *)
(***************************************************************************)
EXTENDS MCTrainingFiles, SequenceTheorems, FiniteSetTheorems, WellFoundedInduction, TLAPS

-------------------------------------------------------------------------------
(* GPT-2 training                                                             *)

Batches == [epoch : Nat, number : Nat]
Updates == [rate : Nat, batches : Seq(Batches)]
Cursors == [epoch : Nat, offset : 0..BatchesPerEpoch]

\* Where the cursor is after a number of micro-batches, and what they are.
Position(n) ==
  IF n = 0 THEN Beginning
  ELSE [epoch |-> (n - 1) \div BatchesPerEpoch, offset |-> ((n - 1) % BatchesPerEpoch) + 1]
Consecutive(from, n) == [j \in 1..n |-> Nth(from + j - 1)]

Learned(m) ==
  \A i \in 1..Len(m) : m[i].batches = Consecutive((i - 1) * AccumulationSteps, AccumulationSteps)
OnSchedule(m) == \A i \in 1..Len(m) : m[i].rate = i - 1

\* A model of a run that counts n updates: more, or exactly those of the schedule.
Sound(m, n) ==
  /\ m \in Seq(Updates) /\ n \in Nat
  /\ Learned(m)
  /\ Len(m) >= n
  /\ Len(m) = n => OnSchedule(m)

Exact(m, n) == Sound(m, n) /\ Len(m) = n

\* Micro-batches b were taken after k updates, and the cursor is behind them.
Taking(b, c, k) ==
  /\ b \in Seq(Batches) /\ Len(b) =< AccumulationSteps
  /\ b = Consecutive(k * AccumulationSteps, Len(b))
  /\ c = Position(k * AccumulationSteps + Len(b))

\* One process: its stage, model, cursor, micro-batches and saved state, and the
\* update it counts.
RunInv(stage, m, c, b, s, n) ==
  /\ stage \in {"training", "raised", "saving", "reporting"} =>
       Sound(m, n) /\ c = CursorAfter(Len(m))
  /\ stage = "reporting" => Len(m) = n
  /\ stage = "accumulating" =>
       /\ Sound(m, n) /\ Taking(b, c, Len(m))
       /\ s = [model |-> m, cursor |-> CursorAfter(Len(m))]
  /\ stage = "updated" =>
       \E old \in Seq(Updates) :
         /\ Sound(old, n) /\ Taking(b, c, Len(old)) /\ Len(b) = AccumulationSteps
         /\ s = [model |-> old, cursor |-> CursorAfter(Len(old))]
         /\ m = Append(old, [rate |-> n, batches |-> b])

ProcessInv(p) ==
  RunInv(pc[p], model[p], cursor[p], batches[p], saved[p], start[p] + done[p])

\* A segment ends within the schedule.
CountInv(p) ==
  /\ start[p] + count[p] =< OptimizerSteps /\ done[p] =< count[p]
  /\ pc[p] \in {"training", "accumulating", "updated", "raised"} => done[p] < count[p]

FilesInv ==
  /\ checkpoint # None =>
       /\ checkpoint.step \in 0..OptimizerSteps
       /\ Exact(checkpoint.model, checkpoint.step)
       /\ checkpoint.cursor = CursorAfter(checkpoint.step)
  /\ report # None => Exact(report.model, report.to)

TypeInv ==
  /\ TypeOK
  /\ model \in [Processes -> Seq(Updates)]
  /\ batches \in [Processes -> Seq(Batches)]
  /\ DOMAIN saved = Processes

IInv ==
  /\ TypeInv /\ FilesInv
  /\ \A p \in Processes : ProcessInv(p) /\ CountInv(p)

-------------------------------------------------------------------------------
(* The cursor and the order of the data                                       *)

LEMMA Euclid ==
  ASSUME NEW n \in Nat, NEW d \in Nat \ {0}
  PROVE  n \div d \in Nat /\ n % d \in 0..(d - 1) /\ n = d * (n \div d) + (n % d)
  BY SMT

LEMMA Division ==
  ASSUME NEW d \in Nat \ {0}, NEW q \in Nat, NEW r \in 0..(d - 1)
  PROVE  (d * q + r) \div d = q /\ (d * q + r) % d = r
  BY SMTT(30)

LEMMA ZeroOf ==
  ASSUME NEW d \in Nat \ {0}
  PROVE  0 \div d = 0 /\ 0 % d = 0
  BY SMT

LEMMA Product ==
  ASSUME Gpt2Assumption, NEW k \in Nat
  PROVE  /\ k * AccumulationSteps \in Nat
         /\ (k + 1) * AccumulationSteps = k * AccumulationSteps + AccumulationSteps
         /\ k + 1 - 1 = k
         /\ 0 * AccumulationSteps = 0
  BY SMT DEF Gpt2Assumption

LEMMA NthTyped ==
  ASSUME Gpt2Assumption, NEW n \in Nat
  PROVE  Nth(n) \in Batches
  BY Euclid DEF Nth, Batch, Batches, Gpt2Assumption

LEMMA PositionTyped ==
  ASSUME Gpt2Assumption, NEW n \in Nat
  PROVE  Position(n) \in Cursors
<1>1. CASE n = 0
  BY <1>1 DEF Position, Beginning, Cursors, Gpt2Assumption
<1>2. CASE n # 0
  <2>1. n - 1 \in Nat
    BY <1>2
  <2>2. QED
    BY <1>2, <2>1, Euclid DEF Position, Cursors, Gpt2Assumption
<1>3. QED
  BY <1>1, <1>2

\* The cursor turns to the number of the next micro-batch.
LEMMA CursorTurns ==
  ASSUME Gpt2Assumption, NEW n \in Nat
  PROVE  Turned(Position(n)) = [epoch |-> n \div BatchesPerEpoch, offset |-> n % BatchesPerEpoch]
<1> DEFINE d == BatchesPerEpoch
<1>1. d \in Nat \ {0}
  BY DEF Gpt2Assumption
<1> HIDE DEF d
<1>2. CASE n = 0
  <2>1. Turned(Beginning) = Beginning
    BY <1>1 DEF Turned, Beginning, d
  <2>2. QED
    BY <1>1, <1>2, <2>1, ZeroOf DEF Position, Beginning, d
<1>3. CASE n # 0
  <2> DEFINE q == (n - 1) \div d
             r == (n - 1) % d
  <2>1. n - 1 \in Nat
    BY <1>3
  <2>2. q \in Nat /\ r \in 0..(d - 1) /\ n - 1 = d * q + r
    BY <1>1, <2>1, Euclid
  <2>3. Position(n) = [epoch |-> q, offset |-> r + 1]
    BY <1>3 DEF Position, d
  <2> HIDE DEF q, r
  <2>4. CASE r + 1 = d
    <3>1. n = d * (q + 1) + 0 /\ 0 \in 0..(d - 1)
      BY <1>1, <2>2, <2>4
    <3>2. n \div d = q + 1 /\ n % d = 0
      BY <1>1, <2>2, <3>1, Division
    <3>3. Turned(Position(n)) = [epoch |-> q + 1, offset |-> 0]
      BY <1>1, <2>2, <2>3, <2>4 DEF Turned, d
    <3>4. QED
      BY <3>2, <3>3 DEF d
  <2>5. CASE r + 1 # d
    <3>1. n = d * q + (r + 1) /\ r + 1 \in 0..(d - 1)
      BY <1>1, <2>2, <2>5
    <3>2. n \div d = q /\ n % d = r + 1
      BY <1>1, <2>2, <3>1, Division
    <3>3. Turned(Position(n)) = [epoch |-> q, offset |-> r + 1]
      BY <1>1, <2>2, <2>3, <3>1 DEF Turned, d
    <3>4. QED
      BY <3>2, <3>3 DEF d
  <2>6. QED
    BY <2>4, <2>5
<1>4. QED
  BY <1>2, <1>3

LEMMA CursorIsPosition ==
  ASSUME Gpt2Assumption, NEW k \in Nat
  PROVE  CursorAfter(k) = Position(k * AccumulationSteps) /\ CursorAfter(k) \in Cursors
  BY Product, PositionTyped DEF CursorAfter, Position

-------------------------------------------------------------------------------
(* What an update does to the model                                           *)

LEMMA NothingTaken ==
  ASSUME Gpt2Assumption, NEW k \in Nat
  PROVE  Taking(<<>>, CursorAfter(k), k)
<1>1. k * AccumulationSteps \in Nat /\ CursorAfter(k) = Position(k * AccumulationSteps)
  BY Product, CursorIsPosition
<1>2. <<>> = Consecutive(k * AccumulationSteps, 0)
  BY <1>1 DEF Consecutive
<1>3. QED
  BY <1>1, <1>2 DEF Taking, Gpt2Assumption

\* One micro-batch more.
LEMMA OneTaken ==
  ASSUME Gpt2Assumption, NEW k \in Nat, NEW b \in Seq(Batches), NEW c, Taking(b, c, k),
         Len(b) < AccumulationSteps
  PROVE  LET t == Turned(c)
             e == Append(b, Batch(t.epoch, t.offset))
             d == [t EXCEPT !.offset = @ + 1]
         IN Taking(e, d, k) /\ e \in Seq(Batches) /\ d \in Cursors
<1> DEFINE n == k * AccumulationSteps + Len(b)
           t == Turned(c)
           x == Batch(t.epoch, t.offset)
           e == Append(b, x)
           d == [t EXCEPT !.offset = @ + 1]
<1>1. k * AccumulationSteps \in Nat /\ Len(b) \in Nat /\ n \in Nat /\ AccumulationSteps \in Nat
  BY Product DEF Gpt2Assumption
<1>2. t = [epoch |-> n \div BatchesPerEpoch, offset |-> n % BatchesPerEpoch]
  BY <1>1, CursorTurns DEF Taking
<1>3. x = Nth(n) /\ x \in Batches
  BY <1>1, <1>2, NthTyped DEF Batch, Nth
<1>4. d = Position(n + 1) /\ d \in Cursors
  <2>1. d = [epoch |-> n \div BatchesPerEpoch, offset |-> (n % BatchesPerEpoch) + 1]
    BY <1>2
  <2>2. n + 1 # 0 /\ n + 1 - 1 = n /\ n + 1 \in Nat
    BY <1>1
  <2>3. Position(n + 1) = [epoch |-> n \div BatchesPerEpoch, offset |-> (n % BatchesPerEpoch) + 1]
    BY <2>2 DEF Position
  <2>4. QED
    BY <2>1, <2>2, <2>3, PositionTyped
<1>5. e \in Seq(Batches) /\ Len(e) = Len(b) + 1
  BY <1>3
<1>6. e = Consecutive(k * AccumulationSteps, Len(b) + 1)
  <2> DEFINE g == Consecutive(k * AccumulationSteps, Len(b) + 1)
  <2>1. b = [j \in 1..Len(b) |-> Nth(k * AccumulationSteps + j - 1)]
    BY DEF Taking, Consecutive
  <2>2. \A j \in 1..Len(b) : b[j] = Nth(k * AccumulationSteps + j - 1)
    BY <2>1
  <2>3. \A j \in 1..(Len(b) + 1) : e[j] = Nth(k * AccumulationSteps + j - 1)
    <3> SUFFICES ASSUME NEW j \in 1..(Len(b) + 1)
                 PROVE  e[j] = Nth(k * AccumulationSteps + j - 1)
      OBVIOUS
    <3>1. CASE j \in 1..Len(b)
      BY <1>3, <2>2, <3>1
    <3>2. CASE j = Len(b) + 1
      <4>1. e[j] = x
        BY <1>1, <1>3, <3>2
      <4>2. k * AccumulationSteps + j - 1 = n
        BY <1>1, <3>2
      <4>3. QED
        BY <1>3, <4>1, <4>2
    <3>3. QED
      BY <1>1, <3>1, <3>2
  <2>4. e = [j \in 1..(Len(b) + 1) |-> e[j]]
    BY <1>3, <1>5
  <2>5. QED
    BY <2>3, <2>4 DEF Consecutive
<1> HIDE DEF d, e, x, t
<1>7. Taking(e, d, k)
  BY <1>1, <1>4, <1>5, <1>6 DEF Taking
<1>8. QED
  BY <1>4, <1>5, <1>7 DEF d, e, x, t

\* A whole update.
LEMMA OneLearned ==
  ASSUME Gpt2Assumption, NEW m, NEW n \in Nat, NEW b, NEW c, Sound(m, n),
         Taking(b, c, Len(m)), Len(b) = AccumulationSteps
  PROVE  LET w == Append(m, [rate |-> n, batches |-> b])
         IN Sound(w, n + 1) /\ Len(w) = Len(m) + 1 /\ c = CursorAfter(Len(w)) /\ w \in Seq(Updates)
<1> DEFINE x == [rate |-> n, batches |-> b]
           w == Append(m, x)
<1>1. m \in Seq(Updates) /\ Len(m) \in Nat /\ x \in Updates
  BY DEF Sound, Taking, Updates
<1>2. /\ w \in Seq(Updates) /\ Len(w) = Len(m) + 1
      /\ \A i \in 1..Len(m) : w[i] = m[i]
      /\ w[Len(m) + 1] = x
  BY <1>1
<1> HIDE DEF w
<1>3. c = CursorAfter(Len(w))
  BY <1>1, <1>2, Product, CursorIsPosition DEF Taking
<1>4. Learned(w)
  <2> SUFFICES ASSUME NEW i \in 1..Len(w)
               PROVE  w[i].batches = Consecutive((i - 1) * AccumulationSteps, AccumulationSteps)
    BY DEF Learned
  <2>1. CASE i \in 1..Len(m)
    BY <1>2, <2>1 DEF Sound, Learned
  <2>2. CASE i = Len(m) + 1
    <3>1. i - 1 = Len(m) /\ w[i].batches = b
      BY <1>1, <1>2, <2>2
    <3>2. QED
      BY <3>1 DEF Taking
  <2>3. QED
    BY <1>1, <1>2, <2>1, <2>2
<1>5. Len(w) = n + 1 => OnSchedule(w)
  <2> SUFFICES ASSUME Len(w) = n + 1, NEW i \in 1..Len(w)
               PROVE  w[i].rate = i - 1
    BY DEF OnSchedule
  <2>1. Len(m) = n /\ OnSchedule(m)
    BY <1>1, <1>2 DEF Sound
  <2>2. CASE i \in 1..Len(m)
    BY <1>2, <2>1, <2>2 DEF OnSchedule
  <2>3. CASE i = Len(m) + 1
    BY <1>1, <1>2, <2>1, <2>3
  <2>4. QED
    BY <1>1, <1>2, <2>2, <2>3
<1>6. Sound(w, n + 1)
  BY <1>1, <1>2, <1>4, <1>5 DEF Sound
<1>7. QED
  BY <1>2, <1>3, <1>6 DEF w

LEMMA NothingLearned ==
  ASSUME Gpt2Assumption
  PROVE  Exact(<<>>, 0) /\ CursorAfter(0) = Beginning /\ <<>> \in Seq(Updates)
  BY Product DEF Exact, Sound, Learned, OnSchedule, CursorAfter

\* A sound model counted anew is sound: the schedule has been left unless nothing
\* was done.
LEMMA CountedAnew ==
  ASSUME NEW m, NEW from \in Nat, NEW k \in Nat, Sound(m, from + k)
  PROVE  Sound(m, from)
<1>1. m \in Seq(Updates) /\ Len(m) \in Nat
  BY DEF Sound
<1>2. CASE k = 0
  BY <1>2 DEF Sound
<1>3. CASE k > 0
  BY <1>1, <1>3 DEF Sound
<1>4. QED
  BY <1>2, <1>3

LEMMA ExactIsUninterrupted ==
  ASSUME NEW m, NEW n, Exact(m, n)
  PROVE  m = Uninterrupted(n)
<1>1. m \in Seq(Updates) /\ n \in Nat /\ Len(m) = n /\ Learned(m) /\ OnSchedule(m)
  BY DEF Exact, Sound
<1>2. m = [i \in 1..n |-> m[i]]
  BY <1>1
<1>3. ASSUME NEW i \in 1..n
      PROVE  m[i] = [rate |-> i - 1, batches |-> Uninterrupted(n)[i].batches]
  <2>1. m[i] \in Updates
    BY <1>1
  <2>2. m[i] = [rate |-> m[i].rate, batches |-> m[i].batches]
    BY <2>1 DEF Updates
  <2>3. m[i].rate = i - 1
    BY <1>1 DEF OnSchedule
  <2>4. m[i].batches = Uninterrupted(n)[i].batches
    BY <1>1 DEF Learned, Consecutive, Uninterrupted
  <2>5. QED
    BY <2>2, <2>3, <2>4
<1>4. Uninterrupted(n) = [i \in 1..n |-> [rate |-> i - 1, batches |-> Uninterrupted(n)[i].batches]]
  BY DEF Uninterrupted
<1>5. QED
  BY <1>2, <1>3, <1>4

-------------------------------------------------------------------------------
(* The invariant is inductive                                                 *)

LEMMA InitInv == ASSUME Gpt2Assumption, Init PROVE IInv
<1>1. TypeInv
  BY NothingLearned DEF TypeInv, TypeOK, Init, Beginning, Phases, Gpt2Assumption, Updates, Batches
<1>2. FilesInv
  BY DEF FilesInv, Init
<1>3. ASSUME NEW p \in Processes PROVE ProcessInv(p) /\ CountInv(p)
  <2>1. pc[p] = "idle" /\ start[p] = 0 /\ count[p] = 0 /\ done[p] = 0
    BY DEF Init
  <2>2. QED
    BY <2>1 DEF ProcessInv, CountInv, RunInv, Gpt2Assumption
<1>4. QED
  BY <1>1, <1>2, <1>3 DEF IInv

\* A process that a step leaves alone.
LEMMA Others ==
  ASSUME NEW q \in Processes, ProcessInv(q), CountInv(q),
         pc'[q] = pc[q], model'[q] = model[q], cursor'[q] = cursor[q], batches'[q] = batches[q],
         saved'[q] = saved[q], start'[q] = start[q], count'[q] = count[q], done'[q] = done[q]
  PROVE  ProcessInv(q)' /\ CountInv(q)'
  BY DEF ProcessInv, CountInv

\* What a process counts is a number.
LEMMA Counts ==
  ASSUME Gpt2Assumption, TypeInv, NEW p \in Processes
  PROVE  /\ start[p] \in 0..OptimizerSteps /\ count[p] \in 0..OptimizerSteps
         /\ done[p] \in 0..OptimizerSteps
         /\ start[p] \in Nat /\ done[p] \in Nat /\ start[p] + done[p] \in Nat
         /\ start[p] + (done[p] + 1) = start[p] + done[p] + 1
         /\ model[p] \in Seq(Updates) /\ batches[p] \in Seq(Batches) /\ cursor[p] \in Cursors
<1>1. /\ start[p] \in 0..OptimizerSteps /\ count[p] \in 0..OptimizerSteps
      /\ done[p] \in 0..OptimizerSteps
      /\ model[p] \in Seq(Updates) /\ batches[p] \in Seq(Batches) /\ cursor[p] \in Cursors
  BY DEF TypeInv, TypeOK, Cursors
<1>2. start[p] \in Nat /\ done[p] \in Nat
  BY <1>1 DEF Gpt2Assumption
<1>3. QED
  BY <1>1, <1>2

LEMMA BeginStep ==
  ASSUME Gpt2Assumption, IInv, NEW p \in Processes, NEW n \in 0..OptimizerSteps, NEW m, NEW c, NEW from \in 0..OptimizerSteps,
         Exact(m, from), c = CursorAfter(from), Begin(p, n, m, c, from)
  PROVE  IInv'
<1> USE DEF files, segment, memory
<1>0. TypeInv /\ FilesInv /\ ProcessInv(p) /\ CountInv(p)
  BY DEF IInv
<1>1. TypeInv'
  <2>1. m \in Seq(Updates) /\ c \in Cursors
    BY CursorIsPosition DEF Exact, Sound
  <2>2. (IF n = 0 THEN OptimizerSteps - from ELSE n) \in 0..OptimizerSteps
    BY DEF Gpt2Assumption
  <2>3. <<>> \in Seq(Batches)
    OBVIOUS
  <2>4. QED
    BY <1>0, <2>1, <2>2, <2>3 DEF TypeInv, TypeOK, Goto, Phases, Begin, Cursors, Gpt2Assumption
<1>2. FilesInv'
  BY <1>0 DEF FilesInv, Begin
<1>3. ASSUME NEW q \in Processes, q # p PROVE ProcessInv(q)' /\ CountInv(q)'
  BY <1>0, <1>3, Others DEF IInv, Begin, Goto, TypeInv, TypeOK
<1>4. ProcessInv(p)' /\ CountInv(p)'
  <2>1. /\ pc'[p] = IF from = OptimizerSteps THEN "saving" ELSE "training"
        /\ model'[p] = m /\ cursor'[p] = c /\ start'[p] = from /\ done'[p] = 0
        /\ count'[p] = IF n = 0 THEN OptimizerSteps - from ELSE n
        /\ from + n =< OptimizerSteps
    BY <1>0 DEF TypeInv, TypeOK, Begin, Goto
  <2>2. Sound(m, from) /\ Len(m) = from /\ from + 0 = from
    BY DEF Exact
  <2>3. CountInv(p)'
    BY <2>1 DEF CountInv, Gpt2Assumption
  <2>4. ProcessInv(p)'
    BY <2>1, <2>2 DEF ProcessInv, RunInv
  <2>5. QED
    BY <2>3, <2>4
<1>5. QED
  BY <1>1, <1>2, <1>3, <1>4 DEF IInv

LEMMA StartUpdateStep ==
  ASSUME Gpt2Assumption, IInv, NEW p \in Processes, StartUpdate(p)
  PROVE  IInv'
<1> USE DEF files, segment, memory
<1>0. TypeInv /\ FilesInv /\ ProcessInv(p) /\ CountInv(p)
  BY DEF IInv
<1>1. TypeInv'
  BY <1>0 DEF TypeInv, TypeOK, Goto, Phases, StartUpdate, Gpt2Assumption
<1>2. FilesInv'
  BY <1>0 DEF FilesInv, StartUpdate
<1>3. ASSUME NEW q \in Processes, q # p PROVE ProcessInv(q)' /\ CountInv(q)'
  BY <1>0, <1>3, Others DEF IInv, StartUpdate, Goto, TypeInv, TypeOK
<1>4. ProcessInv(p)' /\ CountInv(p)'
  <2>1. /\ pc[p] = "training" /\ pc'[p] = "accumulating" /\ batches'[p] = <<>>
        /\ saved'[p] = [model |-> model[p], cursor |-> cursor[p]]
        /\ UNCHANGED <<model, cursor, start, count, done>>
    BY <1>0 DEF TypeInv, TypeOK, StartUpdate, Goto
  <2>2. Sound(model[p], start[p] + done[p]) /\ cursor[p] = CursorAfter(Len(model[p]))
    BY <1>0, <2>1 DEF ProcessInv, RunInv
  <2>3. Taking(<<>>, cursor[p], Len(model[p]))
    BY <2>2, NothingTaken DEF Sound
  <2>4. ProcessInv(p)'
    BY <2>1, <2>2, <2>3 DEF ProcessInv, RunInv
  <2>5. QED
    BY <1>0, <2>1, <2>4 DEF CountInv
<1>5. QED
  BY <1>1, <1>2, <1>3, <1>4 DEF IInv

LEMMA MicroBatchStep ==
  ASSUME Gpt2Assumption, IInv, NEW p \in Processes, MicroBatch(p)
  PROVE  IInv'
<1> USE DEF files, segment, memory
<1>0. TypeInv /\ FilesInv /\ ProcessInv(p) /\ CountInv(p)
  BY DEF IInv
<1>6. /\ pc[p] = "accumulating" /\ Taking(batches'[p], cursor'[p], Len(model[p]))
      /\ batches'[p] \in Seq(Batches) /\ cursor'[p] \in Cursors
  <2>1. /\ pc[p] = "accumulating" /\ Len(batches[p]) < AccumulationSteps
        /\ LET c == Turned(cursor[p])
           IN /\ batches'[p] = Append(batches[p], Batch(c.epoch, c.offset))
              /\ cursor'[p] = [c EXCEPT !.offset = @ + 1]
    BY <1>0 DEF TypeInv, TypeOK, MicroBatch
  <2>2. Taking(batches[p], cursor[p], Len(model[p])) /\ Len(model[p]) \in Nat
    BY <1>0, <2>1 DEF ProcessInv, RunInv, Sound
  <2> DEFINE t == Turned(cursor[p])
             e == Append(batches[p], Batch(t.epoch, t.offset))
             d == [t EXCEPT !.offset = @ + 1]
  <2>3. batches[p] \in Seq(Batches)
    BY <1>0, Counts
  <2>4. Taking(e, d, Len(model[p])) /\ e \in Seq(Batches) /\ d \in Cursors
    BY <2>1, <2>2, <2>3, OneTaken
  <2>5. batches'[p] = e /\ cursor'[p] = d
    BY <2>1
  <2> HIDE DEF e, d
  <2>6. QED
    BY <2>1, <2>4, <2>5
<1>1. TypeInv'
  BY <1>0, <1>6 DEF TypeInv, TypeOK, MicroBatch, Cursors
<1>2. FilesInv'
  BY <1>0 DEF FilesInv, MicroBatch
<1>3. ASSUME NEW q \in Processes, q # p PROVE ProcessInv(q)' /\ CountInv(q)'
  BY <1>0, <1>3, Others DEF IInv, MicroBatch, Goto, TypeInv, TypeOK
<1>4. ProcessInv(p)' /\ CountInv(p)'
  <2>1. UNCHANGED <<pc, model, saved, start, count, done>>
    BY DEF MicroBatch
  <2>2. QED
    BY <1>0, <1>6, <2>1 DEF ProcessInv, RunInv, CountInv, MicroBatch
<1>5. QED
  BY <1>1, <1>2, <1>3, <1>4 DEF IInv

LEMMA UpdateStep ==
  ASSUME Gpt2Assumption, IInv, NEW p \in Processes, Update(p)
  PROVE  IInv'
<1> USE DEF files, segment, memory
<1>0. TypeInv /\ FilesInv /\ ProcessInv(p) /\ CountInv(p)
  BY DEF IInv
<1>1. TypeInv'
  <2>1. Append(model[p], [rate |-> start[p] + done[p], batches |-> batches[p]]) \in Seq(Updates)
    <3>1. start[p] + done[p] \in Nat /\ batches[p] \in Seq(Batches) /\ model[p] \in Seq(Updates)
      BY <1>0, Counts
    <3>2. [rate |-> start[p] + done[p], batches |-> batches[p]] \in Updates
      BY <3>1 DEF Updates
    <3>3. QED
      BY <3>1, <3>2
  <2>2. QED
    BY <1>0, <2>1 DEF TypeInv, TypeOK, Goto, Phases, Update
<1>2. FilesInv'
  BY <1>0 DEF FilesInv, Update
<1>3. ASSUME NEW q \in Processes, q # p PROVE ProcessInv(q)' /\ CountInv(q)'
  BY <1>0, <1>3, Others DEF IInv, Update, Goto, TypeInv, TypeOK
<1>4. ProcessInv(p)' /\ CountInv(p)'
  <2>1. /\ pc[p] = "accumulating" /\ pc'[p] = "updated" /\ Len(batches[p]) = AccumulationSteps
        /\ model'[p] = Append(model[p], [rate |-> start[p] + done[p], batches |-> batches[p]])
        /\ UNCHANGED <<cursor, batches, saved, start, count, done>>
    BY <1>0 DEF TypeInv, TypeOK, Update, Goto
  <2>2. ProcessInv(p)'
    BY <1>0, <2>1 DEF ProcessInv, RunInv, Sound
  <2>3. QED
    BY <1>0, <2>1, <2>2 DEF CountInv
<1>5. QED
  BY <1>1, <1>2, <1>3, <1>4 DEF IInv

LEMMA AcceptStep ==
  ASSUME Gpt2Assumption, IInv, NEW p \in Processes, Accept(p)
  PROVE  IInv'
<1> USE DEF files, segment, memory
<1>0. TypeInv /\ FilesInv /\ ProcessInv(p) /\ CountInv(p)
  BY DEF IInv
<1>1. TypeInv'
  <2>1. done[p] + 1 \in 0..OptimizerSteps
    BY <1>0, Counts DEF CountInv, Accept, Gpt2Assumption
  <2>2. QED
    BY <1>0, <2>1 DEF TypeInv, TypeOK, Goto, Phases, Accept
<1>2. FilesInv'
  BY <1>0 DEF FilesInv, Accept
<1>3. ASSUME NEW q \in Processes, q # p PROVE ProcessInv(q)' /\ CountInv(q)'
  BY <1>0, <1>3, Others DEF IInv, Accept, Goto, TypeInv, TypeOK
<1>4. ProcessInv(p)' /\ CountInv(p)'
  <2>1. /\ pc[p] = "updated" /\ done'[p] = done[p] + 1
        /\ pc'[p] = IF done[p] + 1 = count[p] THEN "saving" ELSE "training"
        /\ UNCHANGED <<model, cursor, batches, saved, start, count>>
    BY <1>0 DEF TypeInv, TypeOK, Accept, Goto
  <2>2. PICK old \in Seq(Updates) :
          /\ Sound(old, start[p] + done[p]) /\ Taking(batches[p], cursor[p], Len(old))
          /\ Len(batches[p]) = AccumulationSteps
          /\ model[p] = Append(old, [rate |-> start[p] + done[p], batches |-> batches[p]])
    BY <1>0, <2>1 DEF ProcessInv, RunInv
  <2>3. Sound(model[p], start[p] + done[p] + 1) /\ cursor[p] = CursorAfter(Len(model[p]))
    BY <1>0, <2>2, Counts, OneLearned
  <2>4. start[p] + done[p] + 1 = start'[p] + done'[p]
    BY <1>0, <2>1, Counts
  <2>5. ProcessInv(p)'
    BY <2>1, <2>3, <2>4 DEF ProcessInv, RunInv
  <2>6. QED
    BY <1>0, <2>1, <2>5, Counts DEF CountInv
<1>5. QED
  BY <1>1, <1>2, <1>3, <1>4 DEF IInv

LEMMA FailUpdateStep ==
  ASSUME Gpt2Assumption, IInv, NEW p \in Processes, FailUpdate(p)
  PROVE  IInv'
<1> USE DEF files, segment, memory
<1>0. TypeInv /\ FilesInv /\ ProcessInv(p) /\ CountInv(p)
  BY DEF IInv
<1>6. /\ Sound(saved[p].model, start[p] + done[p])
      /\ saved[p].cursor = CursorAfter(Len(saved[p].model))
  <2>1. CASE pc[p] = "accumulating"
    BY <1>0, <2>1 DEF ProcessInv, RunInv
  <2>2. CASE pc[p] = "updated"
    <3>1. PICK old \in Seq(Updates) :
            /\ Sound(old, start[p] + done[p])
            /\ saved[p] = [model |-> old, cursor |-> CursorAfter(Len(old))]
      BY <1>0, <2>2 DEF ProcessInv, RunInv
    <3>2. saved[p].model = old /\ saved[p].cursor = CursorAfter(Len(old))
      BY <3>1
    <3>3. QED
      BY <3>1, <3>2
  <2>3. QED
    BY <2>1, <2>2 DEF FailUpdate
<1>1. TypeInv'
  <2>1. saved[p].model \in Seq(Updates) /\ saved[p].cursor \in Cursors
    <3>1. saved[p].model \in Seq(Updates)
      BY <1>6 DEF Sound
    <3>2. Len(saved[p].model) \in Nat
      BY <3>1
    <3>3. CursorAfter(Len(saved[p].model)) \in Cursors
      BY <3>2, CursorIsPosition
    <3>4. QED
      BY <1>6, <3>1, <3>3
  <2>2. <<>> \in Seq(Batches)
    OBVIOUS
  <2>3. model' \in [Processes -> Seq(Updates)] /\ batches' \in [Processes -> Seq(Batches)]
    BY <1>0, <2>1, <2>2 DEF TypeInv, FailUpdate, Restore
  <2>4. cursor' \in [Processes -> [epoch : Nat, offset : 0..BatchesPerEpoch]]
    BY <1>0, <2>1 DEF TypeInv, TypeOK, FailUpdate, Restore, Cursors
  <2>5. pc' \in [Processes -> Phases]
    BY <1>0 DEF TypeInv, TypeOK, FailUpdate, Goto, Phases
  <2>6. faults' \in 0..MaxFaults
    BY <1>0 DEF TypeInv, TypeOK, FailUpdate, Fault, Gpt2Assumption
  <2>7. QED
    BY <1>0, <2>3, <2>4, <2>5, <2>6 DEF TypeInv, TypeOK, FailUpdate
<1>2. FilesInv'
  BY <1>0 DEF FilesInv, FailUpdate
<1>3. ASSUME NEW q \in Processes, q # p PROVE ProcessInv(q)' /\ CountInv(q)'
  BY <1>0, <1>3, Others DEF IInv, FailUpdate, Restore, Goto, TypeInv, TypeOK
<1>4. ProcessInv(p)' /\ CountInv(p)'
  <2>1. /\ pc'[p] = "raised" /\ model'[p] = saved[p].model /\ cursor'[p] = saved[p].cursor
        /\ UNCHANGED <<start, count, done>>
    BY <1>0 DEF TypeInv, TypeOK, FailUpdate, Restore, Goto
  <2>2. ProcessInv(p)'
    BY <1>6, <2>1 DEF ProcessInv, RunInv
  <2>3. QED
    BY <1>0, <2>1, <2>2 DEF CountInv, FailUpdate
<1>5. QED
  BY <1>1, <1>2, <1>3, <1>4 DEF IInv

LEMMA RetryStep ==
  ASSUME Gpt2Assumption, IInv, NEW p \in Processes, Retry(p)
  PROVE  IInv'
<1> USE DEF files, segment, memory
<1>0. TypeInv /\ FilesInv /\ ProcessInv(p) /\ CountInv(p)
  BY DEF IInv
<1>1. TypeInv'
  BY <1>0 DEF TypeInv, TypeOK, Goto, Phases, Retry, Gpt2Assumption
<1>2. FilesInv'
  BY <1>0 DEF FilesInv, Retry
<1>3. ASSUME NEW q \in Processes, q # p PROVE ProcessInv(q)' /\ CountInv(q)'
  BY <1>0, <1>3, Others DEF IInv, Retry, Goto, TypeInv, TypeOK
<1>4. ProcessInv(p)' /\ CountInv(p)'
  <2>1. /\ pc[p] = "raised" /\ pc'[p] = "training" /\ done'[p] = 0
        /\ UNCHANGED <<model, cursor, batches, saved, start, count>>
    BY <1>0 DEF TypeInv, TypeOK, Retry, Goto
  <2>2. Sound(model[p], start[p] + done[p]) /\ cursor[p] = CursorAfter(Len(model[p]))
    BY <1>0, <2>1 DEF ProcessInv, RunInv
  <2>3. Sound(model[p], start[p]) /\ start[p] + 0 = start[p]
    <3>1. start[p] \in Nat /\ done[p] \in Nat
      BY <1>0, Counts
    <3>2. QED
      BY <2>2, <3>1, CountedAnew
  <2>4. ProcessInv(p)'
    BY <2>1, <2>2, <2>3 DEF ProcessInv, RunInv
  <2>5. QED
    BY <1>0, <2>1, <2>4, Counts DEF CountInv
<1>5. QED
  BY <1>1, <1>2, <1>3, <1>4 DEF IInv

LEMMA GiveUpStep ==
  ASSUME Gpt2Assumption, IInv, NEW p \in Processes, GiveUp(p)
  PROVE  IInv'
<1> USE DEF files, segment, memory
<1>0. TypeInv /\ FilesInv /\ ProcessInv(p) /\ CountInv(p)
  BY DEF IInv
<1>1. TypeInv'
  BY <1>0 DEF TypeInv, TypeOK, Goto, Phases, GiveUp
<1>2. FilesInv'
  BY <1>0 DEF FilesInv, GiveUp
<1>3. ASSUME NEW q \in Processes, q # p PROVE ProcessInv(q)' /\ CountInv(q)'
  BY <1>0, <1>3, Others DEF IInv, GiveUp, Goto, TypeInv, TypeOK
<1>4. ProcessInv(p)' /\ CountInv(p)'
  <2>1. pc'[p] = "idle" /\ UNCHANGED <<start, count, done>>
    BY <1>0 DEF TypeInv, TypeOK, GiveUp, Goto
  <2>2. QED
    BY <1>0, <2>1 DEF ProcessInv, RunInv, CountInv
<1>5. QED
  BY <1>1, <1>2, <1>3, <1>4 DEF IInv

\* What passes the checks of a save is exact.
LEMMA SnapshotExact ==
  ASSUME Gpt2Assumption, IInv, NEW p \in Processes, pc[p] = "saving", Fits(p)
  PROVE  /\ Snapshot(p).step \in 0..OptimizerSteps
         /\ Exact(Snapshot(p).model, Snapshot(p).step)
         /\ Snapshot(p).cursor = CursorAfter(Snapshot(p).step)
<1>1. TypeInv /\ ProcessInv(p) /\ CountInv(p)
  BY DEF IInv
<1>2. Completed(p) \in 0..OptimizerSteps
  BY <1>1, Counts DEF CountInv, Completed, Gpt2Assumption
<1>3. Sound(model[p], Completed(p)) /\ Len(model[p]) = Completed(p)
      /\ cursor[p] = CursorAfter(Completed(p))
  BY <1>1 DEF ProcessInv, RunInv, Fits, Admitted, Completed
<1>4. QED
  BY <1>2, <1>3 DEF Snapshot, Exact

LEMMA SaveStep ==
  ASSUME Gpt2Assumption, IInv, NEW p \in Processes, Save(p)
  PROVE  IInv'
<1> USE DEF files, segment, memory
<1>0. TypeInv /\ FilesInv /\ ProcessInv(p) /\ CountInv(p)
  BY DEF IInv
<1>1. TypeInv'
  BY <1>0 DEF TypeInv, TypeOK, Goto, Phases, Save
<1>2. FilesInv'
  BY <1>0, SnapshotExact DEF FilesInv, Save
<1>3. ASSUME NEW q \in Processes, q # p PROVE ProcessInv(q)' /\ CountInv(q)'
  BY <1>0, <1>3, Others DEF IInv, Save, Goto, TypeInv, TypeOK
<1>4. ProcessInv(p)' /\ CountInv(p)'
  <2>1. /\ pc[p] = "saving" /\ pc'[p] = "reporting" /\ Len(model[p]) = start[p] + done[p]
        /\ UNCHANGED <<model, cursor, batches, saved, start, count, done>>
    BY <1>0 DEF TypeInv, TypeOK, Save, Goto, Fits, Admitted, Completed
  <2>2. ProcessInv(p)'
    BY <1>0, <2>1 DEF ProcessInv, RunInv
  <2>3. QED
    BY <1>0, <2>1, <2>2 DEF CountInv
<1>5. QED
  BY <1>1, <1>2, <1>3, <1>4 DEF IInv

LEMMA RefuseSaveStep ==
  ASSUME Gpt2Assumption, IInv, NEW p \in Processes, RefuseSave(p)
  PROVE  IInv'
<1> USE DEF files, segment, memory
<1>0. TypeInv /\ FilesInv /\ ProcessInv(p) /\ CountInv(p)
  BY DEF IInv
<1>1. TypeInv'
  BY <1>0 DEF TypeInv, TypeOK, Goto, Phases, RefuseSave
<1>2. FilesInv'
  BY <1>0 DEF FilesInv, RefuseSave
<1>3. ASSUME NEW q \in Processes, q # p PROVE ProcessInv(q)' /\ CountInv(q)'
  BY <1>0, <1>3, Others DEF IInv, RefuseSave, Goto, TypeInv, TypeOK
<1>4. ProcessInv(p)' /\ CountInv(p)'
  <2>1. pc'[p] = "idle" /\ UNCHANGED <<start, count, done>>
    BY <1>0 DEF TypeInv, TypeOK, RefuseSave, Goto
  <2>2. QED
    BY <1>0, <2>1 DEF ProcessInv, RunInv, CountInv
<1>5. QED
  BY <1>1, <1>2, <1>3, <1>4 DEF IInv

LEMMA FailSaveStep ==
  ASSUME Gpt2Assumption, IInv, NEW p \in Processes, FailSave(p)
  PROVE  IInv'
<1> USE DEF files, segment, memory
<1>0. TypeInv /\ FilesInv /\ ProcessInv(p) /\ CountInv(p)
  BY DEF IInv
<1>1. TypeInv'
  BY <1>0 DEF TypeInv, TypeOK, Goto, Phases, FailSave, Fault, Gpt2Assumption
<1>2. FilesInv'
  BY <1>0, SnapshotExact DEF FilesInv, FailSave
<1>3. ASSUME NEW q \in Processes, q # p PROVE ProcessInv(q)' /\ CountInv(q)'
  BY <1>0, <1>3, Others DEF IInv, FailSave, Goto, TypeInv, TypeOK
<1>4. ProcessInv(p)' /\ CountInv(p)'
  <2>1. pc'[p] = "idle" /\ UNCHANGED <<start, count, done>>
    BY <1>0 DEF TypeInv, TypeOK, FailSave, Goto
  <2>2. QED
    BY <1>0, <2>1 DEF ProcessInv, RunInv, CountInv
<1>5. QED
  BY <1>1, <1>2, <1>3, <1>4 DEF IInv

LEMMA PublishStep ==
  ASSUME Gpt2Assumption, IInv, NEW p \in Processes, Publish(p)
  PROVE  IInv'
<1> USE DEF files, segment, memory
<1>0. TypeInv /\ FilesInv /\ ProcessInv(p) /\ CountInv(p)
  BY DEF IInv
<1>1. TypeInv'
  BY <1>0 DEF TypeInv, TypeOK, Goto, Phases, Publish
<1>2. FilesInv'
  <2>1. Exact(model[p], Completed(p))
    BY <1>0 DEF ProcessInv, RunInv, Publish, Exact, Completed
  <2>2. QED
    BY <1>0, <2>1 DEF FilesInv, Publish
<1>3. ASSUME NEW q \in Processes, q # p PROVE ProcessInv(q)' /\ CountInv(q)'
  BY <1>0, <1>3, Others DEF IInv, Publish, Goto, TypeInv, TypeOK
<1>4. ProcessInv(p)' /\ CountInv(p)'
  <2>1. pc'[p] = "idle" /\ UNCHANGED <<start, count, done>>
    BY <1>0 DEF TypeInv, TypeOK, Publish, Goto
  <2>2. QED
    BY <1>0, <2>1 DEF ProcessInv, RunInv, CountInv
<1>5. QED
  BY <1>1, <1>2, <1>3, <1>4 DEF IInv

LEMMA CrashStep ==
  ASSUME Gpt2Assumption, IInv, NEW p \in Processes, Crash(p)
  PROVE  IInv'
<1> USE DEF files, segment, memory
<1>0. TypeInv /\ FilesInv /\ ProcessInv(p) /\ CountInv(p)
  BY DEF IInv
<1>1. TypeInv'
  BY <1>0 DEF TypeInv, TypeOK, Goto, Phases, Crash, Fault, Gpt2Assumption
<1>2. FilesInv'
  BY <1>0 DEF FilesInv, Crash
<1>3. ASSUME NEW q \in Processes, q # p PROVE ProcessInv(q)' /\ CountInv(q)'
  BY <1>0, <1>3, Others DEF IInv, Crash, Goto, TypeInv, TypeOK
<1>4. ProcessInv(p)' /\ CountInv(p)'
  <2>1. pc'[p] = "idle" /\ UNCHANGED <<start, count, done>>
    BY <1>0 DEF TypeInv, TypeOK, Crash, Goto
  <2>2. QED
    BY <1>0, <2>1 DEF ProcessInv, RunInv, CountInv
<1>5. QED
  BY <1>1, <1>2, <1>3, <1>4 DEF IInv

LEMMA FreshStep ==
  ASSUME Gpt2Assumption, IInv, NEW p \in Processes, NEW n \in 0..OptimizerSteps, Fresh(p, n)
  PROVE  IInv'
<1>1. Exact(<<>>, 0) /\ Beginning = CursorAfter(0) /\ 0 \in 0..OptimizerSteps
  BY NothingLearned DEF Gpt2Assumption
<1>2. QED
  BY <1>1, BeginStep DEF Fresh

LEMMA ResumeStep ==
  ASSUME Gpt2Assumption, IInv, NEW p \in Processes, NEW n \in 0..OptimizerSteps, Resume(p, n)
  PROVE  IInv'
<1>1. /\ checkpoint.step \in 0..OptimizerSteps
      /\ Exact(checkpoint.model, checkpoint.step)
      /\ checkpoint.cursor = CursorAfter(checkpoint.step)
  BY DEF IInv, FilesInv, Resume
<1>2. QED
  BY <1>1, BeginStep DEF Resume

LEMMA Inductive == ASSUME Gpt2Assumption, IInv, [Next]_vars PROVE IInv'
<1>1. CASE Next
  <2> SUFFICES ASSUME NEW p \in Processes,
                      \/ \E n \in 0..OptimizerSteps : Fresh(p, n) \/ Resume(p, n)
                      \/ StartUpdate(p) \/ MicroBatch(p) \/ Update(p) \/ Accept(p)
                      \/ FailUpdate(p) \/ Retry(p) \/ GiveUp(p)
                      \/ Save(p) \/ RefuseSave(p) \/ FailSave(p) \/ Publish(p) \/ Crash(p)
               PROVE  IInv'
    BY <1>1 DEF Next
  <2>1. CASE \E n \in 0..OptimizerSteps : Fresh(p, n) \/ Resume(p, n)
    BY <2>1, FreshStep, ResumeStep
  <2>2. CASE StartUpdate(p) \/ MicroBatch(p) \/ Update(p) \/ Accept(p)
    BY <2>2, StartUpdateStep, MicroBatchStep, UpdateStep, AcceptStep
  <2>3. CASE FailUpdate(p) \/ Retry(p) \/ GiveUp(p)
    BY <2>3, FailUpdateStep, RetryStep, GiveUpStep
  <2>4. CASE Save(p) \/ RefuseSave(p) \/ FailSave(p) \/ Publish(p) \/ Crash(p)
    BY <2>4, SaveStep, RefuseSaveStep, FailSaveStep, PublishStep, CrashStep
  <2>5. QED
    BY <2>1, <2>2, <2>3, <2>4
<1>2. CASE UNCHANGED vars
  <2>1. UNCHANGED <<checkpoint, report, pc, model, cursor, batches, saved, start, count, done, runs, faults>>
    BY <1>2 DEF vars, files, segment, memory
  <2>2. TypeInv' /\ FilesInv'
    BY <2>1 DEF IInv, TypeInv, TypeOK, FilesInv
  <2>3. ASSUME NEW q \in Processes PROVE ProcessInv(q)' /\ CountInv(q)'
    BY <2>1, <2>3, Others DEF IInv
  <2>4. QED
    BY <2>2, <2>3 DEF IInv
<1>3. QED
  BY <1>1, <1>2

LEMMA Invariant == ASSUME Gpt2Assumption PROVE Spec => []IInv
<1>1. Init => IInv
  BY InitInv
<1>2. IInv /\ [Next]_vars => IInv'
  BY Inductive
<1>3. QED
  BY <1>1, <1>2, PTL DEF Spec

-------------------------------------------------------------------------------
(* The theorems                                                               *)

\* What a process counts, holds and consumes keeps its type; no segment runs past the
\* schedule (run_training_experiment).
THEOREM TypesHold == ASSUME Gpt2Assumption PROVE Spec => []TypeOK
<1>1. IInv => TypeOK
  BY DEF IInv, TypeInv
<1>2. QED
  BY <1>1, Invariant, PTL

\* A checkpoint holds the state that a run without interruption has there, and a
\* report is of such a run, whatever failed, was retried, was killed or wrote the file
\* before (save_training_checkpoint, run_and_publish).
THEOREM FilesStayExact == ASSUME Gpt2Assumption PROVE Spec => []FilesAreExact
<1>1. IInv => FilesAreExact
  BY ExactIsUninterrupted DEF IInv, FilesInv, FilesAreExact
<1>2. QED
  BY <1>1, Invariant, PTL

\* Between updates the data consumed is the data learned from (train_optimizer_step).
THEOREM DataStaysConsumedOnce == ASSUME Gpt2Assumption PROVE Spec => []DataConsumedOnce
<1>1. ASSUME IInv PROVE DataConsumedOnce
  <2> SUFFICES ASSUME NEW p \in Processes,
                      pc[p] \in {"training", "raised", "saving", "reporting"}
               PROVE  /\ cursor[p] = CursorAfter(Len(model[p]))
                      /\ \A i \in DOMAIN model[p] :
                           model[p][i].batches = Uninterrupted(Len(model[p]))[i].batches
    BY DEF DataConsumedOnce
  <2>1. Sound(model[p], start[p] + done[p]) /\ cursor[p] = CursorAfter(Len(model[p]))
    BY <1>1 DEF IInv, ProcessInv, RunInv
  <2>2. model[p] \in Seq(Updates) /\ Learned(model[p])
    BY <2>1 DEF Sound
  <2>3. QED
    BY <2>1, <2>2 DEF Learned, Consecutive, Uninterrupted
<1>2. QED
  BY <1>1, Invariant, PTL

-------------------------------------------------------------------------------
(* A trained artifact                                                         *)

Files == Arms \union {NoFile}
Holding == {"linking", "flushing", "published"}
PublisherStates == [at : {"away", "staged"} \union Holding, arm : 0..MaxPublications]
ReaderStates == [at : {"away", "index", "report", "model", "loaded", "rejected"},
                 index : Files, report : Files]

ArtifactTypes ==
  /\ destination \in [claimed : BOOLEAN, files : [Names -> Files]]
  /\ publisher \in [Publishers -> PublisherStates]
  /\ reader \in [Readers -> ReaderStates]
  /\ publications \in 0..MaxPublications

\* The files of the destination are of one arm, model before report before index.
Whole ==
  LET f == destination.files IN
  /\ f["report"] # NoFile => f["model"] = f["report"]
  /\ f["index"] # NoFile => f["report"] = f["index"]

\* Who has claimed the destination is alone with it, and it is of that arm as far as it goes.
PublisherInv(p) ==
  LET f == destination.files
      arm == publisher[p].arm
  IN
  /\ publisher[p].at # "away" => arm \in Arms
  /\ publisher[p].at \in Holding =>
       /\ destination.claimed
       /\ \A q \in Publishers : publisher[q].at \in Holding => q = p
       /\ \A n \in Names : f[n] \in {NoFile, arm}
  /\ publisher[p].at = "linking" => f["index"] = NoFile
  /\ publisher[p].at \in {"flushing", "published"} => \A n \in Names : f[n] = arm

\* A reader that found the index finds the rest.
ReaderInv(r) ==
  LET at == reader[r].at
      index == reader[r].index
  IN
  /\ at \in {"report", "model", "loaded"} => index # NoFile /\ destination.files["index"] = index
  /\ at \in {"model", "loaded"} => reader[r].report = index
  /\ at = "rejected" => index = NoFile

ArtifactInv ==
  /\ ArtifactTypes /\ Whole
  /\ ~destination.claimed => \A n \in Names : destination.files[n] = NoFile
  /\ \A p \in Publishers : PublisherInv(p)
  /\ \A r \in Readers : ReaderInv(r)

USE DEF PublisherStates, ReaderStates

LEMMA ArtifactStart == ASSUME ArtifactAssumption, ArtifactInit PROVE ArtifactInv
<1>1. 0 \in 0..MaxPublications /\ NoFile \in Files
  BY DEF ArtifactAssumption, Files
<1>2. /\ destination = [claimed |-> FALSE, files |-> [n \in Names |-> NoFile]]
      /\ publisher = [p \in Publishers |-> [at |-> "away", arm |-> 0]]
      /\ reader = [r \in Readers |-> [at |-> "away", index |-> NoFile, report |-> NoFile]]
      /\ publications = 0
  BY DEF ArtifactInit
<1>3. ArtifactTypes
  BY <1>1, <1>2 DEF ArtifactTypes
<1>4. Whole /\ (~destination.claimed => \A n \in Names : destination.files[n] = NoFile)
  BY <1>2 DEF Whole, Names
<1>5. \A p \in Publishers : PublisherInv(p)
  BY <1>2 DEF PublisherInv, Holding
<1>6. \A r \in Readers : ReaderInv(r)
  BY <1>2 DEF ReaderInv
<1>7. QED
  BY <1>3, <1>4, <1>5, <1>6 DEF ArtifactInv

\* What of a publisher Stands changes.
LEMMA StandsThere ==
  ASSUME ArtifactTypes, NEW p \in Publishers, NEW at \in {"away", "staged"} \union Holding, Stands(p, at)
  PROVE  /\ publisher'[p].at = at /\ publisher'[p].arm = publisher[p].arm
         /\ publisher[p].arm \in 0..MaxPublications
         /\ \A q \in Publishers \ {p} : publisher'[q] = publisher[q]
         /\ publisher' \in [Publishers -> PublisherStates]
<1>1. publisher \in [Publishers -> PublisherStates]
  BY DEF ArtifactTypes
<1>2. publisher' = [publisher EXCEPT ![p] = [publisher[p] EXCEPT !.at = at]]
  BY DEF Stands
<1>3. publisher[p] \in PublisherStates
  BY <1>1
<1>4. /\ [publisher[p] EXCEPT !.at = at] \in PublisherStates
      /\ [publisher[p] EXCEPT !.at = at].at = at /\ [publisher[p] EXCEPT !.at = at].arm = publisher[p].arm
      /\ publisher[p].arm \in 0..MaxPublications
  BY <1>3
<1>5. publisher'[p] = [publisher[p] EXCEPT !.at = at]
  BY <1>1, <1>2
<1>6. QED
  BY <1>1, <1>2, <1>4, <1>5

\* A publisher moves, the destination stays.
LEMMA PublisherMoves ==
  ASSUME ArtifactAssumption, ArtifactInv, NEW p \in Publishers, NEW at, NEW arm \in 0..MaxPublications,
         publisher'[p].at = at, publisher'[p].arm = arm,
         \A q \in Publishers \ {p} : publisher'[q] = publisher[q],
         publisher' \in [Publishers -> PublisherStates],
         at \in {"away", "staged"} \/ (at = "published" /\ publisher[p].at = "flushing" /\ arm = publisher[p].arm),
         at = "staged" => arm \in Arms,
         destination' = destination, reader' = reader, publications' \in 0..MaxPublications
  PROVE  ArtifactInv'
<1>1. /\ publisher'[p].at = at /\ publisher'[p].arm = arm
      /\ \A q \in Publishers \ {p} : publisher'[q] = publisher[q]
      /\ publisher' \in [Publishers -> PublisherStates]
  OBVIOUS
<1>2. \A q \in Publishers : publisher'[q].at \in Holding => publisher[q].at \in Holding
  BY <1>1 DEF Holding
<1>3. ASSUME NEW q \in Publishers PROVE PublisherInv(q)'
  <2>1. PublisherInv(q)
    BY DEF ArtifactInv
  <2>2. CASE q # p
    BY <1>1, <1>2, <2>1, <2>2 DEF PublisherInv
  <2>3. CASE q = p /\ at \in {"away", "staged"}
    BY <1>1, <2>3 DEF PublisherInv, Holding
  <2>4. CASE q = p /\ at = "published"
    BY <1>1, <1>2, <2>1, <2>4 DEF PublisherInv, Holding
  <2>5. QED
    BY <2>2, <2>3, <2>4
<1>4. ArtifactTypes'
  BY <1>1 DEF ArtifactInv, ArtifactTypes
<1>5. Whole' /\ (~destination'.claimed => \A n \in Names : destination'.files[n] = NoFile)
  BY DEF ArtifactInv, Whole
<1>6. \A r \in Readers : ReaderInv(r)'
  BY DEF ArtifactInv, ReaderInv
<1>7. QED
  BY <1>3, <1>4, <1>5, <1>6 DEF ArtifactInv

LEMMA ClaimStep ==
  ASSUME ArtifactAssumption, ArtifactInv, NEW p \in Publishers, Claim(p)
  PROVE  ArtifactInv'
<1>1. /\ ArtifactTypes /\ publisher[p].at = "staged" /\ PublisherInv(p)
      /\ reader' = reader /\ publications' = publications
      /\ destination' = [destination EXCEPT !.claimed = TRUE]
  BY DEF ArtifactInv, Claim
<1>2. CASE destination.claimed
  <2>1. destination' = destination
    BY <1>1, <1>2 DEF ArtifactTypes
  <2>2. Stands(p, "away")
    BY <1>2 DEF Claim
  <2>3. publications \in 0..MaxPublications
    BY <1>1 DEF ArtifactTypes
  <2>4. QED
    BY <1>1, <2>1, <2>2, <2>3, StandsThere, PublisherMoves
<1>3. CASE ~destination.claimed
  <2>0. Stands(p, "linking") /\ "linking" \in Holding
    BY <1>3 DEF Claim, Holding
  <2>1. /\ publisher'[p].at = "linking" /\ publisher'[p].arm = publisher[p].arm
        /\ \A q \in Publishers \ {p} : publisher'[q] = publisher[q]
        /\ publisher' \in [Publishers -> PublisherStates]
    BY <1>1, <2>0, StandsThere
  <2>2. destination'.claimed = TRUE /\ destination'.files = destination.files
        /\ destination' \in [claimed : BOOLEAN, files : [Names -> Files]]
    BY <1>1 DEF ArtifactTypes
  <2>3. \A n \in Names : destination.files[n] = NoFile
    BY <1>3 DEF ArtifactInv
  <2>4. \A q \in Publishers : publisher[q].at \notin Holding
    BY <1>3 DEF ArtifactInv, PublisherInv
  <2>5. ASSUME NEW q \in Publishers PROVE PublisherInv(q)'
    <3>1. CASE q = p
      BY <1>1, <2>1, <2>2, <2>3, <2>4, <3>1 DEF PublisherInv, Holding, Names
    <3>2. CASE q # p
      BY <2>1, <2>4, <3>2 DEF ArtifactInv, PublisherInv, Holding
    <3>3. QED
      BY <3>1, <3>2
  <2>6. ArtifactTypes'
    BY <1>1, <2>1, <2>2 DEF ArtifactTypes
  <2>7. Whole' /\ \A r \in Readers : ReaderInv(r)'
    BY <1>1, <2>2 DEF ArtifactInv, Whole, ReaderInv
  <2>8. QED
    BY <2>2, <2>5, <2>6, <2>7 DEF ArtifactInv
<1>4. QED
  BY <1>2, <1>3

\* The next file is the first that is missing.
LEMMA NextName ==
  ASSUME ArtifactAssumption, ArtifactInv, destination.files["index"] = NoFile,
         NEW present, present = {n \in Names : destination.files[n] # NoFile}
  PROVE  /\ Cardinality(present) \in 0..2 /\ Len(LinkOrder) = 3
         /\ Cardinality(present) = 0 =>
              LinkOrder[Cardinality(present) + 1] = "model" /\ destination.files["model"] = NoFile
         /\ Cardinality(present) # 2 => destination.files["report"] = NoFile
         /\ Cardinality(present) = 1 =>
              LinkOrder[Cardinality(present) + 1] = "report" /\ destination.files["model"] # NoFile
         /\ Cardinality(present) = 2 =>
              LinkOrder[Cardinality(present) + 1] = "index" /\ destination.files["report"] # NoFile
<1>1. Whole
  BY DEF ArtifactInv
<1>2. present = {} \/ present = {"model"} \/ present = {"model", "report"}
  BY <1>1 DEF Whole, Names
<1>3. Cardinality({}) = 0 /\ Cardinality({"model"}) = 1 /\ IsFiniteSet({"model"})
  BY FS_EmptySet, FS_Singleton
<1>4. Cardinality({"model", "report"}) = 2
  <2>1. {"model", "report"} = {"model"} \union {"report"} /\ "report" \notin {"model"}
    OBVIOUS
  <2>2. Cardinality({"model"} \union {"report"}) = 1 + 1
    BY <1>3, <2>1, FS_AddElement
  <2>3. QED
    BY <2>1, <2>2
<1>5. LinkOrder[1] = "model" /\ LinkOrder[2] = "report" /\ LinkOrder[3] = "index" /\ Len(LinkOrder) = 3
  BY DEF LinkOrder
<1>6. CASE present = {}
  <2>1. destination.files["model"] = NoFile /\ destination.files["report"] = NoFile
    BY <1>6 DEF Names
  <2>2. Cardinality(present) = 0 /\ Cardinality(present) + 1 = 1
    BY <1>3, <1>6
  <2>3. QED
    BY <1>5, <2>1, <2>2
<1>7. CASE present = {"model"}
  <2>1. destination.files["model"] # NoFile /\ destination.files["report"] = NoFile
    BY <1>7 DEF Names
  <2>2. QED
    BY <1>3, <1>5, <1>7, <2>1
<1>8. CASE present = {"model", "report"}
  <2>1. destination.files["report"] # NoFile
    BY <1>8 DEF Names
  <2>2. QED
    BY <1>4, <1>5, <1>8, <2>1
<1>9. QED
  BY <1>2, <1>6, <1>7, <1>8

LEMMA LinkStep ==
  ASSUME ArtifactAssumption, ArtifactInv, NEW p \in Publishers, LinkNext(p)
  PROVE  ArtifactInv'
<1> DEFINE present == {n \in Names : destination.files[n] # NoFile}
           name == LinkOrder[Cardinality(present) + 1]
           arm == publisher[p].arm
<1>1. /\ ArtifactTypes /\ publisher[p].at = "linking" /\ PublisherInv(p)
      /\ reader' = reader /\ publications' = publications
      /\ destination' = [destination EXCEPT !.files[name] = arm]
      /\ Stands(p, IF Cardinality(present) + 1 = Len(LinkOrder) THEN "flushing" ELSE "linking")
  BY DEF ArtifactInv, LinkNext
<1>2. destination.files["index"] = NoFile
  BY <1>1 DEF PublisherInv
<1>3. /\ Cardinality(present) \in 0..2 /\ Len(LinkOrder) = 3
      /\ Cardinality(present) = 0 => name = "model" /\ destination.files["model"] = NoFile
      /\ Cardinality(present) # 2 => destination.files["report"] = NoFile
      /\ Cardinality(present) = 1 => name = "report" /\ destination.files["model"] # NoFile
      /\ Cardinality(present) = 2 => name = "index" /\ destination.files["report"] # NoFile
  BY <1>2, NextName
<1> HIDE DEF present, name
<1>4. /\ name \in Names /\ destination.files[name] = NoFile
      /\ name = "report" => destination.files["model"] # NoFile
      /\ name = "index" => destination.files["model"] # NoFile /\ destination.files["report"] # NoFile
      /\ name = "model" => destination.files["report"] = NoFile
  <2>1. destination.files["report"] # NoFile => destination.files["model"] # NoFile
    BY DEF ArtifactInv, Whole
  <2>2. QED
    BY <1>2, <1>3, <2>1 DEF Names
<1>5. /\ arm \in Arms /\ arm \in 0..MaxPublications /\ destination.claimed
      /\ \A n \in Names : destination.files[n] \in {NoFile, arm}
      /\ \A q \in Publishers : publisher[q].at \in Holding => q = p
  BY <1>1 DEF PublisherInv, Holding, ArtifactTypes
<1>6. /\ destination'.claimed = destination.claimed
      /\ destination'.files[name] = arm
      /\ \A n \in Names \ {name} : destination'.files[n] = destination.files[n]
      /\ destination' \in [claimed : BOOLEAN, files : [Names -> Files]]
  BY <1>1, <1>4, <1>5 DEF ArtifactTypes, Files
<1> HIDE DEF arm
<1>7. arm # NoFile
  BY <1>5 DEF Arms, ArtifactAssumption
<1>8. /\ publisher'[p].arm = arm
      /\ publisher'[p].at = IF name = "index" THEN "flushing" ELSE "linking"
      /\ \A q \in Publishers \ {p} : publisher'[q] = publisher[q]
      /\ publisher' \in [Publishers -> PublisherStates]
  <2>1. Cardinality(present) + 1 = Len(LinkOrder) <=> name = "index"
    BY <1>3
  <2>2. Stands(p, IF name = "index" THEN "flushing" ELSE "linking")
    BY <1>1, <2>1
  <2>3. (IF name = "index" THEN "flushing" ELSE "linking") \in {"away", "staged"} \union Holding
    BY DEF Holding
  <2>4. QED
    BY <1>1, <2>2, <2>3, StandsThere DEF arm
<1>9. ASSUME NEW q \in Publishers PROVE PublisherInv(q)'
  <2>1. CASE q = p
    <3>1. \A n \in Names : destination'.files[n] \in {NoFile, arm}
      BY <1>5, <1>6
    <3>2. \A s \in Publishers : publisher'[s].at \in Holding => s = p
      BY <1>5, <1>8
    <3>3. name = "index" => \A n \in Names : destination'.files[n] = arm
      BY <1>4, <1>5, <1>6 DEF Names
    <3>4. name # "index" => destination'.files["index"] = NoFile
      BY <1>2, <1>6 DEF Names
    <3>5. QED
      BY <1>5, <1>6, <1>8, <2>1, <3>1, <3>2, <3>3, <3>4 DEF PublisherInv, Holding
  <2>2. CASE q # p
    <3>1. publisher'[q] = publisher[q] /\ publisher[q].at \notin Holding /\ PublisherInv(q)
      BY <1>5, <1>8, <2>2 DEF ArtifactInv
    <3>2. QED
      BY <3>1 DEF PublisherInv, Holding
  <2>3. QED
    BY <2>1, <2>2
<1>10. Whole'
  BY <1>2, <1>4, <1>5, <1>6, <1>7 DEF Whole, Names
<1>11. ASSUME NEW r \in Readers PROVE ReaderInv(r)'
  <2>1. destination.files["index"] # NoFile => destination'.files["index"] = destination.files["index"]
    BY <1>4, <1>6 DEF Names
  <2>2. QED
    BY <1>1, <2>1 DEF ArtifactInv, ReaderInv
<1>12. ArtifactTypes'
  BY <1>1, <1>6, <1>8 DEF ArtifactTypes
<1>13. QED
  BY <1>5, <1>6, <1>9, <1>10, <1>11, <1>12 DEF ArtifactInv

LEMMA ReaderMoves ==
  ASSUME ArtifactAssumption, ArtifactInv, NEW r \in Readers,
         \/ BeginLoad(r) \/ Read(r, "index", "report") \/ Read(r, "report", "model") \/ Read(r, "model", "loaded")
  PROVE  ArtifactInv'
<1>1. /\ ArtifactTypes /\ Whole /\ ReaderInv(r) /\ NoFile \in Files
      /\ destination' = destination /\ publisher' = publisher /\ publications' = publications
  BY DEF ArtifactInv, BeginLoad, Read, Files
<1>2. \A n \in Names : destination.files[n] \in Files
  BY <1>1 DEF ArtifactTypes
<1>3. /\ reader' \in [Readers -> ReaderStates]
      /\ \A s \in Readers \ {r} : reader'[s] = reader[s]
      /\ reader'[r].at \in {"report", "model", "loaded"} =>
           reader'[r].index # NoFile /\ destination.files["index"] = reader'[r].index
      /\ reader'[r].at \in {"model", "loaded"} => reader'[r].report = reader'[r].index
      /\ reader'[r].at = "rejected" => reader'[r].index = NoFile
  <2>0. /\ reader \in [Readers -> ReaderStates]
        /\ reader[r] \in ReaderStates
    BY <1>1 DEF ArtifactTypes
  <2>1. CASE BeginLoad(r)
    <3>1. reader' = [reader EXCEPT ![r] = [at |-> "index", index |-> NoFile, report |-> NoFile]]
      BY <2>1 DEF BeginLoad
    <3>2. reader'[r] = [at |-> "index", index |-> NoFile, report |-> NoFile]
      BY <2>0, <3>1
    <3>3. QED
      BY <1>1, <2>0, <3>1, <3>2
  <2>2. CASE Read(r, "index", "report")
    <3> DEFINE file == destination.files["index"]
               rec == [reader[r] EXCEPT !.at = IF file # NoFile THEN "report" ELSE "rejected",
                                        !.index = file, !.report = @]
    <3>1. reader' = [reader EXCEPT ![r] = rec] /\ file \in Files
      BY <1>2, <2>2 DEF Read, Names
    <3> HIDE DEF file
    <3>2. /\ rec \in ReaderStates
          /\ rec.at = (IF file # NoFile THEN "report" ELSE "rejected") /\ rec.index = file
      BY <2>0, <3>1
    <3>3. reader'[r] = rec
      BY <2>0, <3>1
    <3>4. QED
      BY <2>0, <3>1, <3>2, <3>3 DEF file
  <2>3. CASE Read(r, "report", "model")
    <3> DEFINE file == destination.files["report"]
               rec == [reader[r] EXCEPT !.at = "model", !.index = @, !.report = file]
    <3>1. reader[r].at = "report" /\ reader[r].index # NoFile /\ file = reader[r].index
          /\ destination.files["index"] = reader[r].index
      BY <1>1, <2>3 DEF Read, ReaderInv, Whole
    <3>2. reader' = [reader EXCEPT ![r] = rec] /\ file \in Files
      BY <1>2, <2>3, <3>1 DEF Read, Names
    <3> HIDE DEF file
    <3>3. rec \in ReaderStates /\ rec.at = "model" /\ rec.index = reader[r].index /\ rec.report = file
      BY <2>0, <3>2
    <3>4. reader'[r] = rec
      BY <2>0, <3>2
    <3>5. QED
      BY <2>0, <3>1, <3>2, <3>3, <3>4
  <2>4. CASE Read(r, "model", "loaded")
    <3> DEFINE file == destination.files["model"]
               rec == [reader[r] EXCEPT !.at = "loaded", !.index = @, !.report = @]
    <3>1. reader[r].at = "model" /\ reader[r].index # NoFile /\ file = reader[r].index
          /\ destination.files["index"] = reader[r].index /\ reader[r].report = reader[r].index
      BY <1>1, <2>4 DEF Read, ReaderInv, Whole
    <3>2. reader' = [reader EXCEPT ![r] = rec]
      BY <2>4, <3>1 DEF Read
    <3>3. rec \in ReaderStates /\ rec.at = "loaded" /\ rec.index = reader[r].index /\ rec.report = reader[r].report
      BY <2>0
    <3>4. reader'[r] = rec
      BY <2>0, <3>2
    <3>5. QED
      BY <2>0, <3>1, <3>2, <3>3, <3>4
  <2>5. QED
    BY <2>1, <2>2, <2>3, <2>4
<1>4. ArtifactTypes' /\ Whole'
  BY <1>1, <1>3 DEF ArtifactTypes, Whole
<1>5. ASSUME NEW s \in Readers PROVE ReaderInv(s)'
  <2>1. CASE s = r
    BY <1>1, <1>3, <2>1 DEF ReaderInv, ArtifactTypes
  <2>2. CASE s # r
    BY <1>1, <1>3, <2>2 DEF ArtifactInv, ReaderInv, ArtifactTypes
  <2>3. QED
    BY <2>1, <2>2
<1>6. /\ ~destination'.claimed => \A n \in Names : destination'.files[n] = NoFile
      /\ \A p \in Publishers : PublisherInv(p)'
  BY <1>1 DEF ArtifactInv, PublisherInv
<1>7. QED
  BY <1>4, <1>5, <1>6 DEF ArtifactInv

LEMMA ArtifactStep ==
  ASSUME ArtifactAssumption, ArtifactInv, [ArtifactNext]_artifactVars
  PROVE  ArtifactInv'
<1>1. /\ ArtifactTypes /\ \A p \in Publishers : PublisherInv(p)
  BY DEF ArtifactInv
<1>2. ASSUME NEW p \in Publishers, BeginPublication(p) PROVE ArtifactInv'
  <2> DEFINE at == IF destination.claimed THEN "away" ELSE "staged"
  <2>1. publisher' = [publisher EXCEPT ![p] = [at |-> at, arm |-> publications + 1]]
        /\ publications' = publications + 1 /\ publications < MaxPublications
        /\ destination' = destination /\ reader' = reader
    BY <1>2 DEF BeginPublication
  <2>2. publications + 1 \in Arms /\ publications + 1 \in 0..MaxPublications
    BY <1>1, <2>1 DEF ArtifactTypes, Arms, ArtifactAssumption
  <2>3. at \in {"away", "staged"}
    OBVIOUS
  <2> HIDE DEF at
  <2>4. /\ publisher'[p].at = at /\ publisher'[p].arm = publications + 1
        /\ \A q \in Publishers \ {p} : publisher'[q] = publisher[q]
        /\ publisher' \in [Publishers -> PublisherStates]
    BY <1>1, <2>1, <2>2, <2>3 DEF ArtifactTypes
  <2>5. QED
    BY <2>1, <2>2, <2>3, <2>4, PublisherMoves
<1>3. ASSUME NEW p \in Publishers, Published(p) \/ Abandon(p) PROVE ArtifactInv'
  <2>1. PICK at \in {"published", "away"} :
          /\ Stands(p, at) /\ (at = "published" => publisher[p].at = "flushing")
          /\ destination' = destination /\ reader' = reader /\ publications' = publications
    BY <1>3 DEF Published, Abandon
  <2>2. publications \in 0..MaxPublications /\ at \in {"away", "staged"} \union Holding
    BY <1>1 DEF ArtifactTypes, Holding
  <2>3. QED
    BY <1>1, <2>1, <2>2, StandsThere, PublisherMoves
<1>4. CASE UNCHANGED artifactVars
  BY <1>4 DEF artifactVars, ArtifactInv, ArtifactTypes, Whole, PublisherInv, ReaderInv
<1>5. QED
  BY <1>2, <1>3, <1>4, ClaimStep, LinkStep, ReaderMoves DEF ArtifactNext

LEMMA LoadsStayWhole == ASSUME ArtifactInv PROVE LoadsAreWhole
<1>1. ASSUME NEW r \in Readers
      PROVE  /\ reader[r].at = "loaded" => /\ reader[r].report = reader[r].index
                                           /\ destination.files["model"] = reader[r].index
             /\ reader[r].at = "rejected" => reader[r].index = NoFile
  BY DEF ArtifactInv, ReaderInv, Whole
<1>2. \A p \in Publishers : publisher[p].at = "published" =>
        \A n \in Names : destination.files[n] = publisher[p].arm
  BY DEF ArtifactInv, PublisherInv
<1>3. QED
  BY <1>1, <1>2 DEF LoadsAreWhole

HIDE DEF PublisherStates, ReaderStates

-------------------------------------------------------------------------------
(* Completed seeds                                                            *)

Trials == [work : Works, measured : Measured]
Evidence == [trial : Trials, sealed : BOOLEAN]
Places == {"resting", "scanning", "next", "linking", "comparing", "syncing", "refused", "reported"}
Comparisons == [at : Places, work : Works \union {NoTrial}, seen : Seq(BOOLEAN),
                trials : Seq(Trials), trained : BOOLEAN, disturbed : BOOLEAN]

Existing == {i \in AllSeeds : Exists(i)}

SeedsTypes ==
  /\ progress \in [AllSeeds -> Evidence \union {NoTrial}]
  /\ runner \in [Runners -> Comparisons]
  /\ tampered \in Nat
  /\ linked \in SUBSET (AllSeeds \X Trials)

\* What is there was published, and what was published is there or was taken away.
LinkedInv ==
  /\ \A i \in Existing : <<i, progress[i].trial>> \in linked
  /\ IsFiniteSet(linked) /\ Cardinality(linked) =< Cardinality(Existing) + tampered

\* The trials of a run that are in the directory, or were.
Kept(r) == IF r.at \in {"linking", "comparing"} THEN Len(r.trials) - 1 ELSE Len(r.trials)

\* One run: its trials are of its work, and published once it is past them.
TrialsInv(r) ==
  /\ r.at \in {"scanning", "next", "linking", "comparing", "syncing"} => r.work \in Works
  /\ r.at \in {"linking", "comparing", "syncing"} => Len(r.trials) > 0 /\ r.trained
  /\ r.at = "scanning" => r.trials = <<>> /\ ~r.trained /\ Len(r.seen) < SeedCount
  /\ r.at = "reported" => Len(r.trials) = SeedCount
  /\ Len(r.trials) =< SeedCount
  /\ \A i \in 1..Len(r.trials) : r.trials[i].work = r.work
  /\ r.at # "refused" => \A i \in 1..Kept(r) : <<i, r.trials[i]>> \in linked

\* A run nobody disturbed knows the directory: the seeds it is past are there, and behind
\* one it trained itself there is nothing.
ViewInv(r) ==
  r.disturbed = FALSE =>
    /\ r.at = "scanning" => \A i \in 1..Len(r.seen) : (r.seen[i] = TRUE <=> Exists(i))
    /\ r.at = "next" /\ ~r.trained =>
         /\ \A i \in 1..Len(r.trials) : Exists(i)
         /\ \A i \in Existing : i > 1 => i - 1 \in Existing
    /\ r.at = "linking" => \A i \in AllSeeds : Exists(i) <=> i < Len(r.trials)
    /\ r.at = "syncing" \/ (r.at = "next" /\ r.trained) =>
         \A i \in AllSeeds : Exists(i) <=> i =< Len(r.trials)
    /\ r.at # "comparing"
    /\ r.at = "refused" => ~r.trained

SeedsInv ==
  /\ SeedsTypes /\ LinkedInv
  /\ \A p \in Runners : TrialsInv(runner[p]) /\ ViewInv(runner[p])


LEMMA Appended ==
  ASSUME NEW S, NEW seq \in Seq(S), NEW e \in S
  PROVE  /\ Append(seq, e) \in Seq(S) /\ Len(Append(seq, e)) = Len(seq) + 1 /\ Len(seq) \in Nat
         /\ \A i \in 1..Len(seq) : Append(seq, e)[i] = seq[i]
         /\ Append(seq, e)[Len(seq) + 1] = e
OBVIOUS

LEMMA LeastExists ==
  ASSUME NEW T \in SUBSET Nat, T # {}
  PROVE  \E t \in T : \A x \in T : t =< x
<1>1. \E t \in T : \A x \in T : <<x, t>> \notin OpToRel(<, Nat)
  BY NatLessThanWellFounded, WFMin
<1>2. PICK t \in T : \A x \in T : <<x, t>> \notin OpToRel(<, Nat)
  BY <1>1
<1>3. \A x \in T : ~(x < t)
  BY <1>2 DEF OpToRel
<1>4. QED
  BY <1>3

\* Seeds that follow each other: behind one that is missing there is nothing.
LEMMA NothingBehind ==
  ASSUME SeedsAssumption, \A i \in Existing : i > 1 => i - 1 \in Existing,
         NEW n \in AllSeeds, ~Exists(n)
  PROVE  \A i \in AllSeeds : Exists(i) => i < n
<1>1. SUFFICES ASSUME NEW i \in AllSeeds, Exists(i), ~(i < n) PROVE FALSE
  OBVIOUS
<1>2. n \in Nat /\ i \in Nat /\ n >= 1 /\ Existing \in SUBSET Nat /\ i \in Existing /\ n \notin Existing
  BY <1>1 DEF Existing, AllSeeds, SeedsAssumption
<1> DEFINE T == {k \in Existing : k >= n}
<1>3. T \in SUBSET Nat /\ i \in T
  <2>1. i >= n
    BY <1>1, <1>2
  <2>2. T \in SUBSET Nat
    BY <1>2
  <2>3. QED
    BY <1>2, <2>1, <2>2
<1>4. PICK m \in T : \A x \in T : m =< x
  BY <1>3, LeastExists
<1>5. m \in Existing /\ m \in Nat /\ m >= n /\ m # n
  BY <1>2, <1>3, <1>4
<1>6. m > 1 /\ m - 1 >= n /\ m - 1 \in Nat
  BY <1>2, <1>5
<1>7. m - 1 \in T
  BY <1>5, <1>6
<1>8. QED
  BY <1>4, <1>5, <1>7

LEMMA RestingIsSound ==
  ASSUME SeedsAssumption
  PROVE  /\ Resting \in Comparisons /\ TrialsInv(Resting) /\ ViewInv(Resting)
         /\ \A work \in Works :
              LET r == [Resting EXCEPT !.at = "scanning", !.work = work]
              IN r \in Comparisons /\ TrialsInv(r) /\ ViewInv(r)
<1>1. /\ Resting.at = "resting" /\ Resting.seen = <<>> /\ Resting.trials = <<>>
      /\ Resting.trained = FALSE /\ Resting.disturbed = FALSE /\ Resting.work = NoTrial
      /\ Resting \in Comparisons
  BY DEF Resting, Comparisons, Places
<1>2. Len(<<>>) = 0 /\ SeedCount \in Nat /\ SeedCount > 0 /\ 1..0 = {}
  BY DEF SeedsAssumption
<1>3. TrialsInv(Resting) /\ ViewInv(Resting)
  BY <1>1, <1>2 DEF TrialsInv, ViewInv, Kept
<1>4. ASSUME NEW work \in Works, NEW r, r = [Resting EXCEPT !.at = "scanning", !.work = work]
      PROVE  r \in Comparisons /\ TrialsInv(r) /\ ViewInv(r)
  <2>1. /\ r.at = "scanning" /\ r.seen = <<>> /\ r.trials = <<>> /\ r.work = work
        /\ r.trained = FALSE /\ r.disturbed = FALSE /\ r \in Comparisons
    BY <1>1, <1>4 DEF Comparisons, Places
  <2>2. QED
    BY <1>2, <2>1 DEF TrialsInv, ViewInv, Kept
<1>5. QED
  BY <1>1, <1>3, <1>4

LEMMA SeedsStart == ASSUME SeedsAssumption, SeedsInit PROVE SeedsInv
<1>1. /\ progress = [i \in AllSeeds |-> NoTrial] /\ runner = [p \in Runners |-> Resting]
      /\ tampered = 0 /\ linked = {}
  BY DEF SeedsInit
<1>2. SeedsTypes
  BY <1>1, RestingIsSound DEF SeedsTypes
<1>3. Existing = {}
  BY <1>1 DEF Existing, Exists
<1>4. LinkedInv
  BY <1>1, <1>3, FS_EmptySet DEF LinkedInv
<1>5. QED
  BY <1>1, <1>2, <1>4, RestingIsSound DEF SeedsInv

\* A run moves, the directory stays.
LEMMA RunnerMoves ==
  ASSUME SeedsInv, NEW p \in Runners, NEW r \in Comparisons, TrialsInv(r), ViewInv(r), Becomes(p, r),
         progress' = progress, tampered' = tampered, linked' = linked
  PROVE  SeedsInv'
<1>1. SeedsTypes /\ LinkedInv /\ \A q \in Runners : TrialsInv(runner[q]) /\ ViewInv(runner[q])
  BY DEF SeedsInv
<1>2. /\ runner' \in [Runners -> Comparisons] /\ runner'[p] = r
      /\ \A q \in Runners \ {p} : runner'[q] = runner[q]
  BY <1>1 DEF SeedsTypes, Becomes
<1>3. SeedsTypes'
  BY <1>1, <1>2 DEF SeedsTypes
<1>4. Existing' = Existing /\ \A i \in AllSeeds : Exists(i)' <=> Exists(i)
  BY DEF Existing, Exists
<1>5. LinkedInv'
  BY <1>1, <1>4 DEF LinkedInv
<1>6. \A rec \in Comparisons : TrialsInv(rec) => TrialsInv(rec)'
  BY DEF TrialsInv, Kept
<1>7. ASSUME NEW rec \in Comparisons, ViewInv(rec) PROVE ViewInv(rec)'
  BY <1>7 DEF ViewInv, Exists, Existing
<1>8. ASSUME NEW q \in Runners PROVE TrialsInv(runner[q])' /\ ViewInv(runner[q])'
  <2>1. runner'[q] \in Comparisons /\ TrialsInv(runner'[q]) /\ ViewInv(runner'[q])
    BY <1>1, <1>2
  <2>2. QED
    BY <2>1, <1>4 DEF TrialsInv, Kept, ViewInv, Exists, Existing
<1>9. QED
  BY <1>3, <1>5, <1>8 DEF SeedsInv

\* What a run that has the field at changed to is.
LEMMA Elsewhere ==
  ASSUME NEW r \in Comparisons, NEW at \in Places, NEW s, s = [r EXCEPT !.at = at]
  PROVE  /\ s \in Comparisons /\ s.at = at /\ s.work = r.work /\ s.seen = r.seen /\ s.trials = r.trials
         /\ s.trained = r.trained /\ s.disturbed = r.disturbed
BY DEF Comparisons

LEMMA ScanStep ==
  ASSUME SeedsAssumption, SeedsInv, NEW p \in Runners, ScanPath(p)
  PROVE  SeedsInv'
<1> DEFINE r == runner[p]
           e == Exists(Len(r.seen) + 1)
           seen == Append(r.seen, e)
           at == IF Len(seen) < SeedCount THEN "scanning"
                 ELSE IF Contiguous(seen) THEN "next" ELSE "refused"
           s == [r EXCEPT !.seen = seen, !.at = at]
<1>1. /\ r.at = "scanning" /\ Becomes(p, s)
      /\ progress' = progress /\ tampered' = tampered /\ linked' = linked
  BY DEF ScanPath
<1>2. r \in Comparisons /\ TrialsInv(r) /\ ViewInv(r)
  BY DEF SeedsInv, SeedsTypes
<1>3. e \in BOOLEAN /\ r.seen \in Seq(BOOLEAN) /\ SeedCount \in Nat /\ at \in Places
  BY <1>2 DEF Comparisons, Exists, SeedsAssumption, Places
<1>4. (e = TRUE) <=> Exists(Len(r.seen) + 1)
  BY <1>3
<1>5. /\ seen \in Seq(BOOLEAN) /\ Len(seen) = Len(r.seen) + 1 /\ Len(r.seen) \in Nat
      /\ \A i \in 1..Len(r.seen) : seen[i] = r.seen[i]
      /\ seen[Len(r.seen) + 1] = e
  <2> HIDE DEF e
  <2>1. QED
    BY <1>3, Appended
<1>6. /\ r.trials = <<>> /\ r.trained = FALSE /\ Len(r.seen) < SeedCount /\ r.work \in Works
  BY <1>1, <1>2 DEF TrialsInv, Comparisons
<1>7. r.disturbed = FALSE => \A i \in 1..Len(seen) : (seen[i] = TRUE <=> Exists(i))
  <2> HIDE DEF e, seen, r
  <2>1. r.disturbed = FALSE => \A i \in 1..Len(r.seen) : (r.seen[i] = TRUE <=> Exists(i))
    BY <1>1, <1>2 DEF ViewInv
  <2>2. ASSUME r.disturbed = FALSE, NEW i \in 1..Len(seen) PROVE seen[i] = TRUE <=> Exists(i)
    <3>1. CASE i = Len(r.seen) + 1
      BY <1>4, <1>5, <3>1
    <3>2. CASE i # Len(r.seen) + 1
      <4>1. i \in 1..Len(r.seen)
        BY <1>5, <3>2
      <4>2. QED
        BY <1>5, <2>1, <2>2, <4>1
    <3>3. QED
      BY <3>1, <3>2
  <2>3. QED
    BY <2>2
<1> HIDE DEF seen, at, r, e
<1>8. /\ s \in Comparisons /\ s.at = at /\ s.seen = seen /\ s.trials = <<>> /\ s.trained = FALSE
      /\ s.disturbed = r.disturbed /\ s.work \in Works
  BY <1>2, <1>3, <1>5, <1>6 DEF Comparisons
<1>9. /\ at = "scanning" => Len(seen) < SeedCount
      /\ at = "next" => Contiguous(seen) /\ Len(seen) = SeedCount
      /\ at \in {"scanning", "next", "refused"}
  BY <1>3, <1>5, <1>6 DEF at
<1> HIDE DEF s
<1>10. Len(s.trials) = 0 /\ 1..0 = {}
  BY <1>8
<1>11. TrialsInv(s)
  BY <1>3, <1>8, <1>9, <1>10 DEF TrialsInv, Kept
<1>12. s.disturbed = FALSE /\ s.at = "next" => \A i \in Existing : i > 1 => i - 1 \in Existing
  <2>1. SUFFICES ASSUME s.disturbed = FALSE, s.at = "next", NEW i \in Existing, i > 1 PROVE i - 1 \in Existing
    OBVIOUS
  <2>2. i \in 1..SeedCount /\ Exists(i) /\ Len(seen) = SeedCount /\ Contiguous(seen)
    BY <1>8, <1>9, <2>1 DEF Existing, AllSeeds
  <2>3. i - 1 \in 1..(Len(seen) - 1) /\ (i - 1) + 1 = i /\ i - 1 \in 1..Len(seen) /\ i - 1 \in AllSeeds
    BY <1>3, <2>1, <2>2 DEF AllSeeds
  <2>4. seen[i] => seen[i - 1]
    BY <2>2, <2>3 DEF Contiguous
  <2>5. seen[i] = TRUE /\ seen[i - 1] \in BOOLEAN
    BY <1>5, <1>7, <1>8, <2>1, <2>2, <2>3
  <2>6. seen[i - 1] = TRUE
    BY <2>4, <2>5
  <2>7. QED
    BY <1>7, <1>8, <2>1, <2>3, <2>6 DEF Existing
<1>13. ViewInv(s)
  BY <1>7, <1>8, <1>9, <1>10, <1>12 DEF ViewInv
<1>14. QED
  BY <1>1, <1>8, <1>11, <1>13, RunnerMoves

LEMMA ReuseStep ==
  ASSUME SeedsAssumption, SeedsInv, NEW p \in Runners, Reuse(p)
  PROVE  SeedsInv'
<1> DEFINE r == runner[p]
           k == Len(r.trials) + 1
           trial == progress[k].trial
           trials == Append(r.trials, trial)
<1>1. /\ r.at = "next" /\ k <= SeedCount /\ Exists(k)
      /\ progress' = progress /\ tampered' = tampered /\ linked' = linked
      /\ Becomes(p, IF progress[k].sealed /\ trial.work = r.work
                    THEN [r EXCEPT !.trials = trials] ELSE [r EXCEPT !.at = "refused"])
  BY DEF Reuse, Current
<1>2. r \in Comparisons /\ TrialsInv(r) /\ ViewInv(r) /\ LinkedInv /\ SeedsTypes
  BY DEF SeedsInv, SeedsTypes
<1>3. /\ r.trials \in Seq(Trials) /\ Len(r.trials) \in Nat /\ SeedCount \in Nat /\ k \in AllSeeds
      /\ r.disturbed \in BOOLEAN /\ r.trained \in BOOLEAN
  BY <1>1, <1>2 DEF Comparisons, SeedsAssumption, AllSeeds
<1>4. k \in Existing /\ progress[k] \in Evidence /\ trial \in Trials /\ <<k, trial>> \in linked
  <2>1. k \in Existing
    BY <1>1, <1>3 DEF Existing
  <2>2. progress[k] \in Evidence
    BY <1>1, <1>2, <1>3 DEF SeedsTypes, Exists
  <2>3. QED
    BY <1>2, <2>1, <2>2 DEF LinkedInv, Evidence
<1>5. /\ r.work \in Works /\ \A i \in 1..Len(r.trials) : r.trials[i].work = r.work
      /\ \A i \in 1..Len(r.trials) : <<i, r.trials[i]>> \in linked
  BY <1>1, <1>2 DEF TrialsInv, Kept
<1>6. r.disturbed = FALSE => r.trained = FALSE
  BY <1>1, <1>2, <1>3 DEF ViewInv
<1>7. CASE progress[k].sealed /\ trial.work = r.work
  <2> DEFINE s == [r EXCEPT !.trials = trials]
  <2>1. /\ trials \in Seq(Trials) /\ Len(trials) = k
        /\ \A i \in 1..Len(r.trials) : trials[i] = r.trials[i]
        /\ trials[k] = trial
    <3> HIDE DEF trial, r
    <3>1. QED
      BY <1>3, <1>4, Appended
  <2>2. Becomes(p, s) /\ trial.work = r.work
    BY <1>1, <1>7
  <2> HIDE DEF trials, trial, r
  <2>3. /\ s \in Comparisons /\ s.at = "next" /\ s.trials = trials /\ s.trained = r.trained
        /\ s.disturbed = r.disturbed /\ s.work = r.work
    BY <1>1, <1>2, <2>1 DEF Comparisons
  <2> HIDE DEF s
  <2>4. ASSUME NEW i \in 1..k PROVE trials[i].work = r.work /\ <<i, trials[i]>> \in linked
    <3>1. CASE i = k
      BY <1>4, <2>1, <2>2, <3>1
    <3>2. CASE i # k
      <4>1. i \in 1..Len(r.trials)
        BY <1>3, <3>2
      <4>2. QED
        BY <1>5, <2>1, <4>1
    <3>3. QED
      BY <3>1, <3>2
  <2>5. TrialsInv(s)
    BY <1>1, <1>5, <2>1, <2>3, <2>4 DEF TrialsInv, Kept
  <2>6. ASSUME s.disturbed = FALSE, NEW i \in 1..k PROVE Exists(i)
    <3>1. CASE i = k
      BY <1>1, <3>1
    <3>2. CASE i # k
      <4>1. i \in 1..Len(r.trials)
        BY <1>3, <3>2
      <4>2. QED
        BY <1>1, <1>2, <1>6, <2>3, <2>6, <4>1 DEF ViewInv
    <3>3. QED
      BY <3>1, <3>2
  <2>7. s.disturbed = FALSE => \A i \in Existing : i > 1 => i - 1 \in Existing
    BY <1>1, <1>2, <1>6, <2>3 DEF ViewInv
  <2>8. ViewInv(s)
    BY <1>6, <2>1, <2>3, <2>6, <2>7 DEF ViewInv
  <2>9. QED
    BY <1>1, <2>2, <2>3, <2>5, <2>8, RunnerMoves
<1>8. CASE ~(progress[k].sealed /\ trial.work = r.work)
  <2> DEFINE s == [r EXCEPT !.at = "refused"]
  <2>1. Becomes(p, s)
    BY <1>1, <1>8
  <2> HIDE DEF r
  <2>2. /\ s \in Comparisons /\ s.at = "refused" /\ s.trials = r.trials /\ s.trained = r.trained
        /\ s.disturbed = r.disturbed /\ s.work = r.work
    BY <1>2 DEF Comparisons, Places
  <2> HIDE DEF s
  <2>3. TrialsInv(s)
    BY <1>2, <2>2 DEF TrialsInv
  <2>4. ViewInv(s)
    BY <1>6, <2>2 DEF ViewInv
  <2>5. QED
    BY <1>1, <2>1, <2>2, <2>3, <2>4, RunnerMoves
<1>9. QED
  BY <1>7, <1>8

LEMMA TrainStep ==
  ASSUME SeedsAssumption, SeedsInv, NEW p \in Runners, NEW measured \in Measured, Train(p, measured)
  PROVE  SeedsInv'
<1> DEFINE r == runner[p]
           k == Len(r.trials) + 1
           trial == [work |-> r.work, measured |-> measured]
           trials == Append(r.trials, trial)
           s == [r EXCEPT !.trials = trials, !.at = "linking", !.trained = TRUE]
<1>1. /\ r.at = "next" /\ k <= SeedCount /\ ~Exists(k)
      /\ progress' = progress /\ tampered' = tampered /\ linked' = linked
      /\ Becomes(p, s)
  BY DEF Train, Current
<1>2. r \in Comparisons /\ TrialsInv(r) /\ ViewInv(r)
  BY DEF SeedsInv, SeedsTypes
<1>3. /\ r.trials \in Seq(Trials) /\ Len(r.trials) \in Nat /\ SeedCount \in Nat /\ k \in AllSeeds
      /\ r.trained \in BOOLEAN
  BY <1>1, <1>2 DEF Comparisons, SeedsAssumption, AllSeeds
<1>4. /\ r.work \in Works /\ \A i \in 1..Len(r.trials) : r.trials[i].work = r.work
      /\ \A i \in 1..Len(r.trials) : <<i, r.trials[i]>> \in linked
  BY <1>1, <1>2 DEF TrialsInv, Kept
<1>5. trial \in Trials /\ trial.work = r.work
  BY <1>4 DEF Trials
<1>6. /\ trials \in Seq(Trials) /\ Len(trials) = k
      /\ \A i \in 1..Len(r.trials) : trials[i] = r.trials[i]
      /\ trials[k] = trial
  <2> HIDE DEF trial, r
  <2>1. QED
    BY <1>3, <1>5, Appended
<1> HIDE DEF trials, trial, r
<1>7. /\ s \in Comparisons /\ s.at = "linking" /\ s.trials = trials /\ s.trained = TRUE
      /\ s.disturbed = r.disturbed /\ s.work = r.work
  BY <1>2, <1>6 DEF Comparisons, Places
<1> HIDE DEF s
<1>8. TrialsInv(s)
  <2>1. \A i \in 1..k : trials[i].work = r.work
    BY <1>3, <1>4, <1>5, <1>6
  <2>2. \A i \in 1..Len(r.trials) : <<i, trials[i]>> \in linked
    BY <1>4, <1>6
  <2>3. Kept(s) = Len(r.trials)
    BY <1>3, <1>6, <1>7 DEF Kept
  <2>4. Len(s.trials) = k /\ k > 0 /\ s.trained
    BY <1>3, <1>6, <1>7
  <2>5. QED
    BY <1>1, <1>4, <1>7, <2>1, <2>2, <2>3, <2>4 DEF TrialsInv
<1>9. s.disturbed = FALSE => \A i \in AllSeeds : Exists(i) <=> i < k
  <2>1. SUFFICES ASSUME s.disturbed = FALSE PROVE \A i \in AllSeeds : Exists(i) <=> i < k
    OBVIOUS
  <2>2. CASE r.trained = TRUE
    <3>1. \A i \in AllSeeds : Exists(i) <=> i =< Len(r.trials)
      BY <1>1, <1>2, <1>7, <2>1, <2>2 DEF ViewInv
    <3>2. \A i \in AllSeeds : i \in Nat
      BY <1>3 DEF AllSeeds
    <3>3. QED
      BY <1>3, <3>1, <3>2
  <2>3. CASE r.trained = FALSE
    <3>1. /\ \A i \in 1..Len(r.trials) : Exists(i)
          /\ \A i \in Existing : i > 1 => i - 1 \in Existing
      BY <1>1, <1>2, <1>7, <2>1, <2>3 DEF ViewInv
    <3>2. \A i \in AllSeeds : Exists(i) => i < k
      BY <1>1, <1>3, <3>1, NothingBehind
    <3>3. \A i \in AllSeeds : i < k => i \in 1..Len(r.trials)
      BY <1>3 DEF AllSeeds
    <3>4. QED
      BY <3>1, <3>2, <3>3
  <2>4. QED
    BY <1>3, <2>2, <2>3
<1>10. ViewInv(s)
  BY <1>6, <1>7, <1>9 DEF ViewInv
<1>11. QED
  BY <1>1, <1>7, <1>8, <1>10, RunnerMoves

\* The trial of a run that lost the race for its seed.
LEMMA TheLast ==
  ASSUME SeedsAssumption, SeedsInv, NEW p \in Runners, runner[p].at \in {"linking", "comparing", "syncing"}
  PROVE  /\ At(p) \in AllSeeds /\ At(p) \in Nat /\ At(p) = Len(runner[p].trials)
         /\ Trained(p) = runner[p].trials[At(p)] /\ Trained(p) \in Trials
         /\ Trained(p).work = runner[p].work
<1>1. runner[p] \in Comparisons /\ TrialsInv(runner[p])
  BY DEF SeedsInv, SeedsTypes
<1>2. /\ runner[p].trials \in Seq(Trials) /\ Len(runner[p].trials) > 0
      /\ Len(runner[p].trials) \in Nat /\ Len(runner[p].trials) =< SeedCount /\ SeedCount \in Nat
      /\ \A i \in 1..Len(runner[p].trials) : runner[p].trials[i].work = runner[p].work
  BY <1>1 DEF TrialsInv, Comparisons, SeedsAssumption
<1>3. At(p) \in 1..Len(runner[p].trials) /\ At(p) \in AllSeeds
  BY <1>2 DEF At, AllSeeds
<1>4. Trained(p) = runner[p].trials[At(p)]
  BY DEF Trained, Last, At
<1>5. runner[p].trials[At(p)] \in Trials
  BY <1>2, <1>3
<1>6. QED
  BY <1>2, <1>3, <1>4, <1>5 DEF At

LEMMA LostStep ==
  ASSUME SeedsAssumption, SeedsInv, NEW p \in Runners, Lost(p) \/ Synced(p) \/ Assemble(p)
  PROVE  SeedsInv'
<1> DEFINE r == runner[p]
<1>1. PICK at \in {"comparing", "next", "reported"} :
        /\ progress' = progress /\ tampered' = tampered /\ linked' = linked
        /\ Becomes(p, [r EXCEPT !.at = at])
        /\ at = "comparing" => Lost(p)
        /\ at = "next" => r.at = "syncing"
        /\ at = "reported" => r.at = "next" /\ Len(r.trials) + 1 > SeedCount
  <2>1. CASE Lost(p)
    BY <2>1 DEF Lost
  <2>2. CASE Synced(p)
    BY <2>2 DEF Synced
  <2>3. CASE Assemble(p)
    BY <2>3 DEF Assemble, Current
  <2>4. QED
    BY <2>1, <2>2, <2>3
<1>2. r \in Comparisons /\ TrialsInv(r) /\ ViewInv(r) /\ at \in Places
  BY <1>1 DEF SeedsInv, SeedsTypes, Places
<1> DEFINE s == [r EXCEPT !.at = at]
<1>3. /\ s \in Comparisons /\ s.at = at /\ s.work = r.work /\ s.trials = r.trials
      /\ s.trained = r.trained /\ s.disturbed = r.disturbed
  <2> HIDE DEF r
  <2>1. QED
    BY <1>2, Elsewhere
<1>4. at = "comparing" => r.at = "linking" /\ r.disturbed # FALSE
  <2>1. SUFFICES ASSUME at = "comparing" PROVE r.at = "linking" /\ r.disturbed # FALSE
    OBVIOUS
  <2>2. r.at = "linking" /\ Exists(At(p))
    BY <1>1, <2>1 DEF Lost
  <2>3. At(p) \in AllSeeds /\ At(p) = Len(r.trials) /\ At(p) \in Nat
    BY <2>2, TheLast
  <2>4. ASSUME r.disturbed = FALSE PROVE FALSE
    <3>1. \A i \in AllSeeds : Exists(i) <=> i < Len(r.trials)
      BY <1>2, <2>2, <2>4 DEF ViewInv
    <3>2. At(p) < At(p)
      BY <2>2, <2>3, <3>1
    <3>3. QED
      BY <2>3, <3>2
  <2>5. QED
    BY <2>2, <2>4
<1>5. Len(r.trials) \in Nat /\ SeedCount \in Nat
  BY <1>2 DEF Comparisons, SeedsAssumption
<1> HIDE DEF s, r
<1>6. TrialsInv(s)
  <2>1. /\ r.at \in {"linking", "syncing", "next"} /\ r.work \in Works
        /\ Len(r.trials) =< SeedCount /\ \A i \in 1..Len(r.trials) : r.trials[i].work = r.work
        /\ \A i \in 1..Kept(r) : <<i, r.trials[i]>> \in linked
    BY <1>1, <1>2, <1>4 DEF TrialsInv
  <2>2. Kept(s) = Kept(r)
    BY <1>1, <1>3, <1>4 DEF Kept
  <2>3. at = "comparing" => Len(r.trials) > 0 /\ r.trained
    BY <1>2, <1>4 DEF TrialsInv
  <2>4. at = "reported" => Len(r.trials) = SeedCount
    BY <1>1, <1>5, <2>1
  <2>5. QED
    BY <1>1, <1>3, <2>1, <2>2, <2>3, <2>4 DEF TrialsInv
<1>7. ViewInv(s)
  BY <1>1, <1>2, <1>3, <1>4 DEF ViewInv, TrialsInv
<1>8. QED
  BY <1>1, <1>3, <1>6, <1>7, RunnerMoves DEF s

LEMMA CompareStep ==
  ASSUME SeedsAssumption, SeedsInv, NEW p \in Runners, Compare(p)
  PROVE  SeedsInv'
<1> DEFINE r == runner[p]
           at == IF Agrees(p) THEN "next" ELSE "refused"
           s == [r EXCEPT !.at = at]
<1>1. /\ r.at = "comparing" /\ Becomes(p, s)
      /\ progress' = progress /\ tampered' = tampered /\ linked' = linked
  BY DEF Compare
<1>2. r \in Comparisons /\ TrialsInv(r) /\ ViewInv(r) /\ LinkedInv /\ at \in Places
  BY DEF SeedsInv, SeedsTypes, Places
<1>3. r.disturbed # FALSE
  BY <1>1, <1>2 DEF ViewInv
<1>4. at = "next" => <<Len(r.trials), r.trials[Len(r.trials)]>> \in linked
  <2>1. SUFFICES ASSUME Agrees(p) PROVE <<Len(r.trials), r.trials[Len(r.trials)]>> \in linked
    OBVIOUS
  <2>2. /\ At(p) \in AllSeeds /\ At(p) = Len(r.trials) /\ Trained(p) = r.trials[Len(r.trials)]
    BY <1>1, TheLast
  <2>3. At(p) \in Existing /\ progress[At(p)].trial = Trained(p)
    BY <2>1, <2>2 DEF Agrees, Existing
  <2>4. QED
    BY <1>2, <2>2, <2>3 DEF LinkedInv
<1>5. /\ s \in Comparisons /\ s.at = at /\ s.work = r.work /\ s.trials = r.trials
      /\ s.trained = r.trained /\ s.disturbed = r.disturbed /\ at \in {"next", "refused"}
  <2>1. at \in {"next", "refused"}
    OBVIOUS
  <2> HIDE DEF r, at
  <2>2. QED
    BY <1>2, <2>1, Elsewhere
<1>6. Len(r.trials) \in Nat /\ SeedCount \in Nat
  BY <1>2 DEF Comparisons, SeedsAssumption
<1> HIDE DEF s, r, at
<1>7. TrialsInv(s)
  <2>1. \A i \in 1..(Len(r.trials) - 1) : <<i, r.trials[i]>> \in linked
    BY <1>1, <1>2 DEF TrialsInv, Kept
  <2>2. at = "next" => \A i \in 1..Len(r.trials) : <<i, r.trials[i]>> \in linked
    BY <1>4, <1>6, <2>1
  <2>3. QED
    BY <1>1, <1>2, <1>5, <1>6, <2>2 DEF TrialsInv, Kept
<1>8. ViewInv(s)
  BY <1>3, <1>5 DEF ViewInv
<1>9. QED
  BY <1>1, <1>5, <1>7, <1>8, RunnerMoves

\* When the directory changes, the runs that are going on take note.
LEMMA OthersDisturbed ==
  ASSUME SeedsInv, linked \subseteq linked', NEW q \in Runners,
         runner'[q] = [runner[q] EXCEPT !.disturbed = @ \/ q \in Active]
  PROVE  runner'[q] \in Comparisons /\ TrialsInv(runner[q])' /\ ViewInv(runner[q])'
<1> DEFINE r == runner[q]
           d == r.disturbed \/ q \in Active
           s == [r EXCEPT !.disturbed = d]
<1>1. runner'[q] = s
  OBVIOUS
<1>2. r \in Comparisons /\ TrialsInv(r) /\ ViewInv(r)
  BY DEF SeedsInv, SeedsTypes
<1>3. /\ d \in BOOLEAN
      /\ r.at \in {"scanning", "next", "linking", "comparing", "syncing"} => d # FALSE
      /\ d = FALSE => r.disturbed = FALSE
  BY <1>2 DEF Active, Comparisons
<1> HIDE DEF r, d
<1>4. /\ s \in Comparisons /\ s.at = r.at /\ s.work = r.work /\ s.seen = r.seen /\ s.trials = r.trials
      /\ s.trained = r.trained /\ s.disturbed = d
  BY <1>2, <1>3 DEF Comparisons
<1> HIDE DEF s
<1>5. TrialsInv(s)
  BY <1>2, <1>4 DEF TrialsInv, Kept
<1>6. s.disturbed = FALSE => /\ s.at \notin {"scanning", "next", "linking", "comparing", "syncing"}
                            /\ (s.at = "refused" => ~s.trained)
  BY <1>2, <1>3, <1>4 DEF ViewInv
<1>7. TrialsInv(runner[q])'
  <2>1. \A i : <<i, s.trials[i]>> \in linked => <<i, s.trials[i]>> \in linked'
    OBVIOUS
  <2>2. TrialsInv(runner'[q])
    BY <1>1, <1>5
  <2>3. \A i : <<i, runner'[q].trials[i]>> \in linked => <<i, runner'[q].trials[i]>> \in linked'
    OBVIOUS
  <2>4. QED
    BY <2>2, <2>3 DEF TrialsInv, Kept
<1>8. ViewInv(runner[q])'
  <2>1. runner'[q].disturbed = FALSE =>
          /\ runner'[q].at \notin {"scanning", "next", "linking", "comparing", "syncing"}
          /\ (runner'[q].at = "refused" => ~runner'[q].trained)
    BY <1>1, <1>6
  <2>2. QED
    BY <2>1 DEF ViewInv
<1>9. QED
  BY <1>1, <1>4, <1>7, <1>8

LEMMA LinkTrialStep ==
  ASSUME SeedsAssumption, SeedsInv, NEW p \in Runners, LinkTrial(p)
  PROVE  SeedsInv'
<1> DEFINE r == runner[p]
           k == At(p)
           trial == Trained(p)
           s == [r EXCEPT !.at = "syncing"]
<1>1. /\ r.at = "linking" /\ ~Exists(k)
      /\ progress' = [progress EXCEPT ![k] = [trial |-> trial, sealed |-> TRUE]]
      /\ linked' = linked \cup {<<k, trial>>} /\ tampered' = tampered
      /\ runner' = [q \in Runners |->
           IF q = p THEN s ELSE [runner[q] EXCEPT !.disturbed = @ \/ q \in Active]]
  BY DEF LinkTrial
<1>2. r \in Comparisons /\ TrialsInv(r) /\ ViewInv(r) /\ LinkedInv /\ SeedsTypes
  BY DEF SeedsInv, SeedsTypes
<1>3. /\ k \in AllSeeds /\ k \in Nat /\ k = Len(r.trials) /\ trial = r.trials[k] /\ trial \in Trials
  BY <1>1, TheLast
<1> HIDE DEF k, trial
<1>4. [trial |-> trial, sealed |-> TRUE] \in Evidence /\ [trial |-> trial, sealed |-> TRUE] # NoTrial
  <2>1. [trial |-> trial, sealed |-> TRUE] \in Evidence
    BY <1>3 DEF Evidence
  <2>2. NoTrial \notin Evidence
    BY DEF SeedsAssumption, Evidence, Trials
  <2>3. QED
    BY <2>1, <2>2
<1>5. /\ progress'[k] = [trial |-> trial, sealed |-> TRUE]
      /\ \A i \in AllSeeds \ {k} : progress'[i] = progress[i]
      /\ progress' \in [AllSeeds -> Evidence \union {NoTrial}]
  BY <1>1, <1>2, <1>3, <1>4 DEF SeedsTypes
<1>6. \A i \in AllSeeds : Exists(i)' <=> (Exists(i) \/ i = k)
  BY <1>1, <1>4, <1>5 DEF Exists
<1>7. Existing' = Existing \union {k} /\ k \notin Existing
  BY <1>1, <1>3, <1>6 DEF Existing
<1>8. linked' \in SUBSET (AllSeeds \X Trials) /\ linked \subseteq linked' /\ <<k, trial>> \in linked'
  BY <1>1, <1>2, <1>3 DEF SeedsTypes
<1>9. LinkedInv'
  <2>1. IsFiniteSet(Existing)
    <3>1. IsFiniteSet(1..SeedCount)
      BY FS_Interval DEF SeedsAssumption
    <3>2. QED
      BY <3>1, FS_Subset DEF Existing, AllSeeds
  <2>2. Cardinality(Existing') = Cardinality(Existing) + 1
    BY <1>7, <2>1, FS_AddElement
  <2>3. IsFiniteSet(linked') /\ Cardinality(linked') =< Cardinality(linked) + 1
    <3>1. IsFiniteSet(linked) /\ Cardinality(linked) \in Nat
      BY <1>2, FS_CardinalityType DEF LinkedInv
    <3>2. QED
      <4>1. /\ IsFiniteSet(linked \cup {<<k, trial>>})
            /\ Cardinality(linked \cup {<<k, trial>>}) =
                 IF <<k, trial>> \in linked THEN Cardinality(linked) ELSE Cardinality(linked) + 1
        BY <3>1, FS_AddElement
      <4>2. QED
        BY <1>1, <3>1, <4>1
  <2>4. Cardinality(linked) \in Nat /\ Cardinality(linked') \in Nat /\ Cardinality(Existing) \in Nat
    BY <1>2, <2>1, <2>3, FS_CardinalityType DEF LinkedInv
  <2>5. Cardinality(linked') =< Cardinality(Existing') + tampered'
    <3>1. Cardinality(linked) =< Cardinality(Existing) + tampered /\ tampered \in Nat /\ tampered' = tampered
      BY <1>1, <1>2 DEF LinkedInv, SeedsTypes
    <3>2. QED
      BY <2>2, <2>3, <2>4, <3>1
  <2>6. ASSUME NEW i \in Existing' PROVE <<i, progress'[i].trial>> \in linked'
    <3>1. CASE i = k
      BY <1>5, <1>8, <3>1
    <3>2. CASE i # k
      <4>1. i \in Existing /\ progress'[i] = progress[i]
        BY <1>5, <1>7, <2>6, <3>2 DEF Existing
      <4>2. QED
        BY <1>2, <1>8, <4>1 DEF LinkedInv
    <3>3. QED
      BY <3>1, <3>2
  <2>7. QED
    BY <2>3, <2>5, <2>6 DEF LinkedInv
<1>10. /\ s \in Comparisons /\ s.at = "syncing" /\ s.work = r.work /\ s.trials = r.trials
       /\ s.trained = r.trained /\ s.disturbed = r.disturbed
  <2> HIDE DEF r
  <2>1. "syncing" \in Places
    BY DEF Places
  <2>2. QED
    BY <1>2, <2>1, Elsewhere
<1>11. runner'[p] = s /\ \A q \in Runners \ {p} : runner'[q] = [runner[q] EXCEPT !.disturbed = @ \/ q \in Active]
  BY <1>1
<1>12. TrialsInv(runner[p])'
  <2> HIDE DEF s, r
  <2>1. /\ Len(r.trials) > 0 /\ r.trained /\ r.work \in Works
        /\ Len(r.trials) =< SeedCount /\ \A i \in 1..Len(r.trials) : r.trials[i].work = r.work
        /\ \A i \in 1..(Len(r.trials) - 1) : <<i, r.trials[i]>> \in linked
    BY <1>1, <1>2 DEF TrialsInv, Kept
  <2>2. \A i \in 1..Len(r.trials) : <<i, r.trials[i]>> \in linked'
    BY <1>3, <1>8, <2>1
  <2>3. /\ runner'[p].at = "syncing" /\ runner'[p].work = r.work /\ runner'[p].trials = r.trials
        /\ runner'[p].trained = r.trained
    BY <1>10, <1>11
  <2>4. QED
    BY <2>1, <2>2, <2>3 DEF TrialsInv, Kept
<1>13. ViewInv(runner[p])'
  <2> HIDE DEF s, r
  <2>1. r.disturbed = FALSE => \A i \in AllSeeds : Exists(i) <=> i < Len(r.trials)
    BY <1>1, <1>2 DEF ViewInv
  <2>2. \A i \in AllSeeds : i \in Nat
    BY DEF AllSeeds, SeedsAssumption
  <2>3. r.disturbed = FALSE => \A i \in AllSeeds : Exists(i)' <=> i =< Len(r.trials)
    <3>1. SUFFICES ASSUME r.disturbed = FALSE, NEW i \in AllSeeds PROVE Exists(i)' <=> i =< Len(r.trials)
      OBVIOUS
    <3>2. (Exists(i) <=> i < k) /\ (Exists(i)' <=> (Exists(i) \/ i = k)) /\ i \in Nat
      BY <1>3, <1>6, <2>1, <2>2, <3>1
    <3>3. QED
      BY <1>3, <3>2
  <2>4. /\ runner'[p].at = "syncing" /\ runner'[p].trials = r.trials /\ runner'[p].disturbed = r.disturbed
    BY <1>10, <1>11
  <2>5. QED
    BY <2>3, <2>4 DEF ViewInv
<1>14. ASSUME NEW q \in Runners
       PROVE  runner'[q] \in Comparisons /\ TrialsInv(runner[q])' /\ ViewInv(runner[q])'
  <2>1. CASE q = p
    BY <1>10, <1>11, <1>12, <1>13, <2>1
  <2>2. CASE q # p
    BY <1>8, <1>11, <2>2, OthersDisturbed
  <2>3. QED
    BY <2>1, <2>2
<1>15. SeedsTypes'
  <2>1. runner' \in [Runners -> Comparisons]
    BY <1>1, <1>14
  <2>2. QED
    BY <1>1, <1>2, <1>5, <1>8, <2>1 DEF SeedsTypes
<1>16. QED
  BY <1>9, <1>14, <1>15 DEF SeedsInv

LEMMA TamperStep ==
  ASSUME SeedsAssumption, SeedsInv, NEW k \in AllSeeds, Tamper(k)
  PROVE  SeedsInv'
<1>1. /\ Exists(k) /\ tampered' = tampered + 1 /\ linked' = linked
      /\ \/ progress' = [progress EXCEPT ![k] = NoTrial]
         \/ progress' = [progress EXCEPT ![k].sealed = FALSE]
      /\ runner' = [q \in Runners |-> [runner[q] EXCEPT !.disturbed = @ \/ q \in Active]]
  BY DEF Tamper
<1>2. LinkedInv /\ SeedsTypes
  BY DEF SeedsInv
<1>3. progress[k] \in Evidence /\ progress \in [AllSeeds -> Evidence \union {NoTrial}] /\ tampered \in Nat
  BY <1>1, <1>2 DEF SeedsTypes, Exists
<1>4. PICK file \in Evidence \union {NoTrial} :
        /\ progress' = [progress EXCEPT ![k] = file]
        /\ file # NoTrial => file.trial = progress[k].trial
  <2>1. CASE progress' = [progress EXCEPT ![k] = NoTrial]
    BY <2>1
  <2>2. CASE progress' = [progress EXCEPT ![k].sealed = FALSE]
    <3>1. [progress[k] EXCEPT !.sealed = FALSE] \in Evidence
          /\ [progress[k] EXCEPT !.sealed = FALSE].trial = progress[k].trial
      BY <1>3 DEF Evidence
    <3>2. progress' = [progress EXCEPT ![k] = [progress[k] EXCEPT !.sealed = FALSE]]
      BY <2>2
    <3>3. QED
      BY <3>1, <3>2
  <2>3. QED
    BY <1>1, <2>1, <2>2
<1>5. /\ progress'[k] = file /\ \A i \in AllSeeds \ {k} : progress'[i] = progress[i]
      /\ progress' \in [AllSeeds -> Evidence \union {NoTrial}]
  BY <1>3, <1>4
<1>6. Existing' = (IF file = NoTrial THEN Existing \ {k} ELSE Existing) /\ k \in Existing
  <2>1. \A i \in AllSeeds : Exists(i)' <=> IF i = k THEN file # NoTrial ELSE Exists(i)
    BY <1>5 DEF Exists
  <2>2. QED
    BY <1>1, <2>1 DEF Existing
<1>7. LinkedInv'
  <2>1. IsFiniteSet(Existing)
    <3>1. IsFiniteSet(1..SeedCount)
      BY FS_Interval DEF SeedsAssumption
    <3>2. QED
      BY <3>1, FS_Subset DEF Existing, AllSeeds
  <2>2. Cardinality(Existing') \in {Cardinality(Existing), Cardinality(Existing) - 1}
    <3>1. CASE file = NoTrial
      BY <1>6, <2>1, <3>1, FS_RemoveElement
    <3>2. CASE file # NoTrial
      BY <1>6, <3>2
    <3>3. QED
      BY <3>1, <3>2
  <2>3. /\ Cardinality(Existing) \in Nat /\ Cardinality(linked) \in Nat
        /\ Cardinality(linked) =< Cardinality(Existing) + tampered
    BY <1>2, <2>1, FS_CardinalityType DEF LinkedInv
  <2>4. Cardinality(linked) =< Cardinality(Existing') + (tampered + 1)
    BY <1>3, <2>2, <2>3
  <2>5. ASSUME NEW i \in Existing' PROVE <<i, progress'[i].trial>> \in linked
    <3>1. i \in Existing /\ i \in AllSeeds
      BY <1>6, <2>5 DEF Existing
    <3>2. progress'[i].trial = progress[i].trial
      <4>1. CASE i = k
        <5>1. progress'[k] # NoTrial
          BY <2>5, <4>1 DEF Existing, Exists
        <5>2. QED
          BY <1>4, <1>5, <4>1, <5>1
      <4>2. CASE i # k
        BY <1>5, <3>1, <4>2
      <4>3. QED
        BY <4>1, <4>2
    <3>3. QED
      BY <1>2, <3>1, <3>2 DEF LinkedInv
  <2>6. QED
    BY <1>1, <1>2, <2>4, <2>5 DEF LinkedInv
<1>8. ASSUME NEW q \in Runners
      PROVE  runner'[q] \in Comparisons /\ TrialsInv(runner[q])' /\ ViewInv(runner[q])'
  <2>1. runner'[q] = [runner[q] EXCEPT !.disturbed = @ \/ q \in Active]
    BY <1>1
  <2>2. QED
    BY <1>1, <2>1, OthersDisturbed
<1>9. SeedsTypes'
  <2>1. runner' \in [Runners -> Comparisons]
    BY <1>1, <1>8
  <2>2. tampered' \in Nat
    BY <1>1, <1>3
  <2>3. QED
    BY <1>1, <1>2, <1>5, <2>1, <2>2 DEF SeedsTypes
<1>10. QED
  BY <1>7, <1>8, <1>9 DEF SeedsInv

LEMMA SeedsStep ==
  ASSUME SeedsAssumption, SeedsInv, [SeedsNext]_seedVars
  PROVE  SeedsInv'
<1>1. ASSUME NEW p \in Runners, NEW work \in Works, BeginComparison(p, work) PROVE SeedsInv'
  <2>1. /\ Becomes(p, [Resting EXCEPT !.at = "scanning", !.work = work])
        /\ progress' = progress /\ tampered' = tampered /\ linked' = linked
    BY <1>1 DEF BeginComparison
  <2>2. QED
    BY <2>1, RestingIsSound, RunnerMoves
<1>2. ASSUME NEW p \in Runners, Interrupt(p) PROVE SeedsInv'
  <2>1. Becomes(p, Resting) /\ progress' = progress /\ tampered' = tampered /\ linked' = linked
    BY <1>2 DEF Interrupt
  <2>2. QED
    BY <2>1, RestingIsSound, RunnerMoves
<1>3. CASE UNCHANGED seedVars
  BY <1>3 DEF seedVars, SeedsInv, SeedsTypes, LinkedInv, Existing, Exists, TrialsInv, Kept, ViewInv
<1>4. QED
  BY <1>1, <1>2, <1>3, ScanStep, ReuseStep, TrainStep, LostStep, CompareStep, LinkTrialStep, TamperStep
     DEF SeedsNext

LEMMA SeedsAreWhole ==
  ASSUME SeedsAssumption, SeedsInv
  PROVE  ReportsMatchProgress /\ RefusedBeforeTraining
<1>1. SeedsTypes /\ LinkedInv /\ \A p \in Runners : TrialsInv(runner[p]) /\ ViewInv(runner[p])
  BY DEF SeedsInv
<1>2. ASSUME NEW p \in Runners, runner[p].at = "reported", NEW i \in AllSeeds
      PROVE  runner[p].trials[i].work = runner[p].work /\ <<i, runner[p].trials[i]>> \in linked
  BY <1>1, <1>2 DEF TrialsInv, Kept, AllSeeds
<1>3. Cardinality(linked) <= SeedCount + tampered
  <2>1. SeedCount \in Nat /\ IsFiniteSet(AllSeeds) /\ Cardinality(AllSeeds) = SeedCount
    <3>1. SeedCount \in Nat /\ ~(1 > SeedCount)
      BY DEF SeedsAssumption
    <3>2. IsFiniteSet(1..SeedCount) /\ Cardinality(1..SeedCount) = SeedCount - 1 + 1
      BY <3>1, FS_Interval
    <3>3. QED
      BY <3>1, <3>2 DEF AllSeeds
  <2>2. IsFiniteSet(Existing) /\ Cardinality(Existing) <= SeedCount
    BY <2>1, FS_Subset DEF Existing
  <2>3. /\ Cardinality(linked) \in Nat /\ Cardinality(Existing) \in Nat /\ tampered \in Nat
        /\ Cardinality(linked) =< Cardinality(Existing) + tampered
    BY <1>1, <2>2, FS_CardinalityType DEF LinkedInv, SeedsTypes
  <2>4. QED
    BY <2>1, <2>2, <2>3
<1>4. ASSUME NEW p \in Runners, runner[p].at = "refused", runner[p].trained PROVE runner[p].disturbed
  <2>1. runner[p].disturbed \in BOOLEAN
    BY <1>1 DEF SeedsTypes, Comparisons
  <2>2. runner[p].disturbed # FALSE
    BY <1>1, <1>4 DEF ViewInv
  <2>3. QED
    BY <2>1, <2>2
<1>5. QED
  BY <1>2, <1>3, <1>4 DEF ReportsMatchProgress, RefusedBeforeTraining

-------------------------------------------------------------------------------
(* A run directory and its operators                                          *)

Whence == ScheduleSteps + 3

\* A journal is a beginning of an execution's events, and ends with the last of them.
Shape(j) ==
  /\ j \in Seq(Events)
  /\ Len(j) \in 1..Whence
  /\ \A i \in 1..Len(j) : j[i].kind = "completed" <=> i = Whence

\* The journal names the files beside it.
NamesFiles ==
  /\ Len(journal) >= Whence - 1 => journal[Whence - 1].digest = checkpointFile
  /\ Len(journal) = Whence => journal[Whence].digest = reportFile /\ checkpointFile = reportFile

JournalInv ==
  /\ journal = Missing \/ (Shape(journal) /\ NamesFiles)
  /\ bundle # Missing => Shape(journal)

\* What an operator that is alone knows of the directory.
OperatorInv(o) ==
  LET at == command[o] IN
  /\ at # "idle" => Shape(journal)
  /\ at \notin {"appending", "hashing", "sealing"} => read[o] = Missing
  /\ at \in {"training", "reporting"} => Len(journal) = 1 /\ appended[o] = 0
  /\ at = "reporting" => checkpointFile = execution[o]
  /\ at \in {"journaling", "appending"} =>
       /\ Len(journal) = appended[o] + 1 /\ appended[o] =< ScheduleSteps + 1
       /\ checkpointFile = execution[o] /\ reportFile = execution[o]
  /\ at = "appending" => read[o] = Append(journal, NextEvent(o))
  /\ at \in {"hashing", "sealing"} => Complete(journal)
  /\ at = "hashing" =>
       read[o] \in {Missing, [Index EXCEPT !.journal = Missing, !.report = Missing],
                    [Index EXCEPT !.report = Missing]}
  /\ at = "sealing" => read[o] = Index

DirectoryTypes ==
  /\ command \in [Operators -> Commands]
  /\ execution \in [Operators -> Nat] /\ executions \in Nat
  /\ time \in [Operators -> Times]
  /\ DOMAIN read = Operators
  /\ appended \in [Operators -> Nat]
  /\ overlap \in BOOLEAN

DirectoryInv ==
  /\ DirectoryTypes
  /\ overlap = FALSE =>
       /\ JournalInv
       /\ \A o \in Operators : OperatorInv(o)
       /\ \A o, other \in Operators : Busy(o) /\ Busy(other) => o = other

LEMMA DirectoryTypesStep ==
  ASSUME DirectoryTypes, [OperatorNext]_operatorVars
  PROVE  DirectoryTypes'
<1> USE DEF DirectoryTypes, Commands
<1>1. CASE UNCHANGED operatorVars
  BY <1>1 DEF operatorVars
<1>2. ASSUME NEW o \in Operators, NEW at \in Times, Initialize(o, at) PROVE DirectoryTypes'
  BY <1>2 DEF Initialize, Enter
<1>3. ASSUME NEW o \in Operators, NEW at \in Times, Execute(o, at) PROVE DirectoryTypes'
  BY <1>3 DEF Execute, Enter, Proceed
<1>4. ASSUME NEW o \in Operators, ReplaceCheckpoint(o) PROVE DirectoryTypes'
  BY <1>4 DEF ReplaceCheckpoint, Proceed
<1>5. ASSUME NEW o \in Operators, ReplaceReport(o) PROVE DirectoryTypes'
  BY <1>5 DEF ReplaceReport, Proceed
<1>6. ASSUME NEW o \in Operators, ReadJournal(o) PROVE DirectoryTypes'
  BY <1>6 DEF ReadJournal, Proceed, directory
<1>7. ASSUME NEW o \in Operators, NotContiguous(o) PROVE DirectoryTypes'
  BY <1>7 DEF NotContiguous, Proceed, directory
<1>8. ASSUME NEW o \in Operators, WriteJournal(o) PROVE DirectoryTypes'
  BY <1>8 DEF WriteJournal, Proceed
<1>9. ASSUME NEW o \in Operators, Finalize(o) PROVE DirectoryTypes'
  BY <1>9 DEF Finalize, Enter, Proceed, directory
<1>10. ASSUME NEW o \in Operators, Admit(o) PROVE DirectoryTypes'
  BY <1>10 DEF Admit, Proceed, directory
<1>11. ASSUME NEW o \in Operators, Hash(o) PROVE DirectoryTypes'
  BY <1>11 DEF Hash, Proceed, directory
<1>12. ASSUME NEW o \in Operators, Seal(o) PROVE DirectoryTypes'
  BY <1>12 DEF Seal, Proceed
<1>13. ASSUME NEW o \in Operators, CutShort(o) PROVE DirectoryTypes'
  BY <1>13 DEF CutShort, Proceed, directory
<1>14. QED
  BY <1>1, <1>2, <1>3, <1>4, <1>5, <1>6, <1>7, <1>8, <1>9, <1>10, <1>11, <1>12, <1>13 DEF OperatorNext

LEMMA ShapeIsThere == ASSUME Project1Assumption, NEW j, Shape(j) PROVE j # Missing
BY DEF Project1Assumption, Shape, Events

\* A journal is complete only with the last event of an execution.
LEMMA CompleteIsWhole ==
  ASSUME Project1Assumption, Shape(journal), Complete(journal)
  PROVE  Len(journal) = Whence
<1>1. Len(journal) \in 1..Len(journal) /\ journal[Len(journal)].kind = "completed"
  BY DEF Complete, Shape, Last
<1>2. QED
  BY <1>1 DEF Shape

LEMMA FirstEvent ==
  ASSUME Project1Assumption, NEW at \in Times
  PROVE  Shape(<<Event("started", 0, at, 0)>>)
<1>1. Event("started", 0, at, 0) \in Events /\ Event("started", 0, at, 0).kind = "started"
  BY DEF Event, Events, Kinds
<1>2. Whence \in Nat /\ Whence >= 4
  BY DEF Whence, Project1Assumption
<1> DEFINE e == Event("started", 0, at, 0)
<1> HIDE DEF e, Whence
<1>3. <<e>> \in Seq(Events) /\ Len(<<e>>) = 1 /\ <<e>>[1] = e
  BY <1>1 DEF e
<1>4. e.kind # "completed"
  BY <1>1 DEF e
<1>5. Shape(<<e>>)
  BY <1>2, <1>3, <1>4 DEF Shape
<1>6. QED
  BY <1>5 DEF e

\* An event that an operator appends is the next of a journal that has the others.
LEMMA EventAppended ==
  ASSUME Project1Assumption, DirectoryTypes, Shape(journal), NEW o \in Operators,
         Len(journal) = appended[o] + 1, appended[o] =< ScheduleSteps + 1,
         checkpointFile = execution[o]
  PROVE  LET j == Append(journal, NextEvent(o)) IN
         /\ Shape(j) /\ Len(j) = appended[o] + 2
         /\ Len(j) = Whence - 1 => j[Whence - 1].digest = checkpointFile
         /\ Len(j) = Whence => /\ j[Whence].digest = execution[o]
                               /\ j[Whence - 1] = journal[Whence - 1]
<1> DEFINE e == NextEvent(o)
           j == Append(journal, e)
           n == appended[o] + 1
<1>1. /\ ScheduleSteps \in Nat \ {0} /\ appended[o] \in Nat /\ execution[o] \in Nat /\ time[o] \in Times
      /\ checkpointFile \in Nat
  BY DEF Project1Assumption, DirectoryTypes
<1>2. /\ e \in Events
      /\ e.kind = "completed" <=> n = ScheduleSteps + 2
      /\ n = ScheduleSteps + 1 => e.digest = checkpointFile
      /\ n = ScheduleSteps + 2 => e.digest = execution[o]
  <2>1. CASE n <= ScheduleSteps
    BY <1>1, <2>1 DEF NextEvent, Event, Events, Kinds
  <2>2. CASE n = ScheduleSteps + 1
    BY <1>1, <2>2 DEF NextEvent, Event, Events, Kinds
  <2>3. CASE n = ScheduleSteps + 2
    BY <1>1, <2>3 DEF NextEvent, Event, Events, Kinds
  <2>4. QED
    BY <1>1, <2>1, <2>2, <2>3
<1> HIDE DEF e
<1>3. /\ journal \in Seq(Events) /\ Len(journal) = n
      /\ \A i \in 1..n : journal[i].kind = "completed" <=> i = Whence
  BY DEF Shape
<1>4. /\ j \in Seq(Events) /\ Len(j) = n + 1 /\ j[n + 1] = e
      /\ \A i \in 1..n : j[i] = journal[i]
  BY <1>1, <1>2, <1>3
<1> HIDE DEF j
<1>5. Shape(j)
  <2>1. Len(j) \in 1..Whence
    BY <1>1, <1>4 DEF Whence
  <2>2. ASSUME NEW i \in 1..Len(j) PROVE j[i].kind = "completed" <=> i = Whence
    <3>1. CASE i = n + 1
      BY <1>1, <1>2, <1>4, <3>1 DEF Whence
    <3>2. CASE i # n + 1
      <4>1. i \in 1..n
        BY <1>1, <1>4, <3>2
      <4>2. QED
        BY <1>3, <1>4, <4>1
    <3>3. QED
      BY <3>1, <3>2
  <2>3. QED
    BY <1>4, <2>1, <2>2 DEF Shape
<1>6. /\ Len(j) = appended[o] + 2
      /\ Len(j) = Whence - 1 => j[Whence - 1].digest = checkpointFile
  BY <1>1, <1>2, <1>4 DEF Whence
<1>7. ASSUME Len(j) = Whence PROVE j[Whence].digest = execution[o] /\ j[Whence - 1] = journal[Whence - 1]
  <2>1. n + 1 = Whence /\ n = ScheduleSteps + 2 /\ Whence - 1 \in 1..n
    BY <1>1, <1>4, <1>7 DEF Whence
  <2>2. QED
    BY <1>2, <1>4, <2>1
<1>8. QED
  BY <1>5, <1>6, <1>7 DEF j, e

\* An operator moves while the others are idle.
LEMMA AloneMoves ==
  ASSUME DirectoryTypes', overlap = FALSE, DirectoryInv, NEW o \in Operators,
         \A q \in Operators \ {o} : command[q] = "idle" /\ command'[q] = "idle" /\ read'[q] = read[q],
         JournalInv', OperatorInv(o)'
  PROVE  DirectoryInv'
<1>1. ASSUME NEW q \in Operators, q # o PROVE OperatorInv(q)'
  <2>1. command'[q] = "idle" /\ read'[q] = read[q] /\ command[q] = "idle"
    BY <1>1
  <2>2. read[q] = Missing
    BY <2>1 DEF DirectoryInv, OperatorInv
  <2>3. QED
    BY <2>1, <2>2 DEF OperatorInv
<1>2. \A q \in Operators : Busy(q)' => q = o
  BY DEF Busy
<1>3. \A q \in Operators : OperatorInv(q)'
  BY <1>1
<1>4. QED
  BY <1>2, <1>3 DEF DirectoryInv

LEMMA Alone ==
  ASSUME DirectoryInv, overlap = FALSE, NEW o \in Operators, Busy(o)
  PROVE  \A q \in Operators \ {o} : command[q] = "idle"
BY DEF DirectoryInv, Busy

\* One lemma per action of an operator that is alone.
LEMMA InitializeStep ==
  ASSUME Project1Assumption, DirectoryInv, DirectoryTypes', overlap' = FALSE,
         NEW o \in Operators, NEW at \in Times, Initialize(o, at)
  PROVE  DirectoryInv'
<1>1. /\ command[o] = "idle" /\ journal = Missing /\ journal' = <<Event("started", 0, at, 0)>>
      /\ overlap = FALSE /\ \A q \in Operators \ {o} : ~Busy(q)
      /\ UNCHANGED <<checkpointFile, reportFile, bundle, command, read, execution, appended>>
  BY DEF Initialize, Enter, DirectoryInv, DirectoryTypes
<1>2. Shape(journal') /\ Len(journal') = 1
  BY <1>1, FirstEvent
<1>3. JournalInv'
  <2>1. Whence - 1 > 1
    BY DEF Whence, Project1Assumption
  <2>2. NamesFiles'
    BY <1>2, <2>1 DEF NamesFiles, Whence
  <2>3. QED
    BY <1>2, <2>2 DEF JournalInv, Shape, Whence
<1>4. OperatorInv(o)'
  BY <1>1 DEF OperatorInv, DirectoryInv
<1>5. \A q \in Operators \ {o} : command[q] = "idle" /\ command'[q] = "idle" /\ read'[q] = read[q]
  BY <1>1 DEF Busy
<1>6. QED
  BY <1>1, <1>3, <1>4, <1>5, AloneMoves

LEMMA ExecuteStep ==
  ASSUME Project1Assumption, DirectoryInv, DirectoryTypes', overlap' = FALSE,
         NEW o \in Operators, NEW at \in Times, Execute(o, at)
  PROVE  DirectoryInv'
<1>1. /\ command[o] = "idle" /\ journal # Missing /\ Untouched(journal)
      /\ command' = [command EXCEPT ![o] = "training"]
      /\ appended' = [appended EXCEPT ![o] = 0]
      /\ overlap = FALSE /\ \A q \in Operators \ {o} : ~Busy(q)
      /\ UNCHANGED <<journal, checkpointFile, reportFile, bundle, read>>
  BY DEF Execute, Enter, Proceed, directory, DirectoryInv, DirectoryTypes
<1>2. DirectoryTypes /\ JournalInv /\ OperatorInv(o)
  BY <1>1 DEF DirectoryInv
<1>3. command'[o] = "training" /\ appended'[o] = 0 /\ \A q \in Operators \ {o} : command'[q] = command[q]
  BY <1>1, <1>2 DEF DirectoryTypes
<1>4. JournalInv'
  BY <1>1, <1>2 DEF JournalInv, NamesFiles, Shape, Whence
<1>5. OperatorInv(o)'
  <2>1. Shape(journal) /\ read[o] = Missing /\ Len(journal) = 1
    BY <1>1, <1>2 DEF JournalInv, OperatorInv, Untouched
  <2>2. Shape(journal)' /\ read'[o] = Missing /\ Len(journal') = 1
    BY <1>1, <2>1 DEF Shape, Whence
  <2>3. QED
    BY <1>3, <2>2 DEF OperatorInv
<1>6. \A q \in Operators \ {o} : command[q] = "idle" /\ command'[q] = "idle" /\ read'[q] = read[q]
  BY <1>1, <1>3 DEF Busy
<1>7. QED
  BY <1>1, <1>4, <1>5, <1>6, AloneMoves

\* The files are replaced while the journal has its first event only.
LEMMA ReplaceCheckpointStep ==
  ASSUME Project1Assumption, DirectoryInv, DirectoryTypes', overlap' = FALSE,
         NEW o \in Operators, ReplaceCheckpoint(o)
  PROVE  DirectoryInv'
<1>1. /\ command[o] = "training" /\ checkpointFile' = execution[o]
      /\ command' = [command EXCEPT ![o] = "reporting"] /\ overlap = FALSE
      /\ UNCHANGED <<journal, reportFile, bundle, read, execution, appended>>
  BY DEF ReplaceCheckpoint, Proceed
<1>2. DirectoryTypes /\ JournalInv /\ OperatorInv(o) /\ \A q \in Operators \ {o} : command[q] = "idle"
  BY <1>1, Alone DEF DirectoryInv, Busy
<1>3. command'[o] = "reporting" /\ \A q \in Operators \ {o} : command'[q] = command[q]
  BY <1>1, <1>2 DEF DirectoryTypes
<1>4. Shape(journal) /\ Len(journal) = 1 /\ appended[o] = 0 /\ read[o] = Missing
  BY <1>1, <1>2 DEF OperatorInv
<1>5. Shape(journal)'
  BY <1>1, <1>4 DEF Shape, Whence
<1>6. NamesFiles'
  BY <1>1, <1>4 DEF NamesFiles, Whence, Project1Assumption
<1>7. OperatorInv(o)'
  BY <1>1, <1>3, <1>4, <1>5 DEF OperatorInv
<1>8. QED
  BY <1>1, <1>2, <1>3, <1>5, <1>6, <1>7, AloneMoves DEF JournalInv

LEMMA ReplaceReportStep ==
  ASSUME Project1Assumption, DirectoryInv, DirectoryTypes', overlap' = FALSE,
         NEW o \in Operators, ReplaceReport(o)
  PROVE  DirectoryInv'
<1>1. /\ command[o] = "reporting" /\ reportFile' = execution[o]
      /\ command' = [command EXCEPT ![o] = "journaling"] /\ overlap = FALSE
      /\ UNCHANGED <<journal, checkpointFile, bundle, read, execution, appended>>
  BY DEF ReplaceReport, Proceed
<1>2. DirectoryTypes /\ JournalInv /\ OperatorInv(o) /\ \A q \in Operators \ {o} : command[q] = "idle"
  BY <1>1, Alone DEF DirectoryInv, Busy
<1>3. command'[o] = "journaling" /\ \A q \in Operators \ {o} : command'[q] = command[q]
  BY <1>1, <1>2 DEF DirectoryTypes
<1>4. /\ Shape(journal) /\ Len(journal) = 1 /\ appended[o] = 0 /\ read[o] = Missing
      /\ checkpointFile = execution[o]
  BY <1>1, <1>2 DEF OperatorInv
<1>5. Shape(journal)'
  BY <1>1, <1>4 DEF Shape, Whence
<1>6. NamesFiles'
  BY <1>1, <1>4 DEF NamesFiles, Whence, Project1Assumption
<1>7. OperatorInv(o)'
  BY <1>1, <1>3, <1>4, <1>5 DEF OperatorInv, Project1Assumption
<1>8. QED
  BY <1>1, <1>2, <1>3, <1>5, <1>6, <1>7, AloneMoves DEF JournalInv

LEMMA ReadJournalStep ==
  ASSUME Project1Assumption, DirectoryInv, DirectoryTypes', overlap' = FALSE,
         NEW o \in Operators, ReadJournal(o)
  PROVE  DirectoryInv'
<1>1. /\ command[o] = "journaling" /\ Len(journal) = appended[o] + 1
      /\ read' = [read EXCEPT ![o] = Append(journal, NextEvent(o))]
      /\ command' = [command EXCEPT ![o] = "appending"] /\ overlap = FALSE
      /\ UNCHANGED <<journal, checkpointFile, reportFile, bundle, execution, time, appended>>
  BY DEF ReadJournal, Proceed, directory
<1>2. DirectoryTypes /\ JournalInv /\ OperatorInv(o) /\ \A q \in Operators \ {o} : command[q] = "idle"
  BY <1>1, Alone DEF DirectoryInv, Busy
<1>3. /\ command'[o] = "appending" /\ read'[o] = Append(journal, NextEvent(o))
      /\ \A q \in Operators \ {o} : command'[q] = command[q] /\ read'[q] = read[q]
  BY <1>1, <1>2 DEF DirectoryTypes
<1>4. read'[o] = Append(journal', NextEvent(o)')
  BY <1>1, <1>3 DEF NextEvent
<1>5. JournalInv'
  BY <1>1, <1>2 DEF JournalInv, NamesFiles, Shape, Whence
<1>6. /\ Shape(journal) /\ appended[o] =< ScheduleSteps + 1
      /\ checkpointFile = execution[o] /\ reportFile = execution[o]
  BY <1>1, <1>2 DEF OperatorInv
<1>7. Shape(journal)'
  BY <1>1, <1>6 DEF Shape, Whence
<1>8. OperatorInv(o)'
  BY <1>1, <1>3, <1>4, <1>6, <1>7 DEF OperatorInv
<1>9. QED
  BY <1>1, <1>2, <1>3, <1>5, <1>8, AloneMoves

LEMMA WriteJournalStep ==
  ASSUME Project1Assumption, DirectoryInv, DirectoryTypes', overlap' = FALSE,
         NEW o \in Operators, WriteJournal(o)
  PROVE  DirectoryInv'
<1> DEFINE next == IF appended[o] + 1 = ScheduleSteps + 2 THEN "admitting" ELSE "journaling"
<1>1. /\ command[o] = "appending" /\ journal' = read[o]
      /\ read' = [read EXCEPT ![o] = Missing] /\ appended' = [appended EXCEPT ![o] = @ + 1]
      /\ command' = [command EXCEPT ![o] = next] /\ overlap = FALSE
      /\ UNCHANGED <<checkpointFile, reportFile, bundle, execution>>
  BY DEF WriteJournal, Proceed
<1>2. DirectoryTypes /\ JournalInv /\ OperatorInv(o) /\ \A q \in Operators \ {o} : command[q] = "idle"
  BY <1>1, Alone DEF DirectoryInv, Busy
<1>3. /\ command'[o] = next /\ read'[o] = Missing /\ appended'[o] = appended[o] + 1
      /\ \A q \in Operators \ {o} : command'[q] = command[q] /\ read'[q] = read[q]
  BY <1>1, <1>2 DEF DirectoryTypes
<1>4. /\ Shape(journal) /\ Len(journal) = appended[o] + 1 /\ appended[o] =< ScheduleSteps + 1
      /\ checkpointFile = execution[o] /\ reportFile = execution[o]
      /\ read[o] = Append(journal, NextEvent(o))
  BY <1>1, <1>2 DEF OperatorInv
<1>5. /\ Shape(journal') /\ Len(journal') = appended[o] + 2
      /\ Len(journal') = Whence - 1 => journal'[Whence - 1].digest = checkpointFile
      /\ Len(journal') = Whence => /\ journal'[Whence].digest = execution[o]
                                   /\ journal'[Whence - 1] = journal[Whence - 1]
  BY <1>1, <1>2, <1>4, EventAppended
<1>6. appended[o] \in Nat /\ ScheduleSteps \in Nat
  BY <1>2 DEF DirectoryTypes, Project1Assumption
<1>7. Len(journal') = Whence => journal[Whence - 1].digest = checkpointFile
  <2>1. SUFFICES ASSUME Len(journal') = Whence PROVE journal[Whence - 1].digest = checkpointFile
    OBVIOUS
  <2>2. Len(journal) >= Whence - 1
    BY <1>4, <1>5, <1>6, <2>1 DEF Whence
  <2>3. NamesFiles
    BY <1>2, <1>4, ShapeIsThere DEF JournalInv
  <2>4. QED
    BY <2>2, <2>3 DEF NamesFiles
<1>8. NamesFiles'
  <2>1. Len(journal') >= Whence - 1 => Len(journal') = Whence - 1 \/ Len(journal') = Whence
    BY <1>4, <1>5, <1>6 DEF Whence
  <2>2. Whence' = Whence
    BY DEF Whence
  <2>3. QED
    BY <1>1, <1>4, <1>5, <1>7, <2>1, <2>2 DEF NamesFiles
<1>9. Shape(journal)'
  BY <1>5 DEF Shape, Whence
<1>10. OperatorInv(o)'
  <2>1. CASE next = "admitting"
    BY <1>3, <1>9, <2>1 DEF OperatorInv
  <2>2. CASE next = "journaling"
    <3>1. appended[o] + 1 # ScheduleSteps + 2
      BY <2>2
    <3>2. Len(journal') = appended'[o] + 1 /\ appended'[o] =< ScheduleSteps + 1
      <4>1. appended[o] =< ScheduleSteps + 1 /\ Len(journal') = appended[o] + 2
        BY <1>4, <1>5
      <4>2. appended[o] + 1 =< ScheduleSteps + 1 /\ appended[o] + 2 = (appended[o] + 1) + 1
        BY <1>6, <3>1, <4>1
      <4>3. QED
        BY <1>3, <4>1, <4>2
    <3>3. checkpointFile' = execution'[o] /\ reportFile' = execution'[o]
      BY <1>1, <1>4
    <3> HIDE DEF next
    <3>4. QED
      BY <1>3, <1>9, <2>2, <3>2, <3>3 DEF OperatorInv
  <2>3. QED
    BY <2>1, <2>2
<1>11. JournalInv'
  BY <1>8, <1>9 DEF JournalInv
<1>12. \A q \in Operators \ {o} : command[q] = "idle" /\ command'[q] = "idle" /\ read'[q] = read[q]
  BY <1>2, <1>3
<1>13. QED
  BY <1>1, <1>10, <1>11, <1>12, AloneMoves

\* A command ends, or is cut short.
LEMMA EndStep ==
  ASSUME Project1Assumption, DirectoryInv, DirectoryTypes', overlap' = FALSE, overlap = FALSE,
         NEW o \in Operators, Busy(o), command' = [command EXCEPT ![o] = "idle"],
         read'[o] = Missing, \A q \in Operators \ {o} : read'[q] = read[q],
         UNCHANGED <<journal, checkpointFile, reportFile>>, bundle' # Missing => Shape(journal)
  PROVE  DirectoryInv'
<1>1. DirectoryTypes /\ JournalInv /\ \A q \in Operators \ {o} : command[q] = "idle"
  BY Alone DEF DirectoryInv
<1>2. command'[o] = "idle" /\ \A q \in Operators \ {o} : command'[q] = command[q]
  BY <1>1 DEF DirectoryTypes
<1>3. JournalInv'
  BY <1>1 DEF JournalInv, NamesFiles, Shape, Whence
<1>4. OperatorInv(o)'
  BY <1>2 DEF OperatorInv
<1>5. QED
  BY <1>1, <1>2, <1>3, <1>4, AloneMoves

LEMMA FinalizeStep ==
  ASSUME Project1Assumption, DirectoryInv, DirectoryTypes', overlap' = FALSE,
         NEW o \in Operators, Finalize(o)
  PROVE  DirectoryInv'
<1>1. /\ command[o] = "idle" /\ journal # Missing /\ command' = [command EXCEPT ![o] = "admitting"]
      /\ overlap = FALSE /\ \A q \in Operators \ {o} : ~Busy(q)
      /\ UNCHANGED <<journal, checkpointFile, reportFile, bundle, read>>
  BY DEF Finalize, Enter, Proceed, directory, DirectoryInv, DirectoryTypes
<1>2. DirectoryTypes /\ JournalInv /\ OperatorInv(o)
  BY <1>1 DEF DirectoryInv
<1>3. command'[o] = "admitting" /\ \A q \in Operators \ {o} : command'[q] = command[q]
  BY <1>1, <1>2 DEF DirectoryTypes
<1>4. JournalInv'
  BY <1>1, <1>2 DEF JournalInv, NamesFiles, Shape, Whence
<1>5. Shape(journal)' /\ read'[o] = Missing
  BY <1>1, <1>2 DEF JournalInv, OperatorInv, Shape, Whence
<1>6. OperatorInv(o)'
  BY <1>3, <1>5 DEF OperatorInv
<1>7. QED
  BY <1>1, <1>3, <1>4, <1>6, AloneMoves DEF Busy

LEMMA AdmitStep ==
  ASSUME Project1Assumption, DirectoryInv, DirectoryTypes', overlap' = FALSE,
         NEW o \in Operators, Admit(o)
  PROVE  DirectoryInv'
<1>1. /\ command[o] = "admitting" /\ command' = [command EXCEPT ![o] = IF Sealable THEN "hashing" ELSE "idle"]
      /\ overlap = FALSE
      /\ UNCHANGED <<journal, checkpointFile, reportFile, bundle, read>>
  BY DEF Admit, Proceed, directory
<1>2. DirectoryTypes /\ JournalInv /\ OperatorInv(o) /\ \A q \in Operators \ {o} : command[q] = "idle"
  BY <1>1, Alone DEF DirectoryInv, Busy
<1>3. Shape(journal) /\ read[o] = Missing
  BY <1>1, <1>2 DEF OperatorInv
<1>4. CASE Sealable
  <2>1. command'[o] = "hashing" /\ \A q \in Operators \ {o} : command'[q] = command[q]
    BY <1>1, <1>2, <1>4 DEF DirectoryTypes
  <2>2. Complete(journal)
    BY <1>4 DEF Sealable
  <2>3. Complete(journal)' /\ Shape(journal)' /\ JournalInv'
    BY <1>1, <1>2, <1>3, <2>2 DEF Complete, Reducible, Follows, Shape, JournalInv, NamesFiles, Whence
  <2>4. OperatorInv(o)'
    BY <1>1, <1>3, <2>1, <2>3 DEF OperatorInv
  <2>5. QED
    BY <1>1, <1>2, <2>1, <2>3, <2>4, AloneMoves
<1>5. CASE ~Sealable
  BY <1>1, <1>3, <1>5, EndStep DEF Busy
<1>6. QED
  BY <1>4, <1>5

\* The index is made of the files as they are: nobody replaces them meanwhile.
LEMMA HashStep ==
  ASSUME Project1Assumption, DirectoryInv, DirectoryTypes', overlap' = FALSE,
         NEW o \in Operators, Hash(o)
  PROVE  DirectoryInv'
<1> DEFINE first == [Index EXCEPT !.journal = Missing, !.report = Missing]
           second == [Index EXCEPT !.report = Missing]
<1>1. /\ command[o] = "hashing" /\ overlap = FALSE
      /\ UNCHANGED <<journal, checkpointFile, reportFile, bundle>>
  BY DEF Hash, directory
<1>2. DirectoryTypes /\ JournalInv /\ OperatorInv(o) /\ \A q \in Operators \ {o} : command[q] = "idle"
  BY <1>1, Alone DEF DirectoryInv, Busy
<1>3. Shape(journal) /\ Complete(journal) /\ read[o] \in {Missing, first, second} /\ journal # Missing
  BY <1>1, <1>2, ShapeIsThere DEF OperatorInv
<1>4. Complete(journal)' /\ Shape(journal)' /\ JournalInv' /\ Index' = Index
  BY <1>1, <1>2, <1>3 DEF Complete, Reducible, Follows, Shape, JournalInv, NamesFiles, Whence, Index
<1>5. /\ first.journal = Missing /\ second.journal = journal
      /\ [first EXCEPT !.journal = journal] = second /\ [second EXCEPT !.report = reportFile] = Index
  <2>1. /\ first = [checkpoint |-> checkpointFile, journal |-> Missing, report |-> Missing]
        /\ second = [checkpoint |-> checkpointFile, journal |-> journal, report |-> Missing]
    <3>1. second = [checkpoint |-> checkpointFile, journal |-> journal, report |-> Missing]
      BY DEF Index
    <3>2. first = [checkpoint |-> checkpointFile, journal |-> Missing, report |-> Missing]
      <4> DEFINE half == [Index EXCEPT !.journal = Missing]
      <4>1. first = [half EXCEPT !.report = Missing]
        OBVIOUS
      <4>2. half = [checkpoint |-> checkpointFile, journal |-> Missing, report |-> reportFile]
        BY DEF Index
      <4> HIDE DEF half, first
      <4>3. QED
        BY <4>1, <4>2
    <3>3. QED
      BY <3>1, <3>2
  <2> HIDE DEF first, second
  <2>2. first.journal = Missing /\ second.journal = journal
    BY <2>1
  <2>3. [first EXCEPT !.journal = journal] = second
    BY <2>1
  <2>4. [second EXCEPT !.report = reportFile] = Index
    BY <2>1 DEF Index
  <2>5. QED
    BY <2>2, <2>3, <2>4
<1>6. /\ \A q \in Operators \ {o} : command'[q] = command[q] /\ read'[q] = read[q]
      /\ \/ command'[o] = "hashing" /\ read'[o] \in {first, second}
         \/ command'[o] = "sealing" /\ read'[o] = Index
  <2> HIDE DEF first, second
  <2>1. CASE read[o] = Missing /\ read' = [read EXCEPT ![o] = first] /\ command' = command
    BY <1>1, <1>2, <2>1 DEF DirectoryTypes
  <2>2. CASE /\ read[o] # Missing /\ read[o].journal = Missing
             /\ read' = [read EXCEPT ![o].journal = journal] /\ command' = command
    <3>1. read'[o] = [read[o] EXCEPT !.journal = journal] /\ \A q \in Operators \ {o} : read'[q] = read[q]
      BY <1>2, <2>2 DEF DirectoryTypes
    <3>2. read[o] = first
      BY <1>3, <1>5, <2>2
    <3>3. QED
      BY <1>1, <1>5, <2>2, <3>1, <3>2
  <2>3. CASE /\ read[o] # Missing /\ read[o].journal # Missing
             /\ read' = [read EXCEPT ![o].report = reportFile]
             /\ command' = [command EXCEPT ![o] = "sealing"]
    <3>1. read'[o] = [read[o] EXCEPT !.report = reportFile] /\ \A q \in Operators \ {o} : read'[q] = read[q]
      BY <1>2, <2>3 DEF DirectoryTypes
    <3>2. command'[o] = "sealing" /\ \A q \in Operators \ {o} : command'[q] = command[q]
      BY <1>2, <2>3 DEF DirectoryTypes
    <3>3. read[o] = second
      BY <1>3, <1>5, <2>3
    <3>4. QED
      BY <1>5, <3>1, <3>2, <3>3
  <2>4. QED
    BY <2>1, <2>2, <2>3 DEF Hash, Proceed, first
<1>7. first' = first /\ second' = second
  BY <1>4
<1>8. OperatorInv(o)'
  <2>1. CASE command'[o] = "hashing" /\ read'[o] \in {first, second}
    BY <1>4, <1>7, <2>1 DEF OperatorInv
  <2>2. CASE command'[o] = "sealing" /\ read'[o] = Index
    BY <1>4, <2>2 DEF OperatorInv
  <2>3. QED
    BY <1>6, <2>1, <2>2
<1>9. QED
  BY <1>1, <1>2, <1>4, <1>6, <1>8, AloneMoves

LEMMA DirectoryStep ==
  ASSUME Project1Assumption, DirectoryInv, [OperatorNext]_operatorVars
  PROVE  DirectoryInv'
<1>1. DirectoryTypes'
  BY DirectoryTypesStep DEF DirectoryInv
<1>2. SUFFICES ASSUME overlap' = FALSE PROVE DirectoryInv'
  BY <1>1 DEF DirectoryInv
<1>3. CASE UNCHANGED operatorVars
  BY <1>3 DEF operatorVars, directory, DirectoryInv, DirectoryTypes, JournalInv, OperatorInv, NamesFiles,
     Shape, Whence, Complete, Reducible, Follows, Index, Busy, NextEvent
<1>4. ASSUME NEW o \in Operators, NotContiguous(o) PROVE DirectoryInv'
  <2>1. /\ command[o] = "journaling" /\ Len(journal) # appended[o] + 1
        /\ overlap = FALSE
    BY <1>2, <1>4 DEF NotContiguous
  <2>2. QED
    BY <2>1 DEF DirectoryInv, OperatorInv
<1>5. ASSUME NEW o \in Operators, Seal(o) PROVE DirectoryInv'
  <2>1. /\ command[o] = "sealing" /\ command' = [command EXCEPT ![o] = "idle"] /\ overlap = FALSE
        /\ read' = [read EXCEPT ![o] = Missing]
        /\ UNCHANGED <<journal, checkpointFile, reportFile>>
    BY <1>2, <1>5 DEF Seal, Proceed
  <2>2. Shape(journal) /\ DOMAIN read = Operators
    BY <2>1 DEF DirectoryInv, OperatorInv, DirectoryTypes
  <2>3. read'[o] = Missing /\ \A q \in Operators \ {o} : read'[q] = read[q]
    BY <2>1, <2>2
  <2>4. QED
    BY <1>1, <1>2, <2>1, <2>2, <2>3, EndStep DEF Busy
<1>6. ASSUME NEW o \in Operators, CutShort(o) PROVE DirectoryInv'
  <2>1. /\ Busy(o) /\ command' = [command EXCEPT ![o] = "idle"] /\ overlap = FALSE
        /\ read' = [read EXCEPT ![o] = Missing]
        /\ UNCHANGED <<journal, checkpointFile, reportFile, bundle>>
    BY <1>2, <1>6 DEF CutShort, Proceed, directory
  <2>2. JournalInv /\ DOMAIN read = Operators
    BY <2>1 DEF DirectoryInv, DirectoryTypes
  <2>3. read'[o] = Missing /\ \A q \in Operators \ {o} : read'[q] = read[q]
    BY <2>1, <2>2
  <2>4. bundle' # Missing => Shape(journal)
    BY <2>1, <2>2 DEF JournalInv
  <2>5. QED
    BY <1>1, <1>2, <2>1, <2>3, <2>4, EndStep
<1>7. QED
  BY <1>1, <1>2, <1>3, <1>4, <1>5, <1>6, InitializeStep, ExecuteStep, ReplaceCheckpointStep,
     ReplaceReportStep, ReadJournalStep, WriteJournalStep, FinalizeStep, AdmitStep, HashStep
     DEF OperatorNext

LEMMA DirectoryStart == ASSUME Project1Assumption, OperatorInit PROVE DirectoryInv
BY DEF Project1Assumption, OperatorInit, DirectoryInv, DirectoryTypes, Commands, JournalInv, OperatorInv, Busy

\* What verifies without overlapping commands is one execution's.
LEMMA BundleIsConsistent == ASSUME Project1Assumption, DirectoryInv PROVE BundleConsistent
<1>1. SUFFICES ASSUME Verified, overlap = FALSE
               PROVE  /\ Len(journal) = ScheduleSteps + 3
                      /\ journal[ScheduleSteps + 2].digest = checkpointFile
                      /\ journal[ScheduleSteps + 3].digest = reportFile
                      /\ checkpointFile = reportFile
  BY DEF BundleConsistent, DirectoryInv, DirectoryTypes
<1>2. Shape(journal) /\ NamesFiles
  BY <1>1, ShapeIsThere DEF DirectoryInv, JournalInv, Verified
<1>3. Len(journal) = Whence
  BY <1>1, <1>2, CompleteIsWhole DEF Verified
<1>4. Whence = ScheduleSteps + 3 /\ Whence - 1 = ScheduleSteps + 2 /\ Whence >= Whence - 1
  BY DEF Whence, Project1Assumption
<1>5. QED
  BY <1>2, <1>3, <1>4 DEF NamesFiles

\* A command that is alone leaves a directory that verifies as it is, or writes the same index.
LEMMA VerifiedStep ==
  ASSUME Project1Assumption, DirectoryInv, [OperatorNext]_operatorVars, Verified, overlap' = FALSE
  PROVE  Verified'
<1>1. bundle # Missing /\ bundle = Index /\ Complete(journal)
  BY DEF Verified
<1>2. overlap = FALSE
  BY DEF OperatorNext, operatorVars, Initialize, Execute, Enter, ReplaceCheckpoint, ReplaceReport, ReadJournal,
     NotContiguous, WriteJournal, Finalize, Admit, Hash, Seal, CutShort, DirectoryInv, DirectoryTypes
<1>3. Shape(journal) /\ journal # Missing /\ Len(journal) = Whence
  <2>1. Shape(journal)
    BY <1>1, <1>2 DEF DirectoryInv, JournalInv
  <2>2. QED
    BY <1>1, <2>1, ShapeIsThere, CompleteIsWhole
<1>4. \A o \in Operators : OperatorInv(o)
  BY <1>2 DEF DirectoryInv
<1>5. /\ \A o \in Operators : command[o] \notin {"training", "reporting", "appending"}
      /\ \A o \in Operators : command[o] = "sealing" => read[o] = Index
  <2>1. ASSUME NEW o \in Operators PROVE command[o] \notin {"training", "reporting", "appending"}
    <3>1. appended[o] \in Nat /\ ScheduleSteps \in Nat
      BY DEF Project1Assumption, DirectoryInv, DirectoryTypes
    <3>2. /\ command[o] \in {"training", "reporting"} => Len(journal) = 1
          /\ command[o] = "appending" => Len(journal) = appended[o] + 1 /\ appended[o] =< ScheduleSteps + 1
      BY <1>4 DEF OperatorInv
    <3>3. Len(journal) = ScheduleSteps + 3
      BY <1>3 DEF Whence
    <3>4. QED
      BY <3>1, <3>2, <3>3
  <2>2. QED
    BY <1>4, <2>1 DEF OperatorInv
<1>6. UNCHANGED <<journal, checkpointFile, reportFile, bundle>>
  <2>1. ASSUME NEW o \in Operators, Seal(o) PROVE UNCHANGED <<journal, checkpointFile, reportFile, bundle>>
    BY <1>1, <1>5, <2>1 DEF Seal
  <2>2. QED
    BY <1>3, <1>5, <2>1
       DEF OperatorNext, operatorVars, directory, Initialize, Execute, ReplaceCheckpoint, ReplaceReport,
           ReadJournal, NotContiguous, WriteJournal, Finalize, Admit, Hash, CutShort
<1>7. QED
  BY <1>1, <1>6 DEF Verified, Index, Complete, Reducible, Follows

-------------------------------------------------------------------------------
(* Concatenations of sequences                                                *)

Flattens(g, s, n) == g = [i \in 1..n |-> IF i = 1 THEN s[i] ELSE g[i - 1] \o s[i]]

LEMMA FlattenGrows ==
  ASSUME NEW s, NEW n \in Nat \ {0}, NEW g, Flattens(g, s, n)
  PROVE  \E h : Flattens(h, s, n + 1) /\ h[n + 1] = g[n] \o s[n + 1]
<1> DEFINE h == [i \in 1..(n + 1) |-> IF i = n + 1 THEN g[n] \o s[n + 1] ELSE g[i]]
<1>1. ASSUME NEW i \in 1..(n + 1) PROVE h[i] = IF i = 1 THEN s[i] ELSE h[i - 1] \o s[i]
  <2>1. CASE i = n + 1
    <3>1. i # 1 /\ n \in 1..(n + 1) /\ n + 1 \in 1..(n + 1) /\ n # n + 1 /\ i - 1 = n
      BY <2>1
    <3>2. h[n] = g[n] /\ h[n + 1] = g[n] \o s[n + 1]
      BY <3>1
    <3> HIDE DEF h
    <3>3. QED
      BY <2>1, <3>1, <3>2
  <2>2. CASE i # n + 1
    <3>1. i \in 1..n
      BY <2>2
    <3>2. g[i] = IF i = 1 THEN s[i] ELSE g[i - 1] \o s[i]
      BY <3>1 DEF Flattens
    <3>3. h[i] = g[i] /\ (i # 1 => h[i - 1] = g[i - 1])
      BY <3>1
    <3> HIDE DEF h
    <3>4. QED
      BY <3>2, <3>3
  <2>3. QED
    BY <2>1, <2>2
<1>2. h = [i \in 1..(n + 1) |-> h[i]] /\ h[n + 1] = g[n] \o s[n + 1]
  <2>1. n + 1 \in 1..(n + 1)
    OBVIOUS
  <2>2. QED
    BY <2>1
<1> HIDE DEF h
<1>3. Flattens(h, s, n + 1)
  BY <1>1, <1>2 DEF Flattens
<1>4. QED
  BY <1>2, <1>3

LEMMA FlattenExists ==
  ASSUME NEW s, NEW n \in Nat \ {0}
  PROVE  \E g : Flattens(g, s, n)
<1> DEFINE There(k) == \E g : Flattens(g, s, k)
           T == {k \in Nat \ {0} : ~There(k)}
<1>1. There(1)
  <2> DEFINE g == [i \in 1..1 |-> s[1]]
  <2>1. g = [i \in 1..1 |-> IF i = 1 THEN s[i] ELSE g[i - 1] \o s[i]]
    OBVIOUS
  <2> HIDE DEF g
  <2>2. Flattens(g, s, 1)
    BY <2>1 DEF Flattens
  <2>3. QED
    BY <2>2
<1>2. ASSUME NEW k \in Nat \ {0}, There(k) PROVE There(k + 1)
  BY <1>2, FlattenGrows
<1> HIDE DEF There
<1>3. T = {}
  <2>1. SUFFICES ASSUME T # {} PROVE FALSE
    OBVIOUS
  <2>2. PICK k \in T : \A x \in T : k =< x
    <3>1. T \in SUBSET Nat
      OBVIOUS
    <3> HIDE DEF T
    <3>2. QED
      BY <2>1, <3>1, LeastExists
  <2>3. k \in Nat \ {0} /\ ~There(k) /\ k # 1
    BY <1>1
  <2>4. k - 1 \in Nat \ {0} /\ ~(k =< k - 1) /\ (k - 1) + 1 = k
    BY <2>3
  <2>5. There(k - 1)
    BY <2>2, <2>4
  <2>6. There((k - 1) + 1)
    BY <1>2, <2>4, <2>5
  <2>7. QED
    BY <2>3, <2>4, <2>6
<1>4. There(n)
  BY <1>3
<1>5. QED
  BY <1>4 DEF There

\* Flattenings of sequences that begin alike.
LEMMA FlattenUnique ==
  ASSUME NEW s, NEW t, NEW n \in Nat \ {0}, NEW m \in Nat, n =< m, \A i \in 1..n : s[i] = t[i],
         NEW g, NEW h, Flattens(g, s, n), Flattens(h, t, m)
  PROVE  g[n] = h[n]
<1> DEFINE T == {k \in 1..n : g[k] # h[k]}
<1>1. T = {}
  <2>1. SUFFICES ASSUME T # {} PROVE FALSE
    OBVIOUS
  <2>2. PICK k \in T : \A x \in T : k =< x
    <3>1. T \in SUBSET Nat
      OBVIOUS
    <3> HIDE DEF T
    <3>2. QED
      BY <2>1, <3>1, LeastExists
  <2>3. k \in 1..n /\ k \in 1..m /\ g[k] # h[k] /\ s[k] = t[k]
    OBVIOUS
  <2>4. /\ g[k] = IF k = 1 THEN s[k] ELSE g[k - 1] \o s[k]
        /\ h[k] = IF k = 1 THEN t[k] ELSE h[k - 1] \o t[k]
    BY <2>3 DEF Flattens
  <2>5. k # 1 /\ g[k - 1] # h[k - 1]
    BY <2>3, <2>4
  <2>6. k - 1 \in 1..n /\ ~(k =< k - 1)
    BY <2>3, <2>5
  <2>7. QED
    BY <2>2, <2>5, <2>6
<1>2. QED
  BY <1>1

LEMMA FlattenIs ==
  ASSUME NEW s, Len(s) \in Nat \ {0}, NEW g, Flattens(g, s, Len(s))
  PROVE  FlattenSeq(s) = g[Len(s)]
<1> DEFINE n == Len(s)
           P(h) == h = [i \in 1..n |-> IF i = 1 THEN s[i] ELSE h[i - 1] \o s[i]]
<1>1. P(CHOOSE h : P(h))
  <2>1. P(g)
    BY DEF Flattens
  <2> HIDE DEF P
  <2>2. QED
    BY <2>1, Zenon
<1>2. (CHOOSE h : P(h))[n] = g[n]
  <2> DEFINE chosen == CHOOSE h : P(h)
  <2>1. P(chosen)
    BY <1>1
  <2> HIDE DEF chosen
  <2>2. Flattens(chosen, s, n)
    BY <2>1 DEF Flattens
  <2>3. QED
    BY <2>2, FlattenUnique DEF chosen
<1>3. FlattenSeq(s) = (CHOOSE h : P(h))[n]
  BY Zenon DEF FlattenSeq
<1>4. QED
  BY <1>2, <1>3

LEMMA FlattenNothing == FlattenSeq(<<>>) = <<>>
  BY DEF FlattenSeq

LEMMA FlattenAppend ==
  ASSUME NEW S, NEW s \in Seq(Seq(S)), NEW x \in Seq(S)
  PROVE  FlattenSeq(Append(s, x)) = FlattenSeq(s) \o x
<1> DEFINE t == Append(s, x)
           n == Len(s)
<1>1. n \in Nat /\ Len(t) = n + 1 /\ t[n + 1] = x /\ \A i \in 1..n : t[i] = s[i]
  OBVIOUS
<1>2. CASE n = 0
  <2>1. s = <<>> /\ FlattenSeq(s) \o x = x
    BY <1>2, FlattenNothing
  <2> HIDE DEF t, n
  <2>2. PICK g : Flattens(g, t, Len(t))
    <3>1. Len(t) \in Nat \ {0}
      BY <1>1
    <3>2. QED
      BY <3>1, FlattenExists
  <2>3. FlattenSeq(t) = g[1] /\ Len(t) = 1
    <3>1. Len(t) \in Nat \ {0} /\ Len(t) = 1
      BY <1>1, <1>2
    <3>2. QED
      BY <2>2, <3>1, FlattenIs
  <2>4. g[1] = t[1]
    BY <2>2, <2>3 DEF Flattens
  <2>5. QED
    BY <1>1, <1>2, <2>1, <2>3, <2>4 DEF t
<1>3. CASE n # 0
  <2> HIDE DEF t, n
  <2>1. PICK g : Flattens(g, s, n)
    BY <1>1, <1>3, FlattenExists
  <2>2. PICK f : Flattens(f, t, n)
    BY <1>1, <1>3, FlattenExists
  <2>3. f[n] = g[n]
    BY <1>1, <1>3, <2>1, <2>2, FlattenUnique
  <2>4. PICK h : Flattens(h, t, n + 1) /\ h[n + 1] = f[n] \o t[n + 1]
    BY <1>1, <1>3, <2>2, FlattenGrows
  <2>5. FlattenSeq(t) = h[n + 1]
    <3>1. Len(t) \in Nat \ {0} /\ Len(t) = n + 1
      BY <1>1
    <3>2. Flattens(h, t, Len(t))
      BY <2>4, <3>1
    <3>3. QED
      BY <3>1, <3>2, FlattenIs
  <2>6. FlattenSeq(s) = g[n]
    BY <1>1, <1>3, <2>1, FlattenIs DEF n
  <2>7. QED
    BY <1>1, <2>3, <2>4, <2>5, <2>6 DEF t
<1>4. QED
  BY <1>2, <1>3

-------------------------------------------------------------------------------
(* Induction, as a fact about sets                                            *)

LEMMA EveryNumber ==
  ASSUME NEW T \in SUBSET Nat, 0 \in T, \A k \in T : k + 1 \in T
  PROVE  T = Nat
<1> DEFINE U == Nat \ T
<1>1. U = {}
  <2>1. SUFFICES ASSUME U # {} PROVE FALSE
    OBVIOUS
  <2>2. PICK k \in U : \A x \in U : k =< x
    <3>1. U \in SUBSET Nat
      OBVIOUS
    <3> HIDE DEF U
    <3>2. QED
      BY <2>1, <3>1, LeastExists
  <2>3. k \in Nat /\ k \notin T /\ k # 0
    OBVIOUS
  <2>4. k - 1 \in Nat /\ ~(k =< k - 1) /\ (k - 1) + 1 = k
    BY <2>3
  <2>5. k - 1 \in T
    BY <2>2, <2>4
  <2>6. (k - 1) + 1 \in T
    BY <2>5
  <2>7. QED
    BY <2>3, <2>4, <2>6
<1>2. QED
  BY <1>1

LEMMA Reassociated ==
  ASSUME NEW S, NEW a \in Seq(S), NEW b \in Seq(S), NEW c \in Seq(S)
  PROVE  a \o (b \o c) = (a \o b) \o c
  BY ConcatAssociative

-------------------------------------------------------------------------------
(* Pipeline schedules: the slot of an operation                               *)
(* (its moment), from the plan alone.                                         *)

\* The slot of an operation, counted from 0.
Moment(op) ==
  IF plan.policy = "gpipe"
  THEN IF op.direction = "forward" THEN op.stage + op.microbatch
       ELSE 2 * Span - 1 - (op.stage + op.microbatch)
  ELSE IF op.direction = "forward"
       THEN IF op.microbatch < plan.stages - op.stage THEN op.stage + op.microbatch
            ELSE op.stage + 2 * op.microbatch
       ELSE 2 * plan.stages - 1 - op.stage + 2 * op.microbatch

LEMMA PlanTyped ==
  ASSUME plan \in Plans, PipelineAssumption
  PROVE  /\ plan.policy \in {"gpipe", "1f1b"} /\ plan.stages \in Nat \ {0} /\ plan.microbatches \in Nat \ {0}
         /\ Span \in Nat \ {0} /\ Span = plan.stages + plan.microbatches - 1
         /\ Stages = 0..(plan.stages - 1) /\ Microbatches = 0..(plan.microbatches - 1)
  BY DEF Plans, PipelineAssumption, Span, Stages, Microbatches

LEMMA OpTyped ==
  ASSUME NEW op \in Operations
  PROVE  /\ op.direction \in {"forward", "backward"} /\ op.stage \in Stages /\ op.microbatch \in Microbatches
         /\ op = Op(op.direction, op.stage, op.microbatch)
  BY DEF Operations, Op

LEMMA OpIs ==
  ASSUME NEW d \in {"forward", "backward"}, NEW s \in Stages, NEW m \in Microbatches
  PROVE  /\ Op(d, s, m) \in Operations
         /\ Op(d, s, m).direction = d /\ Op(d, s, m).stage = s /\ Op(d, s, m).microbatch = m
  BY DEF Operations, Op

LEMMA MomentTyped ==
  ASSUME plan \in Plans, PipelineAssumption, NEW op \in Operations
  PROVE  Moment(op) \in Nat /\ Moment(op) < 2 * Span
<1>1. /\ op.direction \in {"forward", "backward"} /\ op.stage \in 0..(plan.stages - 1)
      /\ op.microbatch \in 0..(plan.microbatches - 1)
  BY PlanTyped, OpTyped
<1>2. /\ plan.stages \in Nat \ {0} /\ plan.microbatches \in Nat \ {0}
      /\ Span = plan.stages + plan.microbatches - 1
  BY PlanTyped
<1>3. QED
  BY <1>1, <1>2 DEF Moment

\* What an operation waits for comes before it.
LEMMA MomentDepends ==
  ASSUME plan \in Plans, PipelineAssumption, NEW op \in Operations, NEW dep \in Dependencies(op)
  PROVE  dep \in Operations /\ Moment(dep) < Moment(op)
<1>1. /\ op.direction \in {"forward", "backward"} /\ op.stage \in 0..(plan.stages - 1)
      /\ op.microbatch \in 0..(plan.microbatches - 1) /\ op.stage \in Stages /\ op.microbatch \in Microbatches
  BY PlanTyped, OpTyped
<1>2. /\ plan.stages \in Nat \ {0} /\ plan.microbatches \in Nat \ {0}
      /\ Span = plan.stages + plan.microbatches - 1 /\ Stages = 0..(plan.stages - 1)
  BY PlanTyped
<1>3. CASE op.direction = "forward"
  <2>1. PICK s \in Stages : s = op.stage - 1 /\ dep = Op("forward", s, op.microbatch)
    BY <1>3 DEF Dependencies
  <2>2. dep \in Operations /\ dep.direction = "forward" /\ dep.stage = s /\ dep.microbatch = op.microbatch
    BY <1>1, <2>1, OpIs
  <2> DEFINE m == op.microbatch
             f == op.stage
             S == plan.stages
  <2>3. /\ m \in Nat /\ f \in Nat /\ s \in Nat /\ s = f - 1 /\ S \in Nat
        /\ Moment(op) = IF plan.policy = "gpipe" THEN f + m ELSE IF m < S - f THEN f + m ELSE f + 2 * m
        /\ Moment(dep) = IF plan.policy = "gpipe" THEN s + m ELSE IF m < S - s THEN s + m ELSE s + 2 * m
    BY <1>1, <1>2, <1>3, <2>1, <2>2 DEF Moment
  <2> HIDE DEF m, f, S
  <2>4. QED
    BY <2>2, <2>3
<1>4. CASE op.direction = "backward" /\ dep = Op("forward", op.stage, op.microbatch)
  <2>1. /\ dep \in Operations /\ dep.direction = "forward" /\ dep.stage = op.stage
        /\ dep.microbatch = op.microbatch
    BY <1>1, <1>4, OpIs
  <2> DEFINE m == op.microbatch
             f == op.stage
             S == plan.stages
  <2>2. /\ m \in Nat /\ m =< plan.microbatches - 1 /\ f \in Nat /\ f =< S - 1 /\ S \in Nat
        /\ Span = S + plan.microbatches - 1 /\ plan.microbatches \in Nat
        /\ Moment(op) = IF plan.policy = "gpipe" THEN 2 * Span - 1 - (f + m) ELSE 2 * S - 1 - f + 2 * m
        /\ Moment(dep) = IF plan.policy = "gpipe" THEN f + m ELSE IF m < S - f THEN f + m ELSE f + 2 * m
    BY <1>1, <1>2, <1>4, <2>1 DEF Moment
  <2> HIDE DEF m, f, S
  <2>3. QED
    BY <2>1, <2>2
<1>5. CASE op.direction = "backward" /\ dep # Op("forward", op.stage, op.microbatch)
  <2>1. PICK s \in Stages : s = op.stage + 1 /\ dep = Op("backward", s, op.microbatch)
    BY <1>5 DEF Dependencies
  <2>2. dep \in Operations /\ dep.direction = "backward" /\ dep.stage = s /\ dep.microbatch = op.microbatch
    BY <1>1, <2>1, OpIs
  <2> DEFINE m == op.microbatch
             f == op.stage
             S == plan.stages
  <2>3. /\ m \in Nat /\ f \in Nat /\ s \in Nat /\ s = f + 1 /\ S \in Nat /\ Span \in Nat
        /\ Moment(op) = IF plan.policy = "gpipe" THEN 2 * Span - 1 - (f + m) ELSE 2 * S - 1 - f + 2 * m
        /\ Moment(dep) = IF plan.policy = "gpipe" THEN 2 * Span - 1 - (s + m) ELSE 2 * S - 1 - s + 2 * m
    <3>1. op.direction # "forward" /\ dep.direction # "forward"
      BY <1>5, <2>2
    <3>2. m \in Nat /\ f \in Nat /\ s \in Nat /\ s = f + 1 /\ S \in Nat /\ Span \in Nat
      BY <1>1, <1>2, <2>1
    <3>3. QED
      BY <2>2, <3>1, <3>2 DEF Moment
  <2> HIDE DEF m, f, S
  <2>4. QED
    BY <2>2, <2>3
<1>6. QED
  BY <1>1, <1>3, <1>4, <1>5

\* A stage does one thing at a time.
LEMMA MomentDistinct ==
  ASSUME plan \in Plans, PipelineAssumption, NEW a \in Operations, NEW b \in Operations,
         a.stage = b.stage, Moment(a) = Moment(b)
  PROVE  a = b
<1>1. /\ a.direction \in {"forward", "backward"} /\ a.stage \in 0..(plan.stages - 1)
      /\ a.microbatch \in 0..(plan.microbatches - 1)
      /\ a = Op(a.direction, a.stage, a.microbatch)
  BY PlanTyped, OpTyped
<1>2. /\ b.direction \in {"forward", "backward"} /\ b.stage \in 0..(plan.stages - 1)
      /\ b.microbatch \in 0..(plan.microbatches - 1)
      /\ b = Op(b.direction, b.stage, b.microbatch)
  BY PlanTyped, OpTyped
<1>3. /\ plan.stages \in Nat \ {0} /\ plan.microbatches \in Nat \ {0}
      /\ Span = plan.stages + plan.microbatches - 1
  BY PlanTyped
<1>4. a.direction = b.direction /\ a.microbatch = b.microbatch
  BY <1>1, <1>2, <1>3 DEF Moment
<1>5. QED
  BY <1>1, <1>2, <1>4

\* No slot is empty.
LEMMA MomentTaken ==
  ASSUME plan \in Plans, PipelineAssumption, NEW t \in Nat, t < 2 * Span
  PROVE  \E op \in Operations : Moment(op) = t
<1> DEFINE S == plan.stages
           M == plan.microbatches
<1>1. /\ S \in Nat \ {0} /\ M \in Nat \ {0} /\ Span = S + M - 1 /\ Stages = 0..(S - 1)
      /\ Microbatches = 0..(M - 1) /\ plan.policy \in {"gpipe", "1f1b"}
  BY PlanTyped
<1>2. \A d \in {"forward", "backward"}, s \in Stages, m \in Microbatches :
        /\ Op(d, s, m) \in Operations /\ Op(d, s, m).direction = d /\ Op(d, s, m).stage = s
        /\ Op(d, s, m).microbatch = m
  BY OpIs
<1> DEFINE f(s, m) == Op("forward", s, m)
           b(s, m) == Op("backward", s, m)
<1>3. ASSUME NEW s \in Stages, NEW m \in Microbatches
      PROVE  /\ f(s, m) \in Operations /\ b(s, m) \in Operations /\ s \in Int /\ m \in Int
             /\ Moment(f(s, m)) = IF plan.policy = "gpipe" THEN s + m
                                  ELSE IF m < S - s THEN s + m ELSE s + 2 * m
             /\ Moment(b(s, m)) = IF plan.policy = "gpipe" THEN 2 * Span - 1 - (s + m)
                                  ELSE 2 * S - 1 - s + 2 * m
  <2>1. /\ f(s, m) \in Operations /\ f(s, m).direction = "forward" /\ f(s, m).stage = s
        /\ f(s, m).microbatch = m
    BY <1>2
  <2>2. /\ b(s, m) \in Operations /\ b(s, m).direction = "backward" /\ b(s, m).stage = s
        /\ b(s, m).microbatch = m
    BY <1>2
  <2>3. s \in Int /\ m \in Int
    BY <1>1
  <2> HIDE DEF f, b
  <2>4. QED
    BY <2>1, <2>2, <2>3 DEF Moment
<1> HIDE DEF f, b, S, M
<1>4. CASE plan.policy = "gpipe" /\ t < Span
  <2>1. CASE t < S
    <3>1. t \in Stages /\ 0 \in Microbatches
      BY <1>1, <2>1
    <3>2. QED
      BY <1>3, <1>4, <3>1
  <2>2. CASE t >= S
    <3>1. S - 1 \in Stages /\ t - (S - 1) \in Microbatches
      BY <1>1, <1>4, <2>2
    <3>2. Moment(f(S - 1, t - (S - 1))) = S - 1 + (t - (S - 1))
      BY <1>3, <1>4, <3>1
    <3>3. QED
      BY <1>1, <1>3, <3>1, <3>2
  <2>3. QED
    BY <1>1, <2>1, <2>2
<1>5. CASE plan.policy = "gpipe" /\ t >= Span
  <2> DEFINE u == 2 * Span - 1 - t
  <2>1. u \in Nat /\ u < Span /\ 2 * Span - 1 - u = t
    BY <1>1, <1>5
  <2> HIDE DEF u
  <2>2. CASE u < S
    <3>1. u \in Stages /\ 0 \in Microbatches
      BY <1>1, <2>1, <2>2
    <3>2. Moment(b(u, 0)) = 2 * Span - 1 - (u + 0)
      BY <1>3, <1>5, <3>1
    <3>3. 2 * Span - 1 - (u + 0) = t
      BY <1>1, <2>1
    <3>4. QED
      BY <1>3, <3>1, <3>2, <3>3
  <2>3. CASE u >= S
    <3> DEFINE m == u - (S - 1)
    <3>1. S - 1 \in Stages /\ m \in Microbatches /\ S - 1 + m = u
      BY <1>1, <2>1, <2>3
    <3> HIDE DEF m
    <3>2. Moment(b(S - 1, m)) = 2 * Span - 1 - (S - 1 + m)
      BY <1>3, <1>5, <3>1
    <3>3. QED
      BY <1>3, <2>1, <3>1, <3>2
  <2>4. QED
    BY <1>1, <2>1, <2>2, <2>3
<1>6. CASE plan.policy = "1f1b" /\ t < S
  <2>1. t \in Stages /\ 0 \in Microbatches /\ 0 < S - t
    BY <1>1, <1>6
  <2>2. Moment(f(t, 0)) = t
    BY <1>3, <1>6, <2>1
  <2>3. QED
    BY <1>3, <2>1, <2>2
<1>7. CASE plan.policy = "1f1b" /\ t >= S /\ t =< S + 2 * M - 2
  <2>1. PICK j \in Nat : t - S = 2 * j \/ t - S = 2 * j + 1
    <3> DEFINE n == t - S
    <3>1. n \in Nat
      BY <1>1, <1>7
    <3> HIDE DEF n
    <3>2. n \div 2 \in Nat /\ (n = 2 * (n \div 2) \/ n = 2 * (n \div 2) + 1)
      BY <3>1
    <3>3. QED
      BY <3>2 DEF n
  <2>2. CASE t - S = 2 * j
    <3>1. S - 1 \in Stages /\ j \in Microbatches /\ 2 * S - 1 - (S - 1) + 2 * j = t
      BY <1>1, <1>7, <2>2
    <3>2. Moment(b(S - 1, j)) = 2 * S - 1 - (S - 1) + 2 * j
      BY <1>3, <1>7, <3>1
    <3>3. QED
      BY <1>3, <3>1, <3>2
  <2>3. CASE t - S = 2 * j + 1
    <3> DEFINE m == j + 1
    <3>1. S - 1 \in Stages /\ m \in Microbatches /\ S - 1 + 2 * m = t /\ ~(m < S - (S - 1))
      BY <1>1, <1>7, <2>3
    <3> HIDE DEF m
    <3>2. Moment(f(S - 1, m)) = S - 1 + 2 * m
      BY <1>3, <1>7, <3>1
    <3>3. QED
      BY <1>3, <3>1, <3>2
  <2>4. QED
    BY <2>1, <2>2, <2>3
<1>8. CASE plan.policy = "1f1b" /\ t > S + 2 * M - 2
  <2> DEFINE s == 2 * S + 2 * M - 3 - t
             m == M - 1
  <2>1. s \in Stages /\ m \in Microbatches /\ 2 * S - 1 - s + 2 * m = t
    BY <1>1, <1>8
  <2> HIDE DEF s, m
  <2>2. Moment(b(s, m)) = 2 * S - 1 - s + 2 * m
    BY <1>3, <1>8, <2>1
  <2>3. QED
    BY <1>3, <2>1, <2>2
<1>9. QED
  BY <1>1, <1>4, <1>5, <1>6, <1>7, <1>8

-------------------------------------------------------------------------------
(* What 1F1B builds for a stage.                                              *)

Paired(n, x, y) == [i \in 1..n |-> <<x[i], y[i]>>]
Alternates(u, n, x, y) == \A i \in 1..n : u[2 * i - 1] = x[i] /\ u[2 * i] = y[i]

LEMMA FlattenPairs ==
  ASSUME NEW S, NEW n \in Nat, NEW x \in [1..n -> S], NEW y \in [1..n -> S],
         NEW u, u = FlattenSeq(Paired(n, x, y))
  PROVE  u \in Seq(S) /\ Len(u) = 2 * n /\ Alternates(u, n, x, y)
<1> DEFINE pairs(k) == Paired(k, x, y)
           Good(k, v) == /\ v \in Seq(S) /\ Len(v) = 2 * k
                         /\ \A i \in 1..k : v[2 * i - 1] = x[i] /\ v[2 * i] = y[i]
           T == {k \in Nat : k =< n => Good(k, FlattenSeq(pairs(k)))}
<1>1. 0 \in T
  <2>1. pairs(0) = <<>> /\ <<>> \in Seq(S) /\ Len(<<>>) = 2 * 0
    BY DEF Paired
  <2>2. Good(0, <<>>)
    BY <2>1
  <2> HIDE DEF pairs, Good
  <2>3. QED
    BY <2>1, <2>2, FlattenNothing
<1>2. ASSUME NEW k \in Nat, k + 1 =< n, Good(k, FlattenSeq(pairs(k)))
      PROVE  Good(k + 1, FlattenSeq(pairs(k + 1)))
  <2> DEFINE a == x[k + 1]
             b == y[k + 1]
             z == <<a, b>>
             v == FlattenSeq(pairs(k))
  <2>1. k + 1 =< n
    BY <1>2
  <2>2. k \in Nat /\ Good(k, v)
    BY <1>2
  <2>3. k + 1 \in 1..n /\ a \in S /\ b \in S /\ z \in Seq(S) /\ Len(z) = 2 /\ z[1] = a /\ z[2] = b
    BY <2>1, <2>2
  <2>4. pairs(k) \in Seq(Seq(S)) /\ Len(pairs(k)) = k
    <3>1. \A i \in 1..k : <<x[i], y[i]>> \in Seq(S)
      BY <2>1, <2>2
    <3>2. QED
      BY <2>2, <3>1 DEF Paired
  <2>5. pairs(k + 1) = Append(pairs(k), z)
    <3> DEFINE p == pairs(k + 1)
               q == Append(pairs(k), z)
               P == Seq(S)
    <3>1. p \in Seq(P) /\ Len(p) = k + 1
      <4>1. \A i \in 1..(k + 1) : <<x[i], y[i]>> \in P
        BY <2>1, <2>2
      <4>2. QED
        BY <2>2, <4>1 DEF Paired
    <3>2. q \in Seq(P) /\ Len(q) = k + 1 /\ q[k + 1] = z
      BY <2>2, <2>3, <2>4
    <3>3. ASSUME NEW i \in 1..k PROVE p[i] = q[i]
      <4>1. q[i] = pairs(k)[i]
        <5> HIDE DEF pairs, P, z
        <5>1. QED
          BY <2>2, <2>4 DEF P
      <4>2. QED
        BY <2>2, <4>1 DEF Paired
    <3>4. p[k + 1] = q[k + 1]
      BY <2>2, <3>2 DEF Paired
    <3>5. \A i \in 1..(k + 1) : i \in 1..k \/ i = k + 1
      BY <2>2
    <3>6. \A i \in 1..(k + 1) : p[i] = q[i]
      BY <3>3, <3>4, <3>5
    <3> HIDE DEF p, q, P
    <3>7. p = q
      BY <3>1, <3>2, <3>6, SeqEqual
    <3>8. QED
      BY <3>7 DEF p, q
  <2> HIDE DEF pairs, z
  <2>6. FlattenSeq(pairs(k + 1)) = v \o z
    BY <2>3, <2>4, <2>5, FlattenAppend
  <2> HIDE DEF v
  <2> DEFINE w == v \o z
  <2>7. /\ w \in Seq(S) /\ Len(w) = 2 * k + 2
        /\ \A i \in 1..(2 * k + 2) : w[i] = IF i =< 2 * k THEN v[i] ELSE z[i - 2 * k]
    <3>1. /\ w \in Seq(S) /\ Len(w) = Len(v) + Len(z)
          /\ \A i \in 1..(Len(v) + Len(z)) : w[i] = IF i =< Len(v) THEN v[i] ELSE z[i - Len(v)]
      BY <2>2, <2>3, ConcatProperties
    <3> HIDE DEF w
    <3>2. QED
      BY <2>2, <2>3, <3>1
  <2> HIDE DEF w
  <2>8. ASSUME NEW i \in 1..k PROVE w[2 * i - 1] = x[i] /\ w[2 * i] = y[i]
    <3>1. 2 * i - 1 \in 1..(2 * k + 2) /\ 2 * i \in 1..(2 * k + 2) /\ 2 * i - 1 =< 2 * k /\ 2 * i =< 2 * k
      BY <2>2
    <3>2. QED
      BY <2>2, <2>7, <3>1
  <2>9. w[2 * (k + 1) - 1] = x[k + 1] /\ w[2 * (k + 1)] = y[k + 1]
    <3>1. /\ 2 * (k + 1) - 1 \in 1..(2 * k + 2) /\ 2 * (k + 1) \in 1..(2 * k + 2)
          /\ ~(2 * (k + 1) - 1 =< 2 * k) /\ ~(2 * (k + 1) =< 2 * k)
          /\ 2 * (k + 1) - 1 - 2 * k = 1 /\ 2 * (k + 1) - 2 * k = 2
      <4>1. k \in Nat
        OBVIOUS
      <4>2. QED
        BY <4>1
    <3>2. QED
      BY <2>3, <2>7, <3>1
  <2>10. \A i \in 1..(k + 1) : i \in 1..k \/ i = k + 1
    BY <2>2
  <2>11. Len(w) = 2 * (k + 1)
    BY <2>2, <2>7
  <2>12. QED
    BY <2>6, <2>7, <2>8, <2>9, <2>10, <2>11 DEF w
<1> HIDE DEF Good, pairs
<1>3. T = Nat
  <2>1. T \in SUBSET Nat /\ 0 \in T /\ \A k \in T : k + 1 \in T
    BY <1>1, <1>2
  <2> HIDE DEF T
  <2>2. QED
    BY <2>1, EveryNumber
<1>4. Good(n, FlattenSeq(pairs(n)))
  BY <1>3
<1>5. QED
  BY <1>4 DEF Good, pairs, Alternates

\* The order of a stage: forwards, then one forward and one backward by turns, then
\* backwards.
LEMMA StageOrdered ==
  ASSUME plan \in Plans, PipelineAssumption, NEW s \in Stages
  PROVE  LET M == plan.microbatches
             w == WarmupCount(plan.stages, M, s)
             o == StageOperations(plan.stages, M, s)
         IN /\ w \in 0..M /\ w =< plan.stages - s - 1 /\ (w < M => w = plan.stages - s - 1)
            /\ o \in Seq(Operations) /\ Len(o) = 2 * M
            /\ \A i \in 1..w : o[i] = Op("forward", s, i - 1)
            /\ \A k \in 1..(M - w) : /\ o[w + 2 * k - 1] = Op("forward", s, w + k - 1)
                                     /\ o[w + 2 * k] = Op("backward", s, k - 1)
            /\ \A i \in 1..w : o[2 * M - w + i] = Op("backward", s, M - w + i - 1)
<1> DEFINE M == plan.microbatches
           w == WarmupCount(plan.stages, M, s)
           n == M - w
           x == [i \in 1..n |-> Op("forward", s, w + i - 1)]
           y == [i \in 1..n |-> Op("backward", s, i - 1)]
           a == [i \in 1..w |-> Op("forward", s, i - 1)]
           f == FlattenSeq(Paired(n, x, y))
           c == [i \in 1..w |-> Op("backward", s, n + i - 1)]
           o == (a \o f) \o c
<1>1. /\ M \in Nat \ {0} /\ plan.stages \in Nat \ {0} /\ s \in 0..(plan.stages - 1)
      /\ Microbatches = 0..(M - 1)
  BY PlanTyped
<1>2. w \in 0..M /\ w =< plan.stages - s - 1 /\ (w < M => w = plan.stages - s - 1) /\ n \in 0..M
  BY <1>1 DEF WarmupCount, Least
<1>3. StageOperations(plan.stages, M, s) = o
  <2>1. Paired(n, x, y)
          = [i \in 1..n |-> <<Op("forward", s, w + i - 1), Op("backward", s, i - 1)>>]
    BY DEF Paired
  <2>2. QED
    BY <2>1 DEF StageOperations
<1> HIDE DEF w
<1>4. ASSUME NEW d \in {"forward", "backward"}, NEW m \in 0..(M - 1) PROVE Op(d, s, m) \in Operations
  BY <1>1, <1>4, OpIs
<1>5. /\ \A i \in 1..w : i - 1 \in 0..(M - 1) /\ n + i - 1 \in 0..(M - 1)
      /\ \A i \in 1..n : w + i - 1 \in 0..(M - 1) /\ i - 1 \in 0..(M - 1)
  BY <1>1, <1>2
<1> HIDE DEF M, n
<1>6. x \in [1..n -> Operations] /\ y \in [1..n -> Operations]
  BY <1>4, <1>5
<1>7. a \in Seq(Operations) /\ Len(a) = w /\ c \in Seq(Operations) /\ Len(c) = w
  <2>1. w \in Nat
    BY <1>1, <1>2
  <2>2. a \in [1..w -> Operations] /\ c \in [1..w -> Operations]
    BY <1>4, <1>5
  <2> HIDE DEF a, c
  <2>3. QED
    BY <2>1, <2>2
<1>8. /\ \A i \in 1..w : a[i] = Op("forward", s, i - 1) /\ c[i] = Op("backward", s, n + i - 1)
      /\ \A i \in 1..n : x[i] = Op("forward", s, w + i - 1) /\ y[i] = Op("backward", s, i - 1)
  OBVIOUS
<1> HIDE DEF x, y, a, c
<1>9. /\ f \in Seq(Operations) /\ Len(f) = 2 * n
      /\ \A i \in 1..n : f[2 * i - 1] = x[i] /\ f[2 * i] = y[i]
  <2>1. n \in Nat /\ f = FlattenSeq(Paired(n, x, y))
    BY <1>1, <1>2
  <2> HIDE DEF f
  <2>2. f \in Seq(Operations) /\ Len(f) = 2 * n /\ Alternates(f, n, x, y)
    BY <1>6, <2>1, FlattenPairs
  <2>3. QED
    BY <2>2 DEF Alternates
<1>10. /\ a \o f \in Seq(Operations) /\ Len(a \o f) = w + 2 * n
       /\ \A i \in 1..(w + 2 * n) : (a \o f)[i] = IF i =< w THEN a[i] ELSE f[i - w]
  <2>1. /\ a \o f \in Seq(Operations) /\ Len(a \o f) = Len(a) + Len(f)
        /\ \A i \in 1..(Len(a) + Len(f)) : (a \o f)[i] = IF i =< Len(a) THEN a[i] ELSE f[i - Len(a)]
    BY <1>7, <1>9, ConcatProperties
  <2>2. Len(a) = w /\ Len(f) = 2 * n
    BY <1>7, <1>9
  <2>3. QED
    BY <2>1, <2>2
<1>11. /\ o \in Seq(Operations) /\ Len(o) = w + 2 * n + w
       /\ \A i \in 1..(w + 2 * n + w) : o[i] = IF i =< w + 2 * n THEN (a \o f)[i] ELSE c[i - (w + 2 * n)]
  <2> DEFINE af == a \o f
  <2>1. af \in Seq(Operations) /\ Len(af) = w + 2 * n /\ o = af \o c
    BY <1>10
  <2> HIDE DEF af, o
  <2>2. /\ o \in Seq(Operations) /\ Len(o) = Len(af) + Len(c)
        /\ \A i \in 1..(Len(af) + Len(c)) : o[i] = IF i =< Len(af) THEN af[i] ELSE c[i - Len(af)]
    BY <1>7, <2>1, ConcatProperties
  <2>3. QED
    BY <1>7, <2>1, <2>2 DEF af
<1> DEFINE af == a \o f
<1> HIDE DEF o, af
<1>12. \A i \in 1..w : o[i] = Op("forward", s, i - 1)
  <2>1. \A i \in 1..w : i \in 1..(w + 2 * n) /\ i \in 1..(w + 2 * n + w) /\ i =< w /\ i =< w + 2 * n
    BY <1>1, <1>2
  <2>2. QED
    BY <1>8, <1>10, <1>11, <2>1
<1>13. ASSUME NEW k \in 1..n
       PROVE  o[w + 2 * k - 1] = Op("forward", s, w + k - 1) /\ o[w + 2 * k] = Op("backward", s, k - 1)
  <2> DEFINE i == w + 2 * k - 1
             j == w + 2 * k
  <2>1. /\ i \in 1..(w + 2 * n) /\ i \in 1..(w + 2 * n + w) /\ ~(i =< w) /\ i =< w + 2 * n /\ i - w = 2 * k - 1
        /\ j \in 1..(w + 2 * n) /\ j \in 1..(w + 2 * n + w) /\ ~(j =< w) /\ j =< w + 2 * n /\ j - w = 2 * k
    BY <1>1, <1>2
  <2> HIDE DEF i, j
  <2>2. o[i] = f[2 * k - 1] /\ o[j] = f[2 * k]
    BY <1>10, <1>11, <2>1
  <2>3. QED
    BY <1>8, <1>9, <2>2 DEF i, j
<1>14. \A i \in 1..w : o[2 * M - w + i] = Op("backward", s, M - w + i - 1)
  <2>1. ASSUME NEW i \in 1..w PROVE o[2 * M - w + i] = Op("backward", s, M - w + i - 1)
    <3> DEFINE j == 2 * M - w + i
    <3>1. j \in 1..(w + 2 * n + w) /\ ~(j =< w + 2 * n) /\ j - (w + 2 * n) = i
      BY <1>1, <1>2 DEF n
    <3> HIDE DEF j
    <3>2. o[j] = c[i]
      BY <1>11, <3>1
    <3>3. QED
      BY <1>8, <3>2 DEF j, n
  <2>2. QED
    BY <2>1
<1>15. Len(o) = 2 * M
  BY <1>1, <1>2, <1>11 DEF n
<1>16. QED
  BY <1>2, <1>3, <1>11, <1>12, <1>13, <1>14, <1>15 DEF w, M, n

-------------------------------------------------------------------------------
(* The order of a stage by turns, and the moments of its turns.               *)

Order(s) == StageOperations(plan.stages, plan.microbatches, s)

LEMMA OrderTyped ==
  ASSUME plan \in Plans, PipelineAssumption, NEW s \in Stages
  PROVE  Order(s) \in Seq(Operations) /\ Len(Order(s)) = 2 * plan.microbatches
  BY StageOrdered DEF Order

\* The place of an operation in the order of its stage.
LEMMA OrderComplete ==
  ASSUME plan \in Plans, PipelineAssumption, NEW op \in Operations
  PROVE  \E i \in 1..Len(Order(op.stage)) : Order(op.stage)[i] = op
<1> DEFINE s == op.stage
           m == op.microbatch
           M == plan.microbatches
           w == WarmupCount(plan.stages, M, s)
           o == Order(s)
<1>1. s \in Stages /\ m \in 0..(M - 1) /\ M \in Nat \ {0} /\ op = Op(op.direction, s, m)
      /\ op.direction \in {"forward", "backward"}
  BY PlanTyped, OpTyped
<1>2. /\ w \in 0..M /\ Len(o) = 2 * M
      /\ \A i \in 1..w : o[i] = Op("forward", s, i - 1)
      /\ \A k \in 1..(M - w) : /\ o[w + 2 * k - 1] = Op("forward", s, w + k - 1)
                               /\ o[w + 2 * k] = Op("backward", s, k - 1)
      /\ \A i \in 1..w : o[2 * M - w + i] = Op("backward", s, M - w + i - 1)
  BY <1>1, StageOrdered DEF Order
<1> HIDE DEF s, m, M, w, o
<1>3. CASE op.direction = "forward" /\ m < w
  <2>1. m + 1 \in 1..w /\ m + 1 - 1 = m /\ m + 1 \in 1..(2 * M)
    BY <1>1, <1>2, <1>3
  <2>2. QED
    BY <1>1, <1>2, <1>3, <2>1 DEF s, o
<1>4. CASE op.direction = "forward" /\ m >= w
  <2> DEFINE k == m - w + 1
             i == w + 2 * k - 1
  <2>1. k \in 1..(M - w) /\ w + k - 1 = m /\ i \in 1..(2 * M)
    BY <1>1, <1>2, <1>4
  <2>2. o[w + 2 * k - 1] = Op("forward", s, w + k - 1)
    BY <1>2, <2>1
  <2> HIDE DEF k
  <2>3. o[i] = op
    BY <1>1, <1>4, <2>1, <2>2
  <2>4. QED
    BY <1>2, <2>1, <2>3 DEF s, o
<1>5. CASE op.direction = "backward" /\ m < M - w
  <2> DEFINE k == m + 1
             i == w + 2 * k
  <2>1. k \in 1..(M - w) /\ k - 1 = m /\ i \in 1..(2 * M)
    BY <1>1, <1>2, <1>5
  <2>2. o[w + 2 * k] = Op("backward", s, k - 1)
    BY <1>2, <2>1
  <2> HIDE DEF k
  <2>3. o[i] = op
    BY <1>1, <1>5, <2>1, <2>2
  <2>4. QED
    BY <1>2, <2>1, <2>3 DEF s, o
<1>6. CASE op.direction = "backward" /\ m >= M - w
  <2> DEFINE j == m - (M - w) + 1
             i == 2 * M - w + j
  <2>1. j \in 1..w /\ M - w + j - 1 = m /\ i \in 1..(2 * M)
    BY <1>1, <1>2, <1>6
  <2>2. o[2 * M - w + j] = Op("backward", s, M - w + j - 1)
    BY <1>2, <2>1
  <2> HIDE DEF j
  <2>3. o[i] = op
    BY <1>1, <1>6, <2>1, <2>2
  <2>4. QED
    BY <1>2, <2>1, <2>3 DEF s, o
<1>7. QED
  BY <1>1, <1>2, <1>3, <1>4, <1>5, <1>6

\* When a stage runs the i-th operation of its order.
Turn(s, w, i) ==
  IF i =< w + 1 /\ i =< plan.microbatches THEN s + i - 1
  ELSE IF i =< 2 * plan.microbatches - w THEN 2 * plan.stages - s - 3 + i - w
  ELSE 2 * plan.stages - 1 - s + 2 * (i - plan.microbatches - 1)

LEMMA OrderTimed ==
  ASSUME plan \in Plans, PipelineAssumption, plan.policy = "1f1b", NEW s \in Stages,
         NEW i \in 1..Len(Order(s))
  PROVE  /\ Order(s)[i].stage = s
         /\ Moment(Order(s)[i]) = Turn(s, WarmupCount(plan.stages, plan.microbatches, s), i)
<1> DEFINE M == plan.microbatches
           S == plan.stages
           w == WarmupCount(plan.stages, M, s)
           o == Order(s)
<1>1. /\ w \in 0..M /\ w =< S - s - 1 /\ (w < M => w = S - s - 1) /\ Len(o) = 2 * M
      /\ \A j \in 1..w : o[j] = Op("forward", s, j - 1)
      /\ \A k \in 1..(M - w) : /\ o[w + 2 * k - 1] = Op("forward", s, w + k - 1)
                               /\ o[w + 2 * k] = Op("backward", s, k - 1)
      /\ \A j \in 1..w : o[2 * M - w + j] = Op("backward", s, M - w + j - 1)
  BY StageOrdered DEF Order
<1>2. M \in Nat \ {0} /\ S \in Nat \ {0} /\ s \in 0..(S - 1) /\ Microbatches = 0..(M - 1)
  BY PlanTyped
<1>3. ASSUME NEW m \in 0..(M - 1)
      PROVE  /\ Op("forward", s, m).stage = s /\ Op("backward", s, m).stage = s
             /\ Moment(Op("forward", s, m)) = IF m < S - s THEN s + m ELSE s + 2 * m
             /\ Moment(Op("backward", s, m)) = 2 * S - 1 - s + 2 * m
  <2>1. m \in Microbatches
    BY <1>2
  <2>2. /\ Op("forward", s, m).direction = "forward" /\ Op("forward", s, m).stage = s
        /\ Op("forward", s, m).microbatch = m
    BY <2>1, OpIs
  <2>3. /\ Op("backward", s, m).direction = "backward" /\ Op("backward", s, m).stage = s
        /\ Op("backward", s, m).microbatch = m
    BY <2>1, OpIs
  <2>4. QED
    BY <1>2, <2>2, <2>3 DEF Moment
<1>4. i \in 1..(2 * M)
  BY <1>1
<1>5. Turn(s, w, i) = IF i =< w + 1 /\ i =< M THEN s + i - 1
                      ELSE IF i =< 2 * M - w THEN 2 * S - s - 3 + i - w
                      ELSE 2 * S - 1 - s + 2 * (i - M - 1)
  BY DEF Turn
<1> SUFFICES o[i].stage = s /\ Moment(o[i]) = Turn(s, w, i)
  OBVIOUS
<1> HIDE DEF M, S, w, o
<1>6. CASE i =< w
  <2>1. i \in 1..w /\ i - 1 \in 0..(M - 1) /\ i - 1 < S - s /\ s + (i - 1) = s + i - 1 /\ i =< w + 1 /\ i =< M
    BY <1>1, <1>2, <1>4, <1>6
  <2>2. QED
    BY <1>1, <1>3, <1>5, <2>1
<1>7. CASE i > w /\ i =< 2 * M - w
  <2>1. PICK k \in 1..(M - w) : i = w + 2 * k - 1 \/ i = w + 2 * k
    <3> DEFINE d == i - w + 1
    <3>1. d \in Nat
      BY <1>1, <1>4, <1>7
    <3> HIDE DEF d
    <3>2. d \div 2 \in Nat /\ (d = 2 * (d \div 2) \/ d = 2 * (d \div 2) + 1)
      BY <3>1
    <3> DEFINE k == d \div 2
    <3>3. k \in Nat /\ (i - w + 1 = 2 * k \/ i - w + 1 = 2 * k + 1)
      BY <3>2 DEF d
    <3> HIDE DEF k
    <3>4. k \in 1..(M - w) /\ (i = w + 2 * k - 1 \/ i = w + 2 * k)
      BY <1>1, <1>2, <1>4, <1>7, <3>3
    <3>5. QED
      BY <3>4
  <2>2. w = S - s - 1 /\ w < M
    BY <1>1, <1>2, <1>7
  <2>3. CASE i = w + 2 * k - 1
    <3>1. o[i] = Op("forward", s, w + k - 1) /\ w + k - 1 \in 0..(M - 1)
      BY <1>1, <1>2, <2>1, <2>3
    <3>2. o[i].stage = s
          /\ Moment(o[i]) = IF w + k - 1 < S - s THEN s + (w + k - 1) ELSE s + 2 * (w + k - 1)
      BY <1>3, <3>1
    <3>3. CASE k = 1
      <4>1. w + k - 1 < S - s /\ i =< w + 1 /\ i =< M /\ s + (w + k - 1) = s + i - 1
        BY <1>1, <1>2, <2>2, <2>3, <3>3
      <4>2. QED
        BY <1>5, <3>2, <4>1
    <3>4. CASE k # 1
      <4>1. /\ ~(w + k - 1 < S - s) /\ ~(i =< w + 1) /\ i =< 2 * M - w
            /\ s + 2 * (w + k - 1) = 2 * S - s - 3 + i - w
        BY <1>1, <1>2, <1>7, <2>1, <2>2, <2>3, <3>4
      <4>2. QED
        BY <1>5, <3>2, <4>1
    <3>5. QED
      BY <3>3, <3>4
  <2>4. CASE i = w + 2 * k
    <3>1. o[i] = Op("backward", s, k - 1) /\ k - 1 \in 0..(M - 1)
      BY <1>1, <1>2, <2>1, <2>4
    <3>2. o[i].stage = s /\ Moment(o[i]) = 2 * S - 1 - s + 2 * (k - 1)
      BY <1>3, <3>1
    <3>3. ~(i =< w + 1) /\ i =< 2 * M - w /\ 2 * S - 1 - s + 2 * (k - 1) = 2 * S - s - 3 + i - w
      BY <1>1, <1>2, <1>7, <2>1, <2>4
    <3>4. QED
      BY <1>5, <3>2, <3>3
  <2>5. QED
    BY <2>1, <2>3, <2>4
<1>8. CASE i > 2 * M - w
  <2> DEFINE j == i - (2 * M - w)
  <2>1. j \in 1..w /\ 2 * M - w + j = i /\ M - w + j - 1 \in 0..(M - 1)
    BY <1>1, <1>2, <1>4, <1>8
  <2> HIDE DEF j
  <2>2. o[i] = Op("backward", s, M - w + j - 1)
    BY <1>1, <2>1
  <2>3. o[i].stage = s /\ Moment(o[i]) = 2 * S - 1 - s + 2 * (M - w + j - 1)
    BY <1>3, <2>1, <2>2
  <2>4. ~(i =< w + 1 /\ i =< M) /\ ~(i =< 2 * M - w) /\ M - w + j - 1 = i - M - 1
    BY <1>1, <1>2, <1>8, <2>1
  <2>5. QED
    BY <1>5, <2>3, <2>4
<1>9. QED
  BY <1>1, <1>2, <1>4, <1>6, <1>7, <1>8

LEMMA OrderAscends ==
  ASSUME plan \in Plans, PipelineAssumption, plan.policy = "1f1b", NEW s \in Stages,
         NEW i \in 1..Len(Order(s)), NEW j \in 1..Len(Order(s)), i < j
  PROVE  Moment(Order(s)[i]) < Moment(Order(s)[j])
<1> DEFINE M == plan.microbatches
           S == plan.stages
           w == WarmupCount(plan.stages, M, s)
<1>1. w \in 0..M /\ w =< S - s - 1 /\ (w < M => w = S - s - 1) /\ Len(Order(s)) = 2 * M
  BY StageOrdered DEF Order
<1>2. M \in Nat \ {0} /\ S \in Nat \ {0} /\ s \in 0..(S - 1)
  BY PlanTyped
<1>3. Moment(Order(s)[i]) = Turn(s, w, i) /\ Moment(Order(s)[j]) = Turn(s, w, j)
  BY OrderTimed
<1>4. /\ Turn(s, w, i) = IF i =< w + 1 /\ i =< M THEN s + i - 1
                         ELSE IF i =< 2 * M - w THEN 2 * S - s - 3 + i - w
                         ELSE 2 * S - 1 - s + 2 * (i - M - 1)
      /\ Turn(s, w, j) = IF j =< w + 1 /\ j =< M THEN s + j - 1
                         ELSE IF j =< 2 * M - w THEN 2 * S - s - 3 + j - w
                         ELSE 2 * S - 1 - s + 2 * (j - M - 1)
  BY DEF Turn
<1>5. i \in 1..(2 * M) /\ j \in 1..(2 * M)
  BY <1>1
<1> HIDE DEF M, S, w
<1>6. Turn(s, w, i) < Turn(s, w, j)
  BY <1>1, <1>2, <1>4, <1>5
<1>7. QED
  BY <1>3, <1>6

-------------------------------------------------------------------------------
(* Of two operations of a stage, and of a slot without one.                   *)

LEMMA NoneInOrder == SetToSeq({}) = <<>>
<1> DEFINE f == SetToSeq({})
<1>1. Cardinality({}) = 0
  BY FS_EmptySet
<1>2. [1..0 -> {}] = {<<>>}
  <2>1. <<>> \in [1..0 -> {}]
    OBVIOUS
  <2>2. ASSUME NEW g \in [1..0 -> {}] PROVE g = <<>>
    OBVIOUS
  <2>3. QED
    BY <2>1, <2>2
<1>3. \E g \in [1..0 -> {}] : IsInjective(g)
  <2>1. IsInjective(<<>>)
    BY DEF IsInjective
  <2>2. QED
    BY <1>2, <2>1
<1>4. f \in [1..0 -> {}]
  BY <1>1, <1>3 DEF SetToSeq
<1>5. QED
  BY <1>2, <1>4

LEMMA OneInOrder == ASSUME NEW x PROVE SetToSeq({x}) = <<x>>
<1> DEFINE f == SetToSeq({x})
<1>1. Cardinality({x}) = 1
  BY FS_Singleton
<1>2. \E g \in [1..1 -> {x}] : IsInjective(g)
  <2>1. <<x>> \in [1..1 -> {x}] /\ IsInjective(<<x>>)
    BY DEF IsInjective
  <2>2. QED
    BY <2>1
<1>3. f \in [1..1 -> {x}]
  BY <1>1, <1>2 DEF SetToSeq
<1>4. f \in Seq({x}) /\ Len(f) = 1 /\ f[1] = x
  <2> HIDE DEF f
  <2>1. 1 \in Nat /\ 1 \in 1..1
    OBVIOUS
  <2>2. f[1] \in {x}
    BY <1>3, <2>1
  <2>3. QED
    BY <1>3, <2>1, <2>2
<1>5. <<x>> \in Seq({x}) /\ Len(<<x>>) = 1 /\ <<x>>[1] = x
  OBVIOUS
<1> HIDE DEF f
<1>6. \A i \in 1..1 : f[i] = <<x>>[i]
  BY <1>4, <1>5
<1>7. f = <<x>>
  BY <1>4, <1>5, <1>6, SeqEqual
<1>8. QED
  BY <1>7 DEF f

\* What runs a slot earlier: an input, or something of the same stage.
LEMMA MomentTight ==
  ASSUME plan \in Plans, PipelineAssumption, plan.policy = "1f1b", NEW op \in Operations, Moment(op) > 0
  PROVE  \E p \in Operations : /\ Moment(p) = Moment(op) - 1
                               /\ p \in Dependencies(op) \/ p.stage = op.stage
<1> DEFINE S == plan.stages
           M == plan.microbatches
           s == op.stage
           m == op.microbatch
           f(i, j) == Op("forward", i, j)
           b(i, j) == Op("backward", i, j)
<1>1. /\ op.direction \in {"forward", "backward"} /\ s \in 0..(S - 1) /\ m \in 0..(M - 1)
      /\ op = Op(op.direction, s, m) /\ S \in Nat \ {0} /\ M \in Nat \ {0}
      /\ Stages = 0..(S - 1) /\ Microbatches = 0..(M - 1)
  BY PlanTyped, OpTyped
<1>2. ASSUME NEW i \in 0..(S - 1), NEW j \in 0..(M - 1)
      PROVE  /\ f(i, j) \in Operations /\ b(i, j) \in Operations /\ i \in Int /\ j \in Int
             /\ f(i, j).stage = i /\ b(i, j).stage = i
             /\ Moment(f(i, j)) = IF j < S - i THEN i + j ELSE i + 2 * j
             /\ Moment(b(i, j)) = 2 * S - 1 - i + 2 * j
  <2>1. /\ f(i, j) \in Operations /\ f(i, j).direction = "forward" /\ f(i, j).stage = i
        /\ f(i, j).microbatch = j
    BY <1>1, OpIs
  <2>2. /\ b(i, j) \in Operations /\ b(i, j).direction = "backward" /\ b(i, j).stage = i
        /\ b(i, j).microbatch = j
    BY <1>1, OpIs
  <2>3. i \in Int /\ j \in Int /\ S \in Int
    BY <1>1
  <2> HIDE DEF f, b
  <2>4. QED
    BY <1>1, <2>1, <2>2, <2>3 DEF Moment
<1>3. CASE op = f(s, m)
  <2>0. op.direction = "forward"
    BY <1>3 DEF Op
  <2>1. CASE m < S - s /\ s > 0
    <3>1. s - 1 \in 0..(S - 1) /\ m < S - (s - 1) /\ s - 1 \in Stages \cap {s - 1}
      BY <1>1, <2>1
    <3>2. f(s - 1, m) \in Dependencies(op)
      BY <2>0, <3>1 DEF Dependencies
    <3> HIDE DEF S, M, s, m, f, b
    <3>3. Moment(f(s - 1, m)) = s - 1 + m /\ Moment(op) = s + m /\ f(s - 1, m) \in Operations
      BY <1>1, <1>2, <1>3, <2>1, <3>1
    <3>4. QED
      BY <1>1, <3>2, <3>3
  <2>2. CASE m < S - s /\ s = 0
    <3> HIDE DEF S, M, s, m, f, b
    <3>1. Moment(op) = 0 + m
      BY <1>1, <1>2, <1>3, <2>2
    <3>2. m - 1 \in 0..(M - 1) /\ m - 1 < S - 0 /\ 0 \in 0..(S - 1)
      BY <1>1, <2>2, <3>1
    <3>3. Moment(f(0, m - 1)) = 0 + (m - 1) /\ f(0, m - 1) \in Operations /\ f(0, m - 1).stage = 0
      BY <1>1, <1>2, <3>2
    <3>4. QED
      BY <1>1, <2>2, <3>1, <3>3 DEF s
  <2>3. CASE m >= S - s
    <3> HIDE DEF S, M, s, m, f, b
    <3> DEFINE j == m - (S - s)
    <3>1. j \in 0..(M - 1) /\ 2 * S - 1 - s + 2 * j = s + 2 * m - 1
      BY <1>1, <2>3
    <3> HIDE DEF j
    <3>2. Moment(b(s, j)) = s + 2 * m - 1 /\ b(s, j) \in Operations /\ b(s, j).stage = s
      BY <1>1, <1>2, <3>1
    <3>3. Moment(op) = s + 2 * m
      BY <1>1, <1>2, <1>3, <2>3
    <3>4. QED
      BY <1>1, <3>2, <3>3 DEF s
  <2>4. QED
    BY <1>1, <2>1, <2>2, <2>3
<1>4. CASE op = b(s, m)
  <2>0. op.direction = "backward"
    BY <1>4 DEF Op
  <2>1. CASE s < S - 1
    <3>1. s + 1 \in 0..(S - 1) /\ s + 1 \in Stages \cap {s + 1}
      BY <1>1, <2>1
    <3>2. b(s + 1, m) \in Dependencies(op)
      BY <2>0, <3>1 DEF Dependencies
    <3> HIDE DEF S, M, s, m, f, b
    <3>3. /\ Moment(b(s + 1, m)) = 2 * S - 1 - (s + 1) + 2 * m /\ b(s + 1, m) \in Operations
          /\ Moment(op) = 2 * S - 1 - s + 2 * m
      BY <1>1, <1>2, <1>4, <3>1
    <3>4. QED
      BY <1>1, <3>2, <3>3
  <2>2. CASE s = S - 1
    <3>1. f(s, m) \in Dependencies(op)
      BY <2>0 DEF Dependencies
    <3> HIDE DEF S, M, s, m, f, b
    <3>2. /\ Moment(f(s, m)) = s + 2 * m /\ f(s, m) \in Operations
          /\ Moment(op) = 2 * S - 1 - s + 2 * m
      <4>1. /\ Moment(f(s, m)) = (IF m < S - s THEN s + m ELSE s + 2 * m) /\ f(s, m) \in Operations
            /\ Moment(op) = 2 * S - 1 - s + 2 * m
        BY <1>1, <1>2, <1>4
      <4>2. QED
        BY <1>1, <2>2, <4>1
    <3>3. QED
      BY <1>1, <2>2, <3>1, <3>2
  <2>3. QED
    BY <1>1, <2>1, <2>2
<1>5. QED
  BY <1>1, <1>3, <1>4

-------------------------------------------------------------------------------
(* The invariant: what has run is what was due.                               *)

\* The inductive invariant: the slots so far are those of the moments so far, and
\* under 1F1B each stage has run its order up to there.
Ran(t) == {op \in Operations : Moment(op) = t}

Halfway(s) ==
  /\ StageOrder(s) \in Seq(Operations) /\ pending[s] \in Seq(Operations)
  /\ StageOrder(s) \o pending[s] = Order(s)
  /\ \A i \in 1..Len(StageOrder(s)) : Moment(StageOrder(s)[i]) < Len(slots)
  /\ \A i \in 1..Len(pending[s]) : Moment(pending[s][i]) >= Len(slots)

PipelineInv ==
  /\ plan \in Plans
  /\ slots \in Seq(SUBSET Operations) /\ Len(slots) =< 2 * Span
  /\ \A i \in 1..Len(slots) : slots[i] = Ran(i - 1)
  /\ completed = {op \in Operations : Moment(op) < Len(slots)}
  /\ plan.policy = "1f1b" => \A s \in Stages : Halfway(s)

LEMMA InvTyped ==
  ASSUME PipelineAssumption, PipelineInv
  PROVE  /\ plan \in Plans /\ Len(slots) \in Nat /\ Len(slots) =< 2 * Span
         /\ slots \in Seq(SUBSET Operations) /\ plan.policy \in {"gpipe", "1f1b"}
         /\ \A i \in 1..Len(slots) : slots[i] = Ran(i - 1)
         /\ completed = {op \in Operations : Moment(op) < Len(slots)}
  BY PlanTyped DEF PipelineInv

\* What a stage runs in a slot, as a sequence.
LEMMA OneEach ==
  ASSUME plan \in Plans, PipelineAssumption, NEW s \in Stages, NEW t \in Int
  PROVE  LET its == {op \in Ran(t) : op.stage = s}
         IN \/ its = {} /\ SetToSeq(its) = <<>>
            \/ \E x \in its : its = {x} /\ SetToSeq(its) = <<x>>
<1> DEFINE its == {op \in Ran(t) : op.stage = s}
<1>1. CASE its = {}
  BY <1>1, NoneInOrder
<1>2. CASE its # {}
  <2>1. PICK x \in its : TRUE
    BY <1>2
  <2>2. \A y \in its : y = x
    BY <2>1, MomentDistinct DEF Ran
  <2>3. its = {x}
    BY <2>1, <2>2
  <2>4. SetToSeq(its) = <<x>>
    BY <2>3, OneInOrder
  <2>5. QED
    BY <2>1, <2>3, <2>4
<1>3. QED
  BY <1>1, <1>2

\* What is pending has not run, in the order of its stage.
LEMMA PendingLeast ==
  ASSUME PipelineAssumption, PipelineInv, plan.policy = "1f1b", NEW op \in Operations,
         Moment(op) >= Len(slots)
  PROVE  /\ pending[op.stage] # <<>> /\ Moment(Head(pending[op.stage])) =< Moment(op)
         /\ \E i \in 1..Len(pending[op.stage]) : pending[op.stage][i] = op
<1> DEFINE s == op.stage
           a == StageOrder(s)
           p == pending[s]
           o == Order(s)
           t == Len(slots)
<1>1. plan \in Plans /\ t \in Nat /\ s \in Stages
  BY InvTyped, OpTyped
<1>2. /\ a \in Seq(Operations) /\ p \in Seq(Operations) /\ a \o p = o
      /\ \A i \in 1..Len(a) : Moment(a[i]) < t
      /\ \A i \in 1..Len(p) : Moment(p[i]) >= t
  BY <1>1 DEF PipelineInv, Halfway
<1>3. PICK i \in 1..Len(o) : o[i] = op
  BY <1>1, OrderComplete
<1>4. ASSUME NEW x \in 1..Len(o), NEW y \in 1..Len(o), x < y PROVE Moment(o[x]) < Moment(o[y])
  BY <1>1, <1>4, OrderAscends
<1>5. Moment(op) \in Nat /\ Moment(op) >= t
  BY <1>1, MomentTyped
<1> HIDE DEF a, p, o, t
<1>6. /\ o \in Seq(Operations) /\ Len(o) = Len(a) + Len(p) /\ Len(a) \in Nat /\ Len(p) \in Nat
      /\ \A k \in 1..(Len(a) + Len(p)) : o[k] = IF k =< Len(a) THEN a[k] ELSE p[k - Len(a)]
  <2>1. a \in Seq(Operations) /\ p \in Seq(Operations) /\ a \o p = o
    BY <1>2
  <2>2. /\ a \o p \in Seq(Operations) /\ Len(a \o p) = Len(a) + Len(p)
        /\ \A k \in 1..(Len(a) + Len(p)) : (a \o p)[k] = IF k =< Len(a) THEN a[k] ELSE p[k - Len(a)]
    <3>1. a \in Seq(Operations) /\ p \in Seq(Operations)
      BY <2>1
    <3>2. QED
      BY <3>1, ConcatProperties
  <2>3. Len(a) \in Nat /\ Len(p) \in Nat
    BY <2>1
  <2>4. o \in Seq(Operations) /\ Len(o) = Len(a) + Len(p)
    BY <2>1, <2>2
  <2>5. ASSUME NEW k \in 1..(Len(a) + Len(p)) PROVE o[k] = IF k =< Len(a) THEN a[k] ELSE p[k - Len(a)]
    BY <2>1, <2>2
  <2>6. QED
    BY <2>3, <2>4, <2>5
<1>7. i > Len(a) /\ i - Len(a) \in 1..Len(p) /\ p[i - Len(a)] = op
  <2>1. ~(i =< Len(a))
    <3>1. SUFFICES ASSUME i =< Len(a) PROVE FALSE
      OBVIOUS
    <3>2. i \in 1..Len(a) /\ a[i] = op
      BY <1>3, <1>6, <3>1
    <3>3. Moment(op) < t
      BY <1>2, <3>2
    <3>4. QED
      BY <1>1, <1>5, <3>3
  <2>2. QED
    BY <1>3, <1>6, <2>1
<1>8. p # <<>> /\ Head(p) = p[1] /\ Len(a) + 1 \in 1..Len(o) /\ o[Len(a) + 1] = p[1]
  <2>1. Len(p) > 0
    BY <1>6, <1>7
  <2>2. p # <<>> /\ Head(p) = p[1]
    BY <1>2, <2>1
  <2>3. /\ Len(a) + 1 \in 1..(Len(a) + Len(p)) /\ ~(Len(a) + 1 =< Len(a)) /\ Len(a) + 1 - Len(a) = 1
    BY <1>6, <2>1
  <2>4. QED
    BY <1>6, <2>2, <2>3
<1>9. Moment(Head(p)) =< Moment(op)
  <2>1. CASE i = Len(a) + 1
    BY <1>3, <1>5, <1>8, <2>1
  <2>2. CASE i # Len(a) + 1
    <3>1. Len(a) + 1 < i
      BY <1>3, <1>6, <1>7, <2>2
    <3>2. Moment(o[Len(a) + 1]) < Moment(o[i])
      BY <1>3, <1>4, <1>8, <3>1
    <3>3. p[1] \in Operations
      BY <1>2, <1>6, <1>7
    <3>4. Moment(p[1]) \in Nat
      BY <1>1, <3>3, MomentTyped
    <3>5. QED
      BY <1>3, <1>5, <1>8, <3>2, <3>4
  <2>3. QED
    BY <2>1, <2>2
<1>10. QED
  BY <1>7, <1>8, <1>9 DEF p

LEMMA HeadPending ==
  ASSUME PipelineAssumption, PipelineInv, plan.policy = "1f1b", NEW s \in Stages, pending[s] # <<>>
  PROVE  /\ Head(pending[s]) \in Operations /\ Head(pending[s]).stage = s
         /\ Moment(Head(pending[s])) \in Nat /\ Moment(Head(pending[s])) >= Len(slots)
         /\ \A i \in 1..Len(pending[s]) : pending[s][i].stage = s
         /\ \A i \in 2..Len(pending[s]) : Moment(pending[s][i]) > Moment(Head(pending[s]))
<1> DEFINE a == StageOrder(s)
           p == pending[s]
           o == Order(s)
           t == Len(slots)
<1>1. plan \in Plans /\ t \in Nat
  BY InvTyped
<1>2. /\ a \in Seq(Operations) /\ p \in Seq(Operations) /\ a \o p = o
      /\ \A i \in 1..Len(p) : Moment(p[i]) >= t
  BY DEF PipelineInv, Halfway
<1>4. /\ \A x, y \in 1..Len(o) : x < y => Moment(o[x]) < Moment(o[y])
      /\ \A x \in 1..Len(o) : o[x].stage = s
  BY <1>1, OrderAscends, OrderTimed
<1> HIDE DEF a, o, t
<1>5. p # <<>>
  OBVIOUS
<1> HIDE DEF p
<1>6. /\ o \in Seq(Operations) /\ Len(o) = Len(a) + Len(p) /\ Len(a) \in Nat /\ Len(p) \in Nat \ {0}
      /\ \A k \in 1..(Len(a) + Len(p)) : o[k] = IF k =< Len(a) THEN a[k] ELSE p[k - Len(a)]
  <2>1. a \in Seq(Operations) /\ p \in Seq(Operations) /\ a \o p = o
    BY <1>2
  <2>2. /\ a \o p \in Seq(Operations) /\ Len(a \o p) = Len(a) + Len(p)
        /\ \A k \in 1..(Len(a) + Len(p)) : (a \o p)[k] = IF k =< Len(a) THEN a[k] ELSE p[k - Len(a)]
    <3>1. a \in Seq(Operations) /\ p \in Seq(Operations)
      BY <2>1
    <3>2. QED
      BY <3>1, ConcatProperties
  <2>3. QED
    BY <1>5, <2>1, <2>2
<1>7. ASSUME NEW i \in 1..Len(p) PROVE o[Len(a) + i] = p[i] /\ Len(a) + i \in 1..Len(o)
  <2>1. Len(a) + i \in 1..(Len(a) + Len(p)) /\ ~(Len(a) + i =< Len(a)) /\ Len(a) + i - Len(a) = i
    BY <1>6
  <2>2. QED
    BY <1>6, <2>1
<1>8. Head(p) = p[1] /\ 1 \in 1..Len(p) /\ p[1] \in Operations
  BY <1>2, <1>5, <1>6
<1>9. \A i \in 1..Len(p) : p[i].stage = s
  BY <1>4, <1>7
<1>10. ASSUME NEW i \in 2..Len(p) PROVE Moment(p[i]) > Moment(p[1])
  <2>1. i \in 1..Len(p) /\ Len(a) + 1 < Len(a) + i
    BY <1>6
  <2>2. Moment(o[Len(a) + 1]) < Moment(o[Len(a) + i])
    BY <1>4, <1>7, <1>8, <2>1
  <2>3. p[i] \in Operations
    BY <1>2, <2>1
  <2>4. Moment(p[1]) \in Nat /\ Moment(p[i]) \in Nat
    BY <1>1, <1>8, <2>3, MomentTyped
  <2>5. QED
    BY <1>7, <1>8, <2>1, <2>2, <2>4
<1>11. Moment(p[1]) \in Nat
  BY <1>1, <1>8, MomentTyped
<1>12. QED
  BY <1>2, <1>8, <1>9, <1>10, <1>11 DEF p, t

\* A stage can run now exactly what its order has for this slot.
LEMMA RunnableIs ==
  ASSUME PipelineAssumption, PipelineInv, plan.policy = "1f1b", NEW s \in Stages, pending[s] # <<>>
  PROVE  s \in Runnable <=> Moment(Head(pending[s])) = Len(slots)
<1> DEFINE h == Head(pending[s])
           t == Len(slots)
<1>1. plan \in Plans /\ t \in Nat /\ completed = {op \in Operations : Moment(op) < t}
  BY InvTyped
<1>2. h \in Operations /\ h.stage = s /\ Moment(h) \in Nat /\ Moment(h) >= t
  BY HeadPending
<1>3. s \in Runnable <=> Dependencies(h) \subseteq completed
  BY DEF Runnable
<1> HIDE DEF h, t
<1>4. ASSUME Moment(h) = t PROVE Dependencies(h) \subseteq completed
  <2>1. SUFFICES ASSUME NEW d \in Dependencies(h) PROVE d \in completed
    OBVIOUS
  <2>2. d \in Operations /\ Moment(d) < Moment(h)
    BY <1>1, <1>2, MomentDepends
  <2>3. QED
    BY <1>1, <1>4, <2>2
<1>5. ASSUME Moment(h) # t, Dependencies(h) \subseteq completed PROVE FALSE
  <2>1. Moment(h) > 0 /\ Moment(h) - 1 >= t
    BY <1>1, <1>2, <1>5
  <2>2. PICK p \in Operations : /\ Moment(p) = Moment(h) - 1
                                /\ p \in Dependencies(h) \/ p.stage = h.stage
    BY <1>1, <1>2, <2>1, MomentTight
  <2>3. p \notin completed
    BY <1>1, <1>2, <2>1, <2>2
  <2>4. p.stage = s
    BY <1>2, <1>5, <2>2, <2>3
  <2>5. Moment(p) >= t
    BY <2>1, <2>2
  <2>6. Moment(h) =< Moment(p)
    <3>1. Moment(Head(pending[p.stage])) =< Moment(p)
      BY <2>5, PendingLeast DEF t
    <3>2. QED
      BY <2>4, <3>1 DEF h
  <2>7. QED
    BY <1>2, <2>2, <2>6
<1>6. QED
  BY <1>3, <1>4, <1>5 DEF h, t

-------------------------------------------------------------------------------
(* A slot more.                                                               *)

LEMMA PlanStays ==
  ASSUME plan' = plan
  PROVE  /\ Operations' = Operations /\ Stages' = Stages /\ Span' = Span
         /\ \A op : Moment(op)' = Moment(op)
         /\ \A t : Ran(t)' = Ran(t)
         /\ \A s : Order(s)' = Order(s)
<1>1. Operations' = Operations /\ Stages' = Stages /\ Span' = Span
  BY DEF Operations, Stages, Microbatches, Span
<1>2. \A op : Moment(op)' = Moment(op)
  BY <1>1 DEF Moment
<1>3. \A s : Order(s)' = Order(s)
  BY DEF Order
<1>4. \A t : Ran(t)' = Ran(t)
  BY <1>1, <1>2 DEF Ran
<1>5. QED
  BY <1>1, <1>2, <1>3, <1>4

\* What a stage runs slot by slot.
ItsOf(sl, s) == [i \in 1..Len(sl) |-> SetToSeq({op \in sl[i] : op.stage = s})]

LEMMA ItsGrow ==
  ASSUME plan \in Plans, PipelineAssumption, NEW s \in Stages, NEW sl \in Seq(SUBSET Operations),
         \A i \in 1..Len(sl) : sl[i] = Ran(i - 1)
  PROVE  LET more == SetToSeq({op \in Ran(Len(sl)) : op.stage = s})
         IN /\ ItsOf(sl, s) \in Seq(Seq(Operations)) /\ more \in Seq(Operations)
            /\ ItsOf(Append(sl, Ran(Len(sl))), s) = Append(ItsOf(sl, s), more)
<1> DEFINE n == Len(sl)
           P == Seq(Operations)
           its(i) == SetToSeq({op \in sl[i] : op.stage = s})
           more == SetToSeq({op \in Ran(n) : op.stage = s})
           tl == Append(sl, Ran(n))
           u == ItsOf(sl, s)
           v == ItsOf(tl, s)
           w == Append(u, more)
<1>1. n \in Nat
  OBVIOUS
<1>2. ASSUME NEW t \in Int PROVE SetToSeq({op \in Ran(t) : op.stage = s}) \in P
  <2> DEFINE r == {op \in Ran(t) : op.stage = s}
  <2>1. (r = {} /\ SetToSeq(r) = <<>>) \/ \E x \in r : r = {x} /\ SetToSeq(r) = <<x>>
    BY OneEach
  <2>2. r \subseteq Operations
    BY DEF Ran
  <2> HIDE DEF r
  <2>3. <<>> \in Seq(Operations)
    BY EmptySeq
  <2>4. CASE r = {} /\ SetToSeq(r) = <<>>
    BY <2>3, <2>4 DEF r
  <2>5. CASE \E x \in r : r = {x} /\ SetToSeq(r) = <<x>>
    <3>1. PICK x \in Operations : SetToSeq(r) = <<x>>
      BY <2>2, <2>5
    <3>2. <<x>> \in Seq(Operations)
      OBVIOUS
    <3>3. QED
      BY <3>1, <3>2 DEF r
  <2>6. QED
    BY <2>1, <2>4, <2>5
<1>3. ASSUME NEW i \in 1..n PROVE its(i) \in P
  <2>1. i - 1 \in Int /\ sl[i] = Ran(i - 1)
    BY <1>1
  <2>2. QED
    BY <1>2, <2>1
<1>4. more \in P
  <2>1. n \in Int
    BY <1>1
  <2>2. QED
    BY <1>2, <2>1, Zenon
<1> HIDE DEF P
<1>5. u \in Seq(P) /\ Len(u) = n /\ \A i \in 1..n : u[i] = its(i)
  <2>1. u \in [1..n -> P] /\ \A i \in 1..n : u[i] = its(i)
    BY <1>3 DEF ItsOf
  <2> HIDE DEF u, its, n
  <2>2. QED
    BY <1>1, <2>1
<1>6. Len(tl) = n + 1 /\ tl[n + 1] = Ran(n) /\ \A i \in 1..n : tl[i] = sl[i]
  <2>1. Ran(n) \in SUBSET Operations
    BY DEF Ran
  <2>2. QED
    BY <2>1
<1>7. v \in Seq(P) /\ Len(v) = n + 1 /\ v[n + 1] = more /\ \A i \in 1..n : v[i] = its(i)
  <2>1. \A i \in 1..(n + 1) : i = n + 1 \/ i \in 1..n
    BY <1>1
  <2> DEFINE f(i) == SetToSeq({op \in tl[i] : op.stage = s})
  <2>2. v = [i \in 1..(n + 1) |-> f(i)]
    BY <1>6 DEF ItsOf
  <2>3. f(n + 1) = more /\ \A i \in 1..n : f(i) = its(i)
    BY <1>6
  <2>4. \A i \in 1..(n + 1) : f(i) \in P
    BY <1>3, <1>4, <2>1, <2>3
  <2> HIDE DEF f, v, its, n, more
  <2>5. n + 1 \in Nat /\ n + 1 \in 1..(n + 1) /\ 1..n \subseteq 1..(n + 1)
    BY <1>1
  <2>6. v \in Seq(P) /\ Len(v) = n + 1
    BY <2>2, <2>4, <2>5
  <2>7. \A i \in 1..(n + 1) : v[i] = f(i)
    BY <2>2
  <2>8. QED
    BY <2>3, <2>5, <2>6, <2>7
<1> HIDE DEF u, v, more, its, tl
<1>8. w \in Seq(P) /\ Len(w) = n + 1 /\ w[n + 1] = more /\ \A i \in 1..n : w[i] = u[i]
  BY <1>1, <1>4, <1>5
<1> HIDE DEF w
<1>9. \A i \in 1..(n + 1) : v[i] = w[i]
  <2>1. \A i \in 1..(n + 1) : i = n + 1 \/ i \in 1..n
    BY <1>1
  <2>2. QED
    BY <1>5, <1>7, <1>8, <2>1
<1>10. v = w
  BY <1>7, <1>8, <1>9, SeqEqual
<1>11. QED
  BY <1>4, <1>5, <1>10 DEF u, v, w, more, tl, P

LEMMA StageOrderIs ==
  ASSUME NEW s
  PROVE  StageOrder(s) = FlattenSeq(ItsOf(slots, s)) /\ StageOrder(s)' = FlattenSeq(ItsOf(slots', s))
  BY DEF StageOrder, ItsOf

\* A slot more.
LEMMA StageOrderGrows ==
  ASSUME PipelineAssumption, PipelineInv, NEW s \in Stages, slots' = Append(slots, Ran(Len(slots)))
  PROVE  StageOrder(s)' = StageOrder(s) \o SetToSeq({op \in Ran(Len(slots)) : op.stage = s})
<1> DEFINE more == SetToSeq({op \in Ran(Len(slots)) : op.stage = s})
<1>1. /\ plan \in Plans /\ slots \in Seq(SUBSET Operations)
      /\ \A i \in 1..Len(slots) : slots[i] = Ran(i - 1)
  BY InvTyped
<1>2. /\ ItsOf(slots, s) \in Seq(Seq(Operations)) /\ more \in Seq(Operations)
      /\ ItsOf(slots', s) = Append(ItsOf(slots, s), more)
  BY <1>1, ItsGrow
<1> HIDE DEF more
<1>3. FlattenSeq(Append(ItsOf(slots, s), more)) = FlattenSeq(ItsOf(slots, s)) \o more
  BY <1>2, FlattenAppend
<1>4. QED
  BY <1>2, <1>3, StageOrderIs DEF more

LEMMA SlotMore ==
  ASSUME PipelineAssumption, PipelineInv, Len(slots) < 2 * Span, Emit(Ran(Len(slots)))
  PROVE  /\ plan' = plan /\ plan' \in Plans /\ slots' = Append(slots, Ran(Len(slots)))
         /\ Len(slots') = Len(slots) + 1
         /\ (slots \in Seq(SUBSET Operations) /\ Len(slots) =< 2 * Span)'
         /\ (\A i \in 1..Len(slots) : slots[i] = Ran(i - 1))'
         /\ (completed = {op \in Operations : Moment(op) < Len(slots)})'
<1> DEFINE t == Len(slots)
<1>1. /\ plan \in Plans /\ t \in Nat /\ slots \in Seq(SUBSET Operations)
      /\ \A i \in 1..t : slots[i] = Ran(i - 1)
      /\ completed = {op \in Operations : Moment(op) < t}
  BY InvTyped
<1>2. plan' = plan /\ slots' = Append(slots, Ran(t)) /\ completed' = completed \cup Ran(t)
  BY DEF Emit
<1>3. Ran(t) \in SUBSET Operations
  BY DEF Ran
<1>4. /\ slots' \in Seq(SUBSET Operations) /\ Len(slots') = t + 1 /\ slots'[t + 1] = Ran(t)
      /\ \A i \in 1..t : slots'[i] = slots[i]
  BY <1>1, <1>2, <1>3
<1>5. /\ Operations' = Operations /\ Span' = Span /\ \A op : Moment(op)' = Moment(op)
      /\ \A k : Ran(k)' = Ran(k)
  BY <1>2, PlanStays
<1>6. Span \in Nat /\ t < 2 * Span
  BY <1>1, PlanTyped
<1>7. slots' \in Seq(SUBSET Operations') /\ Len(slots') =< 2 * Span'
  BY <1>1, <1>4, <1>5, <1>6
<1> HIDE DEF t
<1>8. \A i \in 1..(t + 1) : slots'[i] = Ran(i - 1)
  <2>1. \A i \in 1..(t + 1) : i = t + 1 \/ i \in 1..t
    BY <1>1
  <2>2. t + 1 - 1 = t
    BY <1>1
  <2>3. QED
    BY <1>1, <1>4, <2>1, <2>2
<1>9. completed' = {op \in Operations : Moment(op) < t + 1}
  <2>1. \A op \in Operations : Moment(op) < t + 1 <=> Moment(op) < t \/ Moment(op) = t
    BY <1>1, MomentTyped
  <2>2. QED
    BY <1>1, <1>2, <2>1 DEF Ran
<1>10. (\A i \in 1..Len(slots) : slots[i] = Ran(i - 1))'
  BY <1>4, <1>5, <1>8
<1>11. (completed = {op \in Operations : Moment(op) < Len(slots)})'
  BY <1>4, <1>5, <1>9
<1>12. QED
  BY <1>1, <1>2, <1>4, <1>7, <1>10, <1>11 DEF t

-------------------------------------------------------------------------------
(* Every step runs what is due.                                               *)

LEMMA PipelineInitInv == ASSUME PipelineAssumption, PipelineInit PROVE PipelineInv
<1>1. plan \in Plans /\ slots = <<>> /\ completed = {} /\ Len(slots) = 0 /\ Span \in Nat
  BY PlanTyped DEF PipelineInit
<1>2. completed = {op \in Operations : Moment(op) < Len(slots)}
  BY <1>1, MomentTyped
<1>3. slots \in Seq(SUBSET Operations)
  BY <1>1, EmptySeq
<1>4. ASSUME plan.policy = "1f1b", NEW s \in Stages PROVE Halfway(s)
  <2>1. pending[s] = Order(s)
    BY <1>4 DEF PipelineInit, Order
  <2>2. Order(s) \in Seq(Operations)
    BY <1>1, OrderTyped
  <2>3. ItsOf(slots, s) = <<>>
    BY <1>1 DEF ItsOf
  <2>4. StageOrder(s) = <<>>
    BY <2>3, StageOrderIs, FlattenNothing
  <2>5. \A i \in 1..Len(Order(s)) : Moment(Order(s)[i]) >= 0
    <3>1. \A i \in 1..Len(Order(s)) : Order(s)[i] \in Operations
      BY <2>2, ElementOfSeq
    <3>2. QED
      BY <1>1, <3>1, MomentTyped
  <2>6. <<>> \in Seq(Operations) /\ Len(<<>>) = 0 /\ <<>> \o Order(s) = Order(s)
    BY <2>2, EmptySeq, ConcatEmptySeq
  <2>7. QED
    BY <1>1, <2>1, <2>2, <2>4, <2>5, <2>6 DEF Halfway
<1>5. QED
  BY <1>1, <1>2, <1>3, <1>4 DEF PipelineInv

\* GPipe.
LEMMA Gpiped ==
  ASSUME plan \in Plans, PipelineAssumption, plan.policy = "gpipe", NEW op \in Operations
  PROVE  /\ op.stage + op.microbatch \in 0..(Span - 1)
         /\ op.direction = "forward" => Moment(op) = op.stage + op.microbatch
         /\ op.direction # "forward" => Moment(op) = 2 * Span - 1 - (op.stage + op.microbatch)
         /\ op.direction \in {"forward", "backward"}
<1>1. /\ op.direction \in {"forward", "backward"} /\ op.stage \in 0..(plan.stages - 1)
      /\ op.microbatch \in 0..(plan.microbatches - 1)
  BY PlanTyped, OpTyped
<1>2. /\ plan.stages \in Nat \ {0} /\ plan.microbatches \in Nat \ {0}
      /\ Span = plan.stages + plan.microbatches - 1
  BY PlanTyped
<1>3. QED
  BY <1>1, <1>2 DEF Moment

LEMMA GpipeInv ==
  ASSUME PipelineAssumption, PipelineInv, GpipeForward \/ GpipeBackward
  PROVE  PipelineInv'
<1>1. plan \in Plans /\ Len(slots) \in Nat /\ Span \in Nat \ {0} /\ plan.policy = "gpipe"
  BY InvTyped, PlanTyped DEF GpipeForward, GpipeBackward
<1>2. Len(slots) < 2 * Span /\ Emit(Ran(Len(slots)))
  <2>1. CASE GpipeForward
    <3>1. \A op \in Operations : op.direction = "forward" /\ op.stage + op.microbatch = Len(slots)
                                   <=> Moment(op) = Len(slots)
      BY <1>1, <2>1, Gpiped DEF GpipeForward
    <3>2. {op \in Operations : op.direction = "forward" /\ op.stage + op.microbatch = Len(slots)}
            = Ran(Len(slots))
      BY <3>1 DEF Ran
    <3>3. /\ Len(slots) < Span
          /\ Emit({op \in Operations : op.direction = "forward" /\ op.stage + op.microbatch = Len(slots)})
      BY <2>1 DEF GpipeForward
    <3>4. Len(slots) < 2 * Span
      BY <1>1, <3>3
    <3>5. QED
      BY <3>2, <3>3, <3>4
  <2>2. CASE GpipeBackward
    <3>1. \A op \in Operations :
            op.direction = "backward" /\ op.stage + op.microbatch = 2 * Span - 1 - Len(slots)
              <=> Moment(op) = Len(slots)
      BY <1>1, <2>2, Gpiped DEF GpipeBackward
    <3>2. {op \in Operations :
             op.direction = "backward" /\ op.stage + op.microbatch = 2 * Span - 1 - Len(slots)}
            = Ran(Len(slots))
      BY <3>1 DEF Ran
    <3>3. QED
      BY <1>1, <2>2, <3>2 DEF GpipeBackward
  <2>3. QED
    BY <2>1, <2>2
<1>3. /\ plan' = plan /\ plan' \in Plans
      /\ (slots \in Seq(SUBSET Operations) /\ Len(slots) =< 2 * Span)'
      /\ (\A i \in 1..Len(slots) : slots[i] = Ran(i - 1))'
      /\ (completed = {op \in Operations : Moment(op) < Len(slots)})'
  BY <1>2, SlotMore
<1>4. QED
  BY <1>1, <1>3 DEF PipelineInv

\* 1F1B: the stages that run now are those whose order has something for now.
LEMMA HeadsRan ==
  ASSUME PipelineAssumption, PipelineInv, plan.policy = "1f1b"
  PROVE  {Head(pending[s]) : s \in Runnable} = Ran(Len(slots))
<1>1. ASSUME NEW s \in Runnable PROVE Head(pending[s]) \in Ran(Len(slots))
  <2>1. s \in Stages /\ pending[s] # <<>>
    BY DEF Runnable
  <2>2. QED
    BY <2>1, RunnableIs, HeadPending DEF Ran
<1>2. ASSUME NEW op \in Ran(Len(slots)) PROVE \E s \in Runnable : op = Head(pending[s])
  <2> DEFINE s == op.stage
             h == Head(pending[s])
  <2>1. op \in Operations /\ Moment(op) = Len(slots) /\ s \in Stages /\ Len(slots) \in Nat /\ plan \in Plans
    BY OpTyped, InvTyped DEF Ran
  <2>2. pending[s] # <<>> /\ Moment(h) =< Moment(op)
    BY <2>1, PendingLeast
  <2>3. h \in Operations /\ h.stage = s /\ Moment(h) \in Nat /\ Moment(h) >= Len(slots)
    BY <2>1, <2>2, HeadPending
  <2>4. Moment(h) = Len(slots)
    BY <2>1, <2>2, <2>3
  <2>5. s \in Runnable
    BY <2>1, <2>2, <2>4, RunnableIs
  <2>6. h = op
    BY <2>1, <2>3, <2>4, MomentDistinct
  <2>7. QED
    BY <2>5, <2>6
<1>3. QED
  BY <1>1, <1>2

LEMMA OneFOneBInv ==
  ASSUME PipelineAssumption, PipelineInv, OneFOneB
  PROVE  PipelineInv'
<1> DEFINE t == Len(slots)
<1>1. /\ plan \in Plans /\ t \in Nat /\ plan.policy = "1f1b" /\ Runnable # {} /\ Span \in Nat
      /\ Emit({Head(pending[s]) : s \in Runnable})
      /\ pending' = [s \in Stages |-> IF s \in Runnable THEN Tail(pending[s]) ELSE pending[s]]
  BY InvTyped, PlanTyped DEF OneFOneB
<1>2. Emit(Ran(t))
  BY <1>1, HeadsRan
<1>3. t < 2 * Span
  <2>1. PICK s \in Runnable : TRUE
    BY <1>1
  <2>2. Head(pending[s]) \in Operations /\ Moment(Head(pending[s])) = t
    BY <1>1, <2>1, HeadsRan DEF Ran
  <2>3. QED
    BY <1>1, <2>2, MomentTyped
<1>4. /\ plan' = plan /\ plan' \in Plans /\ slots' = Append(slots, Ran(t)) /\ Len(slots') = t + 1
      /\ (slots \in Seq(SUBSET Operations) /\ Len(slots) =< 2 * Span)'
      /\ (\A i \in 1..Len(slots) : slots[i] = Ran(i - 1))'
      /\ (completed = {op \in Operations : Moment(op) < Len(slots)})'
  BY <1>2, <1>3, SlotMore
<1>5. /\ Operations' = Operations /\ Stages' = Stages /\ \A op : Moment(op)' = Moment(op)
      /\ \A s : Order(s)' = Order(s)
  BY <1>4, PlanStays
<1>6. ASSUME NEW s \in Stages PROVE Halfway(s)'
  <2> DEFINE a == StageOrder(s)
             p == pending[s]
             o == Order(s)
             h == Head(p)
             its == {op \in Ran(t) : op.stage = s}
             b == StageOrder(s)'
             q == pending'[s]
  <2>1. /\ a \in Seq(Operations) /\ p \in Seq(Operations) /\ a \o p = o
        /\ \A i \in 1..Len(a) : Moment(a[i]) < t
        /\ \A i \in 1..Len(p) : Moment(p[i]) >= t
    BY <1>1 DEF PipelineInv, Halfway
  <2>2. b = a \o SetToSeq(its)
    BY <1>4, StageOrderGrows
  <2>3. q = IF s \in Runnable THEN Tail(p) ELSE p
    BY <1>1
  <2>4. SUFFICES /\ b \in Seq(Operations) /\ q \in Seq(Operations) /\ b \o q = o
                 /\ \A i \in 1..Len(b) : Moment(b[i]) < t + 1
                 /\ \A i \in 1..Len(q) : Moment(q[i]) >= t + 1
    BY <1>4, <1>5 DEF Halfway
  <2>5. /\ \A i \in 1..Len(a) : Moment(a[i]) \in Nat
        /\ \A i \in 1..Len(p) : Moment(p[i]) \in Nat
    <3>1. \A i \in 1..Len(a) : a[i] \in Operations
      BY <2>1, ElementOfSeq
    <3>2. \A i \in 1..Len(p) : p[i] \in Operations
      BY <2>1, ElementOfSeq
    <3>3. QED
      BY <1>1, <3>1, <3>2, MomentTyped
  <2>6. CASE s \in Runnable
    <3>1. p # <<>> /\ h \in Operations /\ h.stage = s /\ Moment(h) = t
          /\ \A i \in 2..Len(p) : Moment(p[i]) > Moment(h)
      <4>1. p # <<>>
        BY <2>6 DEF Runnable
      <4>2. Moment(h) = t
        BY <1>1, <2>6, <4>1, RunnableIs
      <4>3. QED
        BY <1>1, <4>1, <4>2, HeadPending
    <3>2. its = {h}
      <4>1. h \in its
        BY <3>1 DEF Ran
      <4>2. \A x \in its : x = h
        BY <1>1, <3>1, MomentDistinct DEF Ran
      <4>3. QED
        BY <4>1, <4>2
    <3>3. b = a \o <<h>> /\ q = Tail(p)
      BY <2>2, <2>3, <2>6, <3>2, OneInOrder
    <3> HIDE DEF a, p, o, t, h, its, b, q
    <3>4. b = Append(a, h)
      BY <2>1, <3>1, <3>3, AppendIsConcat
    <3>5. h = p[1] /\ Len(p) \in Nat \ {0} /\ q \in Seq(Operations) /\ Len(q) = Len(p) - 1
          /\ \A i \in 1..(Len(p) - 1) : q[i] = p[i + 1]
      BY <2>1, <3>1, <3>3 DEF h
    <3>6. b \in Seq(Operations) /\ Len(b) = Len(a) + 1 /\ Len(a) \in Nat /\ b[Len(a) + 1] = h
          /\ \A i \in 1..Len(a) : b[i] = a[i]
      BY <2>1, <3>1, <3>4
    <3>7. b \o q = o
      <4>1. <<h>> \in Seq(Operations)
        BY <3>1
      <4>2. a \o (<<h>> \o q) = (a \o <<h>>) \o q
        BY <2>1, <3>5, <4>1, Reassociated
      <4>3. <<h>> \o q = p
        <5> DEFINE one == <<h>>
        <5>1. one \in Seq(Operations) /\ Len(one) = 1 /\ one[1] = h
          BY <3>1
        <5> HIDE DEF one
        <5>2. /\ one \o q \in Seq(Operations) /\ Len(one \o q) = Len(one) + Len(q)
              /\ \A i \in 1..(Len(one) + Len(q)) : (one \o q)[i] = IF i =< Len(one) THEN one[i] ELSE q[i - Len(one)]
          BY <3>5, <5>1, ConcatProperties
        <5>3. Len(one \o q) = Len(p)
          BY <3>5, <5>1, <5>2
        <5>4. \A i \in 1..Len(p) : (one \o q)[i] = p[i]
          <6>1. ASSUME NEW i \in 1..Len(p) PROVE (one \o q)[i] = p[i]
            <7>1. (one \o q)[i] = IF i =< 1 THEN one[i] ELSE q[i - 1]
              BY <3>5, <5>1, <5>2
            <7>2. CASE i = 1
              BY <3>5, <5>1, <7>1, <7>2
            <7>3. CASE i # 1
              <8>1. i - 1 \in 1..(Len(p) - 1) /\ i - 1 + 1 = i /\ ~(i =< 1)
                BY <3>5, <7>3
              <8>2. QED
                BY <3>5, <7>1, <8>1
            <7>4. QED
              BY <7>2, <7>3
          <6>2. QED
            BY <6>1
        <5>5. one \o q = p
          BY <2>1, <5>2, <5>3, <5>4, SeqEqual
        <5>6. QED
          BY <5>5 DEF one
      <4>4. QED
        BY <2>1, <3>3, <4>2, <4>3
    <3>8. \A i \in 1..Len(b) : Moment(b[i]) < t + 1
      <4>1. \A i \in 1..(Len(a) + 1) : i = Len(a) + 1 \/ i \in 1..Len(a)
        BY <3>6
      <4>2. QED
        BY <1>1, <2>1, <2>5, <3>1, <3>6, <4>1
    <3>9. \A i \in 1..Len(q) : Moment(q[i]) >= t + 1
      <4>1. ASSUME NEW i \in 1..Len(q) PROVE Moment(q[i]) >= t + 1
        <5>1. i + 1 \in 2..Len(p) /\ i + 1 \in 1..Len(p) /\ q[i] = p[i + 1]
          BY <3>5
        <5>2. QED
          BY <1>1, <2>5, <3>1, <5>1
      <4>2. QED
        BY <4>1
    <3>10. QED
      BY <3>5, <3>6, <3>7, <3>8, <3>9
  <2>7. CASE s \notin Runnable
    <3>1. its = {}
      <4>1. SUFFICES ASSUME NEW x \in its PROVE FALSE
        OBVIOUS
      <4>2. PICK r \in Runnable : x = Head(pending[r])
        BY <1>1, HeadsRan
      <4>3. r \in Stages /\ pending[r] # <<>>
        BY <4>2 DEF Runnable
      <4>4. x.stage = r /\ x.stage = s
        BY <1>1, <4>2, <4>3, HeadPending
      <4>5. QED
        BY <2>7, <4>2, <4>4
    <3>2. b = a \o <<>> /\ q = p
      BY <2>2, <2>3, <2>7, <3>1, NoneInOrder
    <3>3. ASSUME NEW i \in 1..Len(p) PROVE Moment(p[i]) >= t + 1
      <4>1. SUFFICES ASSUME Moment(p[i]) = t PROVE FALSE
        BY <1>1, <2>1, <2>5
      <4>2. p[i] \in Operations /\ p # <<>>
        BY <2>1, ElementOfSeq
      <4>3. p[i].stage = s
        BY <1>1, <4>2, HeadPending
      <4>4. p[i] \in its
        BY <4>1, <4>2, <4>3 DEF Ran
      <4>5. QED
        BY <3>1, <4>4
    <3> HIDE DEF a, p, o, t, its, b, q
    <3>4. b = a
      BY <2>1, <3>2, ConcatEmptySeq
    <3>5. \A i \in 1..Len(a) : Moment(a[i]) < t + 1
      BY <1>1, <2>1, <2>5
    <3>6. QED
      BY <2>1, <3>2, <3>3, <3>4, <3>5
  <2>8. QED
    BY <2>6, <2>7
<1>7. QED
  BY <1>4, <1>5, <1>6 DEF PipelineInv

LEMMA PipelineStep == ASSUME PipelineAssumption, PipelineInv, [PipelineNext]_pipelineVars PROVE PipelineInv'
<1>1. CASE GpipeForward \/ GpipeBackward
  BY <1>1, GpipeInv
<1>2. CASE OneFOneB
  BY <1>2, OneFOneBInv
<1>3. CASE UNCHANGED pipelineVars
  <2>1. plan' = plan /\ pending' = pending /\ completed' = completed /\ slots' = slots
    BY <1>3 DEF pipelineVars
  <2>2. /\ Operations' = Operations /\ Stages' = Stages /\ Span' = Span
        /\ \A op : Moment(op)' = Moment(op)
        /\ \A t : Ran(t)' = Ran(t)
        /\ \A s : Order(s)' = Order(s)
    BY <2>1, PlanStays
  <2>3. \A s : StageOrder(s)' = StageOrder(s)
    BY <2>1 DEF StageOrder
  <2>4. \A s : Halfway(s)' <=> Halfway(s)
    BY <2>1, <2>2, <2>3 DEF Halfway
  <2>5. QED
    BY <2>1, <2>2, <2>4 DEF PipelineInv
<1>4. QED
  BY <1>1, <1>2, <1>3 DEF PipelineNext

-------------------------------------------------------------------------------
(* A schedule that follows its moments is sound.                              *)

\* The activations a stage holds are those of neighbouring microbatches.
LEMMA FewInFlight ==
  ASSUME PipelineAssumption, PipelineInv, plan.policy = "1f1b", NEW s \in Stages
  PROVE  InFlight(s) =< plan.stages - s
<1> DEFINE S == plan.stages
           M == plan.microbatches
           t == Len(slots)
           inFlight == {m \in Microbatches : Op("forward", s, m) \in completed
                                           /\ Op("backward", s, m) \notin completed}
           F(m) == IF m < S - s THEN s + m ELSE s + 2 * m
           B(m) == 2 * S - 1 - s + 2 * m
<1>1. /\ plan \in Plans /\ t \in Nat /\ S \in Nat \ {0} /\ M \in Nat \ {0} /\ s \in 0..(S - 1)
      /\ Microbatches = 0..(M - 1) /\ completed = {op \in Operations : Moment(op) < t}
  BY InvTyped, PlanTyped
<1>2. ASSUME NEW m \in inFlight PROVE m \in 0..(M - 1) /\ F(m) < t /\ ~(B(m) < t)
  <2>1. m \in Microbatches /\ Op("forward", s, m) \in completed /\ Op("backward", s, m) \notin completed
    OBVIOUS
  <2>2. /\ Op("forward", s, m).direction = "forward" /\ Op("forward", s, m).stage = s
        /\ Op("forward", s, m).microbatch = m
    BY <2>1, OpIs
  <2>3. /\ Op("backward", s, m).direction = "backward" /\ Op("backward", s, m).stage = s
        /\ Op("backward", s, m).microbatch = m /\ Op("backward", s, m) \in Operations
    BY <2>1, OpIs
  <2>4. Moment(Op("forward", s, m)) = F(m)
    BY <2>2 DEF Moment
  <2>5. Moment(Op("backward", s, m)) = B(m)
    BY <2>3 DEF Moment
  <2>6. QED
    BY <1>1, <2>1, <2>3, <2>4, <2>5
<1>3. InFlight(s) = Cardinality(inFlight)
  BY DEF InFlight
<1> HIDE DEF inFlight, S, M, t
<1>4. CASE inFlight = {}
  BY <1>1, <1>3, <1>4, FS_EmptySet DEF S
<1>5. CASE inFlight # {}
  <2>1. inFlight \in SUBSET Nat
    BY <1>1, <1>2
  <2>2. PICK first \in inFlight : \A m \in inFlight : first =< m
    BY <1>5, <2>1, LeastExists
  <2>3. first \in Nat
    BY <2>1, <2>2
  <2>4. ASSUME NEW m \in inFlight PROVE m \in first..(first + (S - s) - 1)
    <3>1. m \in Nat /\ first =< m /\ F(m) < t /\ ~(B(first) < t)
      BY <1>2, <2>1, <2>2
    <3>2. F(m) < B(first) \/ F(m) = B(first) - 1
      BY <1>1, <2>3, <3>1
    <3>3. m =< first + (S - s) - 1
      BY <1>1, <2>3, <3>1, <3>2
    <3>4. QED
      BY <1>1, <2>3, <3>1, <3>3
  <2> DEFINE span == first..(first + (S - s) - 1)
  <2>5. IsFiniteSet(span) /\ Cardinality(span) = S - s
    <3> DEFINE final == first + (S - s) - 1
    <3>1. final \in Int /\ final - first + 1 = S - s /\ first =< final
      BY <1>1, <2>3
    <3>2. first \in Int /\ final \in Int /\ ~(first > final) /\ final - first + 1 = S - s
      BY <2>3, <3>1
    <3> HIDE DEF final
    <3>3. IsFiniteSet(first..final) /\ Cardinality(first..final) = final - first + 1
      BY <3>2, FS_Interval
    <3>4. QED
      BY <3>2, <3>3 DEF final
  <2>6. inFlight \subseteq span
    BY <2>4
  <2> HIDE DEF span
  <2>7. Cardinality(inFlight) =< Cardinality(span)
    BY <2>5, <2>6, FS_Subset
  <2>8. QED
    BY <1>3, <2>5, <2>7 DEF S
<1>6. QED
  BY <1>4, <1>5

\* When all has run: every operation, once, after what it needs.
LEMMA AllRun ==
  ASSUME PipelineAssumption, PipelineInv, Drained
  PROVE  Len(slots) = 2 * Span
<1>1. /\ plan \in Plans /\ Len(slots) \in Nat /\ Len(slots) =< 2 * Span /\ Span \in Nat \ {0}
      /\ plan.policy \in {"gpipe", "1f1b"}
  BY InvTyped, PlanTyped
<1>2. CASE plan.policy = "gpipe"
  BY <1>2 DEF Drained
<1>3. CASE plan.policy = "1f1b"
  <2>1. SUFFICES ASSUME Len(slots) < 2 * Span PROVE FALSE
    BY <1>1
  <2>2. PICK op \in Operations : Moment(op) = Len(slots)
    BY <1>1, <2>1, MomentTaken
  <2>3. pending[op.stage] # <<>>
    BY <1>1, <1>3, <2>2, PendingLeast
  <2>4. QED
    BY <1>3, <2>3, OpTyped DEF Drained
<1>4. QED
  BY <1>1, <1>2, <1>3

LEMMA BeforeIs ==
  ASSUME PipelineAssumption, PipelineInv, NEW i \in 1..Len(slots)
  PROVE  Before(i) = {op \in Operations : Moment(op) < i - 1}
<1>1. /\ plan \in Plans /\ Len(slots) \in Nat
      /\ \A j \in 1..Len(slots) : slots[j] = Ran(j - 1)
  BY InvTyped
<1>2. ASSUME NEW op \in Before(i) PROVE op \in Operations /\ Moment(op) < i - 1
  <2>1. PICK j \in 1..(i - 1) : op \in slots[j]
    BY DEF Before
  <2>2. j \in 1..Len(slots) /\ j - 1 < i - 1
    BY <1>1
  <2>3. QED
    BY <1>1, <2>1, <2>2 DEF Ran
<1>3. ASSUME NEW op \in Operations, Moment(op) < i - 1 PROVE op \in Before(i)
  <2>1. Moment(op) \in Nat
    BY <1>1, MomentTyped
  <2> DEFINE j == Moment(op) + 1
  <2>2. j \in 1..(i - 1) /\ j \in 1..Len(slots) /\ j - 1 = Moment(op)
    BY <1>1, <1>3, <2>1
  <2> HIDE DEF j
  <2>3. op \in slots[j]
    BY <1>1, <2>2 DEF Ran
  <2>4. QED
    BY <2>2, <2>3 DEF Before
<1>4. QED
  BY <1>2, <1>3

LEMMA DrainedValid ==
  ASSUME PipelineAssumption, PipelineInv, Drained
  PROVE  Valid
<1> DEFINE n == Len(slots)
<1>1. /\ plan \in Plans /\ n \in Nat /\ n = 2 * Span /\ Span \in Nat \ {0}
      /\ \A i \in 1..n : slots[i] = Ran(i - 1)
      /\ \A i \in 1..n : Before(i) = {op \in Operations : Moment(op) < i - 1}
      /\ slots \in Seq(SUBSET Operations)
  BY InvTyped, PlanTyped, AllRun, BeforeIs
<1> HIDE DEF n
<1>2. UNION Range(slots) = Operations
  <2>1. Range(slots) = {slots[i] : i \in 1..n}
    <3>1. DOMAIN slots = 1..n
      BY <1>1 DEF n
    <3>2. QED
      BY <3>1, Zenon DEF Range
  <2>2. ASSUME NEW op \in Operations PROVE \E i \in 1..n : op \in slots[i]
    <3>1. Moment(op) \in Nat /\ Moment(op) < 2 * Span
      BY <1>1, MomentTyped
    <3> DEFINE i == Moment(op) + 1
    <3>2. i \in 1..n /\ i - 1 = Moment(op)
      BY <1>1, <3>1
    <3> HIDE DEF i
    <3>3. op \in slots[i]
      BY <1>1, <3>2 DEF Ran
    <3>4. QED
      BY <3>2, <3>3
  <2>3. \A i \in 1..n : slots[i] \subseteq Operations
    BY <1>1 DEF Ran
  <2>4. QED
    BY <2>1, <2>2, <2>3
<1>3. ASSUME NEW i \in 1..n
      PROVE  /\ slots[i] \cap Before(i) = {}
             /\ \A a, b \in slots[i] : a.stage = b.stage => a = b
             /\ \A op \in slots[i] : Dependencies(op) \subseteq Before(i)
  <2>1. slots[i] = Ran(i - 1) /\ Before(i) = {op \in Operations : Moment(op) < i - 1} /\ i - 1 \in Int
    BY <1>1
  <2>2. slots[i] \cap Before(i) = {}
    BY <2>1 DEF Ran
  <2>3. \A a, b \in slots[i] : a.stage = b.stage => a = b
    BY <1>1, <2>1, MomentDistinct DEF Ran
  <2>4. ASSUME NEW op \in slots[i], NEW d \in Dependencies(op) PROVE d \in Before(i)
    <3>1. op \in Operations /\ Moment(op) = i - 1
      BY <2>1 DEF Ran
    <3>2. d \in Operations /\ Moment(d) < Moment(op)
      BY <1>1, <3>1, MomentDepends
    <3>3. QED
      BY <2>1, <3>1, <3>2
  <2>5. QED
    BY <2>2, <2>3, <2>4
<1>4. ValidSlots
  BY <1>2, <1>3 DEF ValidSlots, n
<1>5. ASSUME plan.policy = "gpipe" PROVE ForwardsFirst
  <2>1. SUFFICES ASSUME NEW i \in 1..n, NEW op \in slots[i], op.direction = "forward",
                        NEW other \in Before(i) \cup slots[i]
                 PROVE  other.direction = "forward"
    BY DEF ForwardsFirst, n
  <2>2. op \in Operations /\ Moment(op) = i - 1 /\ other \in Operations /\ i - 1 \in Int
        /\ (Moment(other) < i - 1 \/ Moment(other) = i - 1)
    BY <1>1, <2>1 DEF Ran
  <2>3. /\ op.stage + op.microbatch \in 0..(Span - 1) /\ Moment(op) = op.stage + op.microbatch
    BY <1>1, <1>5, <2>1, <2>2, Gpiped
  <2>4. /\ other.stage + other.microbatch \in 0..(Span - 1)
        /\ other.direction # "forward" => Moment(other) = 2 * Span - 1 - (other.stage + other.microbatch)
    BY <1>1, <1>5, <2>2, Gpiped
  <2>5. QED
    BY <1>1, <2>2, <2>3, <2>4
<1>6. ASSUME plan.policy = "1f1b", NEW s \in Stages PROVE StageOrder(s) = Order(s)
  <2>1. StageOrder(s) \in Seq(Operations) /\ StageOrder(s) \o pending[s] = Order(s) /\ pending[s] = <<>>
    BY <1>6 DEF PipelineInv, Halfway, Drained
  <2>2. QED
    BY <2>1, ConcatEmptySeq
<1>7. QED
  BY <1>4, <1>5, <1>6 DEF Valid, Order

LEMMA InvIsSound == ASSUME PipelineAssumption, PipelineInv PROVE ScheduleIsSound
<1>1. /\ plan \in Plans /\ Len(slots) \in Nat /\ Len(slots) =< 2 * Span /\ Span \in Nat \ {0}
      /\ \A i \in 1..Len(slots) : slots[i] = Ran(i - 1)
  BY InvTyped, PlanTyped
<1>2. plan.policy = "1f1b" => \A s \in Stages : InFlight(s) =< plan.stages - s
  BY FewInFlight
<1>3. ASSUME NEW i \in 1..Len(slots) PROVE slots[i] # {}
  <2>1. i - 1 \in Nat /\ i - 1 < 2 * Span
    BY <1>1
  <2>2. \E op \in Operations : Moment(op) = i - 1
    BY <1>1, <2>1, MomentTaken
  <2>3. QED
    BY <1>1, <2>2 DEF Ran
<1>4. Drained => Valid /\ Len(slots) = 2 * Span
  BY AllRun, DrainedValid
<1>5. ASSUME ~Drained, plan.policy = "1f1b" PROVE Runnable # {}
  <2>1. PICK s \in Stages : pending[s] # <<>>
    BY <1>5 DEF Drained
  <2>2. Head(pending[s]) \in Operations /\ Moment(Head(pending[s])) >= Len(slots)
    BY <1>5, <2>1, HeadPending
  <2>3. Len(slots) < 2 * Span
    BY <1>1, <2>2, MomentTyped
  <2>4. Ran(Len(slots)) # {}
    BY <1>1, <2>3, MomentTaken DEF Ran
  <2>5. QED
    BY <1>5, <2>4, HeadsRan
<1>6. QED
  BY <1>2, <1>3, <1>4, <1>5 DEF ScheduleIsSound

-------------------------------------------------------------------------------
(* The experiments' files                                                     *)

\* Reports and artifacts of experiments that are interrupted and run beside each
\* other are whole, for any number of seeds, runs, publishers and readers.
THEOREM ExperimentsStayWhole ==
  ASSUME SeedsAssumption, ArtifactAssumption
  PROVE  FilesSpec => []ExperimentsAreWhole
<1> DEFINE Inv == SeedsInv /\ ArtifactInv
<1>1. FilesInit => Inv
  BY SeedsStart, ArtifactStart DEF FilesInit
<1>2. Inv /\ [FilesNext]_fileVars => Inv'
  <2>1. SUFFICES ASSUME Inv, [FilesNext]_fileVars PROVE Inv'
    OBVIOUS
  <2>2. [SeedsNext]_seedVars /\ [ArtifactNext]_artifactVars
    BY <2>1 DEF FilesNext, Done, fileVars, seedVars, artifactVars
  <2>3. QED
    BY <2>1, <2>2, SeedsStep, ArtifactStep
<1>3. Inv => ExperimentsAreWhole
  BY SeedsAreWhole, LoadsStayWhole DEF ExperimentsAreWhole
<1>4. QED
  BY <1>1, <1>2, <1>3, PTL DEF FilesSpec

\* A directory that verifies after commands that came one after the other, any of them
\* cut short, is the work of one execution: for any number of operators and updates.
THEOREM BundlesStayConsistent == ASSUME Project1Assumption PROVE FilesSpec => []BundleConsistent
<1>1. FilesInit => DirectoryInv
  BY DirectoryStart DEF FilesInit
<1>2. DirectoryInv /\ [FilesNext]_fileVars => DirectoryInv'
  <2>1. [FilesNext]_fileVars => [OperatorNext]_operatorVars
    BY DEF FilesNext, Done, fileVars, operatorVars
  <2>2. QED
    BY <2>1, DirectoryStep
<1>3. DirectoryInv => BundleConsistent
  BY BundleIsConsistent
<1>4. QED
  BY <1>1, <1>2, <1>3, PTL DEF FilesSpec

\* No command that is alone makes a directory that verified fail to verify.
THEOREM VerifiedBundlesStay == ASSUME Project1Assumption PROVE FilesSpec => StaysVerified
<1>1. FilesInit => DirectoryInv
  BY DirectoryStart DEF FilesInit
<1>2. [FilesNext]_fileVars => [OperatorNext]_operatorVars
  BY DEF FilesNext, Done, fileVars, operatorVars
<1>3. DirectoryInv /\ [FilesNext]_fileVars => DirectoryInv'
  BY <1>2, DirectoryStep
<1>4. DirectoryInv /\ [FilesNext]_fileVars => [Verified /\ ~overlap' => Verified']_operatorVars
  <2>1. SUFFICES ASSUME DirectoryInv, [OperatorNext]_operatorVars, Verified, ~overlap' PROVE Verified'
    BY <1>2
  <2>2. overlap' = FALSE
    BY <1>3, <2>1, DirectoryTypesStep DEF DirectoryInv, DirectoryTypes
  <2>3. QED
    BY <2>1, <2>2, VerifiedStep
<1>5. QED
  BY <1>1, <1>3, <1>4, PTL DEF FilesSpec, StaysVerified

-------------------------------------------------------------------------------
(* The pipeline's schedules                                                   *)

\* Every pipeline schedule, whatever its stages, microbatches and policy, runs to its
\* end, passes its validation and keeps few activations (pipeline_schedule.py).
THEOREM SchedulesStaySound == ASSUME PipelineAssumption PROVE FilesSpec => []SchedulesAreSound
<1> DEFINE Inv == training = "pipeline" => PipelineInv
<1>1. FilesInit => Inv
  BY PipelineInitInv DEF FilesInit
<1>2. Inv /\ [FilesNext]_fileVars => Inv'
  <2>1. SUFFICES ASSUME Inv, [FilesNext]_fileVars, training' = "pipeline" PROVE PipelineInv'
    OBVIOUS
  <2>2. training = "pipeline" /\ [PipelineNext]_pipelineVars
    BY <2>1 DEF FilesNext, Done, fileVars
  <2>3. QED
    BY <2>1, <2>2, PipelineStep
<1>3. Inv => SchedulesAreSound
  BY InvIsSound DEF SchedulesAreSound
<1>4. QED
  BY <1>1, <1>2, <1>3, PTL DEF FilesSpec

================================================================================
