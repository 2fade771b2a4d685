------------------------------ MODULE DdpRunProofs ------------------------------
(***************************************************************************)
(* The safety of a supervised run for any number of runs, ranks, steps,    *)
(* versions, faults, kills and damages.                                    *)
(*                                                                         *)
(* A step of a rank is an arrival at a collective, a departure from it or  *)
(* an end (Arrives, Departs, Stops); what each of the three preserves is   *)
(* shown once and every action is an instance.  ControlInv ties the phase  *)
(* of a rank to the collectives it has left, its command line and what it  *)
(* restored, as far as the types of what it computes need it.  LockInv     *)
(* compares ranks two by two: a rank that has left a collective is what    *)
(* every other rank will be once it has left it too (Follows).             *)
(*                                                                         *)
(* What one run does to the artifacts is kept while no other run writes    *)
(* them (OneWriter, WriterInv).  AdmissionInv follows rank 0 from its      *)
(* votes to its publications, SpanInv bounds how far ranks and verdicts    *)
(* are apart, SavedInv ties the verdict on a publication to what it left   *)
(* behind, and ReadInv the candidates of a resumed run to the versions     *)
(* that restore.  For these four a step is one of Comes, Leaves, Finishes, *)
(* Restarts, ReadMark, PublishJournal and Rests (StepShapes).              *)
(***************************************************************************)
EXTENDS DdpRun, WellFoundedInduction, FiniteSetTheorems, TLAPS

After == {"schedule", "capacity", "train", "validate", "publish", "output"}
Collectives == Phases \ {"output", "exited", "failed"}

\* One rank: what its phase says of the collectives it has left, of its command line,
\* its step and what it restored.
LocalInv(c, r, p, w, e, st, rec, V) ==
  LET n == IF w THEN e - 1 ELSE e
      end == rec.start + c.steps
  IN
  /\ p \notin Ended => c \in Configs
  /\ w => p \in Collectives /\ e >= 1
  /\ p = "candidates" /\ w => r # 0
  /\ p = "listing" => r = 0
  /\ p \in {"rendezvous", "fresh"} => st = 0 /\ rec.start = 0
  /\ p = "rendezvous" => n = 0
  /\ p = "fresh" => n = 1 /\ c.journal /\ ~c.resume
  /\ p \in {"candidates", "listing"} => n = 1 /\ c.journal /\ c.resume
  /\ p = "load" => c.resume /\ (c.journal => n >= 2 /\ rec.left # {})
  /\ p \in After /\ c.journal => n >= 2
  /\ p \in {"schedule", "capacity"} => st = rec.start
  /\ p = "capacity" => c.journal
  /\ p \in {"capacity", "train", "validate", "publish"} => end =< MaxStep
  /\ p = "schedule" /\ w /\ e \notin V => end =< MaxStep
  /\ p = "train" => st < end
  /\ p \in {"validate", "publish"} => st =< end

RankInv(u, r) ==
  LocalInv(cfg[u], r, pc[u][r], waiting[u][r], entered[u][r], step[u][r], restored[u][r], vetoed[u])

\* Once rank 0 has voted for its candidates it has some.
CandidateInv(u) ==
  cfg[u] \in Configs /\ cfg[u].resume /\ cfg[u].journal /\ entered[u][0] >= 2 /\ 2 \notin vetoed[u]
    => restored[u][0].left # {}

\* A journal that rank 0 was admitted to exists.
VersionsInv(u) ==
  Live(u, 0) /\ cfg[u].journal =>
    /\ pc[u][0] \in After \union {"load"} => versions # None
    /\ pc[u][0] \in {"fresh", "listing"} /\ waiting[u][0] /\ entered[u][0] \notin vetoed[u]
         => versions # None

WorkersOK ==
  /\ pc \in [Runs -> [Ranks -> Phases]]
  /\ waiting \in [Runs -> [Ranks -> BOOLEAN]]
  /\ entered \in [Runs -> [Ranks -> Nat]]
  /\ step \in [Runs -> [Ranks -> Steps]]
  /\ vetoed \in [Runs -> SUBSET Nat]
  /\ restored \in [Runs -> [Ranks -> Recovery]]
  /\ saved \in [Runs -> BOOLEAN]

ControlInv ==
  /\ WorkersOK
  /\ \A u \in Runs : CandidateInv(u) /\ VersionsInv(u)
  /\ \A u \in Runs, r \in Ranks : RankInv(u, r)

StoreOK ==
  /\ versions = None \/ versions \in SUBSET Steps
  /\ damaged \in SUBSET Steps
  /\ orphan \in Steps \union {None} /\ latest \in Steps \union {None}
  /\ strays \in BOOLEAN
  /\ lease \in Runs \union {None}
  /\ cfg \in [Runs -> Configs \union {None}]
  /\ sup \in [Runs -> {"down", "watching", "stopping"}]
  /\ refusal \in {"none", "order", "capacity"}
  /\ mixed \in BOOLEAN

TypeInv == StoreOK /\ ControlInv

-------------------------------------------------------------------------------
(* The journal's highest step                                                 *)

LEMMA LeastExists ==
  ASSUME NEW T \in SUBSET Nat, T # {}
  PROVE  \E t \in T : \A x \in T : t =< x
<1>1. \E t \in T : \A x \in T : <<x, t>> \notin OpToRel(<, Nat)
  BY NatLessThanWellFounded, WFMin
<1>2. PICK t \in T : \A x \in T : <<x, t>> \notin OpToRel(<, Nat)
  BY <1>1
<1>3. \A x \in T : ~(x < t)
  BY <1>2 DEF OpToRel
<1>4. QED
  BY <1>3

LEMMA MaxStepOf ==
  ASSUME RunAssumption, NEW S \in SUBSET Steps, S # {}
  PROVE  Max(S) \in S /\ Max(S) \in Steps /\ \A s \in S : s =< Max(S)
<1> DEFINE T == {MaxStep - s : s \in S}
<1>1. T \in SUBSET Nat /\ T # {}
  <2>1. MaxStep \in Nat /\ \A s \in S : s \in Nat /\ s =< MaxStep
    BY DEF Steps, RunAssumption
  <2>2. \A s \in S : MaxStep - s \in Nat
    BY <2>1
  <2>3. QED
    BY <2>2
<1>2. PICK t \in T : \A x \in T : t =< x
  BY <1>1, LeastExists
<1>3. PICK m \in S : t = MaxStep - m
  BY <1>2
<1>4. \A s \in S : MaxStep - m =< MaxStep - s
  BY <1>2, <1>3
<1>5. \A s \in S : m >= s
  BY <1>4 DEF Steps, RunAssumption
<1>6. QED
  BY <1>3, <1>5 DEF Max, Steps, RunAssumption

LEMMA HighWaterTyped ==
  ASSUME RunAssumption, StoreOK
  PROVE  /\ HighWater \in Steps \union {None}
         /\ HighWater # None => \A s \in versions : s =< HighWater
         /\ HighWater = None <=> OrEmpty(versions) = {}
  BY MaxStepOf DEF HighWater, OrEmpty, StoreOK, RunAssumption, Steps

-------------------------------------------------------------------------------
(* What a step changes, rank by rank                                          *)

\* Of all runs and ranks a step touches r of run u, and the store.
Elsewhere(u) ==
  \A v \in Runs \ {u} :
    /\ pc'[v] = pc[v] /\ waiting'[v] = waiting[v] /\ entered'[v] = entered[v]
    /\ step'[v] = step[v] /\ vetoed'[v] = vetoed[v] /\ restored'[v] = restored[v]
    /\ saved'[v] = saved[v]
Beside(u, r) ==
  \A q \in Ranks \ {r} :
    /\ pc'[u][q] = pc[u][q] /\ waiting'[u][q] = waiting[u][q] /\ entered'[u][q] = entered[u][q]
    /\ step'[u][q] = step[u][q] /\ restored'[u][q] = restored[u][q]

\* A rank comes to the collective of its phase.
Arrives(u, r, vote, rec) ==
  /\ ~waiting[u][r] /\ Live(u, r)
  /\ Enter(u, r, vote)
  /\ restored' = [restored EXCEPT ![u][r] = rec]
  /\ UNCHANGED <<cfg, pc, step, saved>>

\* It leaves it for another phase.
Departs(u, r, phase, st, rec) ==
  /\ waiting[u][r] /\ Arrived(u, r)
  /\ Move(u, r, phase)
  /\ step' = [step EXCEPT ![u][r] = st]
  /\ restored' = [restored EXCEPT ![u][r] = rec]
  /\ UNCHANGED <<cfg, entered, vetoed>>

\* It ends.
Stops(u, r, phase) ==
  /\ phase \in Ended
  /\ Move(u, r, phase)
  /\ UNCHANGED <<cfg, entered, vetoed, step, restored, saved>>

LEMMA ArrivesFrame ==
  ASSUME WorkersOK, NEW u \in Runs, NEW r \in Ranks, NEW vote, NEW rec, Arrives(u, r, vote, rec)
  PROVE  /\ Elsewhere(u) /\ Beside(u, r)
         /\ pc'[u][r] = pc[u][r] /\ waiting'[u][r] = TRUE /\ entered'[u][r] = entered[u][r] + 1
         /\ step'[u][r] = step[u][r] /\ restored'[u][r] = rec
         /\ vetoed'[u] = (IF vote THEN vetoed[u] ELSE vetoed[u] \union {entered[u][r] + 1})
         /\ rec \in Recovery => WorkersOK'
<1>1. /\ pc \in [Runs -> [Ranks -> Phases]] /\ waiting \in [Runs -> [Ranks -> BOOLEAN]]
      /\ entered \in [Runs -> [Ranks -> Nat]] /\ vetoed \in [Runs -> SUBSET Nat]
      /\ restored \in [Runs -> [Ranks -> Recovery]]
  BY DEF WorkersOK
<1>2. /\ waiting' = [waiting EXCEPT ![u][r] = TRUE] /\ entered' = [entered EXCEPT ![u][r] = @ + 1]
      /\ vetoed' = IF vote THEN vetoed ELSE [vetoed EXCEPT ![u] = @ \union {entered[u][r] + 1}]
      /\ restored' = [restored EXCEPT ![u][r] = rec]
      /\ UNCHANGED <<cfg, pc, step, saved>>
  BY DEF Arrives, Enter
<1>3. Elsewhere(u)
  BY <1>1, <1>2 DEF Elsewhere
<1>4. Beside(u, r)
  BY <1>1, <1>2 DEF Beside
<1>5. rec \in Recovery => WorkersOK'
  <2>1. /\ waiting' \in [Runs -> [Ranks -> BOOLEAN]] /\ entered' \in [Runs -> [Ranks -> Nat]]
        /\ rec \in Recovery => restored' \in [Runs -> [Ranks -> Recovery]]
    BY <1>1, <1>2
  <2>2. vetoed' \in [Runs -> SUBSET Nat]
    BY <1>1, <1>2
  <2>3. QED
    BY <1>2, <2>1, <2>2 DEF WorkersOK
<1>6. QED
  BY <1>1, <1>2, <1>3, <1>4, <1>5

LEMMA DepartsFrame ==
  ASSUME WorkersOK, NEW u \in Runs, NEW r \in Ranks, NEW phase, NEW st, NEW rec,
         Departs(u, r, phase, st, rec)
  PROVE  /\ saved' = saved \/ saved' = [saved EXCEPT ![u] = FALSE] => Elsewhere(u)
         /\ Beside(u, r)
         /\ pc'[u][r] = phase /\ waiting'[u][r] = FALSE /\ entered'[u][r] = entered[u][r]
         /\ step'[u][r] = st /\ restored'[u][r] = rec /\ vetoed'[u] = vetoed[u]
         /\ phase \in Phases /\ st \in Steps /\ rec \in Recovery /\ saved' \in [Runs -> BOOLEAN]
              => WorkersOK'
<1>1. /\ pc \in [Runs -> [Ranks -> Phases]] /\ waiting \in [Runs -> [Ranks -> BOOLEAN]]
      /\ step \in [Runs -> [Ranks -> Steps]] /\ restored \in [Runs -> [Ranks -> Recovery]]
  BY DEF WorkersOK
<1>2. /\ pc' = [pc EXCEPT ![u][r] = phase] /\ waiting' = [waiting EXCEPT ![u][r] = FALSE]
      /\ step' = [step EXCEPT ![u][r] = st] /\ restored' = [restored EXCEPT ![u][r] = rec]
      /\ UNCHANGED <<cfg, entered, vetoed>>
  BY DEF Departs, Move
<1>3. ASSUME saved' = saved \/ saved' = [saved EXCEPT ![u] = FALSE] PROVE Elsewhere(u)
  <2>1. saved \in [Runs -> BOOLEAN]
    BY DEF WorkersOK
  <2>2. \A v \in Runs \ {u} : saved'[v] = saved[v]
    BY <1>3, <2>1
  <2>3. QED
    BY <1>1, <1>2, <2>2 DEF Elsewhere
<1>4. Beside(u, r)
  BY <1>1, <1>2 DEF Beside
<1>5. phase \in Phases /\ st \in Steps /\ rec \in Recovery /\ saved' \in [Runs -> BOOLEAN]
        => WorkersOK'
  BY <1>1, <1>2 DEF WorkersOK
<1>6. QED
  BY <1>1, <1>2, <1>3, <1>4, <1>5

LEMMA StopsFrame ==
  ASSUME WorkersOK, NEW u \in Runs, NEW r \in Ranks, NEW phase, Stops(u, r, phase)
  PROVE  /\ Elsewhere(u) /\ Beside(u, r)
         /\ pc'[u][r] = phase /\ waiting'[u][r] = FALSE /\ phase \in Ended
         /\ WorkersOK'
         /\ UNCHANGED <<cfg, entered, vetoed, step, restored, saved>>
<1>1. pc \in [Runs -> [Ranks -> Phases]] /\ waiting \in [Runs -> [Ranks -> BOOLEAN]]
  BY DEF WorkersOK
<1>2. /\ pc' = [pc EXCEPT ![u][r] = phase] /\ waiting' = [waiting EXCEPT ![u][r] = FALSE]
      /\ UNCHANGED <<cfg, entered, vetoed, step, restored, saved>> /\ phase \in Ended
  BY DEF Stops, Move
<1>3. phase \in Phases
  BY <1>2 DEF Ended, Phases
<1>4. Elsewhere(u)
  BY <1>1, <1>2 DEF Elsewhere
<1>5. Beside(u, r)
  BY <1>1, <1>2 DEF Beside
<1>6. WorkersOK'
  BY <1>1, <1>2, <1>3 DEF WorkersOK
<1>7. QED
  BY <1>1, <1>2, <1>3, <1>4, <1>5, <1>6

-------------------------------------------------------------------------------
(* Types and control                                                          *)

\* The ranks beside the one that moved, and the other runs.
LEMMA OthersControl ==
  ASSUME RunAssumption, ControlInv, NEW u \in Runs, NEW r \in Ranks, Elsewhere(u), Beside(u, r),
         cfg' = cfg, vetoed[u] \subseteq vetoed'[u], versions # None => versions' # None
  PROVE  /\ \A v \in Runs \ {u} : /\ CandidateInv(v)' /\ VersionsInv(v)'
                                 /\ \A q \in Ranks : RankInv(v, q)'
         /\ \A q \in Ranks \ {r} : RankInv(u, q)'
         /\ r # 0 => CandidateInv(u)' /\ VersionsInv(u)'
<1>1. ASSUME NEW v \in Runs \ {u}
      PROVE  CandidateInv(v)' /\ VersionsInv(v)' /\ \A q \in Ranks : RankInv(v, q)'
  BY <1>1 DEF Elsewhere, ControlInv, CandidateInv, VersionsInv, RankInv, Live
<1>2. ASSUME NEW q \in Ranks \ {r}
      PROVE  RankInv(u, q)'
  <2>1. RankInv(u, q)
    BY DEF ControlInv
  <2>2. QED
    BY <2>1 DEF Beside, RankInv, LocalInv
<1>3. ASSUME r # 0
      PROVE  CandidateInv(u)' /\ VersionsInv(u)'
  <2>1. CandidateInv(u) /\ VersionsInv(u)
    BY DEF ControlInv
  <2>2. /\ pc'[u][0] = pc[u][0] /\ waiting'[u][0] = waiting[u][0]
        /\ entered'[u][0] = entered[u][0] /\ restored'[u][0] = restored[u][0]
    BY <1>3 DEF Beside, RunAssumption
  <2>3. QED
    BY <2>1, <2>2 DEF CandidateInv, VersionsInv, Live
<1>4. QED
  BY <1>1, <1>2, <1>3

LEMMA ArrivalControl ==
  ASSUME RunAssumption, ControlInv, NEW u \in Runs, NEW r \in Ranks, NEW vote, NEW rec \in Recovery,
         Arrives(u, r, vote, rec),
         versions # None => versions' # None,
         pc[u][r] \in Collectives, pc[u][r] = "candidates" => r # 0,
         pc[u][r] \notin {"load", "listing"} => rec = restored[u][r],
         pc[u][r] = "load" => rec.left = restored[u][r].left,
         pc[u][r] = "listing" /\ vote => rec.left # {},
         pc[u][r] = "schedule" /\ vote => End(u, r) =< MaxStep,
         pc[u][r] \in {"fresh", "listing"} /\ vote /\ r = 0 => versions' # None
  PROVE  ControlInv'
<1>1. WorkersOK /\ RankInv(u, r) /\ CandidateInv(u) /\ VersionsInv(u)
  BY DEF ControlInv
<1>2. /\ Elsewhere(u) /\ Beside(u, r)
      /\ pc'[u][r] = pc[u][r] /\ waiting'[u][r] = TRUE /\ entered'[u][r] = entered[u][r] + 1
      /\ step'[u][r] = step[u][r] /\ restored'[u][r] = rec
      /\ vetoed'[u] = (IF vote THEN vetoed[u] ELSE vetoed[u] \union {entered[u][r] + 1})
      /\ waiting[u][r] = FALSE /\ Live(u, r) /\ UNCHANGED <<cfg, pc, step, saved>>
      /\ WorkersOK'
  <2>1. waiting[u][r] = FALSE /\ Live(u, r) /\ UNCHANGED <<cfg, pc, step, saved>>
    BY <1>1 DEF Arrives, WorkersOK
  <2>2. WorkersOK' /\ Elsewhere(u) /\ Beside(u, r)
    BY <1>1, ArrivesFrame
  <2>3. /\ waiting'[u][r] = TRUE /\ entered'[u][r] = entered[u][r] + 1
        /\ restored'[u][r] = rec
    BY <1>1 DEF Arrives, Enter, WorkersOK
  <2>4. vetoed'[u] = (IF vote THEN vetoed[u] ELSE vetoed[u] \union {entered[u][r] + 1})
    BY <1>1 DEF Arrives, Enter, WorkersOK
  <2>5. QED
    BY <2>1, <2>2, <2>3, <2>4
<1>3. entered[u][r] \in Nat /\ vetoed[u] \subseteq vetoed'[u] /\ cfg' = cfg
  BY <1>1, <1>2 DEF WorkersOK
<1>4. RankInv(u, r)'
  <2> DEFINE c == cfg[u]
             p == pc[u][r]
             e == entered[u][r]
             st == step[u][r]
             old == restored[u][r]
             V == vetoed[u]
             W == vetoed'[u]
  <2>1. LocalInv(c, r, p, FALSE, e, st, old, V)
    BY <1>1, <1>2 DEF RankInv
  <2>2. e \in Nat /\ e + 1 - 1 = e /\ V \subseteq W /\ p \in Collectives /\ p \notin Ended
    BY <1>2, <1>3 DEF Live
  <2>3. p = "schedule" /\ e + 1 \notin W => rec.start + c.steps =< MaxStep
    BY <1>2 DEF End
  <2> HIDE DEF c, p, e, st, old, V, W
  <2>4. LocalInv(c, r, p, TRUE, e + 1, st, rec, W)
    <3>1. p = "load" => rec.left = old.left
      BY DEF p, old
    <3>2. p \notin {"load", "listing"} => rec = old
      BY DEF p, old
    <3>3. p = "candidates" => r # 0
      BY DEF p
    <3>4. QED
      BY <2>1, <2>2, <2>3, <3>1, <3>2, <3>3 DEF LocalInv
  <2>5. QED
    BY <1>2, <1>3, <2>4 DEF RankInv, c, p, e, st, old, V, W
<1>5. ASSUME r = 0 PROVE CandidateInv(u)'
  <2>1. CASE ~(cfg[u] \in Configs /\ cfg[u].resume /\ cfg[u].journal)
    BY <1>3, <2>1 DEF CandidateInv
  <2>2. CASE cfg[u] \in Configs /\ cfg[u].resume /\ cfg[u].journal /\ entered[u][0] >= 2
    <3>1. 2 \notin vetoed'[u] => restored[u][0].left # {}
      BY <1>1, <1>3, <2>2 DEF CandidateInv
    <3>2. pc[u][0] # "listing"
      BY <1>1, <1>2, <1>3, <1>5, <2>2 DEF RankInv, LocalInv
    <3>3. rec.left = restored[u][0].left
      BY <1>5, <3>2
    <3>4. QED
      BY <1>2, <1>5, <3>1, <3>3 DEF CandidateInv
  <2>3. CASE cfg[u] \in Configs /\ cfg[u].resume /\ cfg[u].journal /\ entered[u][0] = 1
    <3>1. pc[u][0] \in {"candidates", "listing"}
      BY <1>1, <1>2, <1>5, <2>3 DEF RankInv, LocalInv, Collectives, Phases, After, Ended, Live
    <3>2. pc[u][0] = "listing"
      BY <1>5, <3>1
    <3>3. 2 \notin vetoed'[u] => vote
      BY <1>2, <1>5, <2>3
    <3>4. QED
      BY <1>2, <1>5, <3>2, <3>3 DEF CandidateInv
  <2>4. CASE entered[u][0] = 0
    BY <1>2, <1>5, <2>4 DEF CandidateInv
  <2>5. QED
    BY <1>3, <1>5, <2>1, <2>2, <2>3, <2>4
<1>6. ASSUME r = 0 PROVE VersionsInv(u)'
  <2>1. vote \/ entered'[u][0] \in vetoed'[u]
    BY <1>2, <1>6
  <2>2. QED
    BY <1>1, <1>2, <1>3, <1>6, <2>1 DEF VersionsInv, Live
<1>7. QED
  BY <1>2, <1>3, <1>4, <1>5, <1>6, OthersControl DEF ControlInv

LEMMA DepartureControl ==
  ASSUME RunAssumption, ControlInv, NEW u \in Runs, NEW r \in Ranks, NEW phase \in Phases, NEW st \in Steps,
         NEW rec \in Recovery, Departs(u, r, phase, st, rec),
         saved' = saved \/ saved' = [saved EXCEPT ![u] = FALSE], versions' = versions,
         LocalInv(cfg[u], r, phase, FALSE, entered[u][r], st, rec, vetoed[u]),
         r = 0 => rec.left # {} \/ rec.left = restored[u][0].left,
         r = 0 /\ phase \notin {"fresh", "candidates", "failed"} /\ cfg[u].journal => versions # None
  PROVE  ControlInv'
<1>1. WorkersOK /\ RankInv(u, r) /\ CandidateInv(u) /\ VersionsInv(u)
  BY DEF ControlInv
<1>2. /\ Elsewhere(u) /\ Beside(u, r)
      /\ pc'[u][r] = phase /\ waiting'[u][r] = FALSE /\ entered'[u][r] = entered[u][r]
      /\ step'[u][r] = st /\ restored'[u][r] = rec /\ vetoed'[u] = vetoed[u]
      /\ UNCHANGED <<cfg, entered, vetoed>>
      /\ WorkersOK'
  <2>1. saved' \in [Runs -> BOOLEAN] /\ UNCHANGED <<cfg, entered, vetoed>>
    BY <1>1 DEF Departs, WorkersOK
  <2>2. WorkersOK' /\ Elsewhere(u) /\ Beside(u, r)
    BY <1>1, <2>1, DepartsFrame
  <2>3. /\ pc'[u][r] = phase /\ waiting'[u][r] = FALSE /\ entered'[u][r] = entered[u][r]
        /\ step'[u][r] = st /\ restored'[u][r] = rec /\ vetoed'[u] = vetoed[u]
    BY <1>1 DEF Departs, Move, WorkersOK
  <2>4. QED
    BY <2>1, <2>2, <2>3
<1>3. RankInv(u, r)'
  BY <1>2 DEF RankInv
<1>4. ASSUME r = 0 PROVE CandidateInv(u)'
  BY <1>1, <1>2, <1>4 DEF CandidateInv
<1>5. ASSUME r = 0 PROVE VersionsInv(u)'
  BY <1>2, <1>5 DEF VersionsInv, Live, Ended, After
<1>6. QED
  BY <1>2, <1>3, <1>4, <1>5, OthersControl DEF ControlInv

LEMMA StopControl ==
  ASSUME RunAssumption, ControlInv, NEW u \in Runs, NEW r \in Ranks, NEW phase, Stops(u, r, phase),
         versions' = versions
  PROVE  ControlInv'
<1>1. WorkersOK /\ RankInv(u, r) /\ CandidateInv(u) /\ VersionsInv(u)
  BY DEF ControlInv
<1>2. /\ Elsewhere(u) /\ Beside(u, r)
      /\ pc'[u][r] = phase /\ waiting'[u][r] = FALSE /\ phase \in Ended
      /\ UNCHANGED <<cfg, entered, vetoed, step, restored, saved>>
      /\ WorkersOK'
  BY <1>1, StopsFrame
<1>3. RankInv(u, r)'
  BY <1>2 DEF RankInv, LocalInv, Ended, After, Collectives
<1>4. ASSUME r = 0 PROVE CandidateInv(u)' /\ VersionsInv(u)'
  BY <1>1, <1>2, <1>4 DEF CandidateInv, VersionsInv, Live, Ended
<1>5. QED
  BY <1>2, <1>3, <1>4, OthersControl DEF ControlInv

\* A function updated to what it was.
LEMMA Unmoved ==
  ASSUME WorkersOK, NEW u \in Runs, NEW r \in Ranks
  PROVE  /\ restored = [restored EXCEPT ![u][r] = restored[u][r]] /\ restored[u][r] \in Recovery
         /\ step = [step EXCEPT ![u][r] = step[u][r]] /\ step[u][r] \in Steps
  BY DEF WorkersOK

\* What a rank restored, with one field replaced.
LEMMA WithLeft ==
  ASSUME WorkersOK, NEW u \in Runs, NEW r \in Ranks, NEW left \in SUBSET Steps
  PROVE  LET rec == [restored[u][r] EXCEPT !.left = left] IN
         /\ rec \in Recovery /\ rec.left = left
         /\ rec.start = restored[u][r].start /\ rec.mark = restored[u][r].mark
<1>1. restored[u][r] \in Recovery
  BY Unmoved
<1>2. QED
  BY <1>1 DEF Recovery

LEMMA WithStart ==
  ASSUME WorkersOK, NEW u \in Runs, NEW r \in Ranks, NEW start \in Steps
  PROVE  LET rec == [restored[u][r] EXCEPT !.start = start] IN
         /\ rec \in Recovery /\ rec.start = start
         /\ rec.left = restored[u][r].left /\ rec.mark = restored[u][r].mark
<1>1. restored[u][r] \in Recovery
  BY Unmoved
<1>2. QED
  BY <1>1 DEF Recovery

\* The collectives in which a rank brings nothing but its vote.
Voting == Collectives \ {"listing", "load"}

LEMMA VoteControl ==
  ASSUME RunAssumption, ControlInv, NEW u \in Runs, NEW r \in Ranks, NEW vote,
         ~waiting[u][r], pc[u][r] \in Voting, pc[u][r] = "candidates" => r # 0,
         pc[u][r] = "schedule" /\ vote => End(u, r) =< MaxStep,
         pc[u][r] = "fresh" /\ vote /\ r = 0 => versions' # None,
         Enter(u, r, vote), UNCHANGED <<cfg, pc, step, restored, saved>>,
         versions # None => versions' # None
  PROVE  ControlInv'
<1>1. WorkersOK
  BY DEF ControlInv
<1>2. Arrives(u, r, vote, restored[u][r])
  BY <1>1, Unmoved DEF Arrives, Live, Ended, Voting, Collectives, Phases
<1>3. /\ restored[u][r] \in Recovery /\ pc[u][r] \in Collectives /\ pc[u][r] # "listing" /\ pc[u][r] # "load"
  BY <1>1, Unmoved DEF Voting
<1>4. QED
  BY <1>2, <1>3, ArrivalControl

LEMMA VotesSay == ASSUME NEW check \in BOOLEAN, NEW fallible, NEW vote \in Votes(check, fallible), vote PROVE check
  BY DEF Votes

LEMMA VotingSteps ==
  ASSUME RunAssumption, TypeInv, NEW u \in Runs, NEW r \in Ranks,
         JoinGroup(u, r) \/ AwaitRankZero(u, r) \/ ProposeSchedule(u, r) \/ Train(u, r) \/ Validate(u, r)
  PROVE  ControlInv'
<1>1. ControlInv
  BY DEF TypeInv
<1>2. CASE JoinGroup(u, r)
  BY <1>1, <1>2, VoteControl DEF JoinGroup, Ready, Voting, Collectives, Phases, store
<1>3. CASE AwaitRankZero(u, r)
  <2>1. pc[u][r] \in {"fresh", "candidates", "capacity", "publish"} /\ ~waiting[u][r] /\ r # 0
    BY <1>3 DEF AwaitRankZero, Ready
  <2>2. QED
    BY <1>1, <1>3, <2>1, VoteControl DEF AwaitRankZero, Voting, Collectives, Phases, store
<1>4. CASE ProposeSchedule(u, r)
  BY <1>1, <1>4, VoteControl DEF ProposeSchedule, Ready, Voting, Collectives, Phases, store, Schedulable
<1>5. CASE Train(u, r)
  <2>1. PICK vote : Enter(u, r, vote)
    BY <1>5 DEF Train, EnterWith
  <2>2. QED
    BY <1>1, <1>5, <2>1, VoteControl DEF Train, Ready, Voting, Collectives, Phases, store
<1>6. CASE Validate(u, r)
  <2>1. PICK vote : Enter(u, r, vote)
    BY <1>6 DEF Validate, EnterWith
  <2>2. QED
    BY <1>1, <1>6, <2>1, VoteControl DEF Validate, Ready, Voting, Collectives, Phases, store
<1>7. QED
  BY <1>2, <1>3, <1>4, <1>5, <1>6

\* Rank 0 with the store.
LEMMA AdmitFreshControl ==
  ASSUME RunAssumption, TypeInv, NEW u \in Runs, AdmitFresh(u)
  PROVE  ControlInv' /\ (versions' = versions \/ versions' = OrEmpty(versions))
<1>1. /\ ControlInv /\ StoreOK /\ pc[u][0] = "fresh" /\ ~waiting[u][0] /\ 0 \in Ranks
      /\ UNCHANGED <<cfg, pc, step, restored, saved>>
  BY DEF TypeInv, AdmitFresh, Ready, RunAssumption
<1>2. OrEmpty(versions) # None /\ pc[u][0] \in Voting
  BY <1>1 DEF OrEmpty, StoreOK, RunAssumption, Steps, Voting, Collectives, Phases
<1>3. \/ versions' = OrEmpty(versions) /\ Enter(u, 0, HighWater = None)
      \/ versions' = versions /\ Enter(u, 0, FALSE)
  BY DEF AdmitFresh
<1>4. CASE versions' = OrEmpty(versions) /\ Enter(u, 0, HighWater = None)
  BY <1>1, <1>2, <1>4, VoteControl
<1>5. CASE versions' = versions /\ Enter(u, 0, FALSE)
  BY <1>1, <1>2, <1>5, VoteControl
<1>6. QED
  BY <1>3, <1>4, <1>5

LEMMA ReadMarkControl ==
  ASSUME RunAssumption, TypeInv, NEW u \in Runs, ReadMark(u)
  PROVE  ControlInv'
<1>1. /\ ControlInv /\ StoreOK /\ WorkersOK /\ pc[u][0] = "candidates" /\ waiting[u][0] = FALSE /\ 0 \in Ranks
  BY DEF TypeInv, ControlInv, WorkersOK, ReadMark, Ready, RunAssumption
<1>2. /\ pc' = [pc EXCEPT ![u][0] = "listing"]
      /\ restored' = [restored EXCEPT ![u][0] = [restored[u][0] EXCEPT !.mark = HighWater]]
      /\ UNCHANGED <<cfg, waiting, entered, step, vetoed, saved, versions>>
  BY DEF ReadMark, store
<1>3. HighWater \in Steps \union {None} /\ restored[u][0] \in Recovery
  BY <1>1, HighWaterTyped DEF WorkersOK
<1>4. [restored[u][0] EXCEPT !.mark = HighWater] \in Recovery
  BY <1>3 DEF Recovery
<1>5. WorkersOK'
  BY <1>1, <1>2, <1>4 DEF WorkersOK, Phases
<1>6. Elsewhere(u) /\ Beside(u, 0)
  BY <1>1, <1>2 DEF Elsewhere, Beside, WorkersOK
<1>7. /\ pc'[u][0] = "listing" /\ restored'[u][0].left = restored[u][0].left
      /\ restored'[u][0].start = restored[u][0].start
  BY <1>1, <1>2, <1>3 DEF WorkersOK, Recovery
<1>8. RankInv(u, 0) /\ CandidateInv(u) /\ VersionsInv(u)
  BY <1>1 DEF ControlInv
<1>9. RankInv(u, 0)'
  BY <1>1, <1>2, <1>7, <1>8 DEF RankInv, LocalInv, After, Ended
<1>10. CandidateInv(u)' /\ VersionsInv(u)'
  BY <1>1, <1>2, <1>7, <1>8 DEF CandidateInv, VersionsInv, After
<1>11. QED
  BY <1>1, <1>2, <1>5, <1>6, <1>9, <1>10, OthersControl DEF ControlInv

LEMMA ReadCandidatesControl ==
  ASSUME RunAssumption, TypeInv, NEW u \in Runs, ReadCandidates(u)
  PROVE  ControlInv'
<1> DEFINE valid == {s \in OrEmpty(versions) : Intact(s)}
           rec == [restored[u][0] EXCEPT !.left = valid]
<1>1. /\ ControlInv /\ StoreOK /\ WorkersOK /\ pc[u][0] = "listing" /\ ~waiting[u][0] /\ 0 \in Ranks
      /\ restored' = [restored EXCEPT ![u][0] = rec]
      /\ UNCHANGED <<cfg, pc, step, saved, versions>>
  BY DEF TypeInv, ControlInv, ReadCandidates, Ready, RunAssumption, store
<1>2. PICK vote \in Votes(valid # {}, TRUE) : Enter(u, 0, vote)
  BY DEF ReadCandidates, EnterWith
<1>3. vote => valid # {}
  BY <1>2, VotesSay
<1>4. valid \in SUBSET Steps /\ (valid # {} => versions # None)
  BY <1>1 DEF StoreOK, OrEmpty
<1>5. rec \in Recovery /\ rec.left = valid
  BY <1>1, <1>4, WithLeft
<1> HIDE DEF rec, valid
<1>6. Arrives(u, 0, vote, rec)
  BY <1>1, <1>2 DEF Arrives, Live, Ended
<1>7. QED
  BY <1>1, <1>3, <1>4, <1>5, <1>6, ArrivalControl DEF Collectives, Phases

LEMMA RankZeroControl ==
  ASSUME RunAssumption, TypeInv, NEW u \in Runs,
         \/ AdmitCapacity(u) \/ PublishRefused(u) \/ PublishFailed(u)
         \/ ReplaceLatest(u) \/ ReplaceFailed(u)
  PROVE  ControlInv'
<1>1. /\ ControlInv /\ StoreOK /\ 0 \in Ranks /\ ~waiting[u][0] /\ pc[u][0] \in {"capacity", "publish"}
      /\ UNCHANGED <<cfg, pc, step, restored, saved>>
      /\ \E vote : Enter(u, 0, vote)
  BY DEF TypeInv, AdmitCapacity, PublishRefused, PublishFailed, ReplaceLatest, ReplaceFailed,
         Publishing, Ready, RunAssumption, EnterWith
<1>2. PICK vote : Enter(u, 0, vote)
  BY <1>1
<1>3. versions # None => versions' # None
  <2>1. CASE PublishFailed(u)
    <3>1. versions' = versions \/ versions' = versions \union {step[u][0]}
      BY <2>1 DEF PublishFailed
    <3>2. step[u][0] \in Steps
      BY <1>1 DEF ControlInv, WorkersOK
    <3>3. QED
      BY <1>1, <3>1, <3>2 DEF StoreOK, RunAssumption
  <2>2. CASE versions' = versions
    BY <2>2
  <2>3. QED
    BY <2>1, <2>2 DEF AdmitCapacity, PublishRefused, ReplaceLatest, ReplaceFailed, store
<1>4. QED
  BY <1>1, <1>2, <1>3, VoteControl DEF Voting, Collectives, Phases

LEMMA SourceTyped ==
  ASSUME RunAssumption, TypeInv, NEW u \in Runs, NEW r \in Ranks, pc[u][r] = "load"
  PROVE  OrZero(Source(u, r)) \in Steps
<1>1. ControlInv /\ StoreOK /\ WorkersOK /\ RankInv(u, r)
  BY DEF TypeInv, ControlInv
<1>2. CASE cfg[u].journal
  <2>1. restored[u][r].left \in SUBSET Steps /\ restored[u][r].left # {}
    BY <1>1, <1>2 DEF RankInv, LocalInv, WorkersOK, Recovery
  <2>2. Max(restored[u][r].left) \in Steps
    BY <2>1, MaxStepOf
  <2>3. QED
    BY <1>2, <2>2 DEF Source, OrZero, RunAssumption, Steps
<1>3. CASE ~cfg[u].journal
  BY <1>1, <1>3 DEF Source, OrZero, StoreOK, RunAssumption, Steps
<1>4. QED
  BY <1>2, <1>3

LEMMA LoadControl ==
  ASSUME RunAssumption, TypeInv, NEW u \in Runs, NEW r \in Ranks, Load(u, r)
  PROVE  ControlInv'
<1> DEFINE rec == [restored[u][r] EXCEPT !.start = OrZero(Source(u, r))]
<1>1. /\ ControlInv /\ StoreOK /\ WorkersOK /\ pc[u][r] = "load" /\ ~waiting[u][r]
      /\ restored' = [restored EXCEPT ![u][r] = rec]
      /\ UNCHANGED <<cfg, pc, step, saved, versions>>
  BY DEF TypeInv, ControlInv, Load, Ready, store
<1>2. PICK vote : Enter(u, r, vote)
  BY DEF Load, EnterWith
<1>3. OrZero(Source(u, r)) \in Steps
  BY <1>1, SourceTyped
<1>4. rec \in Recovery /\ rec.left = restored[u][r].left
  BY <1>1, <1>3, WithStart
<1> HIDE DEF rec
<1>5. Arrives(u, r, vote, rec)
  BY <1>1, <1>2 DEF Arrives, Live, Ended
<1>6. QED
  BY <1>1, <1>4, <1>5, ArrivalControl DEF Collectives, Phases

LEMMA LiveConfig ==
  ASSUME RunAssumption, ControlInv, NEW u \in Runs, NEW r \in Ranks, Live(u, r)
  PROVE  /\ cfg[u] \in Configs /\ cfg[u].steps \in Nat \ {0}
         /\ cfg[u].journal \in BOOLEAN /\ cfg[u].resume \in BOOLEAN
         /\ entered[u][r] \in Nat /\ step[u][r] \in Nat /\ restored[u][r].start \in Nat
<1>1. WorkersOK /\ RankInv(u, r)
  BY DEF ControlInv
<1>2. cfg[u] \in Configs
  BY <1>1 DEF RankInv, LocalInv, Live
<1>3. cfg[u].steps \in Nat \ {0} /\ cfg[u].journal \in BOOLEAN /\ cfg[u].resume \in BOOLEAN
  BY <1>2 DEF Configs, RunAssumption
<1>4. entered[u][r] \in Nat /\ step[u][r] \in Nat
  BY <1>1 DEF WorkersOK, Steps, RunAssumption
<1>5. restored[u][r].start \in Nat
  BY <1>1, Unmoved DEF Recovery, Steps, RunAssumption
<1>6. QED
  BY <1>2, <1>3, <1>4, <1>5

LEMMA SimpleDeparture ==
  ASSUME WorkersOK, NEW u \in Runs, NEW r \in Ranks, NEW phase, waiting[u][r], Arrived(u, r),
         Move(u, r, phase), UNCHANGED <<cfg, entered, vetoed, step, restored>>
  PROVE  Departs(u, r, phase, step[u][r], restored[u][r])
  BY Unmoved DEF Departs

LEMMA SimpleControl ==
  ASSUME RunAssumption, ControlInv, NEW u \in Runs, NEW r \in Ranks, NEW phase \in Phases,
         waiting[u][r], Arrived(u, r), Move(u, r, phase),
         UNCHANGED <<cfg, entered, vetoed, step, restored, versions>>,
         saved' = saved \/ saved' = [saved EXCEPT ![u] = FALSE],
         LocalInv(cfg[u], r, phase, FALSE, entered[u][r], step[u][r], restored[u][r], vetoed[u]),
         r = 0 /\ phase \notin {"fresh", "candidates", "failed"} /\ cfg[u].journal => versions # None
  PROVE  ControlInv'
<1>1. WorkersOK
  BY DEF ControlInv
<1>2. Departs(u, r, phase, step[u][r], restored[u][r])
  BY <1>1, SimpleDeparture
<1>3. step[u][r] \in Steps /\ restored[u][r] \in Recovery
  BY <1>1, Unmoved
<1>4. QED
  BY <1>2, <1>3, DepartureControl

LEMMA LeaveGroupControl ==
  ASSUME RunAssumption, TypeInv, NEW u \in Runs, NEW r \in Ranks, LeaveGroup(u, r)
  PROVE  ControlInv'
<1> DEFINE phase == AfterRendezvous(cfg[u])
<1>1. /\ ControlInv /\ WorkersOK /\ RankInv(u, r) /\ Leaving(u, r, "rendezvous")
      /\ Move(u, r, phase) /\ UNCHANGED <<cfg, entered, vetoed, step, restored, saved, versions>>
  BY DEF TypeInv, ControlInv, LeaveGroup, store
<1>2. entered[u][r] \in Nat /\ cfg[u] \in Configs /\ phase \in {"fresh", "candidates", "load", "schedule"}
  BY <1>1 DEF WorkersOK, RankInv, LocalInv, Leaving, Ended, AfterRendezvous
<1>3. LocalInv(cfg[u], r, phase, FALSE, entered[u][r], step[u][r], restored[u][r], vetoed[u])
  BY <1>1, <1>2 DEF RankInv, LocalInv, Leaving, AfterRendezvous, Configs, After, Collectives, Ended
<1>4. phase \notin {"fresh", "candidates"} => ~cfg[u].journal
  BY <1>2 DEF AfterRendezvous, Configs
<1>5. QED
  BY <1>1, <1>2, <1>3, <1>4, SimpleControl DEF Phases, Leaving

LEMMA LeaveFreshControl ==
  ASSUME RunAssumption, TypeInv, NEW u \in Runs, NEW r \in Ranks, LeaveFresh(u, r)
  PROVE  ControlInv'
<1>1. /\ ControlInv /\ WorkersOK /\ RankInv(u, r) /\ VersionsInv(u)
      /\ Leaving(u, r, "fresh") /\ Accepted(u, r)
      /\ Move(u, r, "schedule") /\ UNCHANGED <<cfg, entered, vetoed, step, restored, saved, versions>>
  BY DEF TypeInv, ControlInv, LeaveFresh, store
<1>2. entered[u][r] \in Nat /\ cfg[u] \in Configs
  BY <1>1 DEF WorkersOK, RankInv, LocalInv, Leaving, Ended
<1>3. LocalInv(cfg[u], r, "schedule", FALSE, entered[u][r], step[u][r], restored[u][r], vetoed[u])
  BY <1>1, <1>2 DEF RankInv, LocalInv, Leaving, Configs, After, Collectives, Ended
<1>4. r = 0 /\ cfg[u].journal => versions # None
  BY <1>1 DEF VersionsInv, Leaving, Accepted, Live, Ended
<1>5. QED
  BY <1>1, <1>2, <1>3, <1>4, SimpleControl DEF Phases, Leaving

LEMMA LeaveCandidatesControl ==
  ASSUME RunAssumption, TypeInv, NEW u \in Runs, NEW r \in Ranks, LeaveCandidates(u, r)
  PROVE  ControlInv'
<1>1. /\ ControlInv /\ WorkersOK /\ RankInv(u, r) /\ VersionsInv(u) /\ CandidateInv(u)
      /\ Leaving(u, r, "candidates") \/ Leaving(u, r, "listing")
      /\ Accepted(u, r) /\ 0 \in Ranks
      /\ Move(u, r, "load") /\ restored' = [restored EXCEPT ![u][r] = restored[u][0]]
      /\ UNCHANGED <<cfg, entered, vetoed, step, saved, versions>>
  BY DEF TypeInv, ControlInv, LeaveCandidates, store, RunAssumption
<1>2. Departs(u, r, "load", step[u][r], restored[u][0])
  BY <1>1, Unmoved DEF Departs, Leaving
<1>3. entered[u][r] = 2 /\ cfg[u] \in Configs /\ cfg[u].resume /\ cfg[u].journal
  <2>1. entered[u][r] \in Nat /\ waiting[u][r] /\ pc[u][r] \in {"candidates", "listing"}
    BY <1>1 DEF WorkersOK, Leaving
  <2>2. QED
    BY <1>1, <2>1 DEF RankInv, LocalInv, Ended
<1>4. entered[u][0] \in Nat /\ entered[u][0] >= 2 /\ 2 \notin vetoed[u]
  BY <1>1, <1>3 DEF WorkersOK, Leaving, Arrived, Accepted
<1>5. restored[u][0].left # {} /\ restored[u][0] \in Recovery
  BY <1>1, <1>3, <1>4, Unmoved DEF CandidateInv
<1>6. LocalInv(cfg[u], r, "load", FALSE, entered[u][r], step[u][r], restored[u][0], vetoed[u])
  BY <1>3, <1>5 DEF LocalInv, After, Collectives, Ended
<1>7. r = 0 => versions # None
  BY <1>1, <1>3 DEF VersionsInv, Leaving, Accepted, Live, Ended, RankInv, LocalInv
<1>8. QED
  BY <1>1, <1>2, <1>5, <1>6, <1>7, Unmoved, DepartureControl DEF Phases

LEMMA LeaveLoadControl ==
  ASSUME RunAssumption, TypeInv, NEW u \in Runs, NEW r \in Ranks, LeaveLoad(u, r)
  PROVE  ControlInv'
<1>1. /\ ControlInv /\ WorkersOK /\ RankInv(u, r) /\ VersionsInv(u)
      /\ Leaving(u, r, "load") /\ Move(u, r, "schedule")
      /\ step' = [step EXCEPT ![u][r] = restored[u][r].start]
      /\ UNCHANGED <<cfg, entered, vetoed, restored, saved, versions>>
  BY DEF TypeInv, ControlInv, LeaveLoad, store
<1>2. restored[u][r] \in Recovery /\ restored[u][r].start \in Steps
  BY <1>1, Unmoved DEF Recovery
<1>3. Departs(u, r, "schedule", restored[u][r].start, restored[u][r])
  BY <1>1, Unmoved DEF Departs, Leaving
<1>4. entered[u][r] \in Nat /\ cfg[u] \in Configs
  BY <1>1 DEF WorkersOK, RankInv, LocalInv, Leaving, Ended
<1>5. LocalInv(cfg[u], r, "schedule", FALSE, entered[u][r], restored[u][r].start, restored[u][r], vetoed[u])
  BY <1>1, <1>4 DEF RankInv, LocalInv, Leaving, Configs, After, Collectives, Ended
<1>6. r = 0 /\ cfg[u].journal => versions # None
  BY <1>1 DEF VersionsInv, Leaving, Live, Ended
<1>7. QED
  BY <1>1, <1>2, <1>3, <1>5, <1>6, DepartureControl DEF Phases

LEMMA LoadRejectedControl ==
  ASSUME RunAssumption, TypeInv, NEW u \in Runs, NEW r \in Ranks, LoadRejected(u, r)
  PROVE  ControlInv'
<1> DEFINE left == restored[u][r].left \ {Source(u, r)}
           rec == [restored[u][r] EXCEPT !.left = left]
<1>1. /\ ControlInv /\ WorkersOK /\ RankInv(u, r) /\ VersionsInv(u)
      /\ Leaving(u, r, "load") /\ Move(u, r, "load") /\ left # {}
      /\ restored' = [restored EXCEPT ![u][r] = rec]
      /\ UNCHANGED <<cfg, entered, vetoed, step, saved, versions>>
  BY DEF TypeInv, ControlInv, LoadRejected, store
<1>2. left \in SUBSET Steps
  BY <1>1, Unmoved DEF Recovery
<1>3. rec \in Recovery /\ rec.left = left
  BY <1>1, <1>2, WithLeft
<1> HIDE DEF rec, left
<1>4. Departs(u, r, "load", step[u][r], rec)
  BY <1>1, Unmoved DEF Departs, Leaving
<1>5. entered[u][r] \in Nat /\ cfg[u] \in Configs
  BY <1>1 DEF WorkersOK, RankInv, LocalInv, Leaving, Ended
<1>6. LocalInv(cfg[u], r, "load", FALSE, entered[u][r], step[u][r], rec, vetoed[u])
  BY <1>1, <1>3, <1>5 DEF RankInv, LocalInv, Leaving, Configs, After, Collectives, Ended
<1>7. r = 0 /\ cfg[u].journal => versions # None
  BY <1>1 DEF VersionsInv, Leaving, Live, Ended
<1>8. QED
  BY <1>1, <1>3, <1>4, <1>6, <1>7, Unmoved, DepartureControl DEF Phases

LEMMA LeaveScheduleControl ==
  ASSUME RunAssumption, TypeInv, NEW u \in Runs, NEW r \in Ranks,
         LeaveSchedule(u, r) \/ LeaveCapacity(u, r)
  PROVE  ControlInv'
<1> DEFINE phase == IF pc[u][r] = "schedule" /\ cfg[u].journal THEN "capacity" ELSE "train"
<1>1. /\ ControlInv /\ WorkersOK /\ RankInv(u, r) /\ VersionsInv(u)
      /\ pc[u][r] \in {"schedule", "capacity"} /\ waiting[u][r] /\ Arrived(u, r) /\ Accepted(u, r)
      /\ Move(u, r, phase)
      /\ UNCHANGED <<cfg, entered, vetoed, step, restored, saved, versions>>
  BY DEF TypeInv, ControlInv, LeaveSchedule, LeaveCapacity, Leaving, store
<1>2. entered[u][r] \in Nat /\ cfg[u] \in Configs /\ cfg[u].steps \in Nat \ {0}
  BY <1>1, LiveConfig DEF Live, Ended
<1>3. restored[u][r].start \in Nat
  BY <1>1, Unmoved DEF Recovery, Steps, RunAssumption
<1>4. LocalInv(cfg[u], r, phase, FALSE, entered[u][r], step[u][r], restored[u][r], vetoed[u])
  BY <1>1, <1>2, <1>3 DEF RankInv, LocalInv, Accepted, After, Collectives, Ended
<1>5. r = 0 /\ cfg[u].journal => versions # None
  BY <1>1 DEF VersionsInv, Live, Ended, After
<1>6. phase \in Phases
  BY DEF Phases
<1> HIDE DEF phase
<1>7. QED
  BY <1>1, <1>4, <1>5, <1>6, SimpleControl

LEMMA LeaveTrainControl ==
  ASSUME RunAssumption, TypeInv, NEW u \in Runs, NEW r \in Ranks, LeaveTrain(u, r)
  PROVE  ControlInv'
<1> DEFINE completed == step[u][r] + 1
           phase == IF SaveDue(u, r, completed) THEN "validate" ELSE "train"
<1>1. /\ ControlInv /\ WorkersOK /\ RankInv(u, r) /\ VersionsInv(u)
      /\ Leaving(u, r, "train") /\ Move(u, r, phase)
      /\ step' = [step EXCEPT ![u][r] = completed]
      /\ UNCHANGED <<cfg, entered, vetoed, restored, saved, versions>>
  BY DEF TypeInv, ControlInv, LeaveTrain, store
<1>2. entered[u][r] \in Nat /\ cfg[u] \in Configs /\ cfg[u].steps \in Nat \ {0}
  BY <1>1, LiveConfig DEF Live, Ended, Leaving
<1>3. restored[u][r] \in Recovery /\ restored[u][r].start \in Nat /\ step[u][r] \in Nat /\ MaxStep \in Nat
  BY <1>1, Unmoved DEF Recovery, Steps, RunAssumption
<1>4. step[u][r] < End(u, r) /\ End(u, r) =< MaxStep
  BY <1>1 DEF RankInv, LocalInv, Leaving, End
<1>5. completed \in Steps /\ phase \in {"validate", "train"}
  BY <1>2, <1>3, <1>4 DEF Steps, End
<1>6. phase = "train" => completed < End(u, r)
  BY <1>2, <1>3, <1>4 DEF SaveDue, End
<1>7. LocalInv(cfg[u], r, phase, FALSE, entered[u][r], completed, restored[u][r], vetoed[u])
  <2>1. completed =< End(u, r) /\ (cfg[u].journal => entered[u][r] >= 2)
    BY <1>1, <1>2, <1>3, <1>4 DEF RankInv, LocalInv, Leaving, After, End
  <2> HIDE DEF phase, completed
  <2>2. QED
    BY <1>2, <1>4, <1>5, <1>6, <2>1 DEF LocalInv, After, Collectives, Ended, End
<1>8. Departs(u, r, phase, completed, restored[u][r])
  BY <1>1, Unmoved DEF Departs, Leaving
<1>9. r = 0 /\ cfg[u].journal => versions # None
  BY <1>1 DEF VersionsInv, Leaving, Live, Ended, After
<1>10. phase \in Phases
  BY <1>5 DEF Phases
<1> HIDE DEF phase, completed
<1>11. QED
  BY <1>1, <1>3, <1>5, <1>7, <1>8, <1>9, <1>10, DepartureControl

LEMMA LeaveSaveControl ==
  ASSUME RunAssumption, TypeInv, NEW u \in Runs, NEW r \in Ranks,
         LeaveValidate(u, r) \/ LeavePublish(u, r)
  PROVE  ControlInv'
<1> DEFINE phase == IF pc[u][r] = "validate" THEN "publish"
                    ELSE IF step[u][r] = End(u, r) THEN "output" ELSE "train"
<1>1. /\ ControlInv /\ WorkersOK /\ RankInv(u, r) /\ VersionsInv(u)
      /\ pc[u][r] \in {"validate", "publish"} /\ waiting[u][r] /\ Arrived(u, r)
      /\ Move(u, r, phase)
      /\ UNCHANGED <<cfg, entered, vetoed, step, restored, versions>>
      /\ saved' = saved \/ saved' = [saved EXCEPT ![u] = FALSE]
  BY DEF TypeInv, ControlInv, LeaveValidate, LeavePublish, Leaving, store
<1>2. entered[u][r] \in Nat /\ cfg[u] \in Configs /\ cfg[u].steps \in Nat \ {0}
  BY <1>1, LiveConfig DEF Live, Ended
<1>3. restored[u][r].start \in Nat /\ step[u][r] \in Nat
  BY <1>1, Unmoved DEF Recovery, Steps, RunAssumption
<1>4. LocalInv(cfg[u], r, phase, FALSE, entered[u][r], step[u][r], restored[u][r], vetoed[u])
  BY <1>1, <1>2, <1>3 DEF RankInv, LocalInv, After, Collectives, Ended, End
<1>5. r = 0 /\ cfg[u].journal => versions # None
  BY <1>1 DEF VersionsInv, Live, Ended, After
<1>6. phase \in Phases
  BY DEF Phases
<1> HIDE DEF phase
<1>7. QED
  BY <1>1, <1>4, <1>5, <1>6, SimpleControl

\* The ends of a rank.
LEMMA StoppingSteps ==
  ASSUME RunAssumption, TypeInv, NEW u \in Runs, NEW r \in Ranks,
         \/ LoadExhausted(u, r) \/ Refused(u, r) \/ PeerLost(u, r) \/ WriteOutput(u, r)
         \/ Killed(u, r)
  PROVE  ControlInv'
<1>1. ControlInv /\ UNCHANGED <<cfg, entered, vetoed, step, restored, saved, versions>>
  BY DEF TypeInv, LoadExhausted, Refused, PeerLost, WriteOutput, Killed, store
<1>2. Move(u, r, "failed") \/ Move(u, r, "exited")
  BY DEF LoadExhausted, Refused, PeerLost, WriteOutput, Killed
<1>3. PICK phase \in Ended : Move(u, r, phase)
  BY <1>2 DEF Ended
<1>4. QED
  BY <1>1, <1>3, StopControl DEF Stops

\* Steps of the supervisor, of the operator and of the disk leave the workers alone.
LEMMA IdleControl ==
  ASSUME ControlInv, UNCHANGED <<cfg, workers>>, versions # None => versions' # None
  PROVE  ControlInv'
<1>1. UNCHANGED <<pc, waiting, entered, step, vetoed, restored, saved>>
  BY DEF workers
<1>2. WorkersOK'
  BY <1>1 DEF ControlInv, WorkersOK
<1>3. \A u \in Runs : CandidateInv(u)' /\ VersionsInv(u)'
  BY <1>1 DEF ControlInv, CandidateInv, VersionsInv, Live
<1>4. \A u \in Runs, r \in Ranks : RankInv(u, r)'
  BY <1>1 DEF ControlInv, RankInv
<1>5. QED
  BY <1>2, <1>3, <1>4 DEF ControlInv

\* The workers of a run are started anew, or gone.
Reset(u, phase) ==
  /\ pc' = [pc EXCEPT ![u] = [r \in Ranks |-> phase]]
  /\ waiting' = [waiting EXCEPT ![u] = [r \in Ranks |-> FALSE]]
  /\ entered' = [entered EXCEPT ![u] = [r \in Ranks |-> 0]]
  /\ step' = [step EXCEPT ![u] = [r \in Ranks |-> 0]]
  /\ vetoed' = [vetoed EXCEPT ![u] = {}]
  /\ restored' = [restored EXCEPT ![u] = [r \in Ranks |-> NoRecovery]]
  /\ saved' = [saved EXCEPT ![u] = FALSE]

LEMMA ResetFrame ==
  ASSUME RunAssumption, WorkersOK, NEW u \in Runs, NEW phase \in Phases, Reset(u, phase)
  PROVE  /\ WorkersOK' /\ Elsewhere(u)
         /\ saved'[u] = FALSE /\ vetoed'[u] = {}
         /\ \A r \in Ranks : /\ pc'[u][r] = phase /\ waiting'[u][r] = FALSE /\ entered'[u][r] = 0
                            /\ step'[u][r] = 0 /\ restored'[u][r] = NoRecovery
<1>1. NoRecovery \in Recovery /\ 0 \in Steps
  BY DEF NoRecovery, Recovery, Steps, RunAssumption
<1>2. Elsewhere(u)
  BY DEF Elsewhere, Reset, WorkersOK
<1>3. /\ saved'[u] = FALSE /\ vetoed'[u] = {}
      /\ \A r \in Ranks : /\ pc'[u][r] = phase /\ waiting'[u][r] = FALSE /\ entered'[u][r] = 0
                         /\ step'[u][r] = 0 /\ restored'[u][r] = NoRecovery
  BY DEF Reset, WorkersOK
<1>4. /\ pc' \in [Runs -> [Ranks -> Phases]] /\ waiting' \in [Runs -> [Ranks -> BOOLEAN]]
      /\ entered' \in [Runs -> [Ranks -> Nat]] /\ vetoed' \in [Runs -> SUBSET Nat]
      /\ saved' \in [Runs -> BOOLEAN]
  BY DEF Reset, WorkersOK
<1>5. step' \in [Runs -> [Ranks -> Steps]] /\ restored' \in [Runs -> [Ranks -> Recovery]]
  BY <1>1 DEF Reset, WorkersOK
<1>6. QED
  BY <1>2, <1>3, <1>4, <1>5 DEF WorkersOK

LEMMA ResetControl ==
  ASSUME RunAssumption, ControlInv, NEW u \in Runs, NEW phase \in {"rendezvous", "exited"},
         Reset(u, phase), versions' = versions,
         \A v \in Runs \ {u} : cfg'[v] = cfg[v],
         phase = "rendezvous" => cfg'[u] \in Configs
  PROVE  ControlInv'
<1>1. WorkersOK /\ phase \in Phases
  BY DEF ControlInv, Phases
<1>2. /\ WorkersOK' /\ Elsewhere(u) /\ 0 \in Ranks
      /\ saved'[u] = FALSE /\ vetoed'[u] = {}
      /\ \A r \in Ranks : /\ pc'[u][r] = phase /\ waiting'[u][r] = FALSE /\ entered'[u][r] = 0
                         /\ step'[u][r] = 0 /\ restored'[u][r] = NoRecovery
  BY <1>1, ResetFrame DEF RunAssumption
<1>3. \A v \in Runs \ {u} : CandidateInv(v)' /\ VersionsInv(v)' /\ \A q \in Ranks : RankInv(v, q)'
  BY <1>2 DEF Elsewhere, ControlInv, CandidateInv, VersionsInv, RankInv, Live
<1>4. CandidateInv(u)' /\ VersionsInv(u)'
  BY <1>2 DEF CandidateInv, VersionsInv, After
<1>5. ASSUME NEW r \in Ranks PROVE RankInv(u, r)'
  BY <1>2 DEF RankInv, LocalInv, Ended, After, Collectives, Phases, NoRecovery
<1>6. QED
  BY <1>2, <1>3, <1>4, <1>5 DEF ControlInv

LEMMA PublishJournalControl ==
  ASSUME RunAssumption, TypeInv, NEW u \in Runs, PublishJournal(u)
  PROVE  ControlInv'
<1>1. /\ ControlInv /\ StoreOK /\ WorkersOK
      /\ UNCHANGED <<cfg, pc, waiting, entered, step, vetoed, restored>>
      /\ saved' = [saved EXCEPT ![u] = TRUE] /\ versions' = versions \union {step[u][0]}
  BY DEF TypeInv, ControlInv, PublishJournal
<1>2. versions # None => versions' # None
  <2>1. step[u][0] \in Steps
    BY <1>1 DEF WorkersOK, RunAssumption
  <2>2. QED
    BY <1>1, <2>1 DEF StoreOK, RunAssumption
<1>3. WorkersOK'
  BY <1>1 DEF WorkersOK
<1>4. \A v \in Runs : CandidateInv(v)' /\ VersionsInv(v)'
  BY <1>1, <1>2 DEF ControlInv, CandidateInv, VersionsInv, Live
<1>5. \A v \in Runs, q \in Ranks : RankInv(v, q)'
  BY <1>1 DEF ControlInv, RankInv
<1>6. QED
  BY <1>3, <1>4, <1>5 DEF ControlInv

LEMMA SupervisorControl ==
  ASSUME RunAssumption, TypeInv, NEW u \in Runs, Supervisor(u)
  PROVE  ControlInv'
<1>1. ControlInv /\ cfg \in [Runs -> Configs \union {None}]
  BY DEF TypeInv, StoreOK
<1>2. ASSUME NEW c \in Configs, Launch(u, c) PROVE ControlInv'
  <2>1. Reset(u, "rendezvous") /\ versions' = versions /\ cfg' = [cfg EXCEPT ![u] = c]
    BY <1>2 DEF Launch, Reset, store
  <2>2. QED
    BY <1>1, <1>2, <2>1, ResetControl
<1>3. CASE Reaped(u)
  <2>1. Reset(u, "exited") /\ versions' = versions /\ cfg' = cfg
    BY <1>3 DEF Reaped, NoWorkers, Reset, store
  <2>2. QED
    BY <1>1, <2>1, ResetControl
<1>4. CASE ObserveFailure(u) \/ Deadline(u) \/ SupervisorKilled(u)
  BY <1>1, <1>4, IdleControl DEF ObserveFailure, Deadline, SupervisorKilled, store
<1>5. QED
  BY <1>2, <1>3, <1>4 DEF Supervisor

LEMMA ControlStep == ASSUME RunAssumption, TypeInv, [Next]_vars PROVE ControlInv'
<1>1. ControlInv
  BY DEF TypeInv
<1>2. ASSUME NEW u \in Runs, RankZero(u) PROVE ControlInv'
  BY <1>2, AdmitFreshControl, ReadMarkControl, ReadCandidatesControl, RankZeroControl,
     PublishJournalControl DEF RankZero
<1>3. ASSUME NEW u \in Runs, NEW r \in Ranks, Rank(u, r) PROVE ControlInv'
  BY <1>3, VotingSteps, LeaveGroupControl, LeaveFreshControl, LeaveCandidatesControl, LoadControl,
     LeaveLoadControl, LoadRejectedControl, LeaveScheduleControl, LeaveTrainControl,
     LeaveSaveControl, StoppingSteps DEF Rank
<1>4. ASSUME NEW u \in Runs, NEW r \in Ranks, WorkerLost(u, r) \/ Terminate(u, r) PROVE ControlInv'
  BY <1>4, StoppingSteps DEF WorkerLost, Terminate
<1>5. CASE (\E s \in Steps : Damage(s)) \/ RemoveUnknown \/ UNCHANGED vars
  BY <1>1, <1>5, IdleControl DEF Damage, RemoveUnknown, vars, store
<1>6. QED
  BY <1>2, <1>3, <1>4, <1>5, SupervisorControl DEF Next

-------------------------------------------------------------------------------
(* The artifacts                                                              *)

\* A journal only grows.
LEMMA VersionsStep ==
  ASSUME RunAssumption, TypeInv, [Next]_vars
  PROVE  /\ versions' = None \/ versions' \in SUBSET Steps
         /\ versions # None => versions' # None /\ versions \subseteq versions'
<1>1. StoreOK /\ ControlInv /\ WorkersOK
  BY DEF TypeInv, ControlInv
<1>2. CASE versions' = versions
  BY <1>1, <1>2 DEF StoreOK
<1>3. CASE versions' = OrEmpty(versions)
  BY <1>1, <1>3 DEF StoreOK, OrEmpty, RunAssumption
<1>4. ASSUME NEW u \in Runs, PublishJournal(u) \/ PublishFailed(u), versions' = versions \union {step[u][0]}
      PROVE  versions' \in SUBSET Steps /\ versions' # None /\ versions \subseteq versions'
  <2>1. pc[u][0] = "publish" /\ cfg[u].journal /\ 0 \in Ranks
    BY <1>4 DEF PublishJournal, PublishFailed, Publishing, Ready, Journaled, RunAssumption
  <2>2. versions # None
    BY <1>1, <2>1 DEF ControlInv, VersionsInv, Live, Ended, After
  <2>3. step[u][0] \in Steps
    BY <1>1, <2>1 DEF WorkersOK
  <2>4. QED
    BY <1>1, <1>4, <2>2, <2>3 DEF StoreOK, RunAssumption
<1>5. ASSUME NEW u \in Runs, RankZero(u)
      PROVE  \/ versions' = versions \/ versions' = OrEmpty(versions)
             \/ (PublishJournal(u) \/ PublishFailed(u)) /\ versions' = versions \union {step[u][0]}
  BY <1>5 DEF RankZero, AdmitFresh, ReadMark, ReadCandidates, AdmitCapacity, PublishJournal,
     PublishRefused, PublishFailed, ReplaceLatest, ReplaceFailed, store
<1>6. ASSUME NEW u \in Runs, NEW r \in Ranks, Rank(u, r) PROVE versions' = versions
  BY <1>6 DEF Rank, JoinGroup, LeaveGroup, AwaitRankZero, LeaveFresh, LeaveCandidates, Load, LeaveLoad,
     LoadRejected, LoadExhausted, ProposeSchedule, LeaveSchedule, LeaveCapacity, Train, LeaveTrain,
     Validate, LeaveValidate, LeavePublish, Refused, WriteOutput, PeerLost, store
<1>7. ASSUME NEW u \in Runs, NEW r \in Ranks, WorkerLost(u, r) \/ Terminate(u, r) PROVE versions' = versions
  BY <1>7 DEF WorkerLost, Terminate, Killed, store
<1>8. ASSUME NEW u \in Runs, Supervisor(u) PROVE versions' = versions
  BY <1>8 DEF Supervisor, Launch, ObserveFailure, Deadline, Reaped, SupervisorKilled, store
<1>9. CASE (\E s \in Steps : Damage(s)) \/ RemoveUnknown \/ UNCHANGED vars
  BY <1>2, <1>9 DEF Damage, RemoveUnknown, vars, store
<1>10. QED
  BY <1>2, <1>3, <1>4, <1>5, <1>6, <1>7, <1>8, <1>9 DEF Next

LEMMA StoreStep == ASSUME RunAssumption, TypeInv, [Next]_vars PROVE StoreOK'
<1>1. StoreOK /\ WorkersOK /\ 0 \in Ranks
  BY DEF TypeInv, ControlInv, RunAssumption
<1>2. versions' = None \/ versions' \in SUBSET Steps
  BY VersionsStep
<1>3. ASSUME NEW u \in Runs, RankZero(u) PROVE StoreOK'
  <2>1. step[u][0] \in Steps
    BY <1>1 DEF WorkersOK
  <2>2. /\ orphan' \in Steps \union {None} /\ latest' \in Steps \union {None}
        /\ UNCHANGED <<damaged, strays, lease, cfg, sup, mixed>>
    BY <1>1, <1>3, <2>1 DEF RankZero, AdmitFresh, ReadMark, ReadCandidates, AdmitCapacity,
       PublishJournal, PublishRefused, PublishFailed, ReplaceLatest, ReplaceFailed, store, StoreOK
  <2>3. refusal' \in {refusal, "order", "capacity"}
    BY <1>3 DEF RankZero, AdmitFresh, ReadMark, ReadCandidates, AdmitCapacity,
       PublishJournal, PublishRefused, PublishFailed, ReplaceLatest, ReplaceFailed
  <2>4. QED
    BY <1>1, <1>2, <2>2, <2>3 DEF StoreOK
<1>4. ASSUME NEW u \in Runs, NEW r \in Ranks, Rank(u, r) PROVE StoreOK'
  <2>1. UNCHANGED <<store, lease, cfg, sup, refusal, mixed>>
    BY <1>4 DEF Rank, JoinGroup, LeaveGroup, AwaitRankZero, LeaveFresh, LeaveCandidates, Load, LeaveLoad,
       LoadRejected, LoadExhausted, ProposeSchedule, LeaveSchedule, LeaveCapacity, Train, LeaveTrain,
       Validate, LeaveValidate, LeavePublish, Refused, WriteOutput, PeerLost
  <2>2. QED
    BY <1>1, <2>1 DEF StoreOK, store
<1>5. ASSUME NEW u \in Runs, NEW r \in Ranks, WorkerLost(u, r) \/ Terminate(u, r) PROVE StoreOK'
  <2>1. /\ orphan' \in {orphan, step[u][0]} /\ strays' \in {strays, TRUE}
        /\ UNCHANGED <<damaged, latest, lease, cfg, sup, refusal, mixed>>
    BY <1>5 DEF WorkerLost, Terminate, Killed, store
  <2>2. step[u][0] \in Steps
    BY <1>1 DEF WorkersOK
  <2>3. QED
    BY <1>1, <1>2, <2>1, <2>2 DEF StoreOK
<1>6. ASSUME NEW u \in Runs, Supervisor(u) PROVE StoreOK'
  <2>1. /\ UNCHANGED <<store, refusal>>
        /\ lease' \in {lease, u, None} /\ sup' \in [Runs -> {"down", "watching", "stopping"}]
    BY <1>1, <1>6 DEF Supervisor, Launch, ObserveFailure, Deadline, Reaped, SupervisorKilled, StoreOK
  <2>2. cfg' \in [Runs -> Configs \union {None}] /\ mixed' \in BOOLEAN
    <3>1. ASSUME NEW c \in Configs, Launch(u, c)
          PROVE  cfg' \in [Runs -> Configs \union {None}] /\ mixed' \in BOOLEAN
      BY <1>1, <3>1 DEF Launch, StoreOK, Configs
    <3>2. CASE cfg' = cfg /\ mixed' = mixed
      BY <1>1, <3>2 DEF StoreOK
    <3>3. QED
      BY <1>6, <3>1, <3>2 DEF Supervisor, ObserveFailure, Deadline, Reaped, SupervisorKilled
  <2>3. QED
    BY <1>1, <2>1, <2>2 DEF StoreOK, store
<1>7. ASSUME NEW s \in Steps, Damage(s) PROVE StoreOK'
  BY <1>1, <1>7 DEF Damage, StoreOK
<1>8. CASE RemoveUnknown
  BY <1>1, <1>8 DEF RemoveUnknown, StoreOK
<1>9. CASE UNCHANGED vars
  BY <1>1, <1>9 DEF vars, store, StoreOK
<1>10. QED
  BY <1>3, <1>4, <1>5, <1>6, <1>7, <1>8, <1>9 DEF Next

LEMMA InitType == ASSUME RunAssumption, Init PROVE TypeInv
<1>1. StoreOK
  BY DEF Init, StoreOK
<1>2. NoRecovery \in Recovery /\ 0 \in Steps /\ "exited" \in Phases /\ 0 \in Ranks
  BY DEF NoRecovery, Recovery, Steps, Phases, RunAssumption
<1>3. WorkersOK
  BY <1>2 DEF Init, WorkersOK
<1>4. \A u \in Runs : CandidateInv(u) /\ VersionsInv(u)
  BY <1>2 DEF Init, CandidateInv, VersionsInv, Live, Ended
<1>5. \A u \in Runs, r \in Ranks : RankInv(u, r)
  BY DEF Init, RankInv, LocalInv, Ended, After, Collectives
<1>6. QED
  BY <1>1, <1>3, <1>4, <1>5 DEF TypeInv, ControlInv

LEMMA TypeInvariant == ASSUME RunAssumption PROVE Spec => []TypeInv
<1>1. Init => TypeInv
  BY InitType
<1>2. TypeInv /\ [Next]_vars => TypeInv'
  BY ControlStep, StoreStep DEF TypeInv
<1>3. QED
  BY <1>1, <1>2, PTL DEF Spec

-------------------------------------------------------------------------------
(* The latest checkpoint                                                      *)

\* Runs that journal: what a run recorded and what it has saved is in the journal.
RecordInv(u) ==
  /\ ~mixed /\ Live(u, 0) => cfg[u].journal
  /\ restored[u][0].mark # None => HighWater # None /\ restored[u][0].mark =< HighWater
  /\ saved[u] /\ Live(u, 0) =>
       pc[u][0] = "publish" /\ versions # None /\ step[u][0] \in versions

LatestInv == LatestNotAhead /\ \A u \in Runs : RecordInv(u)

HighOf(v) == IF v = None \/ v = {} THEN None ELSE Max(v)

LEMMA HighGrows ==
  ASSUME RunAssumption, NEW v, NEW w, v = None \/ v \in SUBSET Steps, w = None \/ w \in SUBSET Steps,
         v # None => w # None /\ v \subseteq w
  PROVE  /\ HighOf(v) \in Steps \union {None}
         /\ HighOf(v) # None => HighOf(w) # None /\ HighOf(v) =< HighOf(w)
  BY MaxStepOf DEF HighOf, RunAssumption, Steps

LEMMA HighWaterStep ==
  ASSUME RunAssumption, TypeInv, [Next]_vars
  PROVE  /\ HighWater # None => HighWater' # None /\ HighWater =< HighWater'
         /\ HighWater \in Steps \union {None} /\ HighWater' \in Steps \union {None}
<1>1. HighWater = HighOf(versions) /\ HighWater' = HighOf(versions')
  BY DEF HighWater, HighOf
<1>2. versions = None \/ versions \in SUBSET Steps
  BY DEF TypeInv, StoreOK
<1>3. QED
  BY <1>1, <1>2, VersionsStep, HighGrows

\* A rank's own step: rank 0 leaves a save only with its record cleared, or ends.
RecordSteady(v) ==
  /\ cfg'[v] = cfg[v] /\ mixed' = mixed
  /\ Live(v, 0)' => Live(v, 0)
  /\ restored'[v][0].mark = restored[v][0].mark
  /\ saved'[v] => saved[v]
  /\ saved'[v] /\ pc[v][0] = "publish" /\ Live(v, 0)' => pc'[v][0] = "publish" /\ step'[v][0] = step[v][0]

LEMMA SteadyRecord ==
  ASSUME RunAssumption, TypeInv, [Next]_vars, NEW v \in Runs, RecordInv(v), RecordSteady(v)
  PROVE  RecordInv(v)'
<1>1. /\ HighWater # None => HighWater' # None /\ HighWater =< HighWater'
      /\ HighWater \in Steps \union {None} /\ HighWater' \in Steps \union {None}
  BY HighWaterStep
<1>2. versions # None => versions' # None /\ versions \subseteq versions'
  BY VersionsStep
<1>3. restored[v][0].mark \in Steps \union {None}
  BY DEF TypeInv, ControlInv, WorkersOK, Recovery, RunAssumption
<1>4. restored'[v][0].mark # None => HighWater' # None /\ restored'[v][0].mark =< HighWater'
  BY <1>1, <1>3 DEF RecordInv, RecordSteady, Steps, RunAssumption
<1>5. QED
  BY <1>2, <1>4 DEF RecordInv, RecordSteady

LEMMA StoppedSteady ==
  ASSUME RunAssumption, TypeInv, NEW u \in Runs, NEW r \in Ranks, NEW v \in Runs,
         Move(u, r, "failed") \/ Move(u, r, "exited"),
         UNCHANGED <<cfg, mixed, restored, step, saved>>
  PROVE  RecordSteady(v)
<1>1. /\ 0 \in Ranks /\ pc \in [Runs -> [Ranks -> Phases]]
  BY DEF TypeInv, ControlInv, WorkersOK, RunAssumption
<1>2. pc'[v][0] = pc[v][0] \/ pc'[v][0] \in Ended
  BY <1>1 DEF Move, Ended
<1>3. QED
  BY <1>2 DEF RecordSteady, Live, Ended

LEMMA ArrivedSteady ==
  ASSUME RunAssumption, TypeInv, NEW u \in Runs, NEW r \in Ranks, NEW v \in Runs,
         \/ JoinGroup(u, r) \/ AwaitRankZero(u, r) \/ Load(u, r) \/ ProposeSchedule(u, r)
         \/ Train(u, r) \/ Validate(u, r)
  PROVE  RecordSteady(v)
<1>1. /\ 0 \in Ranks /\ restored \in [Runs -> [Ranks -> Recovery]] /\ restored[v][0] \in Recovery
  BY DEF TypeInv, ControlInv, WorkersOK, RunAssumption
<1>2. UNCHANGED <<cfg, mixed, pc, step, saved>>
  BY DEF JoinGroup, AwaitRankZero, Load, ProposeSchedule, Train, Validate
<1>3. restored'[v][0].mark = restored[v][0].mark
  <2>1. CASE restored' = restored
    BY <2>1
  <2>2. CASE restored' = [restored EXCEPT ![u][r].start = OrZero(Source(u, r))]
    BY <1>1, <2>2 DEF Recovery
  <2>3. QED
    BY <2>1, <2>2 DEF JoinGroup, AwaitRankZero, Load, ProposeSchedule, Train, Validate
<1>4. QED
  BY <1>2, <1>3 DEF RecordSteady, Live

LEMMA DepartedSteady ==
  ASSUME RunAssumption, TypeInv, NEW u \in Runs, NEW r \in Ranks, NEW v \in Runs,
         \/ LeaveGroup(u, r) \/ LeaveFresh(u, r) \/ LeaveCandidates(u, r) \/ LeaveLoad(u, r)
         \/ LoadRejected(u, r) \/ LeaveSchedule(u, r) \/ LeaveCapacity(u, r) \/ LeaveTrain(u, r)
         \/ LeaveValidate(u, r) \/ LeavePublish(u, r)
  PROVE  RecordSteady(v)
<1>1. /\ 0 \in Ranks /\ restored \in [Runs -> [Ranks -> Recovery]] /\ restored[v][0] \in Recovery
      /\ pc \in [Runs -> [Ranks -> Phases]] /\ step \in [Runs -> [Ranks -> Steps]]
      /\ saved \in [Runs -> BOOLEAN]
  BY DEF TypeInv, ControlInv, WorkersOK, RunAssumption
<1>2. UNCHANGED <<cfg, mixed>>
  BY DEF LeaveGroup, LeaveFresh, LeaveCandidates, LeaveLoad, LoadRejected, LeaveSchedule,
     LeaveCapacity, LeaveTrain, LeaveValidate, LeavePublish
<1>3. Live(u, r) /\ \E phase : Move(u, r, phase)
  <2>1. Live(u, r)
    BY DEF LeaveGroup, LeaveFresh, LeaveCandidates, LeaveLoad, LoadRejected, LeaveSchedule,
       LeaveCapacity, LeaveTrain, LeaveValidate, LeavePublish, Leaving, Live, Ended
  <2>2. CASE LeaveGroup(u, r) \/ LeaveFresh(u, r) \/ LeaveCandidates(u, r) \/ LeaveLoad(u, r)
    BY <2>1, <2>2 DEF LeaveGroup, LeaveFresh, LeaveCandidates, LeaveLoad
  <2>3. CASE LoadRejected(u, r) \/ LeaveSchedule(u, r) \/ LeaveCapacity(u, r)
    BY <2>1, <2>3 DEF LoadRejected, LeaveSchedule, LeaveCapacity
  <2>4. CASE LeaveTrain(u, r) \/ LeaveValidate(u, r) \/ LeavePublish(u, r)
    BY <2>1, <2>4 DEF LeaveTrain, LeaveValidate, LeavePublish
  <2>5. QED
    BY <2>1, <2>2, <2>3, <2>4
<1>4. Live(v, 0)' => Live(v, 0)
  BY <1>1, <1>3 DEF Move, Live
<1>5. restored'[v][0].mark = restored[v][0].mark
  <2>1. CASE restored' = restored
    BY <2>1
  <2>2. CASE restored' = [restored EXCEPT ![u][r] = restored[u][0]]
    BY <1>1, <2>2
  <2>3. CASE restored' = [restored EXCEPT ![u][r].left = restored[u][r].left \ {Source(u, r)}]
    BY <1>1, <2>3 DEF Recovery
  <2>4. QED
    BY <2>1, <2>2, <2>3 DEF LeaveGroup, LeaveFresh, LeaveCandidates, LeaveLoad, LoadRejected,
       LeaveSchedule, LeaveCapacity, LeaveTrain, LeaveValidate, LeavePublish
<1>6. saved' = saved \/ (r = 0 /\ saved' = [saved EXCEPT ![u] = FALSE])
  <2>1. CASE LeavePublish(u, r)
    <3>1. saved' = IF r = 0 THEN [saved EXCEPT ![u] = FALSE] ELSE saved
      BY <2>1 DEF LeavePublish
    <3>2. QED
      BY <3>1
  <2>2. QED
    BY <2>1 DEF LeaveGroup, LeaveFresh, LeaveCandidates, LeaveLoad, LoadRejected, LeaveSchedule,
       LeaveCapacity, LeaveTrain, LeaveValidate
<1>7. saved'[v] => saved[v]
  BY <1>1, <1>6
<1>8. ASSUME saved'[v], pc[v][0] = "publish"
      PROVE  pc'[v][0] = "publish" /\ step'[v][0] = step[v][0]
  <2>1. CASE v # u \/ r # 0
    <3>1. pc'[v][0] = pc[v][0]
      BY <1>1, <1>3, <2>1 DEF Move
    <3>2. step'[v][0] = step[v][0]
      <4>1. CASE step' = step
        BY <4>1
      <4>2. CASE step' = [step EXCEPT ![u][r] = restored[u][r].start]
        BY <1>1, <2>1, <4>2
      <4>3. CASE step' = [step EXCEPT ![u][r] = step[u][r] + 1]
        BY <1>1, <2>1, <4>3
      <4>4. QED
        BY <4>1, <4>2, <4>3 DEF LeaveGroup, LeaveFresh, LeaveCandidates, LeaveLoad, LoadRejected,
           LeaveSchedule, LeaveCapacity, LeaveTrain, LeaveValidate, LeavePublish
    <3>3. QED
      BY <1>8, <3>1, <3>2
  <2>2. CASE v = u /\ r = 0
    <3>1. LeavePublish(u, 0)
      BY <1>8, <2>2 DEF LeaveGroup, LeaveFresh, LeaveCandidates, LeaveLoad, LoadRejected,
         LeaveSchedule, LeaveCapacity, LeaveTrain, LeaveValidate, Leaving
    <3>2. saved'[u] = FALSE
      BY <1>1, <3>1 DEF LeavePublish
    <3>3. QED
      BY <1>8, <2>2, <3>2
  <2>3. QED
    BY <2>1, <2>2
<1>9. QED
  BY <1>2, <1>4, <1>5, <1>7, <1>8 DEF RecordSteady

LEMMA RankRecord ==
  ASSUME RunAssumption, TypeInv, LatestInv, [Next]_vars, NEW u \in Runs, NEW r \in Ranks,
         Rank(u, r) \/ WorkerLost(u, r) \/ Terminate(u, r)
  PROVE  LatestInv'
<1>1. ASSUME NEW v \in Runs PROVE RecordSteady(v)
  <2>1. CASE \/ LoadExhausted(u, r) \/ Refused(u, r) \/ WriteOutput(u, r) \/ PeerLost(u, r)
             \/ WorkerLost(u, r) \/ Terminate(u, r)
    BY <2>1, StoppedSteady DEF LoadExhausted, Refused, WriteOutput, PeerLost, WorkerLost, Terminate, Killed
  <2>2. QED
    BY <2>1, ArrivedSteady, DepartedSteady DEF Rank
<1>2. \A v \in Runs : RecordInv(v)'
  BY <1>1, SteadyRecord DEF LatestInv
<1>3. latest' = latest /\ mixed' = mixed
  BY DEF Rank, JoinGroup, LeaveGroup, AwaitRankZero, LeaveFresh, LeaveCandidates, Load, LeaveLoad,
     LoadRejected, LoadExhausted, ProposeSchedule, LeaveSchedule, LeaveCapacity, Train, LeaveTrain,
     Validate, LeaveValidate, LeavePublish, Refused, WriteOutput, PeerLost, WorkerLost, Terminate,
     Killed, store
<1>4. LatestNotAhead'
  <2>1. latest \in Steps \union {None}
    BY DEF TypeInv, StoreOK
  <2>2. /\ HighWater # None => HighWater' # None /\ HighWater =< HighWater'
        /\ HighWater \in Steps \union {None} /\ HighWater' \in Steps \union {None}
    BY HighWaterStep
  <2>3. LatestNotAhead
    BY DEF LatestInv
  <2> HIDE DEF HighWater
  <2>4. QED
    BY <1>3, <2>1, <2>2, <2>3 DEF LatestNotAhead, Steps, RunAssumption
<1>5. QED
  BY <1>2, <1>4 DEF LatestInv

\* Steps that leave the latest checkpoint alone.
LEMMA LatestStays ==
  ASSUME RunAssumption, TypeInv, LatestInv, [Next]_vars, latest' = latest, mixed' = mixed
  PROVE  LatestNotAhead'
<1>1. latest \in Steps \union {None} /\ LatestNotAhead
  BY DEF TypeInv, StoreOK, LatestInv
<1>2. /\ HighWater # None => HighWater' # None /\ HighWater =< HighWater'
      /\ HighWater \in Steps \union {None} /\ HighWater' \in Steps \union {None}
  BY HighWaterStep
<1> HIDE DEF HighWater
<1>3. QED
  BY <1>1, <1>2 DEF LatestNotAhead, Steps, RunAssumption

\* Rank 0 records the high-water mark.
LEMMA ReadMarkRecord ==
  ASSUME RunAssumption, TypeInv, LatestInv, [Next]_vars, NEW u \in Runs, ReadMark(u)
  PROVE  LatestInv'
<1>1. /\ restored \in [Runs -> [Ranks -> Recovery]] /\ pc \in [Runs -> [Ranks -> Phases]]
      /\ 0 \in Ranks /\ restored[u][0] \in Recovery /\ RecordInv(u)
  BY DEF TypeInv, ControlInv, WorkersOK, RunAssumption, LatestInv
<1>2. /\ UNCHANGED <<cfg, mixed, saved, versions, latest, step>> /\ pc[u][0] = "candidates"
      /\ pc' = [pc EXCEPT ![u][0] = "listing"] /\ restored' = [restored EXCEPT ![u][0].mark = HighWater]
  BY DEF ReadMark, Ready, store
<1>3. HighWater \in Steps \union {None} /\ HighWater' = HighWater
  BY <1>2, HighWaterStep DEF HighWater
<1>4. RecordInv(u)'
  <2>1. restored'[u][0].mark = HighWater
    BY <1>1, <1>2 DEF Recovery
  <2>2. pc'[u][0] = "listing" /\ Live(u, 0) /\ ~saved'[u]
    BY <1>1, <1>2 DEF RecordInv, Live, Ended
  <2> HIDE DEF HighWater
  <2>3. QED
    BY <1>1, <1>2, <1>3, <2>1, <2>2 DEF RecordInv, Steps, RunAssumption
<1>5. ASSUME NEW v \in Runs \ {u} PROVE RecordInv(v)'
  <2>1. RecordSteady(v)
    BY <1>1, <1>2 DEF RecordSteady, Live
  <2>2. QED
    BY <2>1, SteadyRecord DEF LatestInv
<1>6. QED
  BY <1>2, <1>4, <1>5, LatestStays DEF LatestInv

LEMMA PublishJournalRecord ==
  ASSUME RunAssumption, TypeInv, LatestInv, [Next]_vars, NEW u \in Runs, PublishJournal(u)
  PROVE  LatestInv'
<1>1. /\ UNCHANGED <<cfg, mixed, latest, pc, step, restored>> /\ pc[u][0] = "publish"
      /\ saved' = [saved EXCEPT ![u] = TRUE] /\ versions' = versions \union {step[u][0]}
      /\ saved \in [Runs -> BOOLEAN] /\ cfg[u].journal
  BY DEF PublishJournal, Publishing, Ready, Journaled, TypeInv, ControlInv, WorkersOK
<1>2. ASSUME NEW v \in Runs \ {u} PROVE RecordInv(v)'
  <2>1. RecordSteady(v)
    BY <1>1 DEF RecordSteady, Live
  <2>2. QED
    BY <2>1, SteadyRecord DEF LatestInv
<1>3. RecordInv(u)'
  <2>1. /\ HighWater # None => HighWater' # None /\ HighWater =< HighWater'
        /\ HighWater \in Steps \union {None} /\ HighWater' \in Steps \union {None}
    BY HighWaterStep
  <2>2. restored[u][0].mark \in Steps \union {None} /\ 0 \in Ranks /\ step[u][0] \in Steps
    BY DEF TypeInv, ControlInv, WorkersOK, Recovery, RunAssumption
  <2>3. versions' # None /\ step[u][0] \in versions'
    <3>1. versions # None
      BY <1>1 DEF TypeInv, ControlInv, VersionsInv, Live, Ended, After
    <3>2. QED
      BY <1>1, <2>2, <3>1, VersionsStep
  <2>4. restored'[u][0].mark # None => HighWater' # None /\ restored'[u][0].mark =< HighWater'
    <3>1. restored[u][0].mark # None => HighWater # None /\ restored[u][0].mark =< HighWater
      BY DEF LatestInv, RecordInv
    <3> HIDE DEF HighWater
    <3>2. QED
      BY <1>1, <2>1, <2>2, <3>1 DEF Steps, RunAssumption
  <2>5. QED
    BY <1>1, <2>3, <2>4 DEF RecordInv, Live
<1>4. QED
  BY <1>1, <1>2, <1>3, LatestStays DEF LatestInv

LEMMA ReplaceLatestRecord ==
  ASSUME RunAssumption, TypeInv, LatestInv, [Next]_vars, NEW u \in Runs, ReplaceLatest(u)
  PROVE  LatestInv'
<1>1. /\ UNCHANGED <<cfg, mixed, versions, pc, step, restored, saved>> /\ pc[u][0] = "publish"
      /\ Journaled(u) => saved[u]
      /\ latest' = step[u][0]
  BY DEF ReplaceLatest, Publishing, Ready
<1>2. ASSUME NEW v \in Runs PROVE RecordInv(v)'
  <2>1. RecordSteady(v)
    BY <1>1 DEF RecordSteady, Live
  <2>2. QED
    BY <2>1, SteadyRecord DEF LatestInv
<1>3. HighWater' = HighWater
  BY <1>1 DEF HighWater
<1>4. /\ step[u][0] \in Steps /\ restored[u][0].mark \in Steps \union {None} /\ StoreOK
      /\ RecordInv(u) /\ Live(u, 0)
  BY <1>1 DEF TypeInv, ControlInv, WorkersOK, Recovery, RunAssumption, LatestInv, Live, Ended
<1>5. HighWater \in Steps \union {None}
  BY <1>4, HighWaterTyped
<1>6. ASSUME ~mixed PROVE HighWater # None /\ step[u][0] =< HighWater
  <2>1. CASE Journaled(u)
    <3>1. versions # None /\ step[u][0] \in versions
      BY <1>1, <1>4, <2>1 DEF RecordInv
    <3>2. QED
      BY <1>4, <3>1, HighWaterTyped DEF OrEmpty
  <2>2. CASE ~Journaled(u)
    <3>1. /\ restored[u][0].mark # None /\ ~(step[u][0] > restored[u][0].mark)
          /\ HighWater # None /\ restored[u][0].mark =< HighWater
      BY <1>4, <1>6, <2>2 DEF RecordInv, Journaled
    <3> HIDE DEF HighWater
    <3>2. QED
      BY <1>4, <1>5, <3>1 DEF Steps, RunAssumption
  <2>3. QED
    BY <2>1, <2>2
<1>7. LatestNotAhead'
  BY <1>1, <1>3, <1>6 DEF LatestNotAhead
<1>8. QED
  BY <1>2, <1>7 DEF LatestInv

LEMMA RankZeroRecord ==
  ASSUME RunAssumption, TypeInv, LatestInv, [Next]_vars, NEW u \in Runs, RankZero(u)
  PROVE  LatestInv'
<1>1. CASE \/ AdmitFresh(u) \/ ReadCandidates(u) \/ AdmitCapacity(u) \/ PublishRefused(u)
           \/ PublishFailed(u) \/ ReplaceFailed(u)
  <2>1. UNCHANGED <<cfg, mixed, latest, pc, step, saved>>
    BY <1>1 DEF AdmitFresh, ReadCandidates, AdmitCapacity, PublishRefused, PublishFailed,
       ReplaceFailed, store
  <2>2. ASSUME NEW v \in Runs PROVE restored'[v][0].mark = restored[v][0].mark
    <3>1. /\ restored \in [Runs -> [Ranks -> Recovery]] /\ 0 \in Ranks /\ restored[v][0] \in Recovery
      BY DEF TypeInv, ControlInv, WorkersOK, RunAssumption
    <3>2. CASE ReadCandidates(u)
      <4>1. restored' = [restored EXCEPT ![u][0].left = {s \in OrEmpty(versions) : Intact(s)}]
        BY <3>2 DEF ReadCandidates
      <4>2. QED
        BY <3>1, <4>1 DEF Recovery
    <3>3. CASE restored' = restored
      BY <3>3
    <3>4. QED
      BY <1>1, <3>2, <3>3 DEF AdmitFresh, AdmitCapacity, PublishRefused, PublishFailed, ReplaceFailed
  <2>3. \A v \in Runs : RecordSteady(v)
    BY <2>1, <2>2 DEF RecordSteady, Live
  <2>4. QED
    BY <2>1, <2>3, SteadyRecord, LatestStays DEF LatestInv
<1>2. QED
  BY <1>1, ReadMarkRecord, PublishJournalRecord, ReplaceLatestRecord DEF RankZero

LEMMA ResetRecord ==
  ASSUME RunAssumption, TypeInv, LatestInv, [Next]_vars, NEW u \in Runs,
         NEW phase \in {"rendezvous", "exited"}, Reset(u, phase),
         \A v \in Runs \ {u} : cfg'[v] = cfg[v],
         phase = "rendezvous" => mixed' = (mixed \/ ~cfg'[u].journal),
         phase = "exited" => mixed' = mixed,
         latest' = latest
  PROVE  LatestInv'
<1>1. WorkersOK /\ phase \in Phases /\ 0 \in Ranks /\ mixed \in BOOLEAN
  BY DEF TypeInv, ControlInv, StoreOK, Phases, RunAssumption
<1>2. /\ Elsewhere(u) /\ saved'[u] = FALSE
      /\ pc'[u][0] = phase /\ restored'[u][0] = NoRecovery
  <2>1. /\ Elsewhere(u) /\ saved'[u] = FALSE
        /\ \A r \in Ranks : pc'[u][r] = phase /\ restored'[u][r] = NoRecovery
    <3>1. \A r \in Ranks : pc'[u][r] = phase /\ restored'[u][r] = NoRecovery
      BY <1>1 DEF Reset, WorkersOK
    <3>2. saved'[u] = FALSE
      BY <1>1 DEF Reset, WorkersOK
    <3>3. Elsewhere(u)
      BY <1>1 DEF Reset, WorkersOK, Elsewhere
    <3>4. QED
      BY <3>1, <3>2, <3>3
  <2>2. QED
    BY <1>1, <2>1
<1>3. ~mixed' => ~mixed
  BY <1>1
<1>4. RecordInv(u)'
  <2>1. restored'[u][0].mark = None
    BY <1>2 DEF NoRecovery
  <2>2. ~mixed' /\ Live(u, 0)' => cfg'[u].journal
    BY <1>1, <1>2 DEF Live, Ended
  <2>3. QED
    BY <1>2, <2>1, <2>2 DEF RecordInv
<1>5. ASSUME NEW v \in Runs \ {u} PROVE RecordInv(v)'
  <2>1. RecordInv(v)
    BY DEF LatestInv
  <2>2. /\ HighWater # None => HighWater' # None /\ HighWater =< HighWater'
        /\ HighWater \in Steps \union {None} /\ HighWater' \in Steps \union {None}
    BY HighWaterStep
  <2>3. versions # None => versions' # None /\ versions \subseteq versions'
    BY VersionsStep
  <2>4. /\ pc'[v][0] = pc[v][0] /\ restored'[v] = restored[v] /\ saved'[v] = saved[v]
        /\ step'[v][0] = step[v][0] /\ cfg'[v] = cfg[v]
    BY <1>2 DEF Elsewhere
  <2>5. restored[v][0].mark \in Steps \union {None}
    BY DEF TypeInv, ControlInv, WorkersOK, Recovery, RunAssumption
  <2> HIDE DEF HighWater
  <2>6. restored'[v][0].mark # None => HighWater' # None /\ restored'[v][0].mark =< HighWater'
    BY <2>1, <2>2, <2>4, <2>5 DEF RecordInv, Steps, RunAssumption
  <2>7. QED
    BY <1>3, <2>1, <2>3, <2>4, <2>6 DEF RecordInv, Live
<1>6. LatestNotAhead'
  <2>1. CASE mixed' = mixed
    BY <2>1, LatestStays
  <2>2. CASE mixed'
    BY <2>2 DEF LatestNotAhead
  <2>3. QED
    BY <1>1, <1>3, <2>1, <2>2
<1>7. QED
  BY <1>4, <1>5, <1>6 DEF LatestInv

LEMMA LatestStep == ASSUME RunAssumption, TypeInv, LatestInv, [Next]_vars PROVE LatestInv'
<1>1. CASE UNCHANGED <<cfg, mixed, latest, workers>>
  <2>1. \A v \in Runs : RecordSteady(v)
    BY <1>1 DEF RecordSteady, Live, workers
  <2>2. QED
    BY <1>1, <2>1, SteadyRecord, LatestStays DEF LatestInv
<1>2. ASSUME NEW u \in Runs, Supervisor(u) PROVE LatestInv'
  <2>1. ASSUME NEW c \in Configs, Launch(u, c) PROVE LatestInv'
    <3>1. cfg \in [Runs -> Configs \union {None}] /\ cfg' = [cfg EXCEPT ![u] = c]
      BY <2>1 DEF Launch, TypeInv, StoreOK
    <3>2. Reset(u, "rendezvous") /\ latest' = latest /\ mixed' = (mixed \/ ~c.journal)
      BY <2>1 DEF Launch, Reset, store
    <3>3. cfg'[u] = c /\ \A v \in Runs \ {u} : cfg'[v] = cfg[v]
      BY <3>1
    <3>4. QED
      BY <3>2, <3>3, ResetRecord
  <2>2. CASE Reaped(u)
    <3>1. Reset(u, "exited") /\ latest' = latest /\ mixed' = mixed /\ cfg' = cfg
      BY <2>2 DEF Reaped, NoWorkers, Reset, store
    <3>2. QED
      BY <3>1, ResetRecord
  <2>3. CASE ObserveFailure(u) \/ Deadline(u) \/ SupervisorKilled(u)
    BY <1>1, <2>3 DEF ObserveFailure, Deadline, SupervisorKilled, store
  <2>4. QED
    BY <1>2, <2>1, <2>2, <2>3 DEF Supervisor
<1>3. CASE (\E s \in Steps : Damage(s)) \/ RemoveUnknown \/ UNCHANGED vars
  BY <1>1, <1>3 DEF Damage, RemoveUnknown, vars, store
<1>4. QED
  BY <1>2, <1>3, RankRecord, RankZeroRecord DEF Next

LEMMA LatestInvariant == ASSUME RunAssumption PROVE Spec => [](TypeInv /\ LatestInv)
<1>1. Init => LatestInv
  BY DEF Init, LatestInv, LatestNotAhead, RecordInv, NoRecovery, RunAssumption, Live, Ended
<1>2. TypeInv /\ LatestInv /\ [Next]_vars => LatestInv'
  BY LatestStep
<1>3. QED
  BY <1>1, <1>2, TypeInvariant, PTL DEF Spec

-------------------------------------------------------------------------------
(* Lockstep                                                                   *)

\* Two ranks are alike: in one phase (rank 0 looks twice for its candidates), at one
\* step and, once they have loaded it, from one start.
Phase(p) == IF p = "listing" THEN "candidates" ELSE p
Same(c, p, st, start, left, p2, st2, start2, left2) ==
  /\ Phase(p) = Phase(p2) /\ st = st2
  /\ Phase(p) \notin {"candidates", "load"} => start = start2
  /\ p = "load" /\ c.journal => left = left2

\* What a rank is once it has left its collective, with the verdict ok.
NextPhase(c, ok, p, st, start) ==
  CASE p = "rendezvous" -> AfterRendezvous(c)
    [] p = "fresh" -> "schedule"
    [] p \in {"candidates", "listing"} -> "load"
    [] p = "load" -> IF ok THEN "schedule" ELSE "load"
    [] p = "schedule" -> IF c.journal THEN "capacity" ELSE "train"
    [] p = "capacity" -> "train"
    [] p = "train" ->
         IF st + 1 = start + c.steps \/ (c.interval # None /\ (st + 1) % c.interval = 0)
         THEN "validate" ELSE "train"
    [] p = "validate" -> "publish"
    [] OTHER -> IF st = start + c.steps THEN "output" ELSE "train"
NextStep(ok, p, st, start) ==
  IF p = "load" /\ ok THEN start ELSE IF p = "train" THEN st + 1 ELSE st
NextLeft(p, left, left0) ==
  IF p \in {"candidates", "listing"} THEN left0
  ELSE IF p = "load" THEN left \ {Max(left)} ELSE left

LEMMA SameSymmetric ==
  ASSUME NEW c, NEW p, NEW st, NEW start, NEW left, NEW p2, NEW st2, NEW start2, NEW left2,
         Same(c, p, st, start, left, p2, st2, start2, left2)
  PROVE  Same(c, p2, st2, start2, left2, p, st, start, left)
  BY DEF Same, Phase

LEMMA SameTransitive ==
  ASSUME NEW c, NEW p, NEW st, NEW start, NEW left, NEW p2, NEW st2, NEW start2, NEW left2,
         NEW p3, NEW st3, NEW start3, NEW left3,
         Same(c, p, st, start, left, p2, st2, start2, left2),
         Same(c, p2, st2, start2, left2, p3, st3, start3, left3)
  PROVE  Same(c, p, st, start, left, p3, st3, start3, left3)
  BY DEF Same, Phase

\* Ranks that are alike are alike when both have left.
LEMMA SameNext ==
  ASSUME NEW c \in Configs, NEW ok \in BOOLEAN, NEW left0,
         NEW p \in Collectives, NEW st, NEW start, NEW left,
         NEW p2 \in Collectives, NEW st2, NEW start2, NEW left2,
         Same(c, p, st, start, left, p2, st2, start2, left2),
         p = "load" /\ ok => start = start2
  PROVE  Same(c, NextPhase(c, ok, p, st, start), NextStep(ok, p, st, start), start, NextLeft(p, left, left0),
                 NextPhase(c, ok, p2, st2, start2), NextStep(ok, p2, st2, start2), start2,
                 NextLeft(p2, left2, left0))
<1>1. c.journal \in BOOLEAN /\ c.resume \in BOOLEAN
  BY DEF Configs
<1>2. CASE p \in {"candidates", "listing"}
  <2>1. p2 \in {"candidates", "listing"} /\ st = st2
    BY <1>2 DEF Same, Phase
  <2>2. QED
    BY <1>2, <2>1 DEF Same, Phase, NextPhase, NextStep, NextLeft
<1>3. CASE p \notin {"candidates", "listing"}
  <2>1. p2 = p /\ st = st2 /\ (p # "load" => start = start2) /\ (p = "load" /\ c.journal => left = left2)
    BY <1>3 DEF Same, Phase
  <2>2. CASE p = "load"
    BY <2>1, <2>2 DEF Same, Phase, NextPhase, NextStep, NextLeft
  <2>3. CASE p # "load"
    <3>1. /\ NextPhase(c, ok, p, st, start) = NextPhase(c, ok, p2, st2, start2)
          /\ NextStep(ok, p, st, start) = NextStep(ok, p2, st2, start2) /\ start = start2
      BY <2>1, <2>3
    <3>2. NextPhase(c, ok, p, st, start) = "load" => ~c.journal
      BY <1>1, <1>3, <2>3 DEF NextPhase, AfterRendezvous
    <3>3. QED
      BY <3>1, <3>2 DEF Same
  <2>4. QED
    BY <2>2, <2>3
<1>4. QED
  BY <1>2, <1>3

Passed(u, r) == IF waiting[u][r] THEN entered[u][r] - 1 ELSE entered[u][r]

Alike(u, q, r) ==
  Same(cfg[u], pc[u][q], step[u][q], restored[u][q].start, restored[u][q].left,
               pc[u][r], step[u][r], restored[u][r].start, restored[u][r].left)

\* r has left the collective that q is in.
Follows(u, q, r) ==
  Same(cfg[u], NextPhase(cfg[u], Accepted(u, q), pc[u][q], step[u][q], restored[u][q].start),
               NextStep(Accepted(u, q), pc[u][q], step[u][q], restored[u][q].start),
               restored[u][q].start,
               NextLeft(pc[u][q], restored[u][q].left, restored[u][0].left),
               pc[u][r], step[u][r], restored[u][r].start, restored[u][r].left)

PairInv(u, q, r) ==
  /\ Live(u, r) => entered[u][q] >= Passed(u, r)
  /\ Live(u, r) /\ Live(u, q) =>
       /\ Passed(u, q) = Passed(u, r) => Alike(u, q, r)
       /\ Passed(u, r) = Passed(u, q) + 1 => Follows(u, q, r)

LockInv == \A u \in Runs, q, r \in Ranks : PairInv(u, q, r)

\* While r is ahead of q, q is in the collective that r has left.
LEMMA Behind ==
  ASSUME ControlInv, NEW u \in Runs, NEW q \in Ranks, NEW r \in Ranks, PairInv(u, q, r),
         Live(u, r), Passed(u, r) = Passed(u, q) + 1
  PROVE  waiting[u][q] = TRUE /\ entered[u][q] = Passed(u, r)
<1>1. /\ entered[u][q] \in Nat /\ waiting[u][q] \in BOOLEAN
  BY DEF ControlInv, WorkersOK
<1>2. entered[u][q] >= Passed(u, q) + 1
  BY DEF PairInv
<1>3. QED
  BY <1>1, <1>2 DEF Passed

\* Runs whose workers a step leaves alone.
LEMMA OtherRuns ==
  ASSUME RunAssumption, LockInv, NEW u \in Runs, Elsewhere(u), NEW v \in Runs \ {u}, cfg'[v] = cfg[v],
         NEW q \in Ranks, NEW r \in Ranks
  PROVE  PairInv(v, q, r)'
<1>1. PairInv(v, q, r) /\ 0 \in Ranks
  BY DEF LockInv, RunAssumption
<1>2. /\ pc'[v] = pc[v] /\ waiting'[v] = waiting[v] /\ entered'[v] = entered[v]
      /\ step'[v] = step[v] /\ vetoed'[v] = vetoed[v] /\ restored'[v] = restored[v]
  BY DEF Elsewhere
<1>3. QED
  BY <1>1, <1>2 DEF PairInv, Live, Passed, Alike, Follows, Accepted

\* A rank comes to its collective: it is still as far as it was.
LEMMA ArrivalLock ==
  ASSUME RunAssumption, ControlInv, LockInv, NEW u \in Runs, NEW r \in Ranks, NEW vote,
         NEW rec \in Recovery, Arrives(u, r, vote, rec),
         pc[u][r] \notin {"load", "listing"} => rec = restored[u][r],
         pc[u][r] = "load" => rec.left = restored[u][r].left
  PROVE  LockInv'
<1>1. WorkersOK /\ RankInv(u, r) /\ RankInv(u, 0) /\ 0 \in Ranks
  BY DEF ControlInv, RunAssumption
<1>2. /\ waiting[u][r] = FALSE /\ Live(u, r) /\ UNCHANGED <<cfg, pc, step>>
      /\ Elsewhere(u) /\ Beside(u, r)
  <2>1. waiting[u][r] = FALSE /\ Live(u, r) /\ UNCHANGED <<cfg, pc, step>>
    BY <1>1 DEF Arrives, WorkersOK
  <2>2. Elsewhere(u) /\ Beside(u, r)
    BY <1>1, ArrivesFrame
  <2>3. QED
    BY <2>1, <2>2
<1>3. /\ waiting'[u][r] = TRUE /\ entered'[u][r] = entered[u][r] + 1 /\ restored'[u][r] = rec
      /\ vetoed'[u] = (IF vote THEN vetoed[u] ELSE vetoed[u] \union {entered[u][r] + 1})
  BY <1>1 DEF Arrives, Enter, WorkersOK
<1>4. \A q \in Ranks : entered[u][q] \in Nat /\ waiting[u][q] \in BOOLEAN
  BY <1>1 DEF WorkersOK
<1>5. \A q \in Ranks : /\ Passed(u, q)' = Passed(u, q) /\ Live(u, q)' = Live(u, q)
                      /\ entered'[u][q] >= entered[u][q] /\ Passed(u, q) \in Int
  <2>1. Passed(u, r)' = Passed(u, r) /\ entered'[u][r] >= entered[u][r]
    BY <1>2, <1>3, <1>4 DEF Passed
  <2>2. ASSUME NEW q \in Ranks \ {r} PROVE Passed(u, q)' = Passed(u, q) /\ entered'[u][q] >= entered[u][q]
    BY <1>2, <1>4 DEF Passed, Beside
  <2>3. QED
    BY <1>2, <1>4, <2>1, <2>2 DEF Live, Passed
<1>6. ASSUME NEW q \in Ranks
      PROVE  /\ pc[u][q] \notin {"load", "listing"} => restored'[u][q] = restored[u][q]
             /\ pc[u][q] = "load" => restored'[u][q].left = restored[u][q].left
  BY <1>2, <1>3 DEF Beside
<1>7. ASSUME NEW q \in Ranks, NEW s \in Ranks PROVE PairInv(u, q, s)'
  <2>1. PairInv(u, q, s)
    BY DEF LockInv
  <2>2. Live(u, s) => entered'[u][q] >= Passed(u, s)
    <3>1. entered'[u][q] \in Nat
      BY <1>2, <1>3, <1>4 DEF Beside
    <3>2. QED
      BY <1>4, <1>5, <2>1, <3>1 DEF PairInv
  <2>3. ASSUME Live(u, q), Live(u, s), Passed(u, q) = Passed(u, s) PROVE Alike(u, q, s)'
    <3>1. Alike(u, q, s)
      BY <2>1, <2>3 DEF PairInv
    <3>2. QED
      BY <1>2, <1>6, <3>1 DEF Alike, Same, Phase
  <2>4. ASSUME Live(u, q), Live(u, s), Passed(u, s) = Passed(u, q) + 1 PROVE Follows(u, q, s)'
    <3>1. waiting[u][q] = TRUE /\ entered[u][q] = Passed(u, s)
      BY <2>1, <2>4, Behind
    <3>2. q # r /\ entered'[u][q] = entered[u][q] /\ restored'[u][q] = restored[u][q]
      BY <1>2, <3>1 DEF Beside
    <3>3. entered[u][r] >= entered[u][q]
      BY <2>4, <3>1 DEF LockInv, PairInv
    <3>4. Accepted(u, q)' = Accepted(u, q)
      BY <1>3, <1>4, <3>2, <3>3 DEF Accepted
    <3>5. pc[u][q] \in {"candidates", "listing"} => restored'[u][0].left = restored[u][0].left
      <4>1. CASE r = 0 /\ pc[u][r] = "listing"
        <5>1. entered[u][0] = 1
          BY <1>1, <1>2, <1>4, <4>1 DEF RankInv, LocalInv
        <5>2. RankInv(u, q)
          BY DEF ControlInv
        <5>3. pc[u][q] \in {"candidates", "listing"} => entered[u][q] = 2
          BY <1>4, <3>1, <5>2 DEF RankInv, LocalInv
        <5>4. QED
          BY <3>3, <4>1, <5>1, <5>3
      <4>2. CASE r # 0 \/ pc[u][r] # "listing"
        BY <1>1, <1>2, <1>3, <4>2 DEF Beside
      <4>3. QED
        BY <4>1, <4>2
    <3>6. Follows(u, q, s)
      BY <2>1, <2>4 DEF PairInv
    <3>7. NextLeft(pc[u][q], restored[u][q].left, restored[u][0].left)
            = NextLeft(pc[u][q], restored[u][q].left, restored'[u][0].left)
      BY <3>5 DEF NextLeft
    <3>8. QED
      <4> DEFINE np == NextPhase(cfg[u], Accepted(u, q), pc[u][q], step[u][q], restored[u][q].start)
                 ns == NextStep(Accepted(u, q), pc[u][q], step[u][q], restored[u][q].start)
                 nl == NextLeft(pc[u][q], restored[u][q].left, restored[u][0].left)
      <4>1. Same(cfg[u], np, ns, restored[u][q].start, nl,
                 pc[u][s], step[u][s], restored[u][s].start, restored[u][s].left)
        BY <3>6 DEF Follows
      <4>2. Follows(u, q, s)' = Same(cfg[u], np, ns, restored[u][q].start, nl,
                 pc[u][s], step[u][s], restored'[u][s].start, restored'[u][s].left)
        BY <1>2, <3>2, <3>4, <3>7 DEF Follows
      <4> HIDE DEF np, ns, nl
      <4>3. QED
        BY <1>6, <4>1, <4>2 DEF Same, Phase
  <2>5. QED
    BY <1>5, <2>2, <2>3, <2>4 DEF PairInv
<1>8. QED
  BY <1>2, <1>7, OtherRuns DEF LockInv

\* A rank ends: the others are as they were.
LEMMA StopLock ==
  ASSUME RunAssumption, ControlInv, LockInv, NEW u \in Runs, NEW r \in Ranks, NEW phase,
         Stops(u, r, phase)
  PROVE  LockInv'
<1>1. WorkersOK /\ 0 \in Ranks
  BY DEF ControlInv, RunAssumption
<1>2. /\ Elsewhere(u) /\ Beside(u, r) /\ pc'[u][r] \in Ended
      /\ UNCHANGED <<cfg, entered, vetoed, step, restored>>
  <2>1. Elsewhere(u) /\ Beside(u, r) /\ pc'[u][r] = phase
    BY <1>1, StopsFrame
  <2>2. phase \in Ended /\ UNCHANGED <<cfg, entered, vetoed, step, restored>>
    BY DEF Stops
  <2>3. QED
    BY <2>1, <2>2
<1>3. ASSUME NEW q \in Ranks, NEW s \in Ranks PROVE PairInv(u, q, s)'
  <2>1. PairInv(u, q, s)
    BY DEF LockInv
  <2>2. ASSUME NEW x \in Ranks, Live(u, x)' PROVE x # r /\ Live(u, x) /\ Passed(u, x)' = Passed(u, x) /\ pc'[u][x] = pc[u][x]
    BY <1>2, <2>2 DEF Live, Passed, Beside
  <2>3. Live(u, s)' => entered'[u][q] >= Passed(u, s)'
    BY <1>2, <2>1, <2>2 DEF PairInv
  <2>4. ASSUME Live(u, q)', Live(u, s)'
        PROVE  /\ Alike(u, q, s)' = Alike(u, q, s) /\ Follows(u, q, s)' = Follows(u, q, s)
    <3>1. pc'[u][q] = pc[u][q] /\ pc'[u][s] = pc[u][s] /\ Accepted(u, q)' = Accepted(u, q)
      BY <1>2, <2>2, <2>4 DEF Accepted
    <3>2. QED
      BY <1>2, <3>1 DEF Alike, Follows
  <2>5. QED
    BY <2>1, <2>2, <2>3, <2>4 DEF PairInv
<1>4. QED
  BY <1>2, <1>3, OtherRuns DEF LockInv

\* A rank leaves its collective: the ranks that were ahead are like it now, and those
\* that were like it are behind.
LEMMA DepartureLock ==
  ASSUME RunAssumption, ControlInv, LockInv, NEW u \in Runs, NEW r \in Ranks, NEW phase, NEW st,
         NEW rec \in Recovery, Departs(u, r, phase, st, rec), Live(u, r),
         saved' = saved \/ saved' = [saved EXCEPT ![u] = FALSE],
         phase = NextPhase(cfg[u], Accepted(u, r), pc[u][r], step[u][r], restored[u][r].start),
         st = NextStep(Accepted(u, r), pc[u][r], step[u][r], restored[u][r].start),
         Phase(phase) \notin {"candidates", "load"} => rec.start = restored[u][r].start,
         phase = "load" /\ cfg[u].journal =>
           rec.left = NextLeft(pc[u][r], restored[u][r].left, restored[u][0].left),
         pc[u][r] = "load" /\ Accepted(u, r) => SameStart(u),
         r = 0 => rec.left = restored[u][0].left \/ (pc[u][0] = "load" /\ cfg[u].journal)
  PROVE  LockInv'
<1> DEFINE ok == Accepted(u, r)
           left0 == restored[u][0].left
           c == cfg[u]
           start(q) == restored[u][q].start
           left(q) == restored[u][q].left
           np(q) == NextPhase(c, ok, pc[u][q], step[u][q], start(q))
           ns(q) == NextStep(ok, pc[u][q], step[u][q], start(q))
           nl(q) == NextLeft(pc[u][q], left(q), left0)
<1>1. WorkersOK /\ RankInv(u, r) /\ 0 \in Ranks /\ c \in Configs
  BY DEF ControlInv, RunAssumption, RankInv, LocalInv, Live
<1>2. /\ waiting[u][r] = TRUE /\ Arrived(u, r) /\ UNCHANGED <<cfg, entered, vetoed>>
      /\ pc'[u][r] = phase /\ waiting'[u][r] = FALSE /\ step'[u][r] = st /\ restored'[u][r] = rec
  BY <1>1 DEF Departs, Move, WorkersOK
<1>3. Elsewhere(u) /\ Beside(u, r)
  BY <1>1, DepartsFrame
<1>4. \A q \in Ranks : entered[u][q] \in Nat /\ waiting[u][q] \in BOOLEAN /\ Passed(u, q) \in Int
  BY <1>1 DEF WorkersOK, Passed
<1>5. /\ Passed(u, r)' = entered[u][r] /\ Passed(u, r) = entered[u][r] - 1
      /\ \A q \in Ranks \ {r} : Passed(u, q)' = Passed(u, q) /\ Live(u, q)' = Live(u, q)
  BY <1>2, <1>3 DEF Passed, Live, Beside
<1>6. \A q \in Ranks : entered[u][q] >= entered[u][r]
  BY <1>2 DEF Arrived
\* Where r is now.
<1>7. Same(c, np(r), ns(r), start(r), nl(r), pc'[u][r], step'[u][r], restored'[u][r].start, restored'[u][r].left)
  BY <1>2 DEF Same
\* The candidates rank 0 found stay while another rank waits for them.
<1>8. ASSUME NEW q \in Ranks, waiting[u][q], pc[u][q] \in {"candidates", "listing"}
      PROVE  restored'[u][0].left = left0
  <2>1. CASE r # 0
    BY <1>1, <1>3, <2>1 DEF Beside
  <2>2. CASE r = 0 /\ rec.left = restored[u][0].left
    BY <1>2, <2>2
  <2>3. CASE r = 0 /\ pc[u][0] = "load" /\ cfg[u].journal
    <3>1. entered[u][0] - 1 >= 2
      BY <1>1, <1>2, <2>3 DEF RankInv, LocalInv
    <3>2. RankInv(u, q)
      BY DEF ControlInv
    <3>3. entered[u][q] - 1 = 1
      BY <1>8, <3>2 DEF RankInv, LocalInv
    <3>4. entered[u][q] >= entered[u][0] /\ entered[u][q] \in Nat /\ entered[u][0] \in Nat
      BY <1>1, <1>4, <1>6, <2>3
    <3>5. QED
      BY <3>1, <3>3, <3>4
  <2>4. QED
    BY <2>1, <2>2, <2>3
<1>9. ASSUME NEW q \in Ranks, NEW s \in Ranks PROVE PairInv(u, q, s)'
  <2>1. PairInv(u, q, s) /\ PairInv(u, s, q)
    BY DEF LockInv
  <2>2. Live(u, s)' => entered'[u][q] >= Passed(u, s)'
    BY <1>2, <1>4, <1>5, <1>6, <2>1 DEF PairInv
  <2>3. ASSUME Live(u, q)', Live(u, s)', Passed(u, q)' = Passed(u, s)' PROVE Alike(u, q, s)'
    <3>1. CASE q = s
      BY <3>1 DEF Alike, Same
    <3>2. CASE q = r /\ s # r
      <4>1. Follows(u, r, s)
        BY <1>4, <1>5, <2>1, <2>3, <3>2 DEF PairInv
      <4>2. Same(c, np(r), ns(r), start(r), nl(r), pc[u][s], step[u][s], start(s), left(s))
        BY <4>1 DEF Follows
      <4>3. Same(c, pc'[u][r], step'[u][r], restored'[u][r].start, restored'[u][r].left,
                 np(r), ns(r), start(r), nl(r))
        BY <1>7, SameSymmetric
      <4>4. Same(c, pc'[u][r], step'[u][r], restored'[u][r].start, restored'[u][r].left,
                 pc[u][s], step[u][s], start(s), left(s))
        BY <4>2, <4>3, SameTransitive
      <4>5. QED
        BY <1>2, <1>3, <3>2, <4>4 DEF Alike, Beside
    <3>3. CASE s = r /\ q # r
      <4>1. Follows(u, r, q)
        BY <1>4, <1>5, <2>1, <2>3, <3>3 DEF PairInv
      <4>2. Same(c, np(r), ns(r), start(r), nl(r), pc[u][q], step[u][q], start(q), left(q))
        BY <4>1 DEF Follows
      <4>3. Same(c, pc[u][q], step[u][q], start(q), left(q), np(r), ns(r), start(r), nl(r))
        BY <4>2, SameSymmetric
      <4>4. Same(c, pc[u][q], step[u][q], start(q), left(q),
                 pc'[u][r], step'[u][r], restored'[u][r].start, restored'[u][r].left)
        BY <1>7, <4>3, SameTransitive
      <4>5. QED
        BY <1>2, <1>3, <3>3, <4>4 DEF Alike, Beside
    <3>4. CASE q # r /\ s # r
      <4>1. Alike(u, q, s)
        BY <1>5, <2>1, <2>3, <3>4 DEF PairInv
      <4>2. QED
        BY <1>2, <1>3, <3>4, <4>1 DEF Alike, Beside
    <3>5. QED
      BY <3>1, <3>2, <3>3, <3>4
  <2>4. ASSUME Live(u, q)', Live(u, s)', Passed(u, s)' = Passed(u, q)' + 1 PROVE Follows(u, q, s)'
    <3>1. q # s
      BY <1>2, <1>4, <2>4 DEF Passed
    <3>2. CASE q = r
      BY <1>4, <1>5, <2>1, <2>4, <3>1, <3>2 DEF PairInv
    <3>3. CASE s = r /\ q # r
      <4>1. Alike(u, q, r) /\ Live(u, q) /\ Passed(u, q) = entered[u][r] - 1
        BY <1>4, <1>5, <2>1, <2>4, <3>3 DEF PairInv
      <4>2. waiting[u][q] /\ entered[u][q] = entered[u][r]
        BY <1>4, <1>6, <4>1 DEF Passed
      <4>3. pc[u][q] \in Collectives /\ pc[u][r] \in Collectives
        <5>1. RankInv(u, q)
          BY DEF ControlInv
        <5>2. QED
          BY <1>1, <1>2, <4>2, <5>1 DEF RankInv, LocalInv
      <4>4. pc[u][q] = "load" /\ ok => start(q) = start(r)
        <5>1. pc[u][q] = "load" => pc[u][r] = "load"
          BY <4>1 DEF Alike, Same, Phase
        <5>2. QED
          BY <5>1 DEF SameStart
      <4>5. Same(c, np(q), ns(q), start(q), nl(q), np(r), ns(r), start(r), nl(r))
        <5>1. Same(c, pc[u][q], step[u][q], start(q), left(q), pc[u][r], step[u][r], start(r), left(r))
          BY <4>1 DEF Alike
        <5>2. ok \in BOOLEAN
          BY DEF Accepted
        <5> HIDE DEF ok, start, left, left0, c
        <5>3. QED
          BY <1>1, <4>3, <4>4, <5>1, <5>2, SameNext
      <4>6. Same(c, np(q), ns(q), start(q), nl(q),
                 pc'[u][r], step'[u][r], restored'[u][r].start, restored'[u][r].left)
        BY <1>7, <4>5, SameTransitive
      <4>7. nl(q) = NextLeft(pc[u][q], left(q), restored'[u][0].left)
        BY <1>8, <4>2 DEF NextLeft
      <4>8. Accepted(u, q)' = ok
        BY <1>2, <4>2 DEF Accepted
      <4>9. /\ pc'[u][q] = pc[u][q] /\ step'[u][q] = step[u][q] /\ restored'[u][q] = restored[u][q]
            /\ cfg' = cfg
        BY <1>2, <1>3, <3>3 DEF Beside
      <4>10. Follows(u, q, r)' = Same(c, np(q), ns(q), start(q), nl(q),
                 pc'[u][r], step'[u][r], restored'[u][r].start, restored'[u][r].left)
        BY <4>7, <4>8, <4>9 DEF Follows
      <4>11. QED
        BY <3>3, <4>6, <4>10
    <3>4. CASE q # r /\ s # r
      <4>1. Follows(u, q, s) /\ Live(u, s) /\ Passed(u, s) = Passed(u, q) + 1
        BY <1>5, <2>1, <2>4, <3>4 DEF PairInv
      <4>2. waiting[u][q]
        BY <2>1, <4>1, Behind
      <4>3. NextLeft(pc[u][q], left(q), left0) = NextLeft(pc[u][q], left(q), restored'[u][0].left)
        BY <1>8, <4>2 DEF NextLeft
      <4>4. Accepted(u, q)' = Accepted(u, q)
        BY <1>2 DEF Accepted
      <4>5. /\ pc'[u][q] = pc[u][q] /\ step'[u][q] = step[u][q] /\ restored'[u][q] = restored[u][q]
            /\ pc'[u][s] = pc[u][s] /\ step'[u][s] = step[u][s] /\ restored'[u][s] = restored[u][s]
            /\ cfg' = cfg
        BY <1>2, <1>3, <3>4 DEF Beside
      <4>6. Follows(u, q, s)' = Follows(u, q, s)
        BY <4>3, <4>4, <4>5 DEF Follows
      <4>7. QED
        BY <4>1, <4>6
    <3>5. QED
      BY <3>1, <3>2, <3>3, <3>4
  <2>5. QED
    BY <2>2, <2>3, <2>4 DEF PairInv
<1>10. QED
  BY <1>2, <1>3, <1>9, OtherRuns DEF LockInv

LEMMA VoteLock ==
  ASSUME RunAssumption, ControlInv, LockInv, NEW u \in Runs, NEW r \in Ranks, NEW vote,
         ~waiting[u][r], pc[u][r] \in Voting, Enter(u, r, vote),
         UNCHANGED <<cfg, pc, step, restored, saved>>
  PROVE  LockInv'
<1>1. WorkersOK
  BY DEF ControlInv
<1>2. Arrives(u, r, vote, restored[u][r])
  BY <1>1, Unmoved DEF Arrives, Live, Ended, Voting, Collectives, Phases
<1>3. restored[u][r] \in Recovery /\ pc[u][r] # "load"
  BY <1>1, Unmoved DEF Voting
<1>4. QED
  BY <1>2, <1>3, ArrivalLock

LEMMA VotingLock ==
  ASSUME RunAssumption, TypeInv, LockInv, NEW u \in Runs, NEW r \in Ranks,
         \/ JoinGroup(u, r) \/ AwaitRankZero(u, r) \/ ProposeSchedule(u, r) \/ Train(u, r) \/ Validate(u, r)
         \/ r = 0 /\ \/ AdmitFresh(u) \/ AdmitCapacity(u) \/ PublishRefused(u) \/ PublishFailed(u)
                     \/ ReplaceLatest(u) \/ ReplaceFailed(u)
  PROVE  LockInv'
<1>1. ControlInv
  BY DEF TypeInv
<1>2. pc[u][r] \in Voting /\ ~waiting[u][r]
  <2>1. CASE AwaitRankZero(u, r)
    BY <2>1 DEF AwaitRankZero, Ready, Voting, Collectives, Phases
  <2>2. QED
    BY <2>1 DEF JoinGroup, ProposeSchedule, Train, Validate, AdmitFresh, AdmitCapacity,
       PublishRefused, PublishFailed, ReplaceLatest, ReplaceFailed, Publishing, Ready, Voting,
       Collectives, Phases
<1>3. UNCHANGED <<cfg, pc, step, restored, saved>>
  BY DEF JoinGroup, AwaitRankZero, ProposeSchedule, Train, Validate, AdmitFresh, AdmitCapacity,
     PublishRefused, PublishFailed, ReplaceLatest, ReplaceFailed
<1>4. \E vote : Enter(u, r, vote)
  <2>1. CASE JoinGroup(u, r) \/ AwaitRankZero(u, r) \/ ProposeSchedule(u, r)
    BY <2>1 DEF JoinGroup, AwaitRankZero, ProposeSchedule
  <2>2. CASE Train(u, r) \/ Validate(u, r)
    BY <2>2 DEF Train, Validate, EnterWith
  <2>3. CASE r = 0 /\ (AdmitFresh(u) \/ PublishRefused(u) \/ PublishFailed(u) \/ ReplaceFailed(u))
    BY <2>3 DEF AdmitFresh, PublishRefused, PublishFailed, ReplaceFailed
  <2>4. CASE r = 0 /\ (AdmitCapacity(u) \/ ReplaceLatest(u))
    BY <2>4 DEF AdmitCapacity, ReplaceLatest, EnterWith
  <2>5. QED
    BY <2>1, <2>2, <2>3, <2>4
<1>5. QED
  BY <1>1, <1>2, <1>3, <1>4, VoteLock

LEMMA ReadCandidatesLock ==
  ASSUME RunAssumption, TypeInv, LockInv, NEW u \in Runs, ReadCandidates(u)
  PROVE  LockInv'
<1> DEFINE valid == {s \in OrEmpty(versions) : Intact(s)}
           rec == [restored[u][0] EXCEPT !.left = valid]
<1>1. /\ ControlInv /\ StoreOK /\ WorkersOK /\ pc[u][0] = "listing" /\ ~waiting[u][0] /\ 0 \in Ranks
      /\ restored' = [restored EXCEPT ![u][0] = rec]
      /\ UNCHANGED <<cfg, pc, step, saved>>
  BY DEF TypeInv, ControlInv, ReadCandidates, Ready, RunAssumption
<1>2. PICK vote : Enter(u, 0, vote)
  BY DEF ReadCandidates, EnterWith
<1>3. valid \in SUBSET Steps
  BY <1>1 DEF StoreOK, OrEmpty
<1>4. rec \in Recovery
  BY <1>1, <1>3, WithLeft
<1> HIDE DEF rec, valid
<1>5. Arrives(u, 0, vote, rec)
  BY <1>1, <1>2 DEF Arrives, Live, Ended
<1>6. QED
  BY <1>1, <1>4, <1>5, ArrivalLock

LEMMA LoadLock ==
  ASSUME RunAssumption, TypeInv, LockInv, NEW u \in Runs, NEW r \in Ranks, Load(u, r)
  PROVE  LockInv'
<1> DEFINE rec == [restored[u][r] EXCEPT !.start = OrZero(Source(u, r))]
<1>1. /\ ControlInv /\ WorkersOK /\ pc[u][r] = "load" /\ ~waiting[u][r]
      /\ restored' = [restored EXCEPT ![u][r] = rec]
      /\ UNCHANGED <<cfg, pc, step, saved>>
  BY DEF TypeInv, ControlInv, Load, Ready
<1>2. PICK vote : Enter(u, r, vote)
  BY DEF Load, EnterWith
<1>3. OrZero(Source(u, r)) \in Steps
  BY SourceTyped DEF Load, Ready
<1>4. rec \in Recovery /\ rec.left = restored[u][r].left
  BY <1>1, <1>3, WithStart
<1> HIDE DEF rec
<1>5. Arrives(u, r, vote, rec)
  BY <1>1, <1>2 DEF Arrives, Live, Ended
<1>6. QED
  BY <1>1, <1>4, <1>5, ArrivalLock

\* Rank 0 looks at the candidates after the recorded step: not a collective.
LEMMA ReadMarkLock ==
  ASSUME RunAssumption, TypeInv, LockInv, NEW u \in Runs, ReadMark(u)
  PROVE  LockInv'
<1>1. /\ ControlInv /\ StoreOK /\ WorkersOK /\ pc[u][0] = "candidates" /\ waiting[u][0] = FALSE
      /\ 0 \in Ranks /\ restored[u][0] \in Recovery
  BY DEF TypeInv, ControlInv, WorkersOK, ReadMark, Ready, RunAssumption
<1>2. /\ pc' = [pc EXCEPT ![u][0] = "listing"]
      /\ restored' = [restored EXCEPT ![u][0] = [restored[u][0] EXCEPT !.mark = HighWater]]
      /\ UNCHANGED <<cfg, waiting, entered, step, vetoed, saved>>
  BY DEF ReadMark
<1>3. Elsewhere(u) /\ Beside(u, 0)
  BY <1>1, <1>2 DEF Elsewhere, Beside, WorkersOK
<1>4. /\ pc'[u][0] = "listing" /\ restored'[u][0].left = restored[u][0].left
      /\ restored'[u][0].start = restored[u][0].start
  BY <1>1, <1>2 DEF WorkersOK, Recovery
<1>5. ASSUME NEW q \in Ranks
      PROVE  /\ restored'[u][q].left = restored[u][q].left /\ restored'[u][q].start = restored[u][q].start
             /\ q # 0 => pc'[u][q] = pc[u][q]
             /\ Phase(pc'[u][q]) = Phase(pc[u][q]) /\ Live(u, q)' = Live(u, q)
             /\ pc'[u][q] = "load" <=> pc[u][q] = "load"
  BY <1>1, <1>3, <1>4 DEF Beside, Phase, Live, Ended
<1>6. ASSUME NEW q \in Ranks, NEW s \in Ranks PROVE PairInv(u, q, s)'
  <2>1. PairInv(u, q, s)
    BY DEF LockInv
  <2>2. /\ Live(u, q)' = Live(u, q) /\ Live(u, s)' = Live(u, s)
        /\ Passed(u, q)' = Passed(u, q) /\ Passed(u, s)' = Passed(u, s)
    BY <1>2, <1>5 DEF Passed
  <2>3. Alike(u, q, s) => Alike(u, q, s)'
    BY <1>2, <1>5 DEF Alike, Same
  <2>4. ASSUME Live(u, s), Passed(u, s) = Passed(u, q) + 1, Follows(u, q, s) PROVE Follows(u, q, s)'
    <3>1. waiting[u][q] = TRUE
      BY <1>1, <2>1, <2>4, Behind
    <3>2. q # 0 /\ pc'[u][q] = pc[u][q]
      BY <1>1, <1>5, <3>1
    <3> DEFINE np == NextPhase(cfg[u], Accepted(u, q), pc[u][q], step[u][q], restored[u][q].start)
               ns == NextStep(Accepted(u, q), pc[u][q], step[u][q], restored[u][q].start)
               nl == NextLeft(pc[u][q], restored[u][q].left, restored[u][0].left)
    <3>3. Same(cfg[u], np, ns, restored[u][q].start, nl,
               pc[u][s], step[u][s], restored[u][s].start, restored[u][s].left)
      BY <2>4 DEF Follows
    <3>4. Follows(u, q, s)' = Same(cfg[u], np, ns, restored[u][q].start, nl,
               pc'[u][s], step[u][s], restored[u][s].start, restored[u][s].left)
      BY <1>1, <1>2, <1>5, <3>2 DEF Follows, Accepted
    <3> HIDE DEF np, ns, nl
    <3>5. QED
      BY <1>5, <3>3, <3>4 DEF Same
  <2>5. QED
    BY <1>2, <2>1, <2>2, <2>3, <2>4 DEF PairInv
<1>7. QED
  BY <1>2, <1>3, <1>6, OtherRuns DEF LockInv

\* Departures that change only the phase.
LEMMA SimpleLock ==
  ASSUME RunAssumption, ControlInv, LockInv, NEW u \in Runs, NEW r \in Ranks, NEW phase,
         waiting[u][r], Arrived(u, r), Move(u, r, phase),
         pc[u][r] \in {"rendezvous", "fresh", "schedule", "capacity", "validate", "publish"},
         phase = NextPhase(cfg[u], Accepted(u, r), pc[u][r], step[u][r], restored[u][r].start),
         UNCHANGED <<cfg, entered, vetoed, step, restored>>,
         saved' = saved \/ saved' = [saved EXCEPT ![u] = FALSE]
  PROVE  LockInv'
<1>1. WorkersOK /\ Live(u, r) /\ restored[u][r] \in Recovery
  BY Unmoved DEF ControlInv, Live, Ended
<1>2. Departs(u, r, phase, step[u][r], restored[u][r])
  BY <1>1, SimpleDeparture
<1>3. step[u][r] = NextStep(Accepted(u, r), pc[u][r], step[u][r], restored[u][r].start)
  BY DEF NextStep
<1>4. restored[u][r].left = NextLeft(pc[u][r], restored[u][r].left, restored[u][0].left)
  BY DEF NextLeft
<1>5. pc[u][r] # "load"
  OBVIOUS
<1>6. QED
  BY <1>1, <1>2, <1>3, <1>4, <1>5, DepartureLock

LEMMA SimpleDepartures ==
  ASSUME RunAssumption, TypeInv, LockInv, NEW u \in Runs, NEW r \in Ranks,
         \/ LeaveGroup(u, r) \/ LeaveFresh(u, r) \/ LeaveSchedule(u, r) \/ LeaveCapacity(u, r)
         \/ LeaveValidate(u, r) \/ LeavePublish(u, r)
  PROVE  LockInv'
<1>1. /\ ControlInv
      /\ UNCHANGED <<cfg, entered, vetoed, step, restored>>
  BY DEF TypeInv, LeaveGroup, LeaveFresh, LeaveSchedule, LeaveCapacity, LeaveValidate, LeavePublish
<1>2. saved' = saved \/ saved' = [saved EXCEPT ![u] = FALSE]
  <2>1. CASE LeavePublish(u, r)
    <3>1. saved' = IF r = 0 THEN [saved EXCEPT ![u] = FALSE] ELSE saved
      BY <2>1 DEF LeavePublish
    <3>2. QED
      BY <3>1
  <2>2. QED
    BY <2>1 DEF LeaveGroup, LeaveFresh, LeaveSchedule, LeaveCapacity, LeaveValidate
<1>3. /\ waiting[u][r] /\ Arrived(u, r)
      /\ pc[u][r] \in {"rendezvous", "fresh", "schedule", "capacity", "validate", "publish"}
  BY DEF LeaveGroup, LeaveFresh, LeaveSchedule, LeaveCapacity, LeaveValidate, LeavePublish, Leaving
<1>4. Move(u, r, NextPhase(cfg[u], Accepted(u, r), pc[u][r], step[u][r], restored[u][r].start))
  <2>1. CASE LeaveGroup(u, r)
    BY <2>1 DEF LeaveGroup, Leaving, NextPhase
  <2>2. CASE LeaveFresh(u, r)
    BY <2>2 DEF LeaveFresh, Leaving, NextPhase
  <2>3. CASE LeaveSchedule(u, r)
    BY <2>3 DEF LeaveSchedule, Leaving, NextPhase
  <2>4. CASE LeaveCapacity(u, r)
    BY <2>4 DEF LeaveCapacity, Leaving, NextPhase
  <2>5. CASE LeaveValidate(u, r)
    BY <2>5 DEF LeaveValidate, Leaving, NextPhase
  <2>6. CASE LeavePublish(u, r)
    BY <2>6 DEF LeavePublish, Leaving, NextPhase, End
  <2>7. QED
    BY <2>1, <2>2, <2>3, <2>4, <2>5, <2>6
<1>5. QED
  BY <1>1, <1>2, <1>3, <1>4, SimpleLock

LEMMA LeaveCandidatesLock ==
  ASSUME RunAssumption, TypeInv, LockInv, NEW u \in Runs, NEW r \in Ranks, LeaveCandidates(u, r)
  PROVE  LockInv'
<1>1. /\ ControlInv /\ WorkersOK /\ 0 \in Ranks /\ waiting[u][r] /\ Arrived(u, r)
      /\ pc[u][r] \in {"candidates", "listing"}
      /\ Move(u, r, "load") /\ restored' = [restored EXCEPT ![u][r] = restored[u][0]]
      /\ UNCHANGED <<cfg, entered, vetoed, step, saved>>
  BY DEF TypeInv, ControlInv, LeaveCandidates, Leaving, RunAssumption
<1>2. Departs(u, r, "load", step[u][r], restored[u][0]) /\ restored[u][0] \in Recovery
  BY <1>1, Unmoved DEF Departs
<1>3. /\ "load" = NextPhase(cfg[u], Accepted(u, r), pc[u][r], step[u][r], restored[u][r].start)
      /\ step[u][r] = NextStep(Accepted(u, r), pc[u][r], step[u][r], restored[u][r].start)
      /\ restored[u][0].left = NextLeft(pc[u][r], restored[u][r].left, restored[u][0].left)
      /\ Phase("load") = "load" /\ pc[u][r] # "load"
  BY <1>1 DEF NextPhase, NextStep, NextLeft, Phase
<1>4. Live(u, r)
  BY <1>1 DEF Live, Ended
<1>5. QED
  BY <1>1, <1>2, <1>3, <1>4, DepartureLock

LEMMA LeaveLoadLock ==
  ASSUME RunAssumption, TypeInv, LockInv, NEW u \in Runs, NEW r \in Ranks, LeaveLoad(u, r)
  PROVE  LockInv'
<1>1. /\ ControlInv /\ WorkersOK /\ waiting[u][r] /\ Arrived(u, r) /\ pc[u][r] = "load"
      /\ Accepted(u, r) /\ SameStart(u) /\ Move(u, r, "schedule")
      /\ step' = [step EXCEPT ![u][r] = restored[u][r].start]
      /\ UNCHANGED <<cfg, entered, vetoed, restored, saved>>
  BY DEF TypeInv, ControlInv, LeaveLoad, Leaving
<1>2. Departs(u, r, "schedule", restored[u][r].start, restored[u][r]) /\ restored[u][r] \in Recovery
  BY <1>1, Unmoved DEF Departs
<1>3. /\ "schedule" = NextPhase(cfg[u], Accepted(u, r), pc[u][r], step[u][r], restored[u][r].start)
      /\ restored[u][r].start = NextStep(Accepted(u, r), pc[u][r], step[u][r], restored[u][r].start)
  BY <1>1 DEF NextPhase, NextStep
<1>4. Live(u, r)
  BY <1>1 DEF Live, Ended
<1>5. QED
  BY <1>1, <1>2, <1>3, <1>4, DepartureLock

LEMMA LoadRejectedLock ==
  ASSUME RunAssumption, TypeInv, LockInv, NEW u \in Runs, NEW r \in Ranks, LoadRejected(u, r)
  PROVE  LockInv'
<1> DEFINE left == restored[u][r].left \ {Source(u, r)}
           rec == [restored[u][r] EXCEPT !.left = left]
<1>1. /\ ControlInv /\ WorkersOK /\ waiting[u][r] /\ Arrived(u, r) /\ pc[u][r] = "load"
      /\ ~Accepted(u, r) /\ cfg[u].journal /\ Move(u, r, "load")
      /\ restored' = [restored EXCEPT ![u][r] = rec]
      /\ UNCHANGED <<cfg, entered, vetoed, step, saved>>
  BY DEF TypeInv, ControlInv, LoadRejected, Leaving
<1>2. left \in SUBSET Steps
  BY <1>1, Unmoved DEF Recovery
<1>3. rec \in Recovery /\ rec.left = left
  BY <1>1, <1>2, WithLeft
<1>4. left = NextLeft(pc[u][r], restored[u][r].left, restored[u][0].left)
  BY <1>1 DEF NextLeft, Source
<1> HIDE DEF rec, left
<1>5. Departs(u, r, "load", step[u][r], rec)
  BY <1>1, Unmoved DEF Departs
<1>6. /\ "load" = NextPhase(cfg[u], Accepted(u, r), pc[u][r], step[u][r], restored[u][r].start)
      /\ step[u][r] = NextStep(Accepted(u, r), pc[u][r], step[u][r], restored[u][r].start)
      /\ Phase("load") = "load"
  BY <1>1 DEF NextPhase, NextStep, Phase
<1>7. Live(u, r)
  BY <1>1 DEF Live, Ended
<1>8. QED
  BY <1>1, <1>3, <1>4, <1>5, <1>6, <1>7, DepartureLock

LEMMA LeaveTrainLock ==
  ASSUME RunAssumption, TypeInv, LockInv, NEW u \in Runs, NEW r \in Ranks, LeaveTrain(u, r)
  PROVE  LockInv'
<1> DEFINE completed == step[u][r] + 1
           phase == IF SaveDue(u, r, completed) THEN "validate" ELSE "train"
<1>1. /\ ControlInv /\ WorkersOK /\ waiting[u][r] /\ Arrived(u, r) /\ pc[u][r] = "train"
      /\ Move(u, r, phase) /\ step' = [step EXCEPT ![u][r] = completed]
      /\ UNCHANGED <<cfg, entered, vetoed, restored, saved>>
  BY DEF TypeInv, ControlInv, LeaveTrain, Leaving
<1>2. Departs(u, r, phase, completed, restored[u][r]) /\ restored[u][r] \in Recovery
  BY <1>1, Unmoved DEF Departs
<1>3. phase = NextPhase(cfg[u], Accepted(u, r), pc[u][r], step[u][r], restored[u][r].start)
  BY <1>1 DEF NextPhase, SaveDue, End
<1>4. completed = NextStep(Accepted(u, r), pc[u][r], step[u][r], restored[u][r].start)
  BY <1>1 DEF NextStep
<1>5. phase # "load" /\ pc[u][r] # "load"
  BY <1>1
<1>6. Live(u, r)
  BY <1>1 DEF Live, Ended
<1> HIDE DEF phase, completed
<1>7. QED
  BY <1>1, <1>2, <1>3, <1>4, <1>5, <1>6, DepartureLock

LEMMA StoppingLock ==
  ASSUME RunAssumption, TypeInv, LockInv, NEW u \in Runs, NEW r \in Ranks,
         \/ LoadExhausted(u, r) \/ Refused(u, r) \/ PeerLost(u, r) \/ WriteOutput(u, r)
         \/ Killed(u, r)
  PROVE  LockInv'
<1>1. ControlInv /\ UNCHANGED <<cfg, entered, vetoed, step, restored, saved>>
  BY DEF TypeInv, LoadExhausted, Refused, PeerLost, WriteOutput, Killed
<1>2. Move(u, r, "failed") \/ Move(u, r, "exited")
  BY DEF LoadExhausted, Refused, PeerLost, WriteOutput, Killed
<1>3. PICK phase \in Ended : Move(u, r, phase)
  BY <1>2 DEF Ended
<1>4. Stops(u, r, phase)
  BY <1>1, <1>3 DEF Stops
<1>5. QED
  BY <1>1, <1>4, StopLock

LEMMA ResetLock ==
  ASSUME RunAssumption, TypeInv, LockInv, NEW u \in Runs, NEW phase \in {"rendezvous", "exited"},
         Reset(u, phase), \A v \in Runs \ {u} : cfg'[v] = cfg[v]
  PROVE  LockInv'
<1>1. WorkersOK
  BY DEF TypeInv, ControlInv
<1>2. /\ Elsewhere(u)
      /\ \A r \in Ranks : /\ pc'[u][r] = phase /\ waiting'[u][r] = FALSE /\ entered'[u][r] = 0
                         /\ step'[u][r] = 0 /\ restored'[u][r] = NoRecovery
  <2>1. Elsewhere(u)
    BY <1>1 DEF Reset, WorkersOK, Elsewhere
  <2>2. QED
    BY <1>1, <2>1 DEF Reset, WorkersOK
<1>3. \A q, r \in Ranks : PairInv(u, q, r)'
  BY <1>2 DEF PairInv, Passed, Alike, Same, Phase
<1>4. QED
  BY <1>2, <1>3, OtherRuns DEF LockInv

LEMMA IdleLock ==
  ASSUME LockInv, UNCHANGED <<cfg, pc, waiting, entered, step, vetoed, restored>>
  PROVE  LockInv'
  BY DEF LockInv, PairInv, Live, Passed, Alike, Follows, Accepted

LEMMA LockStep == ASSUME RunAssumption, TypeInv, LockInv, [Next]_vars PROVE LockInv'
<1>1. ASSUME NEW u \in Runs, RankZero(u) PROVE LockInv'
  <2>1. CASE PublishJournal(u)
    BY <2>1, IdleLock DEF PublishJournal
  <2>2. 0 \in Ranks
    BY DEF RunAssumption
  <2>3. QED
    BY <1>1, <2>1, <2>2, VotingLock, ReadMarkLock, ReadCandidatesLock DEF RankZero
<1>2. ASSUME NEW u \in Runs, NEW r \in Ranks, Rank(u, r) PROVE LockInv'
  BY <1>2, VotingLock, LoadLock, SimpleDepartures, LeaveCandidatesLock, LeaveLoadLock,
     LoadRejectedLock, LeaveTrainLock, StoppingLock DEF Rank
<1>3. ASSUME NEW u \in Runs, NEW r \in Ranks, WorkerLost(u, r) \/ Terminate(u, r) PROVE LockInv'
  BY <1>3, StoppingLock DEF WorkerLost, Terminate
<1>4. ASSUME NEW u \in Runs, Supervisor(u) PROVE LockInv'
  <2>1. ASSUME NEW c \in Configs, Launch(u, c) PROVE LockInv'
    <3>1. Reset(u, "rendezvous")
      BY <2>1 DEF Launch, Reset
    <3>2. \A v \in Runs \ {u} : cfg'[v] = cfg[v]
      BY <2>1 DEF Launch, TypeInv, StoreOK
    <3>3. QED
      BY <3>1, <3>2, ResetLock
  <2>2. CASE Reaped(u)
    <3>1. Reset(u, "exited") /\ cfg' = cfg
      BY <2>2 DEF Reaped, NoWorkers, Reset
    <3>2. QED
      BY <3>1, ResetLock
  <2>3. CASE ObserveFailure(u) \/ Deadline(u) \/ SupervisorKilled(u)
    BY <2>3, IdleLock DEF ObserveFailure, Deadline, SupervisorKilled, workers
  <2>4. QED
    BY <1>4, <2>1, <2>2, <2>3 DEF Supervisor
<1>5. CASE (\E s \in Steps : Damage(s)) \/ RemoveUnknown \/ UNCHANGED vars
  BY <1>5, IdleLock DEF Damage, RemoveUnknown, vars, workers
<1>6. QED
  BY <1>1, <1>2, <1>3, <1>4, <1>5 DEF Next

LEMMA LockInvariant == ASSUME RunAssumption PROVE Spec => [](TypeInv /\ LockInv)
<1>1. Init => LockInv
  BY DEF Init, LockInv, PairInv, Passed, Live, Ended
<1>2. TypeInv /\ LockInv /\ [Next]_vars => LockInv'
  BY LockStep
<1>3. QED
  BY <1>1, <1>2, TypeInvariant, PTL DEF Spec

-------------------------------------------------------------------------------
(* One run writes at a time                                                   *)

\* No supervisor is killed, or there is one slot: its workers have to be dead before it
\* launches again.
OneWriter == MaxKills = 0 \/ \A u, v \in Runs : u = v

Active(u) == sup[u] # "down" \/ \E r \in Ranks : Live(u, r)
Alone(u) == \A v \in Runs \ {u} : ~Active(v)

WriterInv ==
  /\ kills \in Nat /\ faults \in Nat
  /\ \A u \in Runs : sup[u] # "down" => lease = u
  /\ \A u \in Runs, r \in Ranks : Live(u, r) => sup[u] # "down" \/ \A v \in Runs : v = u

LEMMA ActiveAlone ==
  ASSUME WriterInv, NEW u \in Runs, Active(u)
  PROVE  Alone(u)
  BY DEF WriterInv, Active, Alone

\* Faults are only counted.
LEMMA FaultsGrow ==
  ASSUME faults \in Nat, [Next]_vars
  PROVE  faults' \in Nat /\ faults' >= faults
<1>1. ASSUME NEW vote, NEW check, CountFault(vote, check) PROVE faults' = faults \/ faults' = faults + 1
  BY <1>1 DEF CountFault
<1>2. ASSUME NEW u \in Runs, RankZero(u) PROVE faults' = faults \/ faults' = faults + 1
  <2>1. CASE ReadCandidates(u) \/ AdmitCapacity(u) \/ ReplaceLatest(u)
    <3>1. \E vote, check : CountFault(vote, check)
      BY <2>1 DEF ReadCandidates, AdmitCapacity, ReplaceLatest, EnterWith
    <3>2. QED
      BY <1>1, <3>1
  <2>2. CASE AdmitFresh(u)
    <3>1. faults' = faults \/ faults' = IF Openable THEN faults + 1 ELSE faults
      BY <2>2 DEF AdmitFresh
    <3>2. QED
      BY <3>1
  <2>3. CASE ReadMark(u) \/ PublishJournal(u) \/ PublishRefused(u) \/ PublishFailed(u) \/ ReplaceFailed(u)
    BY <2>3 DEF ReadMark, PublishJournal, PublishRefused, PublishFailed, ReplaceFailed, bounds
  <2>4. QED
    BY <1>2, <2>1, <2>2, <2>3 DEF RankZero
<1>3. ASSUME NEW u \in Runs, NEW r \in Ranks, Rank(u, r) \/ WorkerLost(u, r) \/ Terminate(u, r)
      PROVE  faults' = faults \/ faults' = faults + 1
  <2>1. CASE Load(u, r) \/ Train(u, r) \/ Validate(u, r)
    <3>1. \E vote, check : CountFault(vote, check)
      BY <2>1 DEF Load, Train, Validate, EnterWith
    <3>2. QED
      BY <1>1, <3>1
  <2>2. CASE WorkerLost(u, r)
    BY <2>2 DEF WorkerLost
  <2>3. CASE faults' = faults
    BY <2>3
  <2>4. QED
    BY <1>3, <2>1, <2>2, <2>3 DEF Rank, JoinGroup, LeaveGroup, AwaitRankZero, LeaveFresh,
       LeaveCandidates, LeaveLoad, LoadRejected, LoadExhausted, ProposeSchedule, LeaveSchedule,
       LeaveCapacity, LeaveTrain, LeaveValidate, LeavePublish, Refused, WriteOutput, PeerLost,
       Terminate, bounds
<1>4. ASSUME NEW u \in Runs, Supervisor(u) PROVE faults' = faults
  BY <1>4 DEF Supervisor, Launch, ObserveFailure, Deadline, Reaped, SupervisorKilled, bounds
<1>5. ASSUME (\E s \in Steps : Damage(s)) \/ RemoveUnknown \/ UNCHANGED vars PROVE faults' = faults
  BY <1>5 DEF Damage, RemoveUnknown, vars, bounds
<1>6. QED
  <2> DEFINE grows == faults' = faults \/ faults' = faults + 1
  <2>1. \A u \in Runs : Supervisor(u) \/ RankZero(u) => grows
    BY <1>2, <1>4
  <2>2. \A u \in Runs, r \in Ranks : Rank(u, r) \/ WorkerLost(u, r) \/ Terminate(u, r) => grows
    BY <1>3
  <2>3. (\E s \in Steps : Damage(s)) \/ RemoveUnknown \/ UNCHANGED vars => grows
    BY <1>5
  <2> HIDE DEF grows
  <2>4. grows
    BY <2>1, <2>2, <2>3 DEF Next
  <2>5. QED
    BY <2>4 DEF grows

LEMMA WriterStep ==
  ASSUME RunAssumption, OneWriter, TypeInv, WriterInv, [Next]_vars
  PROVE  WriterInv'
<1>1. /\ kills \in Nat /\ faults \in Nat /\ 0 \in Ranks
      /\ sup \in [Runs -> {"down", "watching", "stopping"}] /\ pc \in [Runs -> [Ranks -> Phases]]
      /\ lease \in Runs \union {None} /\ None \notin Runs /\ faults' \in Nat
  BY FaultsGrow DEF TypeInv, StoreOK, ControlInv, WorkersOK, WriterInv, RunAssumption
<1>2. ASSUME UNCHANGED <<lease, sup>>, kills' = kills, faults' \in Nat,
             \A u \in Runs, r \in Ranks : Live(u, r)' => Live(u, r)
      PROVE  WriterInv'
  BY <1>2 DEF WriterInv
<1>3. ASSUME NEW u \in Runs, RankZero(u) PROVE WriterInv'
  <2>1. UNCHANGED <<lease, sup>> /\ kills' = kills
    BY <1>3 DEF RankZero, AdmitFresh, ReadMark, ReadCandidates, AdmitCapacity, PublishJournal,
       PublishRefused, PublishFailed, ReplaceLatest, ReplaceFailed, bounds
  <2>2. faults' \in Nat
    BY <1>1
  <2>3. \A v \in Runs, r \in Ranks : Live(v, r)' => Live(v, r)
    <3>1. CASE ReadMark(u)
      <4>1. pc[u][0] = "candidates" /\ pc' = [pc EXCEPT ![u][0] = "listing"]
        BY <3>1 DEF ReadMark, Ready
      <4>2. QED
        BY <1>1, <4>1 DEF Live, Ended
    <3>2. CASE pc' = pc
      BY <3>2 DEF Live
    <3>3. QED
      BY <1>3, <3>1, <3>2 DEF RankZero, AdmitFresh, ReadCandidates, AdmitCapacity, PublishJournal,
         PublishRefused, PublishFailed, ReplaceLatest, ReplaceFailed
  <2>4. QED
    BY <1>2, <2>1, <2>2, <2>3
<1>4. ASSUME NEW u \in Runs, NEW r \in Ranks, Rank(u, r) \/ WorkerLost(u, r) \/ Terminate(u, r)
      PROVE  WriterInv'
  <2>1. UNCHANGED <<lease, sup>> /\ kills' = kills
    BY <1>4 DEF Rank, JoinGroup, LeaveGroup, AwaitRankZero, LeaveFresh, LeaveCandidates, Load,
       LeaveLoad, LoadRejected, LoadExhausted, ProposeSchedule, LeaveSchedule, LeaveCapacity, Train,
       LeaveTrain, Validate, LeaveValidate, LeavePublish, Refused, WriteOutput, PeerLost, WorkerLost,
       Terminate, Killed, bounds
  <2>2. faults' \in Nat
    BY <1>1
  <2>3. \A v \in Runs, q \in Ranks : Live(v, q)' => Live(v, q)
    <3>1. CASE pc' = pc
      BY <3>1 DEF Live
    <3>2. ASSUME Live(u, r), NEW phase, Move(u, r, phase)
          PROVE  \A v \in Runs, q \in Ranks : Live(v, q)' => Live(v, q)
      BY <1>1, <3>2 DEF Move, Live
    <3>3. ASSUME NEW phase \in Ended, Move(u, r, phase)
          PROVE  \A v \in Runs, q \in Ranks : Live(v, q)' => Live(v, q)
      BY <1>1, <3>3 DEF Move, Live
    <3>4. CASE \/ LeaveGroup(u, r) \/ LeaveFresh(u, r) \/ LeaveCandidates(u, r) \/ LeaveLoad(u, r)
               \/ LoadRejected(u, r) \/ LeaveSchedule(u, r) \/ LeaveCapacity(u, r) \/ LeaveTrain(u, r)
               \/ LeaveValidate(u, r) \/ LeavePublish(u, r)
      <4>1. Live(u, r)
        BY <3>4 DEF LeaveGroup, LeaveFresh, LeaveCandidates, LeaveLoad, LoadRejected, LeaveSchedule,
           LeaveCapacity, LeaveTrain, LeaveValidate, LeavePublish, Leaving, Live, Ended
      <4>2. \E phase : Move(u, r, phase)
        <5>1. CASE LeaveGroup(u, r) \/ LeaveFresh(u, r) \/ LeaveCandidates(u, r) \/ LeaveLoad(u, r)
          BY <5>1 DEF LeaveGroup, LeaveFresh, LeaveCandidates, LeaveLoad
        <5>2. CASE LoadRejected(u, r) \/ LeaveSchedule(u, r) \/ LeaveCapacity(u, r)
          BY <5>2 DEF LoadRejected, LeaveSchedule, LeaveCapacity
        <5>3. CASE LeaveTrain(u, r) \/ LeaveValidate(u, r) \/ LeavePublish(u, r)
          BY <5>3 DEF LeaveTrain, LeaveValidate, LeavePublish
        <5>4. QED
          BY <3>4, <5>1, <5>2, <5>3
      <4>3. QED
        BY <3>2, <4>1, <4>2
    <3>5. CASE \/ LoadExhausted(u, r) \/ Refused(u, r) \/ WriteOutput(u, r) \/ PeerLost(u, r)
               \/ WorkerLost(u, r) \/ Terminate(u, r)
      <4>1. Move(u, r, "failed") \/ Move(u, r, "exited")
        BY <3>5 DEF LoadExhausted, Refused, WriteOutput, PeerLost, WorkerLost, Terminate, Killed
      <4>2. QED
        BY <3>3, <4>1 DEF Ended
    <3>6. QED
      BY <1>4, <3>1, <3>4, <3>5 DEF Rank, JoinGroup, AwaitRankZero, Load, ProposeSchedule, Train, Validate
  <2>4. QED
    BY <1>2, <2>1, <2>2, <2>3
<1>5. ASSUME NEW u \in Runs, Supervisor(u) PROVE WriterInv'
  <2>1. ASSUME NEW c \in Configs, Launch(u, c) PROVE WriterInv'
    <3>1. /\ lease = None /\ lease' = u /\ sup' = [sup EXCEPT ![u] = "watching"]
          /\ pc' = [pc EXCEPT ![u] = [r \in Ranks |-> "rendezvous"]]
          /\ UNCHANGED <<faults, kills>>
      BY <2>1 DEF Launch
    <3>2. \A v \in Runs : sup[v] = "down"
      BY <1>1, <3>1 DEF WriterInv
    <3>3. /\ sup'[u] # "down"
          /\ \A v \in Runs : v # u => sup'[v] = sup[v] /\ pc'[v] = pc[v]
      BY <1>1, <3>1
    <3>4. ASSUME NEW v \in Runs, NEW r \in Ranks, Live(v, r)'
          PROVE  sup'[v] # "down" \/ \A w \in Runs : w = v
      <4>1. CASE v = u
        BY <3>3, <4>1
      <4>2. CASE v # u
        <5>1. Live(v, r)
          BY <3>3, <3>4, <4>2 DEF Live
        <5>2. QED
          BY <3>2, <5>1 DEF WriterInv
      <4>3. QED
        BY <4>1, <4>2
    <3>5. QED
      BY <1>1, <3>1, <3>2, <3>3, <3>4 DEF WriterInv
  <2>2. CASE Reaped(u)
    <3>1. /\ sup[u] # "down" /\ sup' = [sup EXCEPT ![u] = "down"]
          /\ lease' = IF lease = u THEN None ELSE lease
          /\ pc' = [pc EXCEPT ![u] = [r \in Ranks |-> "exited"]]
          /\ UNCHANGED <<faults, kills>>
      BY <2>2 DEF Reaped, NoWorkers, bounds
    <3>2. /\ sup'[u] = "down" /\ \A r \in Ranks : ~Live(u, r)'
          /\ \A v \in Runs : v # u => sup'[v] = sup[v] /\ pc'[v] = pc[v]
      BY <1>1, <3>1 DEF Live, Ended
    <3>3. \A v \in Runs : v # u => lease # v \/ lease' = lease
      BY <3>1
    <3>4. QED
      BY <1>1, <3>1, <3>2, <3>3 DEF WriterInv, Live
  <2>3. CASE SupervisorKilled(u)
    <3>1. /\ kills < MaxKills /\ kills' = kills + 1 /\ faults' = faults
          /\ sup' = [sup EXCEPT ![u] = "down"] /\ lease' = IF lease = u THEN None ELSE lease
          /\ pc' = pc
      BY <2>3 DEF SupervisorKilled, workers
    <3>2. \A v, w \in Runs : v = w
      BY <1>1, <3>1 DEF OneWriter
    <3>3. sup'[u] = "down" /\ kills' \in Nat
      BY <1>1, <3>1
    <3>4. QED
      BY <1>1, <3>1, <3>2, <3>3 DEF WriterInv
  <2>4. CASE ObserveFailure(u) \/ Deadline(u)
    <3>1. /\ sup[u] = "watching" /\ sup' = [sup EXCEPT ![u] = "stopping"]
          /\ UNCHANGED <<lease, pc, faults, kills>>
      BY <2>4 DEF ObserveFailure, Deadline, workers, bounds
    <3>2. \A v \in Runs : sup'[v] = "down" <=> sup[v] = "down"
      BY <1>1, <3>1
    <3>3. QED
      BY <3>1, <3>2 DEF WriterInv, Live
  <2>5. QED
    BY <1>5, <2>1, <2>2, <2>3, <2>4 DEF Supervisor
<1>6. CASE (\E s \in Steps : Damage(s)) \/ RemoveUnknown \/ UNCHANGED vars
  <2>1. UNCHANGED <<lease, sup, pc, kills, faults>>
    BY <1>6 DEF Damage, RemoveUnknown, vars, workers, bounds
  <2>2. QED
    BY <1>1, <1>2, <2>1 DEF Live
<1>7. QED
  BY <1>3, <1>4, <1>5, <1>6 DEF Next

-------------------------------------------------------------------------------
(* Versions a run will publish                                                *)

LEMMA DivMod ==
  ASSUME NEW i \in Nat \ {0}, NEW c \in Nat
  PROVE  /\ c \div i \in Nat /\ c % i \in 0..(i - 1)
         /\ c = (c \div i) * i + (c % i)
<1>1. c \div i \in Int /\ c % i \in 0..(i - 1)
  OBVIOUS
<1>2. c = (c \div i) * i + (c % i)
  OBVIOUS
<1>3. c \div i >= 0
  <2>1. CASE c \div i =< -1
    <3>1. (c \div i) * i =< (-1) * i
      BY <1>1, <2>1
    <3>2. QED
      BY <1>1, <1>2, <3>1
  <2>2. QED
    BY <1>1, <2>1
<1>4. QED
  BY <1>1, <1>2, <1>3

LEMMA DivModOf ==
  ASSUME NEW i \in Nat \ {0}, NEW c \in Nat, NEW q \in Nat, NEW m \in 0..(i - 1), c = q * i + m
  PROVE  c \div i = q /\ c % i = m
  OBVIOUS

LEMMA NextDiv ==
  ASSUME NEW i \in Nat \ {0}, NEW c \in Nat
  PROVE  /\ (c + 1) % i = 0 => (c + 1) \div i = c \div i + 1
         /\ (c + 1) % i # 0 => (c + 1) \div i = c \div i
<1> DEFINE q == c \div i
           m == c % i
<1>1. q \in Nat /\ m \in 0..(i - 1) /\ c = q * i + m
  BY DivMod
<1> HIDE DEF q, m
<1>2. CASE m + 1 = i
  <2>1. c + 1 = (q + 1) * i + 0 /\ q + 1 \in Nat /\ 0 \in 0..(i - 1) /\ c + 1 \in Nat
    BY <1>1, <1>2
  <2>2. (c + 1) \div i = q + 1 /\ (c + 1) % i = 0
    BY <2>1, DivModOf
  <2>3. QED
    BY <2>2 DEF q
<1>3. CASE m + 1 < i
  <2>1. c + 1 = q * i + (m + 1) /\ m + 1 \in 0..(i - 1) /\ c + 1 \in Nat
    BY <1>1, <1>3
  <2>2. (c + 1) \div i = q /\ (c + 1) % i = m + 1
    BY <1>1, <2>1, DivModOf
  <2>3. QED
    BY <1>1, <2>2 DEF q
<1>4. QED
  BY <1>1, <1>2, <1>3

LEMMA DivGrows ==
  ASSUME NEW i \in Nat \ {0}, NEW c \in Nat, NEW d \in Nat, c =< d
  PROVE  c \div i =< d \div i
<1> DEFINE p == c \div i
           q == d \div i
<1>1. p \in Nat /\ q \in Nat /\ p * i =< c /\ d < q * i + i
  <2>1. c % i \in 0..(i - 1) /\ d % i \in 0..(i - 1) /\ p \in Nat /\ q \in Nat
    BY DivMod
  <2>2. c = p * i + (c % i) /\ d = q * i + (d % i)
    BY DivMod
  <2> HIDE DEF p, q
  <2>3. p * i \in Int /\ q * i \in Int
    BY <2>1
  <2>4. c % i >= 0 /\ d % i < i /\ c % i \in Int /\ d % i \in Int
    BY <2>1
  <2>5. QED
    BY <2>1, <2>2, <2>3, <2>4
<1> HIDE DEF p, q
<1>2. CASE p >= q + 1
  <2>1. p * i >= (q + 1) * i
    BY <1>1, <1>2
  <2>2. (q + 1) * i = q * i + i
    BY <1>1
  <2>3. QED
    BY <1>1, <2>1, <2>2
<1>3. QED
  BY <1>1, <1>2 DEF p, q

-------------------------------------------------------------------------------
(* The steps, by what they do to a rank and to the artifacts                  *)

\* A rank comes to its collective: what it votes, what it restored, and what rank 0 did
\* to the artifacts before it voted.
Comes(u, r, vote, rec) ==
  /\ Arrives(u, r, vote, rec)
  /\ vote \in BOOLEAN /\ rec \in Recovery
  /\ pc[u][r] \in Collectives
  /\ r = 0 => pc[u][r] # "candidates"
  /\ pc[u][r] \notin {"load", "listing"} => rec = restored[u][r]
  /\ rec.mark = restored[u][r].mark
  /\ pc[u][r] # "load" => rec.start = restored[u][r].start
  /\ pc[u][r] # "listing" => rec.left = restored[u][r].left
  /\ pc[u][r] = "load" => rec.start = OrZero(Source(u, r))
  /\ pc[u][r] = "load" /\ ~vote => faults' # 0 \/ ~Loadable(u, r)
  /\ pc[u][r] = "listing" => r = 0 /\ rec.left = {s \in OrEmpty(versions) : Intact(s)}
  /\ vote /\ pc[u][r] = "schedule" => Schedulable(u, r)
  /\ vote /\ r = 0 =>
       /\ pc[u][0] = "fresh" => HighWater = None
       /\ pc[u][0] = "capacity" =>
            Required(restored[u][0].start, End(u, 0), cfg[u].interval, HighWater)
              <= MaxVersions - Cardinality(OrEmpty(versions))
       /\ pc[u][0] = "publish" => (Journaled(u) => saved[u]) /\ latest' = step[u][0]
  /\ \/ versions' = versions
     \/ versions' = OrEmpty(versions)
     \/ r = 0 /\ pc[u][0] = "publish" /\ ~vote /\ ~saved[u]
  /\ latest' = latest \/ (r = 0 /\ pc[u][0] = "publish")
  /\ damaged' = damaged /\ sup' = sup
  /\ refusal' = refusal \/ (r = 0 /\ PublishRefused(u))

\* A rank leaves its collective.
Leaves(u, r, phase, st, rec) ==
  /\ Departs(u, r, phase, st, rec)
  /\ Live(u, r) /\ pc[u][r] \in Collectives /\ rec \in Recovery
  /\ phase = NextPhase(cfg[u], Accepted(u, r), pc[u][r], step[u][r], restored[u][r].start)
  /\ st = NextStep(Accepted(u, r), pc[u][r], step[u][r], restored[u][r].start)
  /\ Accepted(u, r) \/ pc[u][r] = "rendezvous" \/ (pc[u][r] = "load" /\ cfg[u].journal)
  /\ pc[u][r] \in {"candidates", "listing"} => rec = restored[u][0]
  /\ pc[u][r] \notin {"candidates", "listing"} =>
       rec.start = restored[u][r].start /\ rec.mark = restored[u][r].mark
  /\ pc[u][r] = "load" /\ ~Accepted(u, r) =>
       rec.left = restored[u][r].left \ {Max(restored[u][r].left)}
  /\ pc[u][r] \notin {"candidates", "listing"} /\ (pc[u][r] = "load" => Accepted(u, r)) =>
       rec = restored[u][r]
  /\ saved' = IF r = 0 /\ pc[u][0] = "publish" THEN [saved EXCEPT ![u] = FALSE] ELSE saved
  /\ UNCHANGED <<versions, latest, damaged, sup, refusal>>

\* It ends: after its output, or failed.
Finishes(u, r, phase) ==
  /\ Stops(u, r, phase)
  /\ phase = "exited" => pc[u][r] = "output"
  /\ UNCHANGED <<versions, latest, damaged, sup, refusal>>

\* The workers of a run are started, or reaped.
Restarts(u, phase) ==
  /\ phase \in {"rendezvous", "exited"}
  /\ Reset(u, phase)
  /\ \A v \in Runs \ {u} : cfg'[v] = cfg[v] /\ sup'[v] = sup[v]
  /\ phase = "exited" => sup'[u] = "down"
  /\ UNCHANGED <<versions, latest, damaged, refusal>>

\* Nothing of the workers and of what they read changes, but for a version that is damaged.
Rests ==
  /\ UNCHANGED <<cfg, pc, waiting, entered, step, vetoed, restored, saved, versions, latest, refusal>>
  /\ damaged \subseteq damaged'
  /\ \A u \in Runs : sup'[u] # "down" => sup[u] # "down"

LEMMA RankComes ==
  ASSUME RunAssumption, TypeInv, faults \in Nat, NEW u \in Runs, NEW r \in Ranks,
         \/ JoinGroup(u, r) \/ AwaitRankZero(u, r) \/ Load(u, r) \/ ProposeSchedule(u, r)
         \/ Train(u, r) \/ Validate(u, r)
  PROVE  \E vote, rec : Comes(u, r, vote, rec)
<1>1. WorkersOK /\ restored[u][r] \in Recovery
  BY Unmoved DEF TypeInv, ControlInv
<1>2. UNCHANGED <<store, cfg, pc, step, saved, sup, refusal>> /\ ~waiting[u][r]
  BY DEF JoinGroup, AwaitRankZero, Load, ProposeSchedule, Train, Validate, Ready
<1>3. UNCHANGED <<versions, latest, damaged>>
  BY <1>2 DEF store
<1>4. CASE Load(u, r)
  <2> DEFINE rec == [restored[u][r] EXCEPT !.start = OrZero(Source(u, r))]
  <2>1. pc[u][r] = "load" /\ restored' = [restored EXCEPT ![u][r] = rec]
    BY <1>4 DEF Load, Ready
  <2>2. OrZero(Source(u, r)) \in Steps
    BY <2>1, SourceTyped
  <2>3. /\ rec \in Recovery /\ rec.left = restored[u][r].left /\ rec.mark = restored[u][r].mark
        /\ rec.start = OrZero(Source(u, r))
    BY <1>1, <2>2, WithStart
  <2>4. PICK vote \in Votes(Loadable(u, r), TRUE) :
          Enter(u, r, vote) /\ CountFault(vote, Loadable(u, r))
    BY <1>4 DEF Load, EnterWith
  <2>5. Loadable(u, r) \in BOOLEAN
    BY DEF Loadable
  <2>6. vote \in BOOLEAN
    BY <2>4, <2>5 DEF Votes
  <2>7. ~vote => faults' # 0 \/ ~Loadable(u, r)
    <3>1. CASE vote = Loadable(u, r)
      BY <3>1
    <3>2. CASE vote # Loadable(u, r)
      <4>1. faults' = faults + 1
        BY <2>4, <3>2 DEF CountFault
      <4>2. QED
        BY <4>1
    <3>3. QED
      BY <3>1, <3>2
  <2> HIDE DEF rec
  <2>8. Arrives(u, r, vote, rec)
    BY <1>2, <2>1, <2>4 DEF Arrives, Live, Ended
  <2>9. QED
    BY <1>2, <1>3, <2>1, <2>3, <2>6, <2>7, <2>8 DEF Comes, Collectives, Phases
<1>5. CASE ~Load(u, r)
  <2>1. restored' = restored
    BY <1>5 DEF JoinGroup, AwaitRankZero, ProposeSchedule, Train, Validate
  <2>2. /\ pc[u][r] \in Voting
        /\ r = 0 => pc[u][r] \notin {"fresh", "candidates", "capacity", "publish"}
    <3>1. CASE AwaitRankZero(u, r)
      <4>1. pc[u][r] \in {"fresh", "candidates", "capacity", "publish"} /\ r # 0
        BY <3>1 DEF AwaitRankZero, Ready
      <4>2. QED
        BY <4>1 DEF Voting, Collectives, Phases
    <3>2. QED
      BY <1>5, <3>1 DEF JoinGroup, ProposeSchedule, Train, Validate, Ready, Voting, Collectives, Phases
  <2>3. PICK vote \in BOOLEAN : Enter(u, r, vote) /\ (vote /\ pc[u][r] = "schedule" => Schedulable(u, r))
    <3>1. CASE Train(u, r) \/ Validate(u, r)
      <4>1. PICK vote \in Votes(TRUE, TRUE) : Enter(u, r, vote)
        BY <3>1 DEF Train, Validate, EnterWith
      <4>2. vote \in BOOLEAN
        BY DEF Votes
      <4>3. pc[u][r] # "schedule"
        BY <3>1 DEF Train, Validate, Ready
      <4>4. QED
        BY <4>1, <4>2, <4>3
    <3>2. CASE JoinGroup(u, r) \/ AwaitRankZero(u, r)
      <4>1. Enter(u, r, TRUE) /\ pc[u][r] # "schedule"
        BY <3>2 DEF JoinGroup, AwaitRankZero, Ready
      <4>2. QED
        BY <4>1
    <3>3. CASE ProposeSchedule(u, r)
      <4>1. Enter(u, r, Schedulable(u, r)) /\ Schedulable(u, r) \in BOOLEAN
        BY <3>3 DEF ProposeSchedule, Schedulable
      <4>2. QED
        BY <4>1
    <3>4. QED
      BY <1>5, <3>1, <3>2, <3>3
  <2>4. Arrives(u, r, vote, restored[u][r])
    BY <1>1, <1>2, <2>1, <2>2, <2>3, Unmoved DEF Arrives, Live, Ended, Voting, Collectives, Phases
  <2>5. QED
    BY <1>1, <1>2, <1>3, <2>2, <2>3, <2>4 DEF Comes, Voting
<1>6. QED
  BY <1>4, <1>5

LEMMA ZeroComes ==
  ASSUME RunAssumption, TypeInv, NEW u \in Runs,
         \/ AdmitFresh(u) \/ ReadCandidates(u) \/ AdmitCapacity(u) \/ PublishRefused(u)
         \/ PublishFailed(u) \/ ReplaceLatest(u) \/ ReplaceFailed(u)
  PROVE  \E vote, rec : Comes(u, 0, vote, rec)
<1>1. WorkersOK /\ StoreOK /\ 0 \in Ranks /\ restored[u][0] \in Recovery
  BY Unmoved DEF TypeInv, ControlInv, RunAssumption
<1>2. /\ UNCHANGED <<cfg, pc, step, saved, sup, damaged>> /\ ~waiting[u][0]
      /\ pc[u][0] \in {"fresh", "listing", "capacity", "publish"}
  BY DEF AdmitFresh, ReadCandidates, AdmitCapacity, PublishRefused, PublishFailed, ReplaceLatest,
     ReplaceFailed, Publishing, Ready, store
<1>3. CASE ReadCandidates(u)
  <2> DEFINE valid == {s \in OrEmpty(versions) : Intact(s)}
             rec == [restored[u][0] EXCEPT !.left = valid]
  <2>1. /\ pc[u][0] = "listing" /\ restored' = [restored EXCEPT ![u][0] = rec]
        /\ UNCHANGED <<versions, latest, refusal>>
    BY <1>3 DEF ReadCandidates, Ready, store
  <2>2. valid \in SUBSET Steps
    BY <1>1 DEF StoreOK, OrEmpty
  <2>3. PICK vote \in Votes(valid # {}, TRUE) : Enter(u, 0, vote)
    BY <1>3 DEF ReadCandidates, EnterWith
  <2>4. vote \in BOOLEAN
    BY <2>3 DEF Votes
  <2>5. /\ rec \in Recovery /\ rec.left = valid /\ rec.mark = restored[u][0].mark
        /\ rec.start = restored[u][0].start
    BY <1>1, <2>2, WithLeft
  <2> HIDE DEF rec
  <2>6. Arrives(u, 0, vote, rec)
    BY <1>2, <2>1, <2>3 DEF Arrives, Live, Ended
  <2>7. Comes(u, 0, vote, rec)
    BY <1>2, <2>1, <2>4, <2>5, <2>6 DEF Comes, Collectives, Phases
  <2>8. QED
    BY <2>7
<1>4. CASE ~ReadCandidates(u)
  <2>1. /\ restored' = restored /\ pc[u][0] \in {"fresh", "capacity", "publish"}
    BY <1>4 DEF AdmitFresh, AdmitCapacity, PublishRefused, PublishFailed, ReplaceLatest,
       ReplaceFailed, Publishing, Ready
  <2>2. ASSUME NEW vote \in BOOLEAN, Enter(u, 0, vote),
               vote /\ pc[u][0] = "fresh" => HighWater = None,
               vote /\ pc[u][0] = "capacity" =>
                 Required(restored[u][0].start, End(u, 0), cfg[u].interval, HighWater)
                   <= MaxVersions - Cardinality(OrEmpty(versions)),
               vote /\ pc[u][0] = "publish" => (Journaled(u) => saved[u]) /\ latest' = step[u][0],
               \/ versions' = versions \/ versions' = OrEmpty(versions)
               \/ pc[u][0] = "publish" /\ ~vote /\ ~saved[u],
               latest' = latest \/ pc[u][0] = "publish",
               refusal' = refusal \/ PublishRefused(u)
        PROVE  \E x, rec : Comes(u, 0, x, rec)
    <3>1. Arrives(u, 0, vote, restored[u][0])
      BY <1>1, <1>2, <2>1, <2>2, Unmoved DEF Arrives, Live, Ended
    <3>2. pc[u][0] \in Collectives /\ pc[u][0] \notin {"load", "listing", "candidates", "schedule"}
      BY <2>1 DEF Collectives, Phases
    <3>3. Comes(u, 0, vote, restored[u][0])
      BY <1>1, <1>2, <2>2, <3>1, <3>2 DEF Comes
    <3>4. QED
      BY <3>3
  <2>3. CASE AdmitFresh(u)
    <3>1. /\ pc[u][0] = "fresh" /\ latest' = latest /\ refusal' = refusal
          /\ \/ versions' = OrEmpty(versions) /\ Enter(u, 0, HighWater = None)
             \/ versions' = versions /\ Enter(u, 0, FALSE)
      BY <2>3 DEF AdmitFresh, Ready
    <3>2. (HighWater = None) \in BOOLEAN
      OBVIOUS
    <3>3. CASE versions' = OrEmpty(versions) /\ Enter(u, 0, HighWater = None)
      BY <2>2, <3>1, <3>2, <3>3
    <3>4. CASE versions' = versions /\ Enter(u, 0, FALSE)
      BY <2>2, <3>1, <3>4
    <3>5. QED
      BY <3>1, <3>3, <3>4
  <2>4. CASE AdmitCapacity(u)
    <3> DEFINE check == Required(restored[u][0].start, End(u, 0), cfg[u].interval, HighWater)
                          <= MaxVersions - Cardinality(OrEmpty(versions))
    <3>1. PICK vote \in Votes(check, TRUE) : Enter(u, 0, vote)
      BY <2>4 DEF AdmitCapacity, EnterWith
    <3>2. check \in BOOLEAN
      OBVIOUS
    <3>3. vote \in BOOLEAN /\ (vote => check)
      BY <3>1, <3>2, VotesSay DEF Votes
    <3>4. pc[u][0] = "capacity" /\ UNCHANGED <<versions, latest, refusal>>
      BY <2>4 DEF AdmitCapacity, Ready, store
    <3>5. QED
      BY <2>2, <3>1, <3>3, <3>4
  <2>5. CASE PublishRefused(u) \/ PublishFailed(u) \/ ReplaceFailed(u)
    <3>1. pc[u][0] = "publish" /\ Enter(u, 0, FALSE)
      BY <2>5 DEF PublishRefused, PublishFailed, ReplaceFailed, Publishing, Ready
    <3>2. /\ versions' = versions \/ ~saved[u]
          /\ refusal' = refusal \/ PublishRefused(u)
      BY <2>5 DEF PublishRefused, PublishFailed, ReplaceFailed, store
    <3>3. QED
      BY <2>2, <3>1, <3>2
  <2>6. CASE ReplaceLatest(u)
    <3>1. PICK vote \in Votes(TRUE, TRUE) : Enter(u, 0, vote)
      BY <2>6 DEF ReplaceLatest, EnterWith
    <3>2. vote \in BOOLEAN
      BY <3>1 DEF Votes
    <3>3. /\ pc[u][0] = "publish" /\ UNCHANGED <<versions, refusal>>
          /\ Journaled(u) => saved[u]
          /\ latest' = step[u][0]
      BY <2>6 DEF ReplaceLatest, Publishing, Ready
    <3>4. QED
      BY <2>2, <3>1, <3>2, <3>3
  <2>7. QED
    BY <1>4, <2>3, <2>4, <2>5, <2>6
<1>5. QED
  BY <1>3, <1>4

LEMMA RankLeaves ==
  ASSUME RunAssumption, TypeInv, NEW u \in Runs, NEW r \in Ranks,
         \/ LeaveGroup(u, r) \/ LeaveFresh(u, r) \/ LeaveCandidates(u, r) \/ LeaveLoad(u, r)
         \/ LoadRejected(u, r) \/ LeaveSchedule(u, r) \/ LeaveCapacity(u, r) \/ LeaveTrain(u, r)
         \/ LeaveValidate(u, r) \/ LeavePublish(u, r)
  PROVE  \E phase, st, rec : Leaves(u, r, phase, st, rec)
<1>1. /\ WorkersOK /\ 0 \in Ranks /\ restored[u][r] \in Recovery /\ restored[u][0] \in Recovery
      /\ RankInv(u, r)
  BY Unmoved DEF TypeInv, ControlInv, RunAssumption
<1>2. /\ UNCHANGED <<store, cfg, entered, vetoed, sup, refusal>> /\ waiting[u][r] /\ Arrived(u, r)
      /\ pc[u][r] \in Collectives /\ Live(u, r)
  <2>1. /\ UNCHANGED <<store, cfg, entered, vetoed, sup, refusal>> /\ waiting[u][r] /\ Arrived(u, r)
    BY DEF LeaveGroup, LeaveFresh, LeaveCandidates, LeaveLoad, LoadRejected, LeaveSchedule,
       LeaveCapacity, LeaveTrain, LeaveValidate, LeavePublish, Leaving
  <2>2. pc[u][r] \in Collectives
    BY <1>1, <2>1 DEF RankInv, LocalInv
  <2>3. QED
    BY <2>1, <2>2 DEF Collectives, Live, Ended
<1>3. UNCHANGED <<versions, latest, damaged, sup, refusal>>
  BY <1>2 DEF store
<1>4. CASE LeaveCandidates(u, r)
  <2>1. /\ pc[u][r] \in {"candidates", "listing"} /\ Accepted(u, r)
        /\ Move(u, r, "load") /\ restored' = [restored EXCEPT ![u][r] = restored[u][0]]
        /\ UNCHANGED <<step, saved>>
    BY <1>4 DEF LeaveCandidates, Leaving
  <2>2. Departs(u, r, "load", step[u][r], restored[u][0])
    BY <1>1, <1>2, <2>1, Unmoved DEF Departs
  <2>3. /\ "load" = NextPhase(cfg[u], Accepted(u, r), pc[u][r], step[u][r], restored[u][r].start)
        /\ step[u][r] = NextStep(Accepted(u, r), pc[u][r], step[u][r], restored[u][r].start)
    BY <2>1 DEF NextPhase, NextStep
  <2>4. saved' = IF r = 0 /\ pc[u][0] = "publish" THEN [saved EXCEPT ![u] = FALSE] ELSE saved
    BY <2>1
  <2>5. Leaves(u, r, "load", step[u][r], restored[u][0])
    BY <1>1, <1>2, <1>3, <2>1, <2>2, <2>3, <2>4 DEF Leaves
  <2>6. QED
    BY <2>5
<1>5. CASE LoadRejected(u, r)
  <2> DEFINE left == restored[u][r].left \ {Source(u, r)}
             rec == [restored[u][r] EXCEPT !.left = left]
  <2>1. /\ pc[u][r] = "load" /\ ~Accepted(u, r) /\ cfg[u].journal /\ Move(u, r, "load")
        /\ restored' = [restored EXCEPT ![u][r] = rec]
        /\ UNCHANGED <<step, saved>>
    BY <1>5 DEF LoadRejected, Leaving
  <2>2. left \in SUBSET Steps /\ left = restored[u][r].left \ {Max(restored[u][r].left)}
    BY <1>1, <2>1 DEF Recovery, Source
  <2>3. /\ rec \in Recovery /\ rec.left = left /\ rec.mark = restored[u][r].mark
        /\ rec.start = restored[u][r].start
    BY <1>1, <2>2, WithLeft
  <2> HIDE DEF rec, left
  <2>4. Departs(u, r, "load", step[u][r], rec)
    BY <1>1, <1>2, <2>1, Unmoved DEF Departs
  <2>5. /\ "load" = NextPhase(cfg[u], Accepted(u, r), pc[u][r], step[u][r], restored[u][r].start)
        /\ step[u][r] = NextStep(Accepted(u, r), pc[u][r], step[u][r], restored[u][r].start)
    BY <2>1 DEF NextPhase, NextStep
  <2>6. saved' = IF r = 0 /\ pc[u][0] = "publish" THEN [saved EXCEPT ![u] = FALSE] ELSE saved
    BY <2>1
  <2>7. Leaves(u, r, "load", step[u][r], rec)
    BY <1>2, <1>3, <2>1, <2>2, <2>3, <2>4, <2>5, <2>6 DEF Leaves
  <2>8. QED
    BY <2>7
<1>6. CASE ~LeaveCandidates(u, r) /\ ~LoadRejected(u, r)
  <2>1. restored' = restored
    BY <1>6 DEF LeaveGroup, LeaveFresh, LeaveLoad, LeaveSchedule, LeaveCapacity, LeaveTrain,
       LeaveValidate, LeavePublish
  <2>2. pc[u][r] \notin {"candidates", "listing"}
    BY <1>6 DEF LeaveGroup, LeaveFresh, LeaveLoad, LeaveSchedule, LeaveCapacity, LeaveTrain,
       LeaveValidate, LeavePublish, Leaving
  <2>3. Accepted(u, r) \/ pc[u][r] = "rendezvous"
    BY <1>6 DEF LeaveGroup, LeaveFresh, LeaveLoad, LeaveSchedule, LeaveCapacity, LeaveTrain,
       LeaveValidate, LeavePublish, Leaving
  <2> DEFINE phase == NextPhase(cfg[u], Accepted(u, r), pc[u][r], step[u][r], restored[u][r].start)
             st == NextStep(Accepted(u, r), pc[u][r], step[u][r], restored[u][r].start)
  <2>4. Move(u, r, phase)
    <3>1. CASE LeaveGroup(u, r)
      BY <3>1 DEF LeaveGroup, Leaving, NextPhase
    <3>2. CASE LeaveFresh(u, r)
      BY <3>2 DEF LeaveFresh, Leaving, NextPhase
    <3>3. CASE LeaveLoad(u, r)
      BY <3>3 DEF LeaveLoad, Leaving, NextPhase
    <3>4. CASE LeaveSchedule(u, r)
      BY <3>4 DEF LeaveSchedule, Leaving, NextPhase
    <3>5. CASE LeaveCapacity(u, r)
      BY <3>5 DEF LeaveCapacity, Leaving, NextPhase
    <3>6. CASE LeaveTrain(u, r)
      BY <3>6 DEF LeaveTrain, Leaving, NextPhase, SaveDue, End
    <3>7. CASE LeaveValidate(u, r)
      BY <3>7 DEF LeaveValidate, Leaving, NextPhase
    <3>8. CASE LeavePublish(u, r)
      BY <3>8 DEF LeavePublish, Leaving, NextPhase, End
    <3>9. QED
      BY <1>6, <3>1, <3>2, <3>3, <3>4, <3>5, <3>6, <3>7, <3>8
  <2>5. step' = [step EXCEPT ![u][r] = st]
    <3>1. CASE LeaveLoad(u, r)
      BY <3>1 DEF LeaveLoad, Leaving, NextStep
    <3>2. CASE LeaveTrain(u, r)
      BY <3>2 DEF LeaveTrain, Leaving, NextStep
    <3>3. CASE ~LeaveLoad(u, r) /\ ~LeaveTrain(u, r)
      <4>1. pc[u][r] \notin {"load", "train"} /\ step' = step
        BY <1>6, <3>3 DEF LeaveGroup, LeaveFresh, LeaveSchedule, LeaveCapacity, LeaveValidate,
           LeavePublish, Leaving
      <4>2. st = step[u][r]
        BY <4>1 DEF NextStep
      <4>3. QED
        BY <1>1, <4>1, <4>2, Unmoved
    <3>4. QED
      BY <3>1, <3>2, <3>3
  <2>6. saved' = IF r = 0 /\ pc[u][0] = "publish" THEN [saved EXCEPT ![u] = FALSE] ELSE saved
    <3>1. CASE LeavePublish(u, r)
      <4>1. /\ pc[u][r] = "publish"
            /\ saved' = IF r = 0 THEN [saved EXCEPT ![u] = FALSE] ELSE saved
        BY <3>1 DEF LeavePublish, Leaving
      <4>2. QED
        BY <4>1
    <3>2. CASE ~LeavePublish(u, r)
      <4>1. pc[u][r] # "publish" /\ saved' = saved
        BY <1>6, <3>2 DEF LeaveGroup, LeaveFresh, LeaveLoad, LeaveSchedule, LeaveCapacity, LeaveTrain,
           LeaveValidate, Leaving
      <4>2. QED
        BY <4>1
    <3>3. QED
      BY <3>1, <3>2
  <2>7. Departs(u, r, phase, st, restored[u][r])
    BY <1>1, <1>2, <2>1, <2>4, <2>5, Unmoved DEF Departs
  <2>8. Leaves(u, r, phase, st, restored[u][r])
    BY <1>1, <1>2, <1>3, <2>2, <2>3, <2>6, <2>7 DEF Leaves
  <2>9. QED
    BY <2>8
<1>7. QED
  BY <1>4, <1>5, <1>6

LEMMA RankFinishes ==
  ASSUME NEW u \in Runs, NEW r \in Ranks,
         \/ LoadExhausted(u, r) \/ Refused(u, r) \/ WriteOutput(u, r) \/ PeerLost(u, r)
         \/ WorkerLost(u, r) \/ Terminate(u, r)
  PROVE  \E phase : Finishes(u, r, phase)
<1>1. /\ UNCHANGED <<cfg, entered, vetoed, step, restored, saved, sup, refusal>>
      /\ UNCHANGED <<versions, latest, damaged>>
  BY DEF LoadExhausted, Refused, WriteOutput, PeerLost, WorkerLost, Terminate, Killed, store
<1>2. \/ Move(u, r, "failed")
      \/ Move(u, r, "exited") /\ pc[u][r] = "output"
  BY DEF LoadExhausted, Refused, WriteOutput, PeerLost, WorkerLost, Terminate, Killed
<1>3. PICK phase \in Ended : Move(u, r, phase) /\ (phase = "exited" => pc[u][r] = "output")
  BY <1>2 DEF Ended
<1>4. Finishes(u, r, phase)
  BY <1>1, <1>3 DEF Finishes, Stops
<1>5. QED
  BY <1>4

\* Every step is one of these.
LEMMA StepShapes ==
  ASSUME RunAssumption, TypeInv, faults \in Nat, [Next]_vars
  PROVE  \/ \E u \in Runs, r \in Ranks : \E vote, rec : Comes(u, r, vote, rec)
         \/ \E u \in Runs, r \in Ranks : \E phase, st, rec : Leaves(u, r, phase, st, rec)
         \/ \E u \in Runs, r \in Ranks : \E phase : Finishes(u, r, phase)
         \/ \E u \in Runs : ReadMark(u) \/ PublishJournal(u)
         \/ \E u \in Runs : \E phase : Restarts(u, phase)
         \/ Rests
<1>1. ASSUME NEW u \in Runs, RankZero(u)
      PROVE  \/ \E vote, rec : Comes(u, 0, vote, rec)
             \/ ReadMark(u) \/ PublishJournal(u)
  BY <1>1, ZeroComes DEF RankZero
<1>2. ASSUME NEW u \in Runs, NEW r \in Ranks, Rank(u, r) \/ WorkerLost(u, r) \/ Terminate(u, r)
      PROVE  \/ \E vote, rec : Comes(u, r, vote, rec)
             \/ \E phase, st, rec : Leaves(u, r, phase, st, rec)
             \/ \E phase : Finishes(u, r, phase)
  <2>1. CASE \/ JoinGroup(u, r) \/ AwaitRankZero(u, r) \/ Load(u, r) \/ ProposeSchedule(u, r)
             \/ Train(u, r) \/ Validate(u, r)
    BY <2>1, RankComes
  <2>2. CASE \/ LeaveGroup(u, r) \/ LeaveFresh(u, r) \/ LeaveCandidates(u, r) \/ LeaveLoad(u, r)
             \/ LoadRejected(u, r) \/ LeaveSchedule(u, r) \/ LeaveCapacity(u, r) \/ LeaveTrain(u, r)
             \/ LeaveValidate(u, r) \/ LeavePublish(u, r)
    BY <2>2, RankLeaves
  <2>3. CASE \/ LoadExhausted(u, r) \/ Refused(u, r) \/ WriteOutput(u, r) \/ PeerLost(u, r)
             \/ WorkerLost(u, r) \/ Terminate(u, r)
    BY <2>3, RankFinishes
  <2>4. QED
    BY <1>2, <2>1, <2>2, <2>3 DEF Rank
<1>3. ASSUME NEW u \in Runs, Supervisor(u)
      PROVE  Rests \/ \E phase : Restarts(u, phase)
  <2>1. /\ sup \in [Runs -> {"down", "watching", "stopping"}]
        /\ cfg \in [Runs -> Configs \union {None}]
    BY DEF TypeInv, StoreOK
  <2>2. ASSUME NEW c \in Configs, Launch(u, c) PROVE Restarts(u, "rendezvous")
    <3>1. /\ Reset(u, "rendezvous") /\ UNCHANGED <<versions, latest, damaged, refusal>>
          /\ cfg' = [cfg EXCEPT ![u] = c] /\ sup' = [sup EXCEPT ![u] = "watching"]
      BY <2>2 DEF Launch, Reset, store
    <3>2. QED
      BY <2>1, <3>1 DEF Restarts
  <2>3. CASE Reaped(u)
    <3>1. /\ Reset(u, "exited") /\ UNCHANGED <<versions, latest, damaged, refusal>>
          /\ cfg' = cfg /\ sup' = [sup EXCEPT ![u] = "down"]
      BY <2>3 DEF Reaped, NoWorkers, Reset, store
    <3>2. Restarts(u, "exited")
      BY <2>1, <3>1 DEF Restarts
    <3>3. QED
      BY <3>2
  <2>4. CASE ObserveFailure(u) \/ Deadline(u) \/ SupervisorKilled(u)
    <3>1. /\ UNCHANGED <<cfg, workers, store, refusal>> /\ sup[u] # "down"
          /\ sup' = [sup EXCEPT ![u] = "stopping"] \/ sup' = [sup EXCEPT ![u] = "down"]
      BY <2>4 DEF ObserveFailure, Deadline, SupervisorKilled
    <3>2. \A v \in Runs : sup'[v] # "down" => sup[v] # "down"
      BY <2>1, <3>1
    <3>3. QED
      BY <3>1, <3>2 DEF Rests, workers, store
  <2>5. QED
    BY <1>3, <2>2, <2>3, <2>4 DEF Supervisor
<1>4. CASE (\E s \in Steps : Damage(s)) \/ RemoveUnknown \/ UNCHANGED vars
  BY <1>4 DEF Damage, RemoveUnknown, vars, workers, store, Rests
<1>5. 0 \in Ranks
  BY DEF RunAssumption
<1>6. QED
  BY <1>1, <1>2, <1>3, <1>4, <1>5 DEF Next

\* Versions to publish beyond a step: one for each multiple of the interval up to the end,
\* and one for an end that is none.
Slots(cutoff, end, interval) ==
  IF end =< cutoff THEN 0
  ELSE IF interval = None THEN 1
  ELSE end \div interval - cutoff \div interval + (IF end % interval # 0 THEN 1 ELSE 0)
Cutoff(st, high) == IF st > OrZero(high) THEN st ELSE OrZero(high)
Boundary(st, end, interval) == st = end \/ (interval # None /\ st % interval = 0)

LEMMA RequiredSlots ==
  ASSUME NEW st, NEW end, NEW interval, NEW high
  PROVE  Required(st, end, interval, high) = Slots(Cutoff(st, high), end, interval)
  BY DEF Required, Slots, Cutoff

LEMMA SlotsStep ==
  ASSUME RunAssumption, NEW c \in Nat, NEW end \in Nat, c < end, NEW interval \in Intervals
  PROVE  /\ Slots(c + 1, end, interval) \in Nat
         /\ Slots(c, end, interval) =
              Slots(c + 1, end, interval) + (IF Boundary(c + 1, end, interval) THEN 1 ELSE 0)
<1>1. interval = None \/ interval \in Nat \ {0}
  BY DEF RunAssumption
<1>2. None \notin Nat
  BY DEF RunAssumption
<1>3. CASE interval = None
  BY <1>3 DEF Slots, Boundary
<1>4. CASE interval \in Nat \ {0}
  <2> DEFINE q == c \div interval
             n == (c + 1) \div interval
             e == end \div interval
             x == IF end % interval # 0 THEN 1 ELSE 0
  <2>1. interval # None
    BY <1>2, <1>4
  <2>2. /\ (c + 1) % interval = 0 => n = q + 1
        /\ (c + 1) % interval # 0 => n = q
    BY <1>4, NextDiv
  <2>3. q \in Nat /\ n \in Nat /\ e \in Nat
    <3>1. q \in Nat /\ e \in Nat
      BY <1>4, DivMod
    <3>2. c + 1 \in Nat
      OBVIOUS
    <3>3. n \in Nat
      BY <1>4, <3>2, DivMod
    <3>4. QED
      BY <3>1, <3>3
  <2>4. n =< e
    BY <1>4, DivGrows
  <2>5. Slots(c, end, interval) = e - q + x
    BY <2>1 DEF Slots
  <2>6. CASE c + 1 = end
    <3>1. Slots(c + 1, end, interval) = 0 /\ e = n /\ x = IF (c + 1) % interval # 0 THEN 1 ELSE 0
      BY <2>6 DEF Slots
    <3>2. Boundary(c + 1, end, interval)
      BY <2>6 DEF Boundary
    <3> HIDE DEF q, n, e, x
    <3>3. QED
      BY <2>2, <2>3, <2>5, <3>1, <3>2
  <2>7. CASE c + 1 < end
    <3>1. Slots(c + 1, end, interval) = e - n + x
      BY <2>1, <2>7 DEF Slots
    <3>2. Boundary(c + 1, end, interval) <=> (c + 1) % interval = 0
      BY <2>1, <2>7 DEF Boundary
    <3>3. x \in Nat
      OBVIOUS
    <3> HIDE DEF q, n, e, x
    <3>4. QED
      BY <2>2, <2>3, <2>4, <2>5, <3>1, <3>2, <3>3
  <2>8. QED
    BY <2>6, <2>7
<1>5. QED
  BY <1>1, <1>3, <1>4

-------------------------------------------------------------------------------
(* Admission                                                                  *)

\* The room left in the journal, and the versions the run has still to publish.
Free(v) == MaxVersions - Cardinality(OrEmpty(v))
Need(c, rec, st, high) == Slots(Cutoff(st, high), rec.start + c.steps, c.interval)
SavePoint(c, rec, st) == Boundary(st, rec.start + c.steps, c.interval)

\* Rank 0 of a run that journals, in its phase: what it recorded is what the journal
\* holds until its own first version; from its admission on there is a slot for each
\* version to come, and the next one advances.  A rank in a collective that was refused
\* publishes nothing any more.
WriteLocal(c, p, w, e, st, rec, V, sv, high, free) ==
  LET mark == rec.mark
      going == w => e \notin V
      end == rec.start + c.steps
  IN
  /\ mark # None => c.resume
  /\ p \in {"rendezvous", "fresh", "candidates"} => mark = None
  /\ p \in {"listing", "load", "schedule", "capacity"} => high = mark
  /\ sv => p = "publish"
  /\ p \in {"validate", "publish"} => st >= 1 /\ SavePoint(c, rec, st)
  /\ going /\ p = "fresh" /\ w => high = None
  /\ going /\ p = "schedule" /\ w => end > OrZero(mark)
  /\ going /\ p \in {"capacity", "train", "validate", "publish"} => end > OrZero(mark)
  /\ going /\ p = "capacity" /\ w => Need(c, rec, st, high) =< free
  /\ going /\ p = "train" =>
       /\ Need(c, rec, st, high) =< free
       /\ high = mark \/ (high # None /\ high =< st)
  /\ going /\ p \in {"validate", "publish"} /\ ~sv =>
       /\ Need(c, rec, st - 1, high) =< free
       /\ high = mark \/ high = None \/ high < st
  /\ going /\ sv => high = st /\ Need(c, rec, st, high) =< free
  /\ going /\ p = "publish" /\ w => sv \/ (mark # None /\ st =< mark)

WriteInv(u) ==
  Live(u, 0) /\ cfg[u].journal =>
    WriteLocal(cfg[u], pc[u][0], waiting[u][0], entered[u][0], step[u][0], restored[u][0],
               vetoed[u], saved[u], HighWater, Free(versions))

AdmissionInv == refusal = "none" /\ \A u \in Runs : WriteInv(u)

\* An arrival: the vote stands for what the rank has checked.
WriteVote(c, p, e, st, rec, rec2, V, W, sv, high, free, high2, free2, vote) ==
  /\ c \in Configs /\ p \in Collectives /\ p # "candidates" /\ e \in Nat /\ st \in Steps
  /\ rec \in Recovery /\ rec2 \in Recovery /\ sv \in BOOLEAN /\ vote \in BOOLEAN
  /\ WriteLocal(c, p, FALSE, e, st, rec, V, sv, high, free)
  /\ ~vote => e + 1 \in W
  /\ rec2.mark = rec.mark /\ (p # "load" => rec2.start = rec.start)
  /\ \/ high2 = high /\ free2 = free
     \/ p = "publish" /\ ~vote /\ ~sv
  /\ vote /\ p = "fresh" => high = None
  /\ vote /\ p = "schedule" => rec.start + c.steps > OrZero(rec.mark)
  /\ vote /\ p = "capacity" => Need(c, rec, st, high) =< free
  /\ vote /\ p = "publish" => sv \/ (rec.mark # None /\ st =< rec.mark)

LEMMA WriteArrives ==
  ASSUME RunAssumption, NEW c, NEW p, NEW e, NEW st, NEW rec, NEW rec2, NEW V, NEW W, NEW sv, NEW high,
         NEW free, NEW high2, NEW free2, NEW vote,
         WriteVote(c, p, e, st, rec, rec2, V, W, sv, high, free, high2, free2, vote)
  PROVE  WriteLocal(c, p, TRUE, e + 1, st, rec2, W, sv, high2, free2)
<1>1. CASE p = "load"
  BY <1>1 DEF WriteLocal, WriteVote
<1>2. CASE p # "load"
  <2>1. /\ rec2.start = rec.start
        /\ \A x, y : Need(c, rec2, x, y) = Need(c, rec, x, y)
        /\ \A x : SavePoint(c, rec2, x) = SavePoint(c, rec, x)
    BY <1>2 DEF Need, SavePoint, WriteVote
  <2>2. CASE ~vote
    BY <1>2, <2>1, <2>2 DEF WriteLocal, WriteVote
  <2>3. CASE vote
    BY <1>2, <2>1, <2>3 DEF WriteLocal, WriteVote
  <2>4. QED
    BY <2>2, <2>3 DEF WriteVote
<1>3. QED
  BY <1>1, <1>2

LEMMA NumbersTyped ==
  ASSUME RunAssumption, NEW c \in Configs, NEW rec \in Recovery, NEW st \in Steps,
         NEW high \in Steps \union {None}
  PROVE  /\ st \in Nat /\ OrZero(high) \in Nat /\ rec.start + c.steps \in Nat
         /\ c.interval \in Intervals
<1>1. st \in Nat /\ rec.start \in Nat
  BY DEF Recovery, Steps, RunAssumption
<1>2. OrZero(high) \in Nat
  BY DEF OrZero, Steps, RunAssumption
<1>3. c.steps \in Nat /\ c.interval \in Intervals
  BY DEF Configs, RunAssumption
<1>4. QED
  BY <1>1, <1>2, <1>3

\* The update of a step: a step that is no boundary needs no slot.
LEMMA NeedStep ==
  ASSUME RunAssumption, NEW c \in Configs, NEW rec \in Recovery, NEW st \in Steps,
         NEW high \in Steps \union {None}, st < rec.start + c.steps
  PROVE  /\ Need(c, rec, st + 1 - 1, high) = Need(c, rec, st, high)
         /\ ~SavePoint(c, rec, st + 1) => Need(c, rec, st + 1, high) = Need(c, rec, st, high)
<1> DEFINE end == rec.start + c.steps
<1>1. /\ st \in Nat /\ OrZero(high) \in Nat /\ end \in Nat /\ c.interval \in Intervals
  BY NumbersTyped
<1>2. st + 1 - 1 = st
  BY <1>1
<1>3. ASSUME ~SavePoint(c, rec, st + 1) PROVE Need(c, rec, st + 1, high) = Need(c, rec, st, high)
  <2>1. CASE st >= OrZero(high)
    <3>1. Cutoff(st, high) = st /\ Cutoff(st + 1, high) = st + 1
      BY <1>1, <2>1 DEF Cutoff
    <3>2. /\ Slots(st + 1, end, c.interval) \in Nat
          /\ Slots(st, end, c.interval) = Slots(st + 1, end, c.interval) + 0
      BY <1>1, <1>3, SlotsStep DEF SavePoint
    <3>3. QED
      BY <3>1, <3>2 DEF Need
  <2>2. CASE st < OrZero(high)
    <3>1. Cutoff(st, high) = Cutoff(st + 1, high)
      BY <1>1, <2>2 DEF Cutoff
    <3>2. QED
      BY <3>1 DEF Need
  <2>3. QED
    BY <1>1, <2>1, <2>2
<1>4. QED
  BY <1>2, <1>3

\* A version that the journal lacks takes one slot of those that were needed.
LEMMA NeedSave ==
  ASSUME RunAssumption, NEW c \in Configs, NEW rec \in Recovery, NEW st \in Steps,
         NEW high \in Steps \union {None}, st >= 1, st =< rec.start + c.steps, SavePoint(c, rec, st),
         high = None \/ high < st
  PROVE  /\ Need(c, rec, st, st) \in Nat
         /\ Need(c, rec, st - 1, high) = Need(c, rec, st, st) + 1
<1> DEFINE end == rec.start + c.steps
           before == st - 1
<1>1. /\ st \in Nat /\ OrZero(high) \in Nat /\ OrZero(high) =< before /\ end \in Nat /\ c.interval \in Intervals
      /\ before \in Nat /\ before + 1 = st /\ before < end /\ st # None
  <2>1. /\ st \in Nat /\ OrZero(high) \in Nat /\ end \in Nat /\ c.interval \in Intervals
    BY NumbersTyped
  <2>2. OrZero(high) =< before /\ st # None
    BY <2>1 DEF OrZero, RunAssumption
  <2>3. QED
    BY <2>1, <2>2
<1>2. Cutoff(before, high) = before
  BY <1>1 DEF Cutoff
<1>3. Cutoff(st, st) = st
  BY <1>1 DEF Cutoff, OrZero
<1> HIDE DEF before, end
<1>4. Boundary(before + 1, end, c.interval)
  BY <1>1 DEF SavePoint, end
<1>5. /\ Slots(before + 1, end, c.interval) \in Nat
      /\ Slots(before, end, c.interval) = Slots(before + 1, end, c.interval) + 1
  BY <1>1, <1>4, SlotsStep
<1>6. QED
  BY <1>1, <1>2, <1>3, <1>5 DEF Need, end, before

\* A departure: what the vote accepted holds in the next phase.
WriteGoes(c, p, e, st, rec, rec2, V, sv, sv2, high, free, ok) ==
  /\ c \in Configs /\ c.journal /\ p \in Collectives /\ p # "candidates" /\ e \in Nat /\ st \in Steps
  /\ rec \in Recovery /\ rec2 \in Recovery /\ sv \in BOOLEAN /\ sv2 \in BOOLEAN
  /\ high \in Steps \union {None} /\ free \in Int
  /\ WriteLocal(c, p, TRUE, e, st, rec, V, sv, high, free)
  /\ e \notin V \/ p \in {"rendezvous", "load"}
  /\ rec2.mark = rec.mark /\ rec2.start = rec.start
  /\ sv2 <=> (sv /\ p # "publish")
  /\ p = "train" => st < rec.start + c.steps
  /\ rec.mark # None => high # None /\ rec.mark =< high

LEMMA WriteDeparts ==
  ASSUME RunAssumption, NEW c, NEW p, NEW e, NEW st, NEW rec, NEW rec2, NEW V, NEW sv, NEW sv2,
         NEW high, NEW free, NEW ok, WriteGoes(c, p, e, st, rec, rec2, V, sv, sv2, high, free, ok)
  PROVE  WriteLocal(c, NextPhase(c, ok, p, st, rec.start), FALSE, e, NextStep(ok, p, st, rec.start),
                    rec2, V, sv2, high, free)
<1> USE DEF WriteGoes
<1> DEFINE p2 == NextPhase(c, ok, p, st, rec.start)
           st2 == NextStep(ok, p, st, rec.start)
<1>1. /\ \A x, y : Need(c, rec2, x, y) = Need(c, rec, x, y)
      /\ \A x : SavePoint(c, rec2, x) = SavePoint(c, rec, x)
  BY DEF Need, SavePoint
<1>2. /\ st \in Nat /\ rec.start + c.steps \in Nat /\ None \notin Nat
      /\ high \in Nat \union {None} /\ rec.mark \in Nat \union {None}
  BY NumbersTyped DEF RunAssumption, Steps, Recovery
<1>3. CASE p = "rendezvous"
  <2>1. p2 \in {"candidates", "fresh"} /\ ~sv /\ ~sv2 /\ rec.mark = None
    BY <1>3 DEF NextPhase, AfterRendezvous, WriteLocal
  <2> HIDE DEF p2, st2
  <2>2. WriteLocal(c, p2, FALSE, e, st2, rec2, V, sv2, high, free)
    BY <2>1 DEF WriteLocal
  <2>3. QED
    BY <2>2 DEF p2, st2
<1>4. CASE p = "fresh"
  <2>1. p2 = "schedule" /\ ~sv /\ ~sv2 /\ rec.mark = None /\ high = None
    BY <1>4 DEF NextPhase, WriteLocal
  <2> HIDE DEF p2, st2
  <2>2. WriteLocal(c, p2, FALSE, e, st2, rec2, V, sv2, high, free)
    BY <2>1 DEF WriteLocal
  <2>3. QED
    BY <2>2 DEF p2, st2
<1>5. CASE p \in {"listing", "load"}
  <2>1. /\ p2 \in {"load", "schedule"} /\ ~sv /\ ~sv2 /\ high = rec.mark
        /\ rec.mark # None => c.resume
    BY <1>5 DEF NextPhase, WriteLocal
  <2> HIDE DEF p2, st2
  <2>2. WriteLocal(c, p2, FALSE, e, st2, rec2, V, sv2, high, free)
    BY <2>1 DEF WriteLocal
  <2>3. QED
    BY <2>2 DEF p2, st2
<1>6. CASE p = "schedule"
  <2>1. /\ p2 = "capacity" /\ ~sv /\ ~sv2 /\ high = rec.mark /\ rec.start + c.steps > OrZero(rec.mark)
        /\ rec.mark # None => c.resume
    BY <1>6 DEF NextPhase, WriteLocal
  <2> HIDE DEF p2, st2
  <2>2. WriteLocal(c, p2, FALSE, e, st2, rec2, V, sv2, high, free)
    BY <2>1 DEF WriteLocal
  <2>3. QED
    BY <2>2 DEF p2, st2
<1>7. CASE p = "capacity"
  <2>1. /\ p2 = "train" /\ st2 = st /\ ~sv /\ ~sv2 /\ high = rec.mark /\ rec.start + c.steps > OrZero(rec.mark)
        /\ Need(c, rec, st, high) =< free
        /\ rec.mark # None => c.resume
    BY <1>7 DEF NextPhase, NextStep, WriteLocal
  <2> HIDE DEF p2, st2
  <2>2. WriteLocal(c, p2, FALSE, e, st2, rec2, V, sv2, high, free)
    BY <1>1, <2>1 DEF WriteLocal
  <2>3. QED
    BY <2>2 DEF p2, st2
<1>8. CASE p = "train"
  <2>1. /\ st2 = st + 1 /\ ~sv /\ ~sv2 /\ rec.start + c.steps > OrZero(rec.mark)
        /\ Need(c, rec, st, high) =< free /\ (high = rec.mark \/ (high # None /\ high =< st))
        /\ rec.mark # None => c.resume
    BY <1>8 DEF NextStep, WriteLocal
  <2>2. /\ SavePoint(c, rec, st + 1) => p2 = "validate"
        /\ ~SavePoint(c, rec, st + 1) => p2 = "train"
    BY <1>8 DEF NextPhase, SavePoint, Boundary
  <2>3. /\ Need(c, rec, st + 1 - 1, high) = Need(c, rec, st, high)
        /\ ~SavePoint(c, rec, st + 1) => Need(c, rec, st + 1, high) = Need(c, rec, st, high)
    BY <1>8, NeedStep
  <2> HIDE DEF p2, st2
  <2>4. CASE SavePoint(c, rec, st + 1)
    <3>1. high = rec.mark \/ high = None \/ high < st + 1
      BY <1>2, <2>1
    <3>2. st + 1 >= 1
      BY <1>2
    <3> DEFINE n == st + 1
    <3>3. WriteLocal(c, "validate", FALSE, e, n, rec2, V, FALSE, high, free)
      <4>1. Need(c, rec, n - 1, high) =< free
        <5>1. n - 1 = st
          BY <1>2
        <5> HIDE DEF n
        <5>2. QED
          BY <2>1, <5>1
      <4>2. SavePoint(c, rec, n) /\ n >= 1 /\ (high = rec.mark \/ high = None \/ high < n)
        BY <2>4, <3>1, <3>2
      <4> HIDE DEF n
      <4>3. QED
        BY <1>1, <2>1, <4>1, <4>2 DEF WriteLocal
    <3>4. QED
      BY <2>1, <2>2, <2>4, <3>3 DEF p2, st2
  <2>5. CASE ~SavePoint(c, rec, st + 1)
    <3>1. high = rec.mark \/ (high # None /\ high =< st + 1)
      BY <1>2, <2>1
    <3>2. WriteLocal(c, "train", FALSE, e, st + 1, rec2, V, FALSE, high, free)
      BY <1>1, <2>1, <2>3, <2>5, <3>1 DEF WriteLocal
    <3>3. QED
      BY <2>1, <2>2, <2>5, <3>2 DEF p2, st2
  <2>6. QED
    BY <2>4, <2>5
<1>9. CASE p = "validate"
  <2>1. /\ p2 = "publish" /\ st2 = st /\ ~sv /\ ~sv2 /\ rec.start + c.steps > OrZero(rec.mark)
        /\ st >= 1 /\ SavePoint(c, rec, st)
        /\ Need(c, rec, st - 1, high) =< free /\ (high = rec.mark \/ high = None \/ high < st)
        /\ rec.mark # None => c.resume
    BY <1>9 DEF NextPhase, NextStep, WriteLocal
  <2> HIDE DEF p2, st2
  <2>2. WriteLocal(c, "publish", FALSE, e, st, rec2, V, FALSE, high, free)
    BY <1>1, <2>1 DEF WriteLocal
  <2>3. QED
    BY <2>1, <2>2 DEF p2, st2
<1>10. CASE p = "publish"
  <2>1. /\ p2 \in {"output", "train"} /\ st2 = st /\ ~sv2 /\ rec.start + c.steps > OrZero(rec.mark)
        /\ rec.mark # None => c.resume
    BY <1>10 DEF NextPhase, NextStep, WriteLocal
  <2>2. Need(c, rec, st, high) =< free /\ (high = rec.mark \/ (high # None /\ high =< st))
    <3>1. CASE sv
      <4>1. high = st /\ Need(c, rec, st, high) =< free
        BY <1>10, <3>1 DEF WriteLocal
      <4>2. QED
        BY <1>2, <4>1
    <3>2. CASE ~sv
      <4>1. /\ Need(c, rec, st - 1, high) =< free /\ (high = rec.mark \/ high = None \/ high < st)
            /\ rec.mark # None /\ st =< rec.mark /\ st >= 1
        BY <1>10, <3>2 DEF WriteLocal
      <4>2. high = rec.mark /\ high # None /\ st =< high /\ high \in Nat
        BY <1>2, <4>1
      <4>3. Cutoff(st - 1, high) = high /\ Cutoff(st, high) = high
        BY <1>2, <4>1, <4>2 DEF Cutoff, OrZero
      <4>4. QED
        BY <4>1, <4>2, <4>3 DEF Need
    <3>3. QED
      BY <3>1, <3>2
  <2> HIDE DEF p2, st2
  <2>3. WriteLocal(c, p2, FALSE, e, st, rec2, V, FALSE, high, free)
    BY <1>1, <2>1, <2>2 DEF WriteLocal
  <2>4. QED
    BY <2>1, <2>3 DEF p2, st2
<1>11. QED
  BY <1>3, <1>4, <1>5, <1>6, <1>7, <1>8, <1>9, <1>10 DEF Collectives, Phases

\* The runs and ranks beside rank 0 of a run read what they read before.
LEMMA WriteSteady ==
  ASSUME NEW u \in Runs, WriteInv(u), cfg'[u] = cfg[u],
         pc'[u][0] = pc[u][0], waiting'[u][0] = waiting[u][0], entered'[u][0] = entered[u][0],
         step'[u][0] = step[u][0], restored'[u][0] = restored[u][0], saved'[u] = saved[u],
         vetoed[u] \subseteq vetoed'[u],
         HighWater' = HighWater, Free(versions') = Free(versions)
  PROVE  WriteInv(u)'
<1> DEFINE c == cfg[u]
           p == pc[u][0]
           w == waiting[u][0]
           e == entered[u][0]
           st == step[u][0]
           rec == restored[u][0]
           V == vetoed[u]
           W == vetoed'[u]
           sv == saved[u]
           high == HighWater
           free == Free(versions)
<1>1. WriteInv(u)' = (Live(u, 0) /\ c.journal => WriteLocal(c, p, w, e, st, rec, W, sv, high, free))
  BY DEF WriteInv, Live
<1>2. Live(u, 0) /\ c.journal => WriteLocal(c, p, w, e, st, rec, V, sv, high, free)
  BY DEF WriteInv
<1>3. V \subseteq W
  OBVIOUS
<1> HIDE DEF c, p, w, e, st, rec, V, W, sv, high, free
<1>4. WriteLocal(c, p, w, e, st, rec, V, sv, high, free) => WriteLocal(c, p, w, e, st, rec, W, sv, high, free)
  BY <1>3 DEF WriteLocal
<1>5. QED
  BY <1>1, <1>2, <1>4

LEMMA WriteEnded == ASSUME NEW u, ~Live(u, 0)' PROVE WriteInv(u)'
  BY DEF WriteInv, Live

\* What the journal holds, and the room left in it, as numbers.
LEMMA StoreNumbers ==
  ASSUME RunAssumption, StoreOK
  PROVE  /\ HighWater \in Steps \union {None} /\ Free(versions) \in Int
         /\ IsFiniteSet(OrEmpty(versions))
<1>1. OrEmpty(versions) \in SUBSET Steps
  BY DEF StoreOK, OrEmpty
<1>2. IsFiniteSet(Steps)
  BY FS_Interval DEF Steps, RunAssumption
<1>3. IsFiniteSet(OrEmpty(versions))
  BY <1>1, <1>2, FS_Subset
<1>4. Cardinality(OrEmpty(versions)) \in Nat
  BY <1>3, FS_CardinalityType
<1>5. QED
  BY <1>3, <1>4, HighWaterTyped DEF Free, RunAssumption

\* Opening a journal makes it exist.
LEMMA Opened ==
  ASSUME RunAssumption, StoreOK, versions' = versions \/ versions' = OrEmpty(versions)
  PROVE  /\ HighWater' = HighWater /\ Free(versions') = Free(versions)
         /\ OrEmpty(versions') = OrEmpty(versions)
<1>1. versions' = versions \/ (versions = None /\ versions' = {})
  BY DEF OrEmpty
<1>2. {} # None
  BY DEF RunAssumption, Steps
<1>3. QED
  BY <1>1, <1>2 DEF HighWater, Free, OrEmpty

\* A run that is not alone writes nothing.
LEMMA OthersWrite ==
  ASSUME RunAssumption, TypeInv, WriterInv, NEW u \in Runs, Elsewhere(u), Active(u),
         \A v \in Runs : WriteInv(v), NEW v \in Runs \ {u}
  PROVE  WriteInv(v)'
<1>1. ~Live(v, 0)
  BY ActiveAlone DEF Alone, Active, RunAssumption
<1>2. pc'[v] = pc[v]
  BY DEF Elsewhere
<1>3. QED
  BY <1>1, <1>2, WriteEnded DEF Live

\* The arrival of a rank.
LEMMA ComesWrite ==
  ASSUME RunAssumption, TypeInv, WriterInv, \A v \in Runs : WriteInv(v),
         NEW u \in Runs, NEW r \in Ranks, NEW vote, NEW rec, Comes(u, r, vote, rec)
  PROVE  \A v \in Runs : WriteInv(v)'
<1>1. /\ WorkersOK /\ StoreOK /\ RankInv(u, r) /\ 0 \in Ranks /\ Arrives(u, r, vote, rec)
      /\ Live(u, r) /\ waiting[u][r] = FALSE /\ UNCHANGED <<cfg, pc, step, saved>>
  BY DEF TypeInv, ControlInv, RunAssumption, Comes, Arrives, WorkersOK
<1>2. /\ Elsewhere(u) /\ Beside(u, r)
      /\ pc'[u][r] = pc[u][r] /\ waiting'[u][r] = TRUE /\ entered'[u][r] = entered[u][r] + 1
      /\ step'[u][r] = step[u][r] /\ restored'[u][r] = rec
      /\ vetoed'[u] = (IF vote THEN vetoed[u] ELSE vetoed[u] \union {entered[u][r] + 1})
  <2>1. Elsewhere(u) /\ Beside(u, r)
    BY <1>1, ArrivesFrame
  <2>2. pc'[u][r] = pc[u][r] /\ step'[u][r] = step[u][r]
    BY <1>1
  <2>3. /\ waiting'[u][r] = TRUE /\ entered'[u][r] = entered[u][r] + 1 /\ restored'[u][r] = rec
        /\ vetoed'[u] = (IF vote THEN vetoed[u] ELSE vetoed[u] \union {entered[u][r] + 1})
    BY <1>1 DEF Arrives, Enter, WorkersOK
  <2>4. QED
    BY <2>1, <2>2, <2>3
<1>3. \A v \in Runs \ {u} : WriteInv(v)'
  BY <1>1, <1>2, OthersWrite DEF Active
<1>4. CASE r # 0
  <2>1. versions' = versions \/ versions' = OrEmpty(versions)
    BY <1>4 DEF Comes
  <2>2. HighWater' = HighWater /\ Free(versions') = Free(versions)
    BY <1>1, <2>1, Opened
  <2>3. /\ pc'[u][0] = pc[u][0] /\ waiting'[u][0] = waiting[u][0]
        /\ entered'[u][0] = entered[u][0] /\ restored'[u][0] = restored[u][0]
    BY <1>1, <1>2, <1>4 DEF Beside
  <2>4. vetoed[u] \subseteq vetoed'[u]
    BY <1>2
  <2>5. WriteInv(u)'
    BY <1>1, <2>2, <2>3, <2>4, WriteSteady
  <2>6. QED
    BY <1>3, <2>5
<1>5. CASE r = 0
  <2> DEFINE c == cfg[u]
             p == pc[u][0]
             e == entered[u][0]
             st == step[u][0]
             old == restored[u][0]
             V == vetoed[u]
             W == vetoed'[u]
             sv == saved[u]
             high == HighWater
             free == Free(versions)
             high2 == HighWater'
             free2 == Free(versions')
  <2>1. ASSUME c.journal PROVE WriteLocal(c, p, TRUE, e + 1, st, rec, W, sv, high2, free2)
    <3>1. /\ c \in Configs /\ p \in Collectives /\ p # "candidates" /\ e \in Nat /\ st \in Steps
          /\ old \in Recovery /\ rec \in Recovery /\ sv \in BOOLEAN /\ vote \in BOOLEAN
      BY <1>1, <1>5, LiveConfig, Unmoved DEF Comes, WorkersOK, TypeInv
    <3>2. WriteLocal(c, p, FALSE, e, st, old, V, sv, high, free)
      BY <1>1, <1>5, <2>1 DEF WriteInv
    <3>3. ~vote => e + 1 \in W
      BY <1>2, <1>5
    <3>4. rec.mark = old.mark /\ (p # "load" => rec.start = old.start)
      BY <1>5 DEF Comes
    <3>5. \/ high2 = high /\ free2 = free
          \/ p = "publish" /\ ~vote /\ ~sv
      BY <1>1, <1>5, Opened DEF Comes
    <3>6. vote /\ p = "fresh" => high = None
      BY <1>5 DEF Comes
    <3>7. vote /\ p = "schedule" => old.start + c.steps > OrZero(old.mark)
      <4>1. ASSUME vote, p = "schedule" PROVE old.start + c.steps > OrZero(old.mark)
        <5>1. Schedulable(u, 0)
          BY <1>5, <4>1 DEF Comes
        <5>2. CASE c.resume
          BY <2>1, <5>1, <5>2 DEF Schedulable, End
        <5>3. CASE ~c.resume
          <6>1. old.mark = None
            BY <3>2, <5>3 DEF WriteLocal
          <6>2. old.start \in Nat /\ c.steps \in Nat \ {0}
            BY <1>1, <1>5, LiveConfig DEF TypeInv
          <6>3. OrZero(old.mark) = 0
            BY <6>1 DEF OrZero
          <6>4. QED
            BY <6>2, <6>3
        <5>4. QED
          BY <5>2, <5>3
      <4>2. QED
        BY <4>1
    <3>8. vote /\ p = "capacity" => Need(c, old, st, high) =< free
      <4>1. ASSUME vote, p = "capacity" PROVE Need(c, old, st, high) =< free
        <5>1. Required(old.start, End(u, 0), c.interval, high) <= MaxVersions - Cardinality(OrEmpty(versions))
          BY <1>5, <4>1 DEF Comes
        <5>2. st = old.start
          BY <1>1, <1>5, <4>1 DEF RankInv, LocalInv
        <5>3. QED
          BY <5>1, <5>2, RequiredSlots DEF Need, Free, End
      <4>2. QED
        BY <4>1
    <3>9. vote /\ p = "publish" => sv \/ (old.mark # None /\ st =< old.mark)
      <4>1. ASSUME vote, p = "publish", ~sv PROVE old.mark # None /\ st =< old.mark
        <5>1. ~Journaled(u)
          BY <1>5, <4>1 DEF Comes
        <5>2. old.mark # None /\ ~(st > old.mark)
          BY <2>1, <5>1 DEF Journaled
        <5>3. st \in Nat /\ old.mark \in Nat
          BY <3>1, <5>2 DEF Recovery, Steps, RunAssumption
        <5>4. QED
          BY <5>2, <5>3
      <4>2. QED
        BY <4>1
    <3> HIDE DEF c, p, e, st, old, V, W, sv, high, free, high2, free2
    <3>10. WriteVote(c, p, e, st, old, rec, V, W, sv, high, free, high2, free2, vote)
      BY <3>1, <3>2, <3>3, <3>4, <3>5, <3>6, <3>7, <3>8, <3>9 DEF WriteVote
    <3>11. QED
      BY <3>10, WriteArrives
  <2>2. WriteInv(u)'
    BY <1>1, <1>2, <1>5, <2>1 DEF WriteInv
  <2>3. QED
    BY <1>3, <2>2
<1>6. QED
  BY <1>4, <1>5


\* The departure of a rank.
LEMMA LeavesWrite ==
  ASSUME RunAssumption, TypeInv, LatestInv, WriterInv, \A v \in Runs : WriteInv(v),
         NEW u \in Runs, NEW r \in Ranks, NEW phase, NEW nst, NEW nrec, Leaves(u, r, phase, nst, nrec)
  PROVE  \A v \in Runs : WriteInv(v)'
<1>1. /\ WorkersOK /\ StoreOK /\ RankInv(u, r) /\ 0 \in Ranks /\ Departs(u, r, phase, nst, nrec)
      /\ Live(u, r) /\ waiting[u][r] = TRUE /\ saved \in [Runs -> BOOLEAN]
      /\ UNCHANGED <<cfg, entered, vetoed, versions>>
  BY DEF TypeInv, ControlInv, RunAssumption, Leaves, Departs, WorkersOK
<1>2. /\ Elsewhere(u) /\ Beside(u, r)
      /\ pc'[u][r] = phase /\ waiting'[u][r] = FALSE /\ step'[u][r] = nst /\ restored'[u][r] = nrec
      /\ saved' = saved \/ (r = 0 /\ saved' = [saved EXCEPT ![u] = FALSE])
  <2>1. saved' = saved \/ (r = 0 /\ saved' = [saved EXCEPT ![u] = FALSE])
    BY DEF Leaves
  <2>2. Elsewhere(u) /\ Beside(u, r)
    BY <1>1, <2>1, DepartsFrame
  <2>3. pc'[u][r] = phase /\ waiting'[u][r] = FALSE /\ step'[u][r] = nst /\ restored'[u][r] = nrec
    BY <1>1 DEF Departs, Move, WorkersOK
  <2>4. QED
    BY <2>1, <2>2, <2>3
<1>3. \A v \in Runs \ {u} : WriteInv(v)'
  BY <1>1, <1>2, OthersWrite DEF Active
<1>4. HighWater' = HighWater /\ Free(versions') = Free(versions)
  BY <1>1 DEF HighWater
<1>5. CASE r # 0
  <2>1. /\ pc'[u][0] = pc[u][0] /\ waiting'[u][0] = waiting[u][0]
        /\ entered'[u][0] = entered[u][0] /\ step'[u][0] = step[u][0] /\ restored'[u][0] = restored[u][0]
    BY <1>1, <1>2, <1>5 DEF Beside
  <2>2. saved'[u] = saved[u] /\ vetoed[u] \subseteq vetoed'[u] /\ cfg'[u] = cfg[u]
    BY <1>1, <1>2, <1>5
  <2>3. WriteInv(u)'
    BY <1>4, <2>1, <2>2, WriteSteady
  <2>4. QED
    BY <1>3, <2>3
<1>6. CASE r = 0
  <2> DEFINE c == cfg[u]
             p == pc[u][0]
             e == entered[u][0]
             st == step[u][0]
             rec == restored[u][0]
             V == vetoed[u]
             sv == saved[u]
             sv2 == saved'[u]
             high == HighWater
             free == Free(versions)
             ok == Accepted(u, 0)
             wrote == WriteLocal(c, NextPhase(c, ok, p, st, rec.start), FALSE, e,
                                 NextStep(ok, p, st, rec.start), nrec, V, sv2, high, free)
  <2>1. ASSUME c.journal PROVE wrote
    <3>1. /\ c \in Configs /\ p \in Collectives /\ e \in Nat /\ st \in Steps
          /\ rec \in Recovery /\ nrec \in Recovery /\ sv \in BOOLEAN
          /\ p # "candidates"
      <4>1. /\ c \in Configs /\ e \in Nat /\ st \in Steps /\ rec \in Recovery
        BY <1>1, <1>6, LiveConfig, Unmoved DEF TypeInv
      <4>2. p \in Collectives /\ nrec \in Recovery /\ sv \in BOOLEAN
        BY <1>1, <1>6 DEF Leaves
      <4>3. p # "candidates"
        BY <1>1, <1>6 DEF RankInv, LocalInv
      <4>4. QED
        BY <4>1, <4>2, <4>3
    <3>2. high \in Steps \union {None} /\ free \in Int
      BY <1>1, StoreNumbers
    <3>3. WriteLocal(c, p, TRUE, e, st, rec, V, sv, high, free)
      BY <1>1, <1>6, <2>1 DEF WriteInv
    <3>4. e \notin V \/ p \in {"rendezvous", "load"}
      BY <1>6 DEF Leaves, Accepted
    <3>5. nrec.mark = rec.mark /\ nrec.start = rec.start
      BY <1>6 DEF Leaves
    <3>6. sv2 \in BOOLEAN /\ (sv2 <=> sv /\ p # "publish")
      BY <1>1, <1>6 DEF Leaves
    <3>7. p = "train" => st < rec.start + c.steps
      BY <1>1, <1>6 DEF RankInv, LocalInv
    <3>8. rec.mark # None => high # None /\ rec.mark =< high
      BY DEF LatestInv, RecordInv
    <3> HIDE DEF c, p, e, st, rec, V, sv, sv2, high, free, ok
    <3>9. WriteGoes(c, p, e, st, rec, nrec, V, sv, sv2, high, free, ok)
      BY <2>1, <3>1, <3>2, <3>3, <3>4, <3>5, <3>6, <3>7, <3>8 DEF WriteGoes
    <3>10. QED
      BY <3>9, WriteDeparts
  <2>2. /\ phase = NextPhase(c, ok, p, st, rec.start) /\ nst = NextStep(ok, p, st, rec.start)
        /\ cfg'[u] = c /\ entered'[u][0] = e /\ vetoed'[u] = V
    BY <1>1, <1>6 DEF Leaves
  <2>3. WriteInv(u)' = (Live(u, 0)' /\ c.journal => wrote)
    BY <1>2, <1>4, <1>6, <2>2 DEF WriteInv
  <2>4. QED
    BY <1>3, <2>1, <2>3
<1>7. QED
  BY <1>5, <1>6

\* The end of a rank.
LEMMA FinishesWrite ==
  ASSUME RunAssumption, TypeInv, WriterInv, \A v \in Runs : WriteInv(v),
         NEW u \in Runs, NEW r \in Ranks, NEW phase, Finishes(u, r, phase)
  PROVE  \A v \in Runs : WriteInv(v)'
<1>1. /\ WorkersOK /\ 0 \in Ranks /\ Stops(u, r, phase) /\ versions' = versions
  BY DEF TypeInv, ControlInv, RunAssumption, Finishes
<1>2. /\ Elsewhere(u) /\ Beside(u, r) /\ pc'[u][r] = phase /\ phase \in Ended
      /\ UNCHANGED <<cfg, entered, vetoed, step, restored, saved>>
  BY <1>1, StopsFrame
<1>3. HighWater' = HighWater /\ Free(versions') = Free(versions)
  BY <1>1 DEF HighWater
<1>4. ASSUME NEW v \in Runs, v # u \/ r # 0 PROVE WriteInv(v)'
  <2>1. pc'[v][0] = pc[v][0] /\ waiting'[v][0] = waiting[v][0]
    BY <1>1, <1>2, <1>4 DEF Elsewhere, Beside
  <2>2. QED
    BY <1>2, <1>3, <2>1, WriteSteady
<1>5. CASE r = 0
  <2>1. WriteInv(u)'
    BY <1>2, <1>5, WriteEnded DEF Live
  <2>2. QED
    BY <1>4, <2>1
<1>6. QED
  BY <1>4, <1>5

\* Rank 0 reads the recorded step.
LEMMA ReadMarkWrite ==
  ASSUME RunAssumption, TypeInv, WriterInv, \A v \in Runs : WriteInv(v), NEW u \in Runs, ReadMark(u)
  PROVE  \A v \in Runs : WriteInv(v)'
<1>1. /\ WorkersOK /\ 0 \in Ranks /\ RankInv(u, 0) /\ pc[u][0] = "candidates" /\ waiting[u][0] = FALSE
      /\ pc' = [pc EXCEPT ![u][0] = "listing"]
      /\ restored' = [restored EXCEPT ![u][0].mark = HighWater]
      /\ UNCHANGED <<versions, cfg, waiting, entered, step, vetoed, saved>>
  BY DEF TypeInv, ControlInv, RunAssumption, ReadMark, Ready, WorkersOK, store
<1>2. /\ pc \in [Runs -> [Ranks -> Phases]] /\ restored \in [Runs -> [Ranks -> Recovery]]
      /\ saved \in [Runs -> BOOLEAN]
  BY <1>1 DEF WorkersOK
<1>3. HighWater' = HighWater /\ Free(versions') = Free(versions)
  BY <1>1 DEF HighWater
<1>4. ASSUME NEW v \in Runs \ {u} PROVE WriteInv(v)'
  <2>1. pc'[v] = pc[v] /\ restored'[v] = restored[v]
    BY <1>1, <1>2
  <2>2. QED
    BY <1>1, <1>3, <2>1, WriteSteady
<1>5. pc'[u][0] = "listing" /\ restored'[u][0] = [restored[u][0] EXCEPT !.mark = HighWater]
  BY <1>1, <1>2
<1>6. restored'[u][0].mark = HighWater
  <2>1. restored[u][0] \in Recovery
    BY <1>1, <1>2
  <2>2. QED
    BY <1>5, <2>1 DEF Recovery
<1>7. saved[u] = FALSE \/ ~(Live(u, 0) /\ cfg[u].journal)
  BY <1>1, <1>2 DEF WriteInv, WriteLocal
<1>8. cfg[u].resume /\ Live(u, 0)
  BY <1>1 DEF RankInv, LocalInv, Live, Ended
<1>9. WriteInv(u)'
  <2> DEFINE c == cfg[u]
             e == entered[u][0]
             st == step[u][0]
             rec == restored'[u][0]
             V == vetoed[u]
             high == HighWater
             free == Free(versions)
  <2>1. c.resume /\ rec.mark = high
    BY <1>6, <1>8
  <2>2. WriteInv(u)' = (Live(u, 0)' /\ c.journal => WriteLocal(c, "listing", FALSE, e, st, rec, V, saved[u], high, free))
    BY <1>1, <1>3, <1>5 DEF WriteInv
  <2>3. ASSUME c.journal PROVE saved[u] = FALSE
    BY <1>7, <1>8, <2>3
  <2> HIDE DEF c, e, st, rec, V, high, free
  <2>4. WriteLocal(c, "listing", FALSE, e, st, rec, V, FALSE, high, free)
    BY <2>1 DEF WriteLocal
  <2>5. QED
    BY <2>2, <2>3, <2>4
<1>10. QED
  BY <1>4, <1>9

\* The journal takes a version.
LEMMA VersionAdded ==
  ASSUME RunAssumption, StoreOK, NEW s \in Steps, versions # None, Advances(s),
         versions' = versions \union {s}
  PROVE  HighWater' = s /\ Free(versions') = Free(versions) - 1
<1>1. versions \in SUBSET Steps /\ versions' \in SUBSET Steps /\ versions' # {} /\ None \notin Nat
      /\ versions' # None
  BY DEF StoreOK, RunAssumption
<1>2. s \in Nat /\ \A x \in versions : x \in Nat
  BY <1>1 DEF Steps, RunAssumption
<1>3. \A x \in versions : x < s
  <2>1. CASE versions = {}
    BY <2>1
  <2>2. CASE versions # {}
    <3>1. HighWater = Max(versions) /\ Max(versions) \in versions /\ \A x \in versions : x =< Max(versions)
      BY <1>1, <2>2, MaxStepOf DEF HighWater
    <3>2. HighWater # None /\ s > HighWater
      BY <1>1, <1>2, <3>1 DEF Advances
    <3>3. QED
      BY <1>2, <3>1, <3>2
  <2>3. QED
    BY <2>1, <2>2
<1>4. HighWater' = s
  <2>1. HighWater' = Max(versions')
    BY <1>1 DEF HighWater
  <2>2. Max(versions') \in versions' /\ s =< Max(versions') /\ Max(versions') \in Nat
    BY <1>1, MaxStepOf DEF Steps, RunAssumption
  <2>3. QED
    BY <1>2, <1>3, <2>1, <2>2
<1>5. Cardinality(versions') = Cardinality(versions) + 1
  <2>1. IsFiniteSet(versions) /\ s \notin versions
    BY <1>1, <1>2, <1>3, StoreNumbers DEF OrEmpty
  <2>2. QED
    BY <2>1, FS_AddElement
<1>6. Cardinality(versions) \in Nat
  BY <1>1, StoreNumbers, FS_CardinalityType DEF OrEmpty
<1>7. QED
  BY <1>1, <1>4, <1>5, <1>6 DEF Free, OrEmpty, RunAssumption

LEMMA PublishJournalWrite ==
  ASSUME RunAssumption, TypeInv, LatestInv, WriterInv, \A v \in Runs : WriteInv(v), NEW u \in Runs, PublishJournal(u)
  PROVE  \A v \in Runs : WriteInv(v)'
<1>1. /\ WorkersOK /\ StoreOK /\ 0 \in Ranks /\ RankInv(u, 0) /\ VersionsInv(u)
      /\ pc[u][0] = "publish" /\ waiting[u][0] = FALSE /\ saved[u] = FALSE /\ cfg[u].journal /\ Live(u, 0)
      /\ Journaled(u) /\ Advances(step[u][0]) /\ versions' = versions \union {step[u][0]}
      /\ saved' = [saved EXCEPT ![u] = TRUE]
      /\ UNCHANGED <<cfg, pc, waiting, entered, step, vetoed, restored>>
  BY DEF TypeInv, ControlInv, RunAssumption, PublishJournal, Publishing, Ready, WorkersOK, Journaled, Live, Ended
<1>2. /\ saved'[u] = TRUE /\ step[u][0] \in Steps /\ restored[u][0] \in Recovery /\ cfg[u] \in Configs
      /\ versions # None
  BY <1>1, LiveConfig DEF WorkersOK, VersionsInv, After, TypeInv
<1>3. Elsewhere(u)
  BY <1>1 DEF Elsewhere, WorkersOK
<1>4. \A v \in Runs \ {u} : WriteInv(v)'
  BY <1>1, <1>3, OthersWrite DEF Active
<1>5. HighWater' = step[u][0] /\ Free(versions') = Free(versions) - 1
  BY <1>1, <1>2, VersionAdded
<1>6. WriteInv(u)'
  <2> DEFINE c == cfg[u]
             e == entered[u][0]
             st == step[u][0]
             rec == restored[u][0]
             V == vetoed[u]
             high == HighWater
             free == Free(versions)
  <2>1. WriteLocal(c, "publish", FALSE, e, st, rec, V, FALSE, high, free)
    BY <1>1 DEF WriteInv
  <2>2. /\ st \in Nat /\ high \in Nat \union {None} /\ free \in Int /\ None \notin Nat
        /\ high \in Steps \union {None}
    BY <1>1, <1>2, StoreNumbers DEF Steps, RunAssumption
  <2>3. high = None \/ high < st
    BY <1>1, <2>2 DEF Advances
  <2>4. st =< rec.start + c.steps
    BY <1>1 DEF RankInv, LocalInv
  <2>5. WriteInv(u)' = (Live(u, 0) /\ c.journal => WriteLocal(c, "publish", FALSE, e, st, rec, V, TRUE, st, free - 1))
    BY <1>1, <1>2, <1>5 DEF WriteInv, Live
  <2>6. c \in Configs /\ rec \in Recovery /\ st \in Steps
    BY <1>2
  <2> HIDE DEF c, e, st, rec, V, high, free
  <2>7. st >= 1 /\ SavePoint(c, rec, st)
    BY <2>1 DEF WriteLocal
  <2>8. Need(c, rec, st, st) \in Nat /\ Need(c, rec, st - 1, high) = Need(c, rec, st, st) + 1
    BY <2>2, <2>3, <2>4, <2>6, <2>7, NeedSave
  <2>9. Need(c, rec, st - 1, high) =< free => Need(c, rec, st, st) =< free - 1
    BY <2>2, <2>8
  <2>10. WriteLocal(c, "publish", FALSE, e, st, rec, V, TRUE, st, free - 1)
    BY <2>1, <2>9 DEF WriteLocal
  <2>11. QED
    BY <2>5, <2>10
<1>7. QED
  BY <1>4, <1>6

\* A run's workers are started or reaped.
LEMMA RestartsWrite ==
  ASSUME RunAssumption, TypeInv, WriterInv, WriterInv', \A v \in Runs : WriteInv(v),
         NEW u \in Runs, NEW phase, Restarts(u, phase)
  PROVE  \A v \in Runs : WriteInv(v)'
<1>1. /\ WorkersOK /\ 0 \in Ranks /\ Reset(u, phase) /\ phase \in Phases /\ versions' = versions
      /\ \A v \in Runs \ {u} : cfg'[v] = cfg[v]
  BY DEF TypeInv, ControlInv, RunAssumption, Restarts, Phases
<1>2. /\ Elsewhere(u) /\ saved'[u] = FALSE
      /\ pc'[u][0] = phase /\ waiting'[u][0] = FALSE /\ restored'[u][0] = NoRecovery
  <2>1. Elsewhere(u)
    BY <1>1, ResetFrame
  <2>2. saved'[u] = FALSE
    BY <1>1 DEF Reset, WorkersOK
  <2>3. pc'[u][0] = phase /\ waiting'[u][0] = FALSE /\ restored'[u][0] = NoRecovery
    BY <1>1 DEF Reset, WorkersOK
  <2>4. QED
    BY <2>1, <2>2, <2>3
<1>3. HighWater' = HighWater /\ Free(versions') = Free(versions)
  BY <1>1 DEF HighWater
<1>4. ASSUME NEW v \in Runs \ {u} PROVE WriteInv(v)'
  <2>1. cfg'[v] = cfg[v] /\ pc'[v] = pc[v] /\ waiting'[v] = waiting[v] /\ entered'[v] = entered[v]
        /\ step'[v] = step[v] /\ vetoed'[v] = vetoed[v] /\ restored'[v] = restored[v] /\ saved'[v] = saved[v]
    BY <1>1, <1>2 DEF Elsewhere
  <2>2. QED
    BY <1>3, <2>1, WriteSteady
<1>5. CASE phase = "exited"
  <2>1. WriteInv(u)'
    BY <1>2, <1>5, WriteEnded DEF Live, Ended
  <2>2. QED
    BY <1>4, <2>1
<1>6. CASE phase = "rendezvous"
  <2>1. restored'[u][0].mark = None
    BY <1>2 DEF NoRecovery
  <2> DEFINE c == cfg'[u]
             e == entered'[u][0]
             st == step'[u][0]
             rec == restored'[u][0]
             V == vetoed'[u]
             high == HighWater'
             free == Free(versions')
  <2>2. WriteInv(u)' = (Live(u, 0)' /\ c.journal => WriteLocal(c, "rendezvous", FALSE, e, st, rec, V, FALSE, high, free))
    BY <1>2, <1>6 DEF WriteInv
  <2>3. rec.mark = None
    BY <2>1
  <2> HIDE DEF c, e, st, rec, V, high, free
  <2>4. WriteLocal(c, "rendezvous", FALSE, e, st, rec, V, FALSE, high, free)
    BY <2>3 DEF WriteLocal
  <2>5. WriteInv(u)'
    BY <2>2, <2>4
  <2>6. QED
    BY <1>4, <2>5
<1>7. QED
  BY <1>5, <1>6 DEF Restarts

\* An admitted run's version advances and has a slot.
LEMMA NoneRefused ==
  ASSUME RunAssumption, TypeInv, NEW u \in Runs, WriteInv(u), PublishRefused(u)
  PROVE  refusal' = refusal
<1>1. /\ WorkersOK /\ StoreOK /\ RankInv(u, 0) /\ 0 \in Ranks
      /\ pc[u][0] = "publish" /\ waiting[u][0] = FALSE /\ saved[u] = FALSE /\ cfg[u].journal /\ Live(u, 0)
      /\ Journaled(u)
  BY DEF TypeInv, ControlInv, RunAssumption, PublishRefused, Publishing, Ready, WorkersOK, Journaled, Live, Ended
<1>2. /\ step[u][0] \in Steps /\ restored[u][0] \in Recovery /\ cfg[u] \in Configs
  BY <1>1, LiveConfig DEF WorkersOK, TypeInv
<1> DEFINE c == cfg[u]
           e == entered[u][0]
           st == step[u][0]
           rec == restored[u][0]
           V == vetoed[u]
           high == HighWater
           free == Free(versions)
<1>3. WriteLocal(c, "publish", FALSE, e, st, rec, V, FALSE, high, free)
  BY <1>1 DEF WriteInv
<1>4. /\ st \in Nat /\ None \notin Nat /\ high \in Steps \union {None} /\ high \in Nat \union {None}
      /\ free \in Int
  BY <1>1, <1>2, StoreNumbers DEF Steps, RunAssumption
<1>5. st =< rec.start + c.steps
  BY <1>1 DEF RankInv, LocalInv
<1>6. rec.mark # None => st > rec.mark
  BY <1>1 DEF Journaled
<1>7. refusal' = IF ~Advances(st) THEN "order" ELSE IF ~HasRoom THEN "capacity" ELSE refusal
  BY DEF PublishRefused
<1>8. Advances(st) <=> (high # None => st > high)
  BY DEF Advances
<1>9. free >= 1 => HasRoom
  <2>1. Cardinality(OrEmpty(versions)) \in Nat
    BY <1>1, StoreNumbers, FS_CardinalityType
  <2>2. QED
    BY <2>1 DEF Free, HasRoom, RunAssumption
<1>10. c \in Configs /\ rec \in Recovery /\ st \in Steps
  BY <1>2
<1> HIDE DEF c, e, st, rec, V, high, free
<1>11. /\ st >= 1 /\ SavePoint(c, rec, st) /\ Need(c, rec, st - 1, high) =< free
       /\ high = rec.mark \/ high = None \/ high < st
  BY <1>3 DEF WriteLocal
<1>12. high = None \/ high < st
  BY <1>4, <1>6, <1>11
<1>13. Need(c, rec, st, st) \in Nat /\ Need(c, rec, st - 1, high) = Need(c, rec, st, st) + 1
  BY <1>4, <1>5, <1>10, <1>11, <1>12, NeedSave
<1>14. free >= 1
  BY <1>4, <1>11, <1>13
<1>15. Advances(st)
  BY <1>4, <1>8, <1>12
<1>16. QED
  BY <1>7, <1>9, <1>14, <1>15

LEMMA AdmissionStep ==
  ASSUME RunAssumption, TypeInv, LatestInv, WriterInv, WriterInv', AdmissionInv, [Next]_vars
  PROVE  AdmissionInv'
<1>1. refusal = "none" /\ \A v \in Runs : WriteInv(v)
  BY DEF AdmissionInv
<1>2. ASSUME NEW u \in Runs, NEW r \in Ranks, NEW vote, NEW rec, Comes(u, r, vote, rec)
      PROVE  AdmissionInv'
  <2>1. \A v \in Runs : WriteInv(v)'
    BY <1>1, <1>2, ComesWrite
  <2>2. refusal' = refusal
    BY <1>1, <1>2, NoneRefused DEF Comes
  <2>3. QED
    BY <1>1, <2>1, <2>2 DEF AdmissionInv
<1>3. ASSUME NEW u \in Runs, NEW r \in Ranks, NEW phase, NEW st, NEW rec, Leaves(u, r, phase, st, rec)
      PROVE  AdmissionInv'
  <2>1. \A v \in Runs : WriteInv(v)'
    BY <1>1, <1>3, LeavesWrite
  <2>2. refusal' = refusal
    BY <1>3 DEF Leaves
  <2>3. QED
    BY <1>1, <2>1, <2>2 DEF AdmissionInv
<1>4. ASSUME NEW u \in Runs, NEW r \in Ranks, NEW phase, Finishes(u, r, phase)
      PROVE  AdmissionInv'
  <2>1. \A v \in Runs : WriteInv(v)'
    BY <1>1, <1>4, FinishesWrite
  <2>2. refusal' = refusal
    BY <1>4 DEF Finishes
  <2>3. QED
    BY <1>1, <2>1, <2>2 DEF AdmissionInv
<1>5. ASSUME NEW u \in Runs, ReadMark(u) \/ PublishJournal(u)
      PROVE  AdmissionInv'
  <2>1. \A v \in Runs : WriteInv(v)'
    BY <1>1, <1>5, ReadMarkWrite, PublishJournalWrite
  <2>2. refusal' = refusal
    BY <1>5 DEF ReadMark, PublishJournal
  <2>3. QED
    BY <1>1, <2>1, <2>2 DEF AdmissionInv
<1>6. ASSUME NEW u \in Runs, NEW phase, Restarts(u, phase)
      PROVE  AdmissionInv'
  <2>1. \A v \in Runs : WriteInv(v)'
    BY <1>1, <1>6, RestartsWrite
  <2>2. refusal' = refusal
    BY <1>6 DEF Restarts
  <2>3. QED
    BY <1>1, <2>1, <2>2 DEF AdmissionInv
<1>7. CASE Rests
  <2>1. /\ UNCHANGED <<cfg, pc, waiting, entered, step, vetoed, restored, saved, versions, refusal>>
        /\ HighWater' = HighWater
    BY <1>7 DEF Rests, HighWater
  <2>2. \A v \in Runs : WriteInv(v)'
    BY <1>1, <2>1 DEF WriteInv, Live
  <2>3. QED
    BY <1>1, <2>1, <2>2 DEF AdmissionInv
<1>8. faults \in Nat
  BY DEF WriterInv
<1>9. QED
  BY <1>2, <1>3, <1>4, <1>5, <1>6, <1>7, <1>8, StepShapes

LEMMA WriterInit == ASSUME RunAssumption, Init PROVE WriterInv /\ AdmissionInv
<1>1. WriterInv
  BY DEF Init, WriterInv, Live, Ended, RunAssumption
<1>2. AdmissionInv
  BY DEF Init, AdmissionInv, WriteInv, Live, Ended, RunAssumption
<1>3. QED
  BY <1>1, <1>2

LEMMA AdmissionInvariant ==
  ASSUME RunAssumption, OneWriter
  PROVE  Spec => [](TypeInv /\ LatestInv /\ WriterInv /\ AdmissionInv)
<1>1. Init => WriterInv /\ AdmissionInv
  BY WriterInit
<1>2. TypeInv /\ LatestInv /\ WriterInv /\ AdmissionInv /\ [Next]_vars => WriterInv' /\ AdmissionInv'
  BY WriterStep, AdmissionStep
<1>3. Spec => [](TypeInv /\ LatestInv)
  BY LatestInvariant
<1>4. QED
  BY <1>1, <1>2, <1>3, PTL DEF Spec

-------------------------------------------------------------------------------
(* How far ranks and verdicts are apart                                       *)

\* No rank is two collectives ahead of another, and no verdict ahead of a rank's next.
SpanInv(u) ==
  \A q, r \in Ranks :
    /\ entered[u][q] =< entered[u][r] + 1
    /\ \A n \in vetoed[u] : n =< entered[u][r] + 1

LEMMA ComesFrame ==
  ASSUME WorkersOK, NEW u \in Runs, NEW r \in Ranks, NEW vote, NEW rec, Comes(u, r, vote, rec)
  PROVE  /\ Elsewhere(u) /\ Beside(u, r) /\ Live(u, r) /\ waiting[u][r] = FALSE
         /\ waiting'[u][r] = TRUE /\ entered'[u][r] = entered[u][r] + 1
         /\ vetoed[u] \subseteq vetoed'[u] /\ vetoed'[u] \subseteq vetoed[u] \union {entered[u][r] + 1}
         /\ cfg' = cfg /\ pc' = pc /\ step' = step /\ saved' = saved /\ sup' = sup /\ damaged' = damaged
         /\ \A q \in Ranks : Live(u, q)' = Live(u, q) /\ Passed(u, q)' = Passed(u, q)
<1>1. Arrives(u, r, vote, rec) /\ UNCHANGED <<sup, damaged>>
  BY DEF Comes
<1>2. Elsewhere(u) /\ Beside(u, r)
  BY <1>1, ArrivesFrame
<1>3. Live(u, r) /\ waiting[u][r] = FALSE /\ UNCHANGED <<cfg, pc, step, saved>>
  BY <1>1 DEF Arrives, WorkersOK
<1>4. /\ waiting'[u][r] = TRUE /\ entered'[u][r] = entered[u][r] + 1
      /\ vetoed[u] \subseteq vetoed'[u] /\ vetoed'[u] \subseteq vetoed[u] \union {entered[u][r] + 1}
  BY <1>1 DEF Comes, Arrives, Enter, WorkersOK
<1>5. ASSUME NEW q \in Ranks PROVE Live(u, q)' = Live(u, q) /\ Passed(u, q)' = Passed(u, q)
  <2>1. Live(u, q)' = Live(u, q)
    BY <1>3 DEF Live
  <2>2. CASE q = r
    <3>1. entered[u][r] \in Nat
      BY DEF WorkersOK
    <3>2. QED
      BY <1>3, <1>4, <2>1, <2>2, <3>1 DEF Passed
  <2>3. CASE q # r
    BY <1>2, <2>1, <2>3 DEF Passed, Beside
  <2>4. QED
    BY <2>2, <2>3
<1>6. QED
  BY <1>1, <1>2, <1>3, <1>4, <1>5

LEMMA ComesVetoes ==
  ASSUME WorkersOK, NEW u \in Runs, NEW r \in Ranks, NEW vote, NEW rec, Comes(u, r, vote, rec)
  PROVE  /\ restored'[u][r] = rec /\ vote \in BOOLEAN
         /\ vote = TRUE => vetoed'[u] = vetoed[u]
         /\ vote = FALSE => vetoed'[u] = vetoed[u] \union {entered[u][r] + 1}
<1>1. /\ Enter(u, r, vote) /\ vote \in BOOLEAN
      /\ restored' = [restored EXCEPT ![u][r] = rec]
  BY DEF Comes, Arrives
<1>2. QED
  BY <1>1 DEF Enter, WorkersOK

LEMMA LeavesFrame ==
  ASSUME WorkersOK, NEW u \in Runs, NEW r \in Ranks, NEW phase, NEW st, NEW rec,
         Leaves(u, r, phase, st, rec)
  PROVE  /\ Elsewhere(u) /\ Beside(u, r) /\ waiting[u][r] = TRUE /\ Arrived(u, r) /\ Live(u, r)
         /\ pc'[u][r] = phase /\ waiting'[u][r] = FALSE /\ step'[u][r] = st /\ restored'[u][r] = rec
         /\ UNCHANGED <<cfg, entered, vetoed, versions, latest, damaged, sup>>
<1>1. Departs(u, r, phase, st, rec) /\ Live(u, r) /\ UNCHANGED <<versions, latest, damaged, sup>>
  BY DEF Leaves
<1>2. Elsewhere(u) /\ Beside(u, r)
  <2>1. saved' = saved \/ saved' = [saved EXCEPT ![u] = FALSE]
    BY DEF Leaves
  <2>2. QED
    BY <1>1, <2>1, DepartsFrame
<1>3. waiting[u][r] = TRUE /\ Arrived(u, r) /\ UNCHANGED <<cfg, entered, vetoed>>
  BY <1>1 DEF Departs, WorkersOK
<1>4. pc'[u][r] = phase /\ waiting'[u][r] = FALSE /\ step'[u][r] = st /\ restored'[u][r] = rec
  BY <1>1 DEF Departs, Move, WorkersOK
<1>5. QED
  BY <1>1, <1>2, <1>3, <1>4

LEMMA SpanComes ==
  ASSUME RunAssumption, TypeInv, LockInv, \A v \in Runs : SpanInv(v),
         NEW u \in Runs, NEW r \in Ranks, NEW vote, NEW rec, Comes(u, r, vote, rec)
  PROVE  \A v \in Runs : SpanInv(v)'
<1>1. WorkersOK /\ \A q \in Ranks : entered[u][q] \in Nat
  BY DEF TypeInv, ControlInv, WorkersOK
<1>2. /\ Elsewhere(u) /\ Beside(u, r) /\ Live(u, r) /\ waiting[u][r] = FALSE
      /\ entered'[u][r] = entered[u][r] + 1
      /\ vetoed'[u] \subseteq vetoed[u] \union {entered[u][r] + 1}
  BY <1>1, ComesFrame
<1>3. ASSUME NEW v \in Runs \ {u} PROVE SpanInv(v)'
  BY <1>2 DEF Elsewhere, SpanInv
<1>4. ASSUME NEW q \in Ranks PROVE entered[u][q] >= entered[u][r] /\ entered'[u][q] \in Nat /\ entered'[u][q] >= entered[u][q]
  <2>1. entered[u][q] >= entered[u][r]
    BY <1>2 DEF LockInv, PairInv, Passed
  <2>2. q # r => entered'[u][q] = entered[u][q]
    BY <1>2 DEF Beside
  <2>3. QED
    BY <1>1, <1>2, <2>1, <2>2
<1>5. ASSUME NEW q \in Ranks, NEW s \in Ranks
      PROVE  /\ entered'[u][q] =< entered'[u][s] + 1
             /\ \A n \in vetoed'[u] : n =< entered'[u][s] + 1
  <2>1. /\ entered[u][q] =< entered[u][s] + 1
        /\ \A n \in vetoed[u] : n =< entered[u][s] + 1
    BY DEF SpanInv
  <2>2. entered'[u][q] =< entered'[u][s] + 1
    <3>1. CASE q = r
      BY <1>1, <1>2, <1>4, <3>1
    <3>2. CASE q # r
      <4>1. entered'[u][q] = entered[u][q]
        BY <1>2, <3>2 DEF Beside
      <4>2. QED
        BY <1>1, <1>4, <2>1, <4>1
    <3>3. QED
      BY <3>1, <3>2
  <2>3. ASSUME NEW n \in vetoed'[u] PROVE n =< entered'[u][s] + 1
    <3>1. vetoed[u] \subseteq Nat
      BY <1>1 DEF WorkersOK
    <3>2. CASE n \in vetoed[u]
      <4>1. n =< entered[u][s] + 1 /\ n \in Nat
        BY <2>1, <3>1, <3>2
      <4>2. QED
        BY <1>1, <1>4, <4>1
    <3>3. CASE n = entered[u][r] + 1
      BY <1>1, <1>4, <3>3
    <3>4. QED
      BY <1>2, <2>3, <3>2, <3>3
  <2>4. QED
    BY <2>2, <2>3
<1>6. SpanInv(u)'
  BY <1>5 DEF SpanInv
<1>7. QED
  BY <1>3, <1>6

LEMMA SpanStep ==
  ASSUME RunAssumption, TypeInv, LockInv, WriterInv, \A v \in Runs : SpanInv(v), [Next]_vars
  PROVE  \A v \in Runs : SpanInv(v)'
<1>1. WorkersOK /\ faults \in Nat
  BY DEF TypeInv, ControlInv, WriterInv
<1>2. ASSUME UNCHANGED <<entered, vetoed>> PROVE \A v \in Runs : SpanInv(v)'
  BY <1>2 DEF SpanInv
<1>3. ASSUME NEW u \in Runs, NEW r \in Ranks, NEW phase, NEW st, NEW rec, Leaves(u, r, phase, st, rec)
      PROVE  UNCHANGED <<entered, vetoed>>
  BY <1>1, <1>3, LeavesFrame
<1>4. ASSUME NEW u \in Runs, NEW r \in Ranks, NEW phase, Finishes(u, r, phase)
      PROVE  UNCHANGED <<entered, vetoed>>
  BY <1>4 DEF Finishes, Stops
<1>5. ASSUME NEW u \in Runs, ReadMark(u) \/ PublishJournal(u)
      PROVE  UNCHANGED <<entered, vetoed>>
  BY <1>5 DEF ReadMark, PublishJournal
<1>6. ASSUME NEW u \in Runs, NEW phase, Restarts(u, phase)
      PROVE  \A v \in Runs : SpanInv(v)'
  <2>1. Reset(u, phase)
    BY <1>6 DEF Restarts
  <2>2. vetoed'[u] = {} /\ \A r \in Ranks : entered'[u][r] = 0
    BY <1>1, <2>1 DEF Reset, WorkersOK
  <2>3. \A v \in Runs \ {u} : vetoed'[v] = vetoed[v] /\ entered'[v] = entered[v]
    BY <1>1, <2>1 DEF Reset, WorkersOK
  <2>4. SpanInv(u)'
    BY <2>2 DEF SpanInv
  <2>5. \A v \in Runs \ {u} : SpanInv(v)'
    BY <2>3 DEF SpanInv
  <2>6. QED
    BY <2>4, <2>5
<1>7. CASE Rests
  BY <1>2, <1>7 DEF Rests
<1>8. QED
  BY <1>1, <1>2, <1>3, <1>4, <1>5, <1>6, <1>7, SpanComes, StepShapes

-------------------------------------------------------------------------------
(* What a publication leaves behind                                           *)

\* The collective in which a rank learns whether its save was published.
Verdict(u, r) == Passed(u, r) + IF pc[u][r] = "publish" THEN 1 ELSE 2

\* Two ranks neither of which is a collective further than the other's next.
LEMMA PairCases ==
  ASSUME RunAssumption, TypeInv, LockInv, NEW u \in Runs, NEW q \in Ranks, NEW r \in Ranks,
         Live(u, q), Live(u, r)
  PROVE  \/ Passed(u, q) = Passed(u, r) /\ Alike(u, q, r)
         \/ Passed(u, r) = Passed(u, q) + 1 /\ Follows(u, q, r) /\ waiting[u][q] = TRUE
         \/ Passed(u, q) = Passed(u, r) + 1 /\ Follows(u, r, q) /\ waiting[u][r] = TRUE
<1>1. PairInv(u, q, r) /\ PairInv(u, r, q) /\ ControlInv
  BY DEF LockInv, TypeInv
<1>2. \A s \in Ranks : entered[u][s] \in Nat /\ waiting[u][s] \in BOOLEAN
  BY <1>1 DEF ControlInv, WorkersOK
<1>3. \/ Passed(u, q) = Passed(u, r) \/ Passed(u, r) = Passed(u, q) + 1
      \/ Passed(u, q) = Passed(u, r) + 1
  BY <1>1, <1>2 DEF PairInv, Passed
<1>4. CASE Passed(u, q) = Passed(u, r)
  BY <1>1, <1>4 DEF PairInv
<1>5. CASE Passed(u, r) = Passed(u, q) + 1
  BY <1>1, <1>5, Behind DEF PairInv
<1>6. CASE Passed(u, q) = Passed(u, r) + 1
  BY <1>1, <1>6, Behind DEF PairInv
<1>7. QED
  BY <1>3, <1>4, <1>5, <1>6

\* While rank 0 publishes every live rank is in that collective or in the one before it.
LEMMA AtPublish ==
  ASSUME RunAssumption, TypeInv, LockInv, NEW u \in Runs, NEW r \in Ranks,
         Live(u, 0), waiting[u][0] = FALSE, Live(u, r)
  PROVE  /\ pc[u][0] = "publish" =>
              /\ pc[u][r] \in {"validate", "publish"} /\ Verdict(u, r) = entered[u][0] + 1
              /\ step[u][r] = step[u][0] /\ restored[u][r].start = restored[u][0].start
         /\ pc[u][0] # "publish" /\ pc[u][r] \in {"validate", "publish"} => Verdict(u, r) # entered[u][0] + 1
<1>1. /\ 0 \in Ranks /\ entered[u][0] \in Nat /\ entered[u][r] \in Nat /\ RankInv(u, r)
      /\ Passed(u, 0) = entered[u][0] /\ Passed(u, r) \in Int
  BY DEF TypeInv, ControlInv, WorkersOK, RunAssumption, Passed
<1>2. \/ Passed(u, 0) = Passed(u, r) /\ Alike(u, 0, r)
      \/ Passed(u, 0) = Passed(u, r) + 1 /\ Follows(u, r, 0) /\ waiting[u][r] = TRUE
  BY <1>1, PairCases
<1>3. CASE Passed(u, 0) = Passed(u, r) /\ Alike(u, 0, r)
  <2>1. Phase(pc[u][0]) = Phase(pc[u][r])
    BY <1>3 DEF Alike, Same
  <2>2. pc[u][0] = "publish" => pc[u][r] = "publish" /\ step[u][r] = step[u][0] /\ restored[u][r].start = restored[u][0].start
    BY <1>3, <2>1 DEF Alike, Same, Phase
  <2>3. pc[u][0] # "publish" => pc[u][r] # "publish"
    BY <2>1 DEF Phase
  <2>4. QED
    BY <1>1, <1>3, <2>2, <2>3 DEF Verdict
<1>4. CASE Passed(u, 0) = Passed(u, r) + 1 /\ Follows(u, r, 0) /\ waiting[u][r] = TRUE
  <2> DEFINE np == NextPhase(cfg[u], Accepted(u, r), pc[u][r], step[u][r], restored[u][r].start)
             ns == NextStep(Accepted(u, r), pc[u][r], step[u][r], restored[u][r].start)
  <2>1. pc[u][r] \in Collectives
    BY <1>1, <1>4 DEF RankInv, LocalInv
  <2>2. /\ Phase(np) = Phase(pc[u][0]) /\ ns = step[u][0]
        /\ Phase(np) \notin {"candidates", "load"} => restored[u][r].start = restored[u][0].start
    BY <1>4 DEF Follows, Same
  <2>3. np = "publish" <=> pc[u][r] = "validate"
    BY <2>1 DEF NextPhase, AfterRendezvous, Collectives, Phases
  <2>4. pc[u][r] = "validate" => ns = step[u][r]
    BY DEF NextStep
  <2>5. np = "publish" <=> pc[u][0] = "publish"
    BY <2>2 DEF Phase
  <2> HIDE DEF np, ns
  <2>6. pc[u][0] = "publish" =>
          pc[u][r] = "validate" /\ step[u][r] = step[u][0] /\ restored[u][r].start = restored[u][0].start
    BY <2>2, <2>3, <2>4, <2>5 DEF Phase
  <2>7. pc[u][0] # "publish" => pc[u][r] # "validate"
    BY <2>3, <2>5
  <2>8. QED
    BY <1>1, <1>4, <2>6, <2>7 DEF Verdict
<1>5. QED
  BY <1>2, <1>3, <1>4

IsSaved(u, r) ==
  latest = step[u][r] /\ (cfg[u].journal /\ step[u][r] = End(u, r) => HighWater = End(u, r))

\* A rank whose save was accepted finds it in the latest checkpoint, and its last step in
\* the journal.
PublishedInv(u, r) ==
  pc[u][r] \in {"validate", "publish"} /\ entered[u][0] >= Verdict(u, r) /\ Verdict(u, r) \notin vetoed[u]
    => IsSaved(u, r)

\* While a rank is done nothing else is published: rank 0 is done too or about to be.
Done(u, r) == pc[u][r] = "output" \/ (pc[u][r] = "exited" /\ sup[u] # "down")
DoneInv(u, r) ==
  Done(u, r) =>
    /\ latest = End(u, r) /\ (cfg[u].journal => HighWater = End(u, r))
    /\ Live(u, 0) =>
         pc[u][0] = "output" \/ (pc[u][0] = "publish" /\ waiting[u][0] = TRUE /\ step[u][0] = End(u, 0))

SavedInv(u) == \A r \in Ranks : PublishedInv(u, r) /\ DoneInv(u, r)

\* A run that is down has nothing to show for.
LEMMA OthersSaved ==
  ASSUME RunAssumption, WriterInv, NEW u \in Runs, Elsewhere(u), Active(u), NEW v \in Runs \ {u},
         sup'[v] = sup[v] \/ sup'[v] = "down"
  PROVE  SavedInv(v)'
<1>1. /\ sup[v] = "down" /\ \A r \in Ranks : ~Live(v, r)
      /\ pc'[v] = pc[v]
  BY ActiveAlone DEF Alone, Active, Elsewhere
<1>2. sup'[v] = "down"
  BY <1>1
<1>3. \A r \in Ranks : pc'[v][r] \in Ended
  BY <1>1 DEF Live
<1>4. QED
  BY <1>2, <1>3 DEF SavedInv, PublishedInv, DoneInv, Done, Ended

\* A step that leaves a rank, its run's verdicts and the artifacts alone.
LEMMA SavedSteady ==
  ASSUME NEW u \in Runs, NEW r \in Ranks, PublishedInv(u, r), cfg'[u] = cfg[u],
         pc'[u][r] = pc[u][r], waiting'[u][r] = waiting[u][r], entered'[u][r] = entered[u][r],
         entered'[u][0] = entered[u][0], vetoed'[u] = vetoed[u],
         step'[u][r] = step[u][r], restored'[u][r].start = restored[u][r].start,
         latest' = latest, HighWater' = HighWater
  PROVE  PublishedInv(u, r)'
  BY DEF PublishedInv, Verdict, Passed, IsSaved, End

\* Rank 0's own arrival at the publication.
LEMMA ZeroPublishes ==
  ASSUME RunAssumption, TypeInv, LockInv, NEW u \in Runs, SavedInv(u), WriteInv(u)',
         NEW vote, NEW rec, Comes(u, 0, vote, rec), pc[u][0] = "publish", NEW r \in Ranks, Live(u, r)
  PROVE  PublishedInv(u, r)'
<1>1. /\ WorkersOK /\ 0 \in Ranks /\ entered[u][0] \in Nat /\ cfg[u] \in Configs /\ Live(u, 0)
      /\ RankInv(u, 0)
  BY DEF TypeInv, ControlInv, RunAssumption, WorkersOK, RankInv, LocalInv, Live, Ended
<1>2. /\ waiting[u][0] = FALSE /\ waiting'[u][0] = TRUE /\ entered'[u][0] = entered[u][0] + 1
      /\ restored'[u][0] = rec /\ vote \in BOOLEAN
      /\ vote = FALSE => vetoed'[u] = vetoed[u] \union {entered[u][0] + 1}
      /\ UNCHANGED <<cfg, pc, step, saved>> /\ Passed(u, r)' = Passed(u, r) /\ Beside(u, 0)
  <2>1. /\ waiting[u][0] = FALSE /\ waiting'[u][0] = TRUE /\ entered'[u][0] = entered[u][0] + 1
    BY <1>1, ComesFrame
  <2>2. /\ restored'[u][0] = rec /\ vote \in BOOLEAN
        /\ vote = FALSE => vetoed'[u] = vetoed[u] \union {entered[u][0] + 1}
    <3>1. /\ Enter(u, 0, vote) /\ vote \in BOOLEAN
          /\ restored' = [restored EXCEPT ![u][0] = rec]
      BY DEF Comes, Arrives
    <3>2. QED
      BY <1>1, <3>1 DEF Enter, WorkersOK
  <2>3. Passed(u, r)' = Passed(u, r) /\ Beside(u, 0)
    BY <1>1, ComesFrame
  <2>4. cfg' = cfg /\ pc' = pc /\ step' = step /\ saved' = saved
    BY <1>1, ComesFrame
  <2>5. QED
    BY <2>1, <2>2, <2>3, <2>4
<1>3. rec = restored[u][0]
  BY DEF Comes
<1>4. \A q \in Ranks : restored'[u][q] = restored[u][q]
  BY <1>2, <1>3 DEF Beside
<1>5. /\ Verdict(u, r) = entered[u][0] + 1 /\ step[u][r] = step[u][0]
      /\ restored[u][r].start = restored[u][0].start
  BY <1>1, <1>2, AtPublish
<1>6. Verdict(u, r)' = entered[u][0] + 1
  BY <1>2, <1>5 DEF Verdict
<1>7. CASE vote = FALSE
  BY <1>2, <1>6, <1>7 DEF PublishedInv
<1>8. CASE vote = TRUE
  <2>1. latest' = step[u][0]
    BY <1>8 DEF Comes
  <2>2. ASSUME entered[u][0] + 1 \notin vetoed'[u], cfg[u].journal, step[u][0] = End(u, 0)
        PROVE  HighWater' = End(u, 0)
    <3>1. WriteLocal(cfg[u], "publish", TRUE, entered[u][0] + 1, step[u][0], restored[u][0],
                     vetoed'[u], saved[u], HighWater', Free(versions'))
      BY <1>1, <1>2, <1>3, <2>2 DEF WriteInv, Live
    <3>2. \/ saved[u] /\ HighWater' = step[u][0]
          \/ restored[u][0].mark # None /\ step[u][0] =< restored[u][0].mark
      BY <2>2, <3>1 DEF WriteLocal
    <3>3. restored[u][0].start + cfg[u].steps > OrZero(restored[u][0].mark)
      BY <2>2, <3>1 DEF WriteLocal
    <3>4. CASE restored[u][0].mark # None /\ step[u][0] =< restored[u][0].mark
      <4>1. restored[u][0].mark \in Nat /\ step[u][0] \in Nat
        BY <1>1, <3>4, Unmoved DEF Recovery, Steps, RunAssumption
      <4>2. step[u][0] > restored[u][0].mark
        BY <2>2, <3>3, <3>4 DEF OrZero, End
      <4>3. QED
        BY <3>4, <4>1, <4>2
    <3>5. QED
      BY <2>2, <3>2, <3>4
  <2>3. step'[u][r] = step[u][0] /\ End(u, r)' = End(u, 0) /\ cfg'[u] = cfg[u]
    BY <1>2, <1>4, <1>5 DEF End
  <2>4. entered[u][0] + 1 \notin vetoed'[u] => IsSaved(u, r)'
    BY <2>1, <2>2, <2>3 DEF IsSaved
  <2>5. QED
    BY <1>6, <2>4 DEF PublishedInv
<1>9. QED
  BY <1>2, <1>7, <1>8

LEMMA ComesSaved ==
  ASSUME RunAssumption, TypeInv, LockInv, WriterInv, \A v \in Runs : SavedInv(v), \A v \in Runs : WriteInv(v)',
         NEW u \in Runs, NEW r \in Ranks, NEW vote, NEW rec, Comes(u, r, vote, rec)
  PROVE  \A v \in Runs : SavedInv(v)'
<1>1. /\ WorkersOK /\ StoreOK /\ 0 \in Ranks /\ pc[u][r] \in Collectives
  BY DEF TypeInv, ControlInv, RunAssumption, Comes
<1>2. /\ Elsewhere(u) /\ Beside(u, r) /\ Live(u, r) /\ waiting[u][r] = FALSE
      /\ waiting'[u][r] = TRUE /\ entered'[u][r] = entered[u][r] + 1 /\ restored'[u][r] = rec
      /\ vote \in BOOLEAN
      /\ vote = TRUE => vetoed'[u] = vetoed[u]
      /\ vote = FALSE => vetoed'[u] = vetoed[u] \union {entered[u][r] + 1}
      /\ UNCHANGED <<cfg, pc, step, saved, sup, damaged>>
  <2>1. /\ Elsewhere(u) /\ Beside(u, r) /\ Live(u, r) /\ waiting[u][r] = FALSE
        /\ waiting'[u][r] = TRUE /\ entered'[u][r] = entered[u][r] + 1
    BY <1>1, ComesFrame
  <2>2. /\ restored'[u][r] = rec /\ vote \in BOOLEAN
        /\ vote = TRUE => vetoed'[u] = vetoed[u]
        /\ vote = FALSE => vetoed'[u] = vetoed[u] \union {entered[u][r] + 1}
    BY <1>1, ComesVetoes, Zenon
  <2>3. cfg' = cfg /\ pc' = pc /\ step' = step /\ saved' = saved /\ sup' = sup /\ damaged' = damaged
    BY <1>1, ComesFrame
  <2>4. QED
    BY <2>1, <2>2, <2>3
<1>3. \A q \in Ranks : Live(u, q)' = Live(u, q) /\ Passed(u, q)' = Passed(u, q)
  BY <1>1, ComesFrame
<1>4. \A v \in Runs \ {u} : SavedInv(v)'
  BY <1>2, OthersSaved DEF Active
<1>5. \A q \in Ranks : pc[u][q] \notin {"load", "listing"} => restored'[u][q] = restored[u][q]
  BY <1>2 DEF Beside, Comes
<1>6. vetoed[u] \subseteq vetoed'[u]
  BY <1>2
<1>7. (r = 0 /\ pc[u][0] = "publish") \/ (latest' = latest /\ HighWater' = HighWater)
  BY <1>1, Opened DEF Comes
<1>8. ASSUME NEW q \in Ranks PROVE PublishedInv(u, q)'
  <2>1. CASE pc[u][q] \notin {"validate", "publish"}
    BY <1>2, <2>1 DEF PublishedInv
  <2>2. CASE pc[u][q] \in {"validate", "publish"}
    <3>1. Live(u, q)
      BY <2>2 DEF Live, Ended
    <3>2. CASE r = 0 /\ pc[u][0] = "publish"
      BY <3>1, <3>2, ZeroPublishes
    <3>3. CASE ~(r = 0 /\ pc[u][0] = "publish")
      <4>1. Verdict(u, q)' = Verdict(u, q)
        BY <1>2, <1>3 DEF Verdict
      <4>2. restored'[u][q] = restored[u][q]
        BY <1>5, <2>2
      <4>3. IsSaved(u, q)' = IsSaved(u, q)
        BY <1>2, <1>7, <3>3, <4>2 DEF IsSaved, End
      <4>4. entered'[u][0] = entered[u][0] \/ (r = 0 /\ entered'[u][0] = entered[u][0] + 1)
        BY <1>1, <1>2 DEF Beside
      <4>5. Verdict(u, q) # entered[u][0] + 1 \/ r # 0
        BY <1>2, <2>2, <3>1, <3>3, AtPublish
      <4>6. entered[u][0] \in Nat /\ Verdict(u, q) \in Int
        BY <1>1 DEF WorkersOK, Verdict, Passed
      <4>7. entered'[u][0] >= Verdict(u, q) => entered[u][0] >= Verdict(u, q)
        BY <4>4, <4>5, <4>6
      <4>8. PublishedInv(u, q)
        BY DEF SavedInv
      <4>9. QED
        BY <1>2, <1>6, <4>1, <4>3, <4>7, <4>8 DEF PublishedInv
    <3>4. QED
      BY <3>2, <3>3
  <2>3. QED
    BY <2>1, <2>2
<1>9. ASSUME NEW q \in Ranks PROVE DoneInv(u, q)'
  <2>1. Done(u, q)' = Done(u, q)
    BY <1>2 DEF Done
  <2>2. ASSUME Done(u, q) PROVE DoneInv(u, q)'
    <3>1. DoneInv(u, q)
      BY DEF SavedInv
    <3>2. r # 0
      <4>1. ASSUME r = 0 PROVE FALSE
        <5>1. pc[u][0] = "output" \/ waiting[u][0] = TRUE
          BY <1>2, <2>2, <3>1, <4>1 DEF DoneInv
        <5>2. QED
          BY <1>1, <1>2, <4>1, <5>1 DEF Collectives
      <4>2. QED
        BY <4>1
    <3>3. /\ latest' = latest /\ HighWater' = HighWater
          /\ waiting'[u][0] = waiting[u][0] /\ restored'[u][q].start = restored[u][q].start
      <4>1. pc[u][q] \notin {"load", "listing"}
        BY <2>2 DEF Done
      <4>2. QED
        BY <1>1, <1>2, <1>5, <1>7, <3>2, <4>1 DEF Beside
    <3>4. Live(u, 0) => pc[u][0] \in {"output", "publish"}
      BY <2>2, <3>1 DEF DoneInv
    <3>5. Live(u, 0) => restored'[u][0] = restored[u][0]
      BY <1>1, <1>5, <3>4
    <3>6. QED
      BY <1>1, <1>2, <2>2, <3>1, <3>3, <3>5 DEF DoneInv, End, Live
  <2>3. QED
    BY <2>1, <2>2 DEF DoneInv
<1>10. QED
  BY <1>4, <1>8, <1>9 DEF SavedInv

LEMMA LeavesSaved ==
  ASSUME RunAssumption, TypeInv, LockInv, WriterInv, \A v \in Runs : SpanInv(v), \A v \in Runs : SavedInv(v),
         NEW u \in Runs, NEW r \in Ranks, NEW phase, NEW st, NEW rec, Leaves(u, r, phase, st, rec)
  PROVE  \A v \in Runs : SavedInv(v)'
<1>1. /\ WorkersOK /\ ControlInv /\ 0 \in Ranks /\ pc[u][r] \in Collectives /\ RankInv(u, r)
  BY DEF TypeInv, ControlInv, RunAssumption, Leaves
<1>2. /\ Elsewhere(u) /\ Beside(u, r) /\ waiting[u][r] = TRUE /\ Arrived(u, r) /\ Live(u, r)
      /\ pc'[u][r] = phase /\ waiting'[u][r] = FALSE /\ step'[u][r] = st /\ restored'[u][r] = rec
      /\ UNCHANGED <<cfg, entered, vetoed, versions, latest, damaged, sup>>
  BY <1>1, LeavesFrame
<1>3. HighWater' = HighWater
  BY <1>2 DEF HighWater
<1>4. \A v \in Runs \ {u} : SavedInv(v)'
  BY <1>2, OthersSaved DEF Active
<1>5. \A q \in Ranks : entered[u][q] \in Nat
  BY <1>1 DEF WorkersOK
<1>6. ASSUME NEW q \in Ranks, q # r PROVE PublishedInv(u, q)'
  BY <1>2, <1>3, <1>6, SavedSteady DEF Beside, SavedInv
<1>7. /\ phase = NextPhase(cfg[u], Accepted(u, r), pc[u][r], step[u][r], restored[u][r].start)
      /\ st = NextStep(Accepted(u, r), pc[u][r], step[u][r], restored[u][r].start)
      /\ Accepted(u, r) \/ pc[u][r] = "rendezvous" \/ (pc[u][r] = "load" /\ cfg[u].journal)
      /\ pc[u][r] \notin {"candidates", "listing"} => rec.start = restored[u][r].start
  BY DEF Leaves
<1>8. /\ phase = "publish" => pc[u][r] = "validate"
      /\ phase = "validate" => pc[u][r] = "train"
      /\ phase = "output" => pc[u][r] = "publish" /\ step[u][r] = End(u, r)
      /\ phase # "exited"
      /\ pc[u][r] = "publish" /\ step[u][r] = End(u, r) => phase = "output"
  BY <1>1, <1>7 DEF NextPhase, AfterRendezvous, Collectives, Phases, End
<1>9. PublishedInv(u, r)'
  <2>1. CASE phase = "validate"
    <3>1. Verdict(u, r)' = entered[u][r] + 2
      BY <1>2, <2>1 DEF Verdict, Passed
    <3>2. entered[u][0] =< entered[u][r] + 1
      BY <1>1 DEF SpanInv
    <3>3. ~(entered'[u][0] >= Verdict(u, r)')
      BY <1>1, <1>2, <1>5, <3>1, <3>2
    <3>4. QED
      BY <3>3 DEF PublishedInv
  <2>2. CASE phase = "publish"
    <3>1. pc[u][r] = "validate" /\ PublishedInv(u, r)
      BY <1>8, <2>2 DEF SavedInv
    <3>2. Verdict(u, r)' = entered[u][r] + 1 /\ Verdict(u, r) = entered[u][r] - 1 + 2
      BY <1>2, <2>2, <3>1 DEF Verdict, Passed
    <3>3. st = step[u][r] /\ rec.start = restored[u][r].start
      BY <1>7, <3>1 DEF NextStep
    <3>4. IsSaved(u, r)' = IsSaved(u, r)
      BY <1>2, <1>3, <3>3 DEF IsSaved, End
    <3>5. Verdict(u, r)' = Verdict(u, r)
      BY <1>5, <3>2
    <3>6. QED
      BY <1>2, <3>1, <3>4, <3>5 DEF PublishedInv
  <2>3. CASE phase \notin {"validate", "publish"}
    BY <1>2, <2>3 DEF PublishedInv
  <2>4. QED
    BY <2>1, <2>2, <2>3
<1>10. ASSUME phase = "output" PROVE DoneInv(u, r)'
  <2>1. pc[u][r] = "publish" /\ step[u][r] = End(u, r) /\ Accepted(u, r) /\ PublishedInv(u, r)
    BY <1>7, <1>8, <1>10 DEF SavedInv
  <2>2. Verdict(u, r) = entered[u][r] /\ entered[u][0] >= entered[u][r]
    BY <1>1, <1>2, <1>5, <2>1 DEF Verdict, Passed, Arrived
  <2>3. IsSaved(u, r)
    BY <2>1, <2>2 DEF PublishedInv, Accepted
  <2>4. End(u, r)' = End(u, r)
    BY <1>2, <1>7, <2>1 DEF End
  <2>5. latest' = End(u, r)' /\ (cfg'[u].journal => HighWater' = End(u, r)')
    BY <1>2, <1>3, <2>1, <2>3, <2>4 DEF IsSaved
  <2>6. ASSUME Live(u, 0)'
        PROVE  pc'[u][0] = "output" \/ (pc'[u][0] = "publish" /\ waiting'[u][0] = TRUE /\ step'[u][0] = End(u, 0)')
    <3>1. CASE r = 0
      BY <1>2, <1>10, <3>1
    <3>2. CASE r # 0
      <4>1. /\ pc'[u][0] = pc[u][0] /\ waiting'[u][0] = waiting[u][0] /\ step'[u][0] = step[u][0]
            /\ End(u, 0)' = End(u, 0)
        BY <1>1, <1>2, <3>2 DEF Beside, End
      <4>2. Live(u, 0)
        BY <2>6, <4>1 DEF Live
      <4>3. entered[u][0] \in Nat /\ entered[u][r] \in Nat /\ waiting[u][0] \in BOOLEAN
            /\ Passed(u, r) = entered[u][r] - 1
        BY <1>1, <1>2 DEF WorkersOK, Passed
      <4>4. \/ Passed(u, 0) = Passed(u, r) /\ Alike(u, 0, r)
            \/ Passed(u, r) = Passed(u, 0) + 1
            \/ Passed(u, 0) = Passed(u, r) + 1 /\ Follows(u, r, 0)
        BY <1>1, <1>2, <4>2, PairCases
      <4>5. CASE Passed(u, 0) = Passed(u, r) /\ Alike(u, 0, r)
        <5>1. waiting[u][0] = TRUE
          BY <2>2, <4>3, <4>5 DEF Passed
        <5>2. pc[u][0] = "publish" /\ step[u][0] = step[u][r] /\ restored[u][0].start = restored[u][r].start
          BY <2>1, <4>5 DEF Alike, Same, Phase
        <5>3. QED
          BY <2>1, <4>1, <5>1, <5>2 DEF End
      <4>6. CASE Passed(u, r) = Passed(u, 0) + 1
        BY <2>2, <4>3, <4>6 DEF Passed
      <4>7. CASE Passed(u, 0) = Passed(u, r) + 1 /\ Follows(u, r, 0)
        <5>1. Phase(phase) = Phase(pc[u][0])
          BY <1>7, <4>7 DEF Follows, Same
        <5>2. QED
          BY <1>10, <4>1, <5>1 DEF Phase
      <4>8. QED
        BY <4>4, <4>5, <4>6, <4>7
    <3>3. QED
      BY <3>1, <3>2
  <2>7. QED
    BY <2>5, <2>6 DEF DoneInv
<1>11. ASSUME NEW q \in Ranks, q # r PROVE DoneInv(u, q)'
  <2>1. /\ Done(u, q)' = Done(u, q) /\ End(u, q)' = End(u, q) /\ DoneInv(u, q)
    BY <1>2, <1>11 DEF Done, Beside, End, SavedInv
  <2>2. ASSUME Done(u, q), Live(u, 0)'
        PROVE  pc'[u][0] = "output" \/ (pc'[u][0] = "publish" /\ waiting'[u][0] = TRUE /\ step'[u][0] = End(u, 0)')
    <3>1. CASE r = 0
      <4>1. pc[u][0] = "publish" /\ step[u][0] = End(u, 0)
        BY <1>1, <1>2, <2>1, <2>2, <3>1 DEF DoneInv, Collectives
      <4>2. QED
        BY <1>2, <1>8, <3>1, <4>1
    <3>2. CASE r # 0
      BY <1>1, <1>2, <2>1, <2>2, <3>2 DEF Beside, DoneInv, Live, End
    <3>3. QED
      BY <3>1, <3>2
  <2>3. QED
    BY <1>2, <1>3, <2>1, <2>2 DEF DoneInv
<1>12. phase # "output" => DoneInv(u, r)'
  BY <1>2, <1>8 DEF DoneInv, Done
<1>13. QED
  BY <1>4, <1>6, <1>9, <1>10, <1>11, <1>12 DEF SavedInv

LEMMA FinishesSaved ==
  ASSUME RunAssumption, TypeInv, WriterInv, \A v \in Runs : SavedInv(v),
         NEW u \in Runs, NEW r \in Ranks, NEW phase, Finishes(u, r, phase)
  PROVE  \A v \in Runs : SavedInv(v)'
<1>1. /\ WorkersOK /\ 0 \in Ranks /\ Stops(u, r, phase) /\ phase \in Ended
      /\ UNCHANGED <<versions, latest, sup>> /\ (phase = "exited" => pc[u][r] = "output")
  BY DEF TypeInv, ControlInv, RunAssumption, Finishes, Stops
<1>2. Elsewhere(u) /\ Beside(u, r) /\ pc'[u][r] = phase
  BY <1>1, StopsFrame
<1>3. cfg' = cfg /\ entered' = entered /\ vetoed' = vetoed /\ step' = step /\ restored' = restored
  BY <1>1 DEF Stops
<1>4. HighWater' = HighWater /\ latest' = latest /\ sup' = sup
  BY <1>1 DEF HighWater
<1>5. ASSUME NEW v \in Runs, NEW q \in Ranks, v # u \/ q # r
      PROVE  pc'[v][q] = pc[v][q] /\ waiting'[v][q] = waiting[v][q]
  BY <1>2, <1>5 DEF Elsewhere, Beside
<1>6. ASSUME NEW v \in Runs, NEW q \in Ranks PROVE PublishedInv(v, q)'
  <2>1. CASE v # u \/ q # r
    BY <1>3, <1>4, <1>5, <2>1, SavedSteady DEF SavedInv
  <2>2. CASE v = u /\ q = r
    BY <1>1, <1>2, <2>2 DEF PublishedInv, Ended
  <2>3. QED
    BY <2>1, <2>2
<1>7. ASSUME NEW v \in Runs, NEW q \in Ranks PROVE DoneInv(v, q)'
  <2>1. DoneInv(v, q)
    BY DEF SavedInv
  <2>2. Done(v, q)' => Done(v, q)
    <3>1. CASE v # u \/ q # r
      BY <1>4, <1>5, <3>1 DEF Done
    <3>2. CASE v = u /\ q = r
      BY <1>1, <1>2, <3>2 DEF Done, Ended
    <3>3. QED
      BY <3>1, <3>2
  <2>3. ASSUME Live(v, 0)'
        PROVE  Live(v, 0) /\ pc'[v][0] = pc[v][0] /\ waiting'[v][0] = waiting[v][0]
    <3>1. v # u \/ 0 # r
      BY <1>1, <1>2, <2>3 DEF Live
    <3>2. pc'[v][0] = pc[v][0] /\ waiting'[v][0] = waiting[v][0]
      BY <1>1, <1>5, <3>1
    <3>3. QED
      BY <2>3, <3>2 DEF Live
  <2>4. QED
    BY <1>3, <1>4, <2>1, <2>2, <2>3 DEF DoneInv, End
<1>8. QED
  BY <1>6, <1>7 DEF SavedInv

\* Before rank 0 has entered the publication no rank is done.
LEMMA NoneDone ==
  ASSUME NEW u \in Runs, SavedInv(u), Live(u, 0), pc[u][0] # "output", waiting[u][0] = FALSE, NEW q \in Ranks
  PROVE  ~Done(u, q)
  BY DEF SavedInv, DoneInv

LEMMA ReadMarkSaved ==
  ASSUME RunAssumption, TypeInv, WriterInv, \A v \in Runs : SavedInv(v), NEW u \in Runs, ReadMark(u)
  PROVE  \A v \in Runs : SavedInv(v)'
<1>1. /\ WorkersOK /\ 0 \in Ranks /\ pc[u][0] = "candidates" /\ waiting[u][0] = FALSE
      /\ pc' = [pc EXCEPT ![u][0] = "listing"]
      /\ restored' = [restored EXCEPT ![u][0].mark = HighWater]
      /\ UNCHANGED <<versions, latest, cfg, sup, waiting, entered, step, vetoed, saved>>
  BY DEF TypeInv, ControlInv, RunAssumption, ReadMark, Ready, WorkersOK, store
<1>2. /\ pc \in [Runs -> [Ranks -> Phases]] /\ restored \in [Runs -> [Ranks -> Recovery]]
  BY <1>1 DEF WorkersOK
<1>3. HighWater' = HighWater /\ latest' = latest /\ sup' = sup
  BY <1>1 DEF HighWater
<1>4. Live(u, 0) /\ Elsewhere(u)
  BY <1>1, <1>2 DEF Live, Ended, Elsewhere
<1>5. \A v \in Runs \ {u} : SavedInv(v)'
  BY <1>3, <1>4, OthersSaved DEF Active
<1>6. ASSUME NEW q \in Ranks, q # 0 PROVE pc'[u][q] = pc[u][q] /\ restored'[u][q] = restored[u][q]
  BY <1>1, <1>2, <1>6
<1>7. ASSUME NEW q \in Ranks PROVE PublishedInv(u, q)'
  <2>1. CASE q = 0
    <3>1. pc'[u][q] = "listing"
      BY <1>1, <1>2, <2>1
    <3>2. QED
      BY <3>1 DEF PublishedInv
  <2>2. CASE q # 0
    BY <1>1, <1>3, <1>6, <2>2, SavedSteady DEF SavedInv
  <2>3. QED
    BY <2>1, <2>2
<1>8. ASSUME NEW q \in Ranks PROVE DoneInv(u, q)'
  <2>1. ~Done(u, q)
    BY <1>1, <1>4, NoneDone
  <2>2. ~Done(u, q)'
    <3>1. CASE q = 0
      <4>1. pc'[u][q] = "listing"
        BY <1>1, <1>2, <3>1
      <4>2. QED
        BY <4>1 DEF Done
    <3>2. CASE q # 0
      BY <1>3, <1>6, <2>1, <3>2 DEF Done
    <3>3. QED
      BY <3>1, <3>2
  <2>3. QED
    BY <2>2 DEF DoneInv
<1>9. QED
  BY <1>5, <1>7, <1>8 DEF SavedInv

LEMMA PublishJournalSaved ==
  ASSUME RunAssumption, TypeInv, LockInv, WriterInv, \A v \in Runs : SavedInv(v), NEW u \in Runs, PublishJournal(u)
  PROVE  \A v \in Runs : SavedInv(v)'
<1>1. /\ WorkersOK /\ 0 \in Ranks /\ pc[u][0] = "publish" /\ waiting[u][0] = FALSE /\ Live(u, 0)
      /\ saved' = [saved EXCEPT ![u] = TRUE]
      /\ UNCHANGED <<cfg, sup, pc, waiting, entered, step, vetoed, restored>>
  BY DEF TypeInv, ControlInv, RunAssumption, PublishJournal, Publishing, Ready, WorkersOK, Live, Ended
<1>2. Elsewhere(u)
  BY <1>1 DEF Elsewhere, WorkersOK
<1>3. \A v \in Runs \ {u} : SavedInv(v)'
  BY <1>1, <1>2, OthersSaved DEF Active
<1>4. ASSUME NEW q \in Ranks PROVE PublishedInv(u, q)'
  <2>1. CASE pc[u][q] \notin {"validate", "publish"}
    BY <1>1, <2>1 DEF PublishedInv
  <2>2. CASE pc[u][q] \in {"validate", "publish"}
    <3>1. Verdict(u, q) = entered[u][0] + 1
      BY <1>1, <2>2, AtPublish DEF Live, Ended
    <3>2. Verdict(u, q)' = Verdict(u, q) /\ entered[u][0] \in Nat
      BY <1>1 DEF Verdict, Passed, WorkersOK
    <3>3. ~(entered'[u][0] >= Verdict(u, q)')
      BY <1>1, <3>1, <3>2
    <3>4. QED
      BY <3>3 DEF PublishedInv
  <2>3. QED
    BY <2>1, <2>2
<1>5. ASSUME NEW q \in Ranks PROVE DoneInv(u, q)'
  <2>1. ~Done(u, q)
    BY <1>1, NoneDone
  <2>2. QED
    BY <1>1, <2>1 DEF DoneInv, Done
<1>6. QED
  BY <1>3, <1>4, <1>5 DEF SavedInv

LEMMA RestartsSaved ==
  ASSUME RunAssumption, TypeInv, \A v \in Runs : SavedInv(v), NEW u \in Runs, NEW phase, Restarts(u, phase)
  PROVE  \A v \in Runs : SavedInv(v)'
<1>1. /\ WorkersOK /\ 0 \in Ranks /\ Reset(u, phase) /\ phase \in {"rendezvous", "exited"} /\ phase \in Phases
      /\ UNCHANGED <<versions, latest>> /\ (phase = "exited" => sup'[u] = "down")
      /\ \A v \in Runs \ {u} : cfg'[v] = cfg[v] /\ sup'[v] = sup[v]
  BY DEF TypeInv, ControlInv, RunAssumption, Restarts, Phases
<1>2. Elsewhere(u)
  BY <1>1, ResetFrame
<1>3. \A q \in Ranks : pc'[u][q] = phase
  BY <1>1 DEF Reset, WorkersOK
<1>4. SavedInv(u)'
  BY <1>1, <1>3 DEF SavedInv, PublishedInv, DoneInv, Done
<1>5. HighWater' = HighWater
  BY <1>1 DEF HighWater
<1>6. ASSUME NEW v \in Runs \ {u} PROVE SavedInv(v)'
  <2>1. /\ cfg'[v] = cfg[v] /\ sup'[v] = sup[v] /\ pc'[v] = pc[v] /\ waiting'[v] = waiting[v]
        /\ entered'[v] = entered[v] /\ step'[v] = step[v] /\ vetoed'[v] = vetoed[v]
        /\ restored'[v] = restored[v]
    BY <1>1, <1>2 DEF Elsewhere
  <2>2. \A q \in Ranks : PublishedInv(v, q)'
    BY <1>1, <1>5, <2>1, SavedSteady DEF SavedInv
  <2>3. \A q \in Ranks : DoneInv(v, q)'
    BY <1>1, <1>5, <2>1 DEF SavedInv, DoneInv, Done, End, Live
  <2>4. QED
    BY <2>2, <2>3 DEF SavedInv
<1>7. QED
  BY <1>4, <1>6

LEMMA SavedStep ==
  ASSUME RunAssumption, TypeInv, LockInv, WriterInv, \A v \in Runs : SpanInv(v), \A v \in Runs : SavedInv(v),
         \A v \in Runs : WriteInv(v)', [Next]_vars
  PROVE  \A v \in Runs : SavedInv(v)'
<1>1. faults \in Nat
  BY DEF WriterInv
<1>2. CASE Rests
  <2>1. /\ UNCHANGED <<cfg, pc, waiting, entered, step, vetoed, restored, latest>>
        /\ HighWater' = HighWater
        /\ \A u \in Runs : sup'[u] # "down" => sup[u] # "down"
    BY <1>2 DEF Rests, HighWater
  <2>2. ASSUME NEW v \in Runs, NEW q \in Ranks PROVE PublishedInv(v, q)'
    BY <2>1, SavedSteady DEF SavedInv
  <2>3. ASSUME NEW v \in Runs, NEW q \in Ranks PROVE DoneInv(v, q)'
    <3>1. Done(v, q)' => Done(v, q)
      BY <2>1 DEF Done
    <3>2. QED
      BY <2>1, <3>1 DEF SavedInv, DoneInv, End, Live
  <2>4. QED
    BY <2>2, <2>3 DEF SavedInv
<1>3. QED
  BY <1>1, <1>2, StepShapes, ComesSaved, LeavesSaved, FinishesSaved, ReadMarkSaved,
     PublishJournalSaved, RestartsSaved

SafeInv ==
  /\ TypeInv /\ LatestInv /\ LockInv /\ WriterInv /\ AdmissionInv
  /\ \A u \in Runs : SpanInv(u) /\ SavedInv(u)

LEMMA SafeInit == ASSUME RunAssumption, Init PROVE \A u \in Runs : SpanInv(u) /\ SavedInv(u)
  BY DEF Init, SpanInv, SavedInv, PublishedInv, DoneInv, Done

LEMMA SafeInvariant ==
  ASSUME RunAssumption, OneWriter
  PROVE  Spec => []SafeInv
<1> DEFINE Spans == \A u \in Runs : SpanInv(u)
           Saves == \A u \in Runs : SavedInv(u)
<1>1. Init => Spans /\ Saves
  BY SafeInit
<1>2. TypeInv /\ LockInv /\ WriterInv /\ Spans /\ [Next]_vars => Spans'
  BY SpanStep
<1>3. TypeInv /\ LockInv /\ WriterInv /\ Spans /\ Saves /\ AdmissionInv' /\ [Next]_vars => Saves'
  BY SavedStep DEF AdmissionInv
<1>4. Spec => [](TypeInv /\ LatestInv /\ WriterInv /\ AdmissionInv)
  BY AdmissionInvariant
<1>5. Spec => [](TypeInv /\ LockInv)
  BY LockInvariant
<1>6. TypeInv /\ LatestInv /\ LockInv /\ WriterInv /\ AdmissionInv /\ Spans /\ Saves => SafeInv
  BY DEF SafeInv
<1> HIDE DEF Spans, Saves
<1>7. QED
  BY <1>1, <1>2, <1>3, <1>4, <1>5, <1>6, PTL DEF Spec

-------------------------------------------------------------------------------
(* What a resumed run restores                                                *)

Whole == OrEmpty(versions) \ damaged

\* A rank of a run that resumes from the journal, while nothing has failed: the candidates
\* and what is left of them hold every version that restores; those it tries come in the
\* order of their steps, and a load is voted down only when its version is damaged.
RestoreInv(u, r) ==
  LET left == restored[u][r].left
      left0 == restored[u][0].left
      p == pc[u][r]
      w == waiting[u][r]
      n == Passed(u, r)
      V == vetoed[u]
  IN
  /\ p \in {"rendezvous", "candidates", "listing"} /\ entered[u][0] >= 2 => Whole \subseteq left0
  /\ p = "load" => Whole \subseteq left
  /\ p \in {"schedule", "capacity"} => versions # None /\ \A s \in Whole : s =< restored[u][r].start
  /\ p = "load" /\ w = TRUE => restored[u][r].start = Max(left)
  /\ p = "load" /\ n + 1 \in V => Max(left) \in damaged
  /\ p = "load" /\ w = TRUE /\ n + 1 \in V /\ n + 2 \in V => Max(left \ {Max(left)}) \in damaged
  /\ p \in {"candidates", "listing"} /\ w = TRUE /\ n + 2 \in V => Max(left0) \in damaged

Resumed(u, r) == faults = 0 /\ Live(u, r) /\ cfg[u].journal /\ cfg[u].resume

ReadInv(u) ==
  \A r \in Ranks :
    /\ restored[u][r].left \subseteq OrEmpty(versions)
    /\ Resumed(u, r) => RestoreInv(u, r)

LEMMA OrEmptyGrows ==
  ASSUME RunAssumption, TypeInv, [Next]_vars
  PROVE  OrEmpty(versions) \subseteq OrEmpty(versions') /\ (versions # None => versions' # None)
  BY VersionsStep DEF OrEmpty

\* A run that is down has nothing to restore.
LEMMA OthersRead ==
  ASSUME RunAssumption, TypeInv, WriterInv, [Next]_vars, NEW u \in Runs, Elsewhere(u), Active(u),
         NEW v \in Runs \ {u}, ReadInv(v)
  PROVE  ReadInv(v)'
<1>1. /\ \A r \in Ranks : ~Live(v, r)
      /\ pc'[v] = pc[v] /\ restored'[v] = restored[v]
  BY ActiveAlone DEF Alone, Active, Elsewhere
<1>2. \A r \in Ranks : ~Live(v, r)'
  BY <1>1 DEF Live
<1>3. OrEmpty(versions) \subseteq OrEmpty(versions')
  BY OrEmptyGrows
<1>4. QED
  BY <1>1, <1>2, <1>3 DEF ReadInv, Resumed

\* A step that leaves a rank, rank 0's candidates, its run's verdicts and the journal alone.
LEMMA ReadSteady ==
  ASSUME NEW u \in Runs, NEW r \in Ranks, RestoreInv(u, r), cfg'[u] = cfg[u],
         pc'[u][r] = pc[u][r], waiting'[u][r] = waiting[u][r], entered'[u][r] = entered[u][r],
         entered'[u][0] = entered[u][0], vetoed'[u] = vetoed[u], restored'[u][r] = restored[u][r],
         \/ restored'[u][0].left = restored[u][0].left
         \/ pc[u][r] \notin {"rendezvous", "candidates", "listing"},
         versions' = versions, damaged \subseteq damaged'
  PROVE  RestoreInv(u, r)'
<1>1. Whole' \subseteq Whole /\ Passed(u, r)' = Passed(u, r)
  BY DEF Whole, Passed
<1>2. CASE restored'[u][0].left = restored[u][0].left
  BY <1>1, <1>2 DEF RestoreInv
<1>3. CASE pc[u][r] \notin {"rendezvous", "candidates", "listing"}
  BY <1>1, <1>3 DEF RestoreInv
<1>4. QED
  BY <1>2, <1>3

\* Without a fault a load fails only for a version that is damaged.
LEMMA LoadVetoed ==
  ASSUME RunAssumption, TypeInv, NEW u \in Runs, NEW r \in Ranks, NEW vote, NEW rec,
         Comes(u, r, vote, rec), vote = FALSE, faults' = 0, pc[u][r] = "load", cfg[u].journal
  PROVE  Max(restored[u][r].left) \in damaged
<1>1. ~Loadable(u, r)
  BY DEF Comes
<1>2. restored[u][r].left # {} /\ restored[u][r].left \in SUBSET Steps
  <2>1. RankInv(u, r) /\ restored[u][r] \in Recovery
    BY DEF TypeInv, ControlInv, WorkersOK
  <2>2. QED
    BY <2>1 DEF RankInv, LocalInv, Recovery
<1>3. Source(u, r) = Max(restored[u][r].left)
  BY DEF Source
<1>4. Max(restored[u][r].left) \in Steps
  BY <1>2, MaxStepOf
<1>5. Max(restored[u][r].left) # None
  BY <1>4 DEF Steps, RunAssumption
<1>6. QED
  BY <1>1, <1>3, <1>5 DEF Loadable, Intact

\* The verdicts that a rank's arrival adds, seen by a rank s of its run.
LEMMA VetoesKnown ==
  ASSUME RunAssumption, TypeInv, LockInv, NEW u \in Runs, SpanInv(u), NEW q \in Ranks, NEW vote, NEW rec,
         Comes(u, q, vote, rec), faults' = 0, NEW s \in Ranks, RestoreInv(u, s), Live(u, s),
         cfg[u].journal, cfg[u].resume
  PROVE  /\ pc[u][s] = "load" /\ Passed(u, s) + 1 \in vetoed'[u] => Max(restored[u][s].left) \in damaged
         /\ pc[u][s] = "load" /\ waiting'[u][s] = TRUE /\ Passed(u, s) + 1 \in vetoed'[u] /\ Passed(u, s) + 2 \in vetoed'[u]
              => Max(restored[u][s].left \ {Max(restored[u][s].left)}) \in damaged
         /\ pc[u][s] \in {"candidates", "listing"} /\ waiting'[u][s] = TRUE /\ Passed(u, s) + 2 \in vetoed'[u]
              => Max(restored'[u][0].left) \in damaged
<1>1. /\ WorkersOK /\ 0 \in Ranks /\ ControlInv
      /\ \A r \in Ranks : entered[u][r] \in Nat /\ waiting[u][r] \in BOOLEAN
      /\ vetoed[u] \subseteq Nat
  BY DEF TypeInv, ControlInv, WorkersOK, RunAssumption
<1>2. /\ Beside(u, q) /\ Live(u, q) /\ waiting[u][q] = FALSE
      /\ vetoed[u] \subseteq vetoed'[u] /\ vetoed'[u] \subseteq vetoed[u] \union {entered[u][q] + 1}
  BY <1>1, ComesFrame
<1>3. /\ Passed(u, q) = entered[u][q] /\ Passed(u, q) \in Int /\ Passed(u, s) \in Int
      /\ waiting[u][s] = FALSE => Passed(u, s) = entered[u][s]
      /\ waiting[u][s] = TRUE => entered[u][s] = Passed(u, s) + 1
  BY <1>1, <1>2 DEF Passed
<1>4. \A n \in vetoed[u] : n =< entered[u][q] + 1 /\ n =< entered[u][s] + 1 /\ n =< entered[u][0] + 1 /\ n \in Nat
  BY <1>1 DEF SpanInv
<1>5. q # s => waiting'[u][s] = waiting[u][s]
  BY <1>2 DEF Beside
<1>6. /\ \A n \in vetoed'[u] : n \in vetoed[u] \/ n = Passed(u, q) + 1
      /\ vetoed'[u] # vetoed[u] /\ pc[u][q] = "load" => Max(restored[u][q].left) \in damaged
  <2>1. \A n \in vetoed'[u] : n \in vetoed[u] \/ n = Passed(u, q) + 1
    BY <1>2, <1>3
  <2>2. ASSUME vetoed'[u] # vetoed[u], pc[u][q] = "load" PROVE Max(restored[u][q].left) \in damaged
    <3>1. Enter(u, q, vote) /\ vote \in BOOLEAN
      BY DEF Comes, Arrives
    <3>2. vote = FALSE
      BY <2>2, <3>1 DEF Enter
    <3>3. QED
      BY <2>2, <3>2, LoadVetoed
  <2>3. QED
    BY <2>1, <2>2
<1>7. \/ Passed(u, s) = Passed(u, q) /\ Alike(u, s, q)
      \/ Passed(u, q) = Passed(u, s) + 1 /\ Follows(u, s, q) /\ waiting[u][s] = TRUE
      \/ Passed(u, s) = Passed(u, q) + 1 /\ Follows(u, q, s) /\ waiting[u][q] = TRUE
  BY <1>2, PairCases
<1>8. ASSUME pc[u][s] = "load", Passed(u, s) + 1 \in vetoed'[u]
      PROVE  Max(restored[u][s].left) \in damaged
  <2>1. CASE Passed(u, s) + 1 \in vetoed[u]
    BY <1>8, <2>1 DEF RestoreInv
  <2>2. CASE Passed(u, s) + 1 \notin vetoed[u]
    <3>1. vetoed'[u] # vetoed[u] /\ Passed(u, s) = Passed(u, q)
      BY <1>2, <1>3, <1>6, <1>8, <2>2
    <3>2. Alike(u, s, q)
      BY <1>3, <1>7, <3>1
    <3>3. pc[u][q] = "load" /\ restored[u][q].left = restored[u][s].left
      BY <1>8, <3>2 DEF Alike, Same, Phase
    <3>4. QED
      BY <1>6, <3>1, <3>3
  <2>3. QED
    BY <2>1, <2>2
<1>9. ASSUME pc[u][s] = "load", waiting'[u][s] = TRUE, Passed(u, s) + 1 \in vetoed'[u], Passed(u, s) + 2 \in vetoed'[u]
      PROVE  Max(restored[u][s].left \ {Max(restored[u][s].left)}) \in damaged
  <2>1. q # s
    <3>1. ASSUME q = s PROVE FALSE
      <4>1. Passed(u, s) + 2 \in vetoed[u]
        BY <1>2, <1>3, <1>9, <3>1
      <4>2. QED
        BY <1>1, <1>3, <1>4, <3>1, <4>1
    <3>2. QED
      BY <3>1
  <2>2. waiting[u][s] = TRUE
    BY <1>5, <1>9, <2>1
  <2>3. CASE Passed(u, s) + 1 \in vetoed[u] /\ Passed(u, s) + 2 \in vetoed[u]
    BY <1>9, <2>2, <2>3 DEF RestoreInv
  <2>4. CASE Passed(u, s) + 2 \notin vetoed[u]
    <3>1. vetoed'[u] # vetoed[u] /\ Passed(u, q) = Passed(u, s) + 1
      BY <1>2, <1>3, <1>6, <1>9, <2>4
    <3>2. Follows(u, s, q) /\ Passed(u, s) + 1 \in vetoed[u]
      BY <1>2, <1>3, <1>7, <1>9, <3>1
    <3>3. Accepted(u, s) = FALSE
      BY <1>3, <2>2, <3>2 DEF Accepted
    <3>4. /\ NextPhase(cfg[u], Accepted(u, s), pc[u][s], step[u][s], restored[u][s].start) = "load"
          /\ NextLeft(pc[u][s], restored[u][s].left, restored[u][0].left)
               = restored[u][s].left \ {Max(restored[u][s].left)}
      BY <1>9, <3>3 DEF NextPhase, NextLeft
    <3>5. pc[u][q] = "load" /\ restored[u][q].left = restored[u][s].left \ {Max(restored[u][s].left)}
      BY <3>2, <3>4 DEF Follows, Same, Phase
    <3>6. QED
      BY <1>6, <3>1, <3>5
  <2>5. CASE Passed(u, s) + 1 \notin vetoed[u] /\ Passed(u, s) + 2 \in vetoed[u]
    <3>1. Passed(u, q) = Passed(u, s)
      BY <1>2, <1>3, <1>6, <1>9, <2>5
    <3>2. Passed(u, s) + 2 =< Passed(u, q) + 1
      BY <1>3, <1>4, <2>5
    <3>3. QED
      BY <1>3, <3>1, <3>2
  <2>6. QED
    BY <2>3, <2>4, <2>5
<1>10. ASSUME pc[u][s] \in {"candidates", "listing"}, waiting'[u][s] = TRUE, Passed(u, s) + 2 \in vetoed'[u]
       PROVE  Max(restored'[u][0].left) \in damaged
  <2>1. q # s
    <3>1. ASSUME q = s PROVE FALSE
      <4>1. Passed(u, s) + 2 \in vetoed[u]
        BY <1>2, <1>3, <1>10, <3>1
      <4>2. QED
        BY <1>1, <1>3, <1>4, <3>1, <4>1
    <3>2. QED
      BY <3>1
  <2>2. waiting[u][s] = TRUE
    BY <1>5, <1>10, <2>1
  <2>3. restored'[u][0].left = restored[u][0].left \/ (q = 0 /\ pc[u][0] = "listing")
    <3>1. CASE q # 0
      BY <1>1, <1>2, <3>1 DEF Beside
    <3>2. CASE q = 0
      <4>1. restored'[u][0] = rec
        <5>1. restored' = [restored EXCEPT ![u][0] = rec]
          BY <3>2 DEF Comes, Arrives
        <5>2. QED
          BY <1>1, <5>1 DEF WorkersOK
      <4>2. QED
        BY <3>2, <4>1 DEF Comes
    <3>3. QED
      BY <3>1, <3>2
  <2>4. Passed(u, s) = 1
    <3>1. RankInv(u, s)
      BY <1>1 DEF ControlInv
    <3>2. QED
      BY <1>1, <1>10, <2>2, <3>1 DEF RankInv, LocalInv, Passed
  <2>5. CASE Passed(u, s) + 2 \in vetoed[u]
    <3>1. ~(q = 0 /\ pc[u][0] = "listing")
      <4>1. ASSUME q = 0, pc[u][0] = "listing" PROVE FALSE
        <5>1. entered[u][0] = 1
          <6>1. RankInv(u, 0)
            BY <1>1 DEF ControlInv
          <6>2. QED
            BY <1>2, <4>1, <6>1 DEF RankInv, LocalInv
        <5>2. 3 \in vetoed[u]
          BY <2>4, <2>5
        <5>3. QED
          BY <1>4, <5>1, <5>2
      <4>2. QED
        BY <4>1
    <3>2. Max(restored[u][0].left) \in damaged
      BY <1>10, <2>2, <2>5 DEF RestoreInv
    <3>3. QED
      BY <2>3, <3>1, <3>2
  <2>6. CASE Passed(u, s) + 2 \notin vetoed[u]
    <3>1. vetoed'[u] # vetoed[u] /\ Passed(u, q) = Passed(u, s) + 1
      BY <1>2, <1>3, <1>6, <1>10, <2>6
    <3>2. Follows(u, s, q)
      BY <1>2, <1>3, <1>7, <3>1
    <3>3. /\ NextPhase(cfg[u], Accepted(u, s), pc[u][s], step[u][s], restored[u][s].start) = "load"
          /\ NextLeft(pc[u][s], restored[u][s].left, restored[u][0].left) = restored[u][0].left
      BY <1>10 DEF NextPhase, NextLeft
    <3>4. pc[u][q] = "load" /\ restored[u][q].left = restored[u][0].left
      BY <3>2, <3>3 DEF Follows, Same, Phase
    <3>5. Max(restored[u][0].left) \in damaged
      BY <1>6, <3>1, <3>4
    <3>6. QED
      BY <2>3, <3>4, <3>5
  <2>7. QED
    BY <2>5, <2>6
<1>11. QED
  BY <1>8, <1>9, <1>10

LEMMA ComesRead ==
  ASSUME RunAssumption, TypeInv, LockInv, WriterInv, \A v \in Runs : SpanInv(v), \A v \in Runs : ReadInv(v),
         [Next]_vars, NEW u \in Runs, NEW q \in Ranks, NEW vote, NEW rec, Comes(u, q, vote, rec)
  PROVE  \A v \in Runs : ReadInv(v)'
<1>1. /\ WorkersOK /\ StoreOK /\ 0 \in Ranks /\ faults \in Nat /\ pc[u][q] \in Collectives
      /\ \A r \in Ranks : entered[u][r] \in Nat
  BY DEF TypeInv, ControlInv, RunAssumption, Comes, WriterInv, WorkersOK
<1>2. /\ Elsewhere(u) /\ Beside(u, q) /\ Live(u, q) /\ waiting[u][q] = FALSE
      /\ waiting'[u][q] = TRUE /\ entered'[u][q] = entered[u][q] + 1
  BY <1>1, ComesFrame
<1>3. /\ cfg' = cfg /\ pc' = pc /\ step' = step /\ damaged' = damaged
      /\ \A s \in Ranks : Live(u, s)' = Live(u, s) /\ Passed(u, s)' = Passed(u, s)
  BY <1>1, ComesFrame
<1>4. restored'[u][q] = rec
  <2>1. restored' = [restored EXCEPT ![u][q] = rec]
    BY DEF Comes, Arrives
  <2>2. QED
    BY <1>1, <2>1 DEF WorkersOK
<1>5. \A v \in Runs \ {u} : ReadInv(v)'
  BY <1>2, OthersRead DEF Active
<1>6. faults' = 0 => faults = 0
  <2>1. faults' \in Nat /\ faults' >= faults
    BY <1>1, FaultsGrow
  <2>2. QED
    BY <1>1, <2>1
<1>7. OrEmpty(versions) \subseteq OrEmpty(versions') /\ (versions # None => versions' # None)
  BY OrEmptyGrows
<1>8. ASSUME NEW s \in Ranks PROVE restored'[u][s].left \subseteq OrEmpty(versions')
  <2>1. restored'[u][s].left = restored[u][s].left \/ restored'[u][s].left \subseteq OrEmpty(versions)
    BY <1>2, <1>4 DEF Beside, Comes
  <2>2. restored[u][s].left \subseteq OrEmpty(versions)
    BY DEF ReadInv
  <2>3. QED
    BY <1>7, <2>1, <2>2
<1>9. ASSUME NEW s \in Ranks, Resumed(u, s)' PROVE RestoreInv(u, s)'
  <2>1. /\ Resumed(u, s) /\ RestoreInv(u, s) /\ Live(u, s) /\ cfg[u].journal /\ cfg[u].resume
        /\ faults' = 0
    BY <1>3, <1>6, <1>9 DEF Resumed, ReadInv
  <2>2. CASE q = 0 /\ pc[u][0] = "publish"
    <3>1. pc[u][s] \in {"validate", "publish"}
      BY <1>2, <2>1, <2>2, AtPublish
    <3>2. QED
      BY <1>3, <3>1 DEF RestoreInv
  <2>3. CASE ~(q = 0 /\ pc[u][0] = "publish")
    <3>1. Whole' = Whole
      <4>1. OrEmpty(versions') = OrEmpty(versions)
        BY <1>1, <2>3, Opened DEF Comes
      <4>2. QED
        BY <1>3, <4>1 DEF Whole
    <3>2. pc[u][s] \notin {"listing", "load"} => restored'[u][s].start = restored[u][s].start
      BY <1>2, <1>4 DEF Beside, Comes
    <3>3. pc[u][s] = "load" => restored'[u][s].left = restored[u][s].left
      BY <1>2, <1>4 DEF Beside, Comes
    <3>4. pc[u][s] \in {"rendezvous", "candidates", "listing"} /\ entered'[u][0] >= 2 => Whole \subseteq restored'[u][0].left
      <4>1. ASSUME pc[u][s] \in {"rendezvous", "candidates", "listing"}, entered'[u][0] >= 2
            PROVE  Whole \subseteq restored'[u][0].left
        <5>1. CASE q # 0
          <6>1. entered'[u][0] = entered[u][0] /\ restored'[u][0] = restored[u][0]
            BY <1>1, <1>2, <5>1 DEF Beside
          <6>2. QED
            BY <2>1, <4>1, <6>1 DEF RestoreInv
        <5>2. CASE q = 0 /\ pc[u][0] = "listing"
          <6>1. rec.left = {x \in OrEmpty(versions) : Intact(x)}
            BY <5>2 DEF Comes
          <6>2. QED
            BY <1>4, <5>2, <6>1 DEF Whole, Intact
        <5>3. CASE q = 0 /\ pc[u][0] # "listing"
          <6>1. rec.left = restored[u][0].left /\ pc[u][0] # "candidates"
            BY <5>3 DEF Comes
          <6>2. RankInv(u, 0)
            BY <1>1 DEF TypeInv, ControlInv
          <6>3. entered[u][0] # 1
            BY <1>1, <1>2, <2>1, <5>3, <6>1, <6>2 DEF RankInv, LocalInv, Collectives, Phases, After
          <6>4. entered[u][0] >= 2
            BY <1>1, <1>2, <4>1, <5>3, <6>3
          <6>5. QED
            BY <1>4, <2>1, <4>1, <5>3, <6>1, <6>4 DEF RestoreInv
        <5>4. QED
          BY <5>1, <5>2, <5>3
      <4>2. QED
        BY <4>1
    <3>5. pc[u][s] = "load" /\ waiting'[u][s] = TRUE => restored'[u][s].start = Max(restored[u][s].left)
      <4>1. CASE s # q
        BY <1>2, <2>1, <4>1 DEF Beside, RestoreInv
      <4>2. ASSUME s = q, pc[u][q] = "load" PROVE restored'[u][s].start = Max(restored[u][s].left)
        <5>1. rec.start = OrZero(Max(restored[u][q].left))
          BY <2>1, <4>2 DEF Comes, Source
        <5>2. RankInv(u, q) /\ restored[u][q] \in Recovery
          BY <1>1, Unmoved DEF TypeInv, ControlInv
        <5>3. restored[u][q].left # {} /\ restored[u][q].left \in SUBSET Steps
          BY <2>1, <4>2, <5>2 DEF RankInv, LocalInv, Recovery
        <5>4. Max(restored[u][q].left) \in Steps
          BY <5>3, MaxStepOf
        <5>5. Max(restored[u][q].left) # None
          BY <5>4 DEF Steps, RunAssumption
        <5>6. QED
          BY <1>4, <4>2, <5>1, <5>5 DEF OrZero
      <4>3. QED
        BY <4>1, <4>2
    <3>6. /\ pc[u][s] = "load" /\ Passed(u, s) + 1 \in vetoed'[u] => Max(restored[u][s].left) \in damaged
          /\ pc[u][s] = "load" /\ waiting'[u][s] = TRUE /\ Passed(u, s) + 1 \in vetoed'[u] /\ Passed(u, s) + 2 \in vetoed'[u]
               => Max(restored[u][s].left \ {Max(restored[u][s].left)}) \in damaged
          /\ pc[u][s] \in {"candidates", "listing"} /\ waiting'[u][s] = TRUE /\ Passed(u, s) + 2 \in vetoed'[u]
               => Max(restored'[u][0].left) \in damaged
      BY <2>1, VetoesKnown
    <3>7. /\ pc[u][s] = "load" => Whole \subseteq restored[u][s].left
          /\ pc[u][s] \in {"schedule", "capacity"} => versions # None /\ \A x \in Whole : x =< restored[u][s].start
      BY <2>1 DEF RestoreInv
    <3>8. QED
      BY <1>3, <1>7, <3>1, <3>2, <3>3, <3>4, <3>5, <3>6, <3>7 DEF RestoreInv
  <2>4. QED
    BY <2>2, <2>3
<1>10. QED
  BY <1>5, <1>8, <1>9 DEF ReadInv

LEMMA LeavesRead ==
  ASSUME RunAssumption, TypeInv, LockInv, WriterInv, \A v \in Runs : ReadInv(v), [Next]_vars,
         NEW u \in Runs, NEW q \in Ranks, NEW phase, NEW st, NEW rec, Leaves(u, q, phase, st, rec)
  PROVE  \A v \in Runs : ReadInv(v)'
<1>1. /\ WorkersOK /\ StoreOK /\ 0 \in Ranks /\ faults \in Nat /\ pc[u][q] \in Collectives
      /\ \A r \in Ranks : entered[u][r] \in Nat /\ waiting[u][r] \in BOOLEAN /\ RankInv(u, r)
  BY DEF TypeInv, ControlInv, RunAssumption, Leaves, WriterInv, WorkersOK
<1>2. /\ Elsewhere(u) /\ Beside(u, q) /\ waiting[u][q] = TRUE /\ Arrived(u, q) /\ Live(u, q)
      /\ pc'[u][q] = phase /\ waiting'[u][q] = FALSE /\ restored'[u][q] = rec
  <2>1. Elsewhere(u) /\ Beside(u, q) /\ waiting[u][q] = TRUE /\ Arrived(u, q) /\ Live(u, q)
    BY <1>1, LeavesFrame
  <2>2. /\ Move(u, q, phase) /\ restored' = [restored EXCEPT ![u][q] = rec]
    BY DEF Leaves, Departs
  <2>3. pc'[u][q] = phase /\ waiting'[u][q] = FALSE /\ restored'[u][q] = rec
    BY <1>1, <2>2 DEF Move, WorkersOK
  <2>4. QED
    BY <2>1, <2>3
<1>3. cfg' = cfg /\ entered' = entered /\ vetoed' = vetoed /\ versions' = versions /\ damaged' = damaged
  BY DEF Leaves, Departs
<1>4. \A v \in Runs \ {u} : ReadInv(v)'
  BY <1>2, OthersRead DEF Active
<1>5. faults' = 0 => faults = 0
  <2>1. faults' \in Nat /\ faults' >= faults
    BY <1>1, FaultsGrow
  <2>2. QED
    BY <1>1, <2>1
<1>6. /\ phase = NextPhase(cfg[u], Accepted(u, q), pc[u][q], step[u][q], restored[u][q].start)
      /\ Accepted(u, q) \/ pc[u][q] = "rendezvous" \/ (pc[u][q] = "load" /\ cfg[u].journal)
      /\ pc[u][q] \in {"candidates", "listing"} => rec = restored[u][0]
      /\ pc[u][q] = "load" /\ ~Accepted(u, q) => rec.left = restored[u][q].left \ {Max(restored[u][q].left)}
      /\ pc[u][q] \notin {"candidates", "listing"} /\ (pc[u][q] = "load" => Accepted(u, q)) => rec = restored[u][q]
      /\ pc[u][q] \notin {"candidates", "listing"} => rec.start = restored[u][q].start
  BY DEF Leaves
<1>7. ASSUME NEW s \in Ranks PROVE restored'[u][s].left \subseteq OrEmpty(versions')
  <2>1. \A r \in Ranks : restored[u][r].left \subseteq OrEmpty(versions)
    BY DEF ReadInv
  <2>2. CASE s # q
    BY <1>2, <1>3, <2>1, <2>2 DEF Beside
  <2>3. CASE s = q
    <3>1. rec.left \subseteq restored[u][q].left \/ rec.left \subseteq restored[u][0].left
      BY <1>6
    <3>2. QED
      BY <1>1, <1>2, <1>3, <2>1, <2>3, <3>1
  <2>4. QED
    BY <2>2, <2>3
<1>8. ASSUME NEW s \in Ranks, s # q, Resumed(u, s)' PROVE RestoreInv(u, s)'
  <2>1. /\ pc'[u][s] = pc[u][s] /\ waiting'[u][s] = waiting[u][s] /\ restored'[u][s] = restored[u][s]
    BY <1>2, <1>8 DEF Beside
  <2>2. /\ RestoreInv(u, s) /\ Live(u, s) /\ cfg[u].journal
    BY <1>3, <1>5, <1>8, <2>1 DEF Resumed, ReadInv, Live
  <2>3. \/ restored'[u][0].left = restored[u][0].left
        \/ pc[u][s] \notin {"rendezvous", "candidates", "listing"}
    <3>1. CASE q # 0
      BY <1>1, <1>2, <3>1 DEF Beside
    <3>2. CASE q = 0 /\ ~(pc[u][0] = "load" /\ ~Accepted(u, 0))
      BY <1>2, <1>6, <3>2
    <3>3. CASE q = 0 /\ pc[u][0] = "load"
      <4>1. entered[u][0] >= 3
        BY <1>1, <1>2, <2>2, <3>3 DEF RankInv, LocalInv
      <4>2. entered[u][s] >= 3
        BY <1>1, <1>2, <3>3, <4>1 DEF Arrived
      <4>3. pc[u][s] \in {"rendezvous", "candidates", "listing"} => entered[u][s] =< 2
        BY <1>1 DEF RankInv, LocalInv
      <4>4. QED
        BY <1>1, <4>2, <4>3
    <3>4. QED
      BY <3>1, <3>2, <3>3
  <2>4. QED
    BY <1>1, <1>3, <2>1, <2>2, <2>3, ReadSteady
<1>9. ASSUME Resumed(u, q)' PROVE RestoreInv(u, q)'
  <2>1. /\ RestoreInv(u, q) /\ cfg[u].journal /\ cfg[u].resume
    BY <1>2, <1>3, <1>5, <1>9 DEF Resumed, ReadInv
  <2>2. /\ Whole' = Whole /\ Passed(u, q)' = entered[u][q] /\ Passed(u, q) = entered[u][q] - 1
        /\ (entered[u][q] - 1) + 1 = entered[u][q] /\ (entered[u][q] - 1) + 2 = entered[u][q] + 1
    BY <1>1, <1>2, <1>3 DEF Whole, Passed
  <2>3. CASE pc[u][q] = "rendezvous"
    <3>1. phase = "candidates" /\ rec = restored[u][q]
      BY <1>6, <2>1, <2>3 DEF NextPhase, AfterRendezvous
    <3>2. restored'[u][0] = restored[u][0]
      BY <1>1, <1>2, <3>1 DEF Beside
    <3>3. entered[u][0] >= 2 => Whole \subseteq restored[u][0].left
      BY <2>1, <2>3 DEF RestoreInv
    <3>4. QED
      BY <1>2, <1>3, <2>2, <3>1, <3>2, <3>3 DEF RestoreInv
  <2>4. CASE pc[u][q] \in {"candidates", "listing"}
    <3>1. phase = "load" /\ rec = restored[u][0]
      BY <1>6, <2>4 DEF NextPhase
    <3>2. entered[u][q] = 2 /\ entered[u][0] >= 2
      BY <1>1, <1>2, <2>4 DEF RankInv, LocalInv, Arrived
    <3>3. /\ Whole \subseteq restored[u][0].left
          /\ entered[u][q] + 1 \in vetoed[u] => Max(restored[u][0].left) \in damaged
      BY <1>2, <2>1, <2>2, <2>4, <3>2 DEF RestoreInv
    <3>4. QED
      BY <1>2, <1>3, <2>2, <3>1, <3>3 DEF RestoreInv
  <2>5. CASE pc[u][q] = "load" /\ ~Accepted(u, q)
    <3>1. phase = "load" /\ rec.left = restored[u][q].left \ {Max(restored[u][q].left)}
      BY <1>6, <2>5 DEF NextPhase
    <3>2. entered[u][q] \in vetoed[u]
      BY <2>5 DEF Accepted
    <3>3. /\ Whole \subseteq restored[u][q].left /\ Max(restored[u][q].left) \in damaged
          /\ entered[u][q] + 1 \in vetoed[u] => Max(restored[u][q].left \ {Max(restored[u][q].left)}) \in damaged
      BY <1>2, <2>1, <2>2, <2>5, <3>2 DEF RestoreInv
    <3>4. Whole \subseteq rec.left
      BY <3>1, <3>3 DEF Whole
    <3>5. QED
      BY <1>2, <1>3, <2>2, <3>1, <3>3, <3>4 DEF RestoreInv
  <2>6. CASE pc[u][q] = "load" /\ Accepted(u, q)
    <3>1. phase = "schedule" /\ rec = restored[u][q]
      BY <1>6, <2>6 DEF NextPhase
    <3>2. /\ Whole \subseteq restored[u][q].left /\ restored[u][q].start = Max(restored[u][q].left)
      BY <1>2, <2>1, <2>6 DEF RestoreInv
    <3>3. restored[u][q].left # {} /\ restored[u][q].left \in SUBSET Steps /\ restored[u][q].left \subseteq OrEmpty(versions)
      <4>1. RankInv(u, q) /\ restored[u][q] \in Recovery
        BY <1>1, Unmoved
      <4>2. QED
        BY <2>1, <2>6, <4>1 DEF RankInv, LocalInv, Recovery, ReadInv
    <3>4. \A x \in Whole : x =< restored[u][q].start
      BY <3>2, <3>3, MaxStepOf
    <3>5. versions # None
      BY <3>3 DEF OrEmpty
    <3>6. QED
      BY <1>2, <1>3, <2>2, <3>1, <3>4, <3>5 DEF RestoreInv
  <2>7. CASE pc[u][q] = "schedule"
    <3>1. phase = "capacity" /\ rec = restored[u][q]
      BY <1>6, <2>1, <2>7 DEF NextPhase
    <3>2. QED
      BY <1>2, <1>3, <2>1, <2>2, <2>7, <3>1 DEF RestoreInv
  <2>8. CASE pc[u][q] \in {"fresh", "capacity", "train", "validate", "publish"}
    <3>1. pc[u][q] # "fresh"
      BY <1>1, <2>1 DEF RankInv, LocalInv
    <3>2. phase \in {"train", "validate", "publish", "output"}
      BY <1>6, <2>8, <3>1 DEF NextPhase
    <3>3. QED
      BY <1>2, <3>2 DEF RestoreInv
  <2>9. QED
    BY <1>1, <2>3, <2>4, <2>5, <2>6, <2>7, <2>8 DEF Collectives, Phases
<1>10. QED
  BY <1>4, <1>7, <1>8, <1>9 DEF ReadInv

LEMMA FaultsBefore == ASSUME WriterInv, [Next]_vars, faults' = 0 PROVE faults = 0
<1>1. faults \in Nat
  BY DEF WriterInv
<1>2. faults' \in Nat /\ faults' >= faults
  BY <1>1, FaultsGrow
<1>3. QED
  BY <1>1, <1>2

LEMMA FinishesRead ==
  ASSUME RunAssumption, TypeInv, WriterInv, \A v \in Runs : ReadInv(v), [Next]_vars,
         NEW u \in Runs, NEW r \in Ranks, NEW phase, Finishes(u, r, phase)
  PROVE  \A v \in Runs : ReadInv(v)'
<1>1. /\ WorkersOK /\ 0 \in Ranks /\ Stops(u, r, phase) /\ phase \in Ended
      /\ versions' = versions /\ damaged' = damaged
  BY DEF TypeInv, ControlInv, RunAssumption, Finishes, Stops
<1>2. Elsewhere(u) /\ Beside(u, r) /\ pc'[u][r] = phase
  BY <1>1, StopsFrame
<1>3. cfg' = cfg /\ entered' = entered /\ vetoed' = vetoed /\ restored' = restored
  BY <1>1 DEF Stops
<1>4. ASSUME NEW v \in Runs, NEW q \in Ranks, Resumed(v, q)' PROVE RestoreInv(v, q)'
  <2>1. v # u \/ q # r
    BY <1>1, <1>2, <1>4 DEF Resumed, Live
  <2>2. pc'[v][q] = pc[v][q] /\ waiting'[v][q] = waiting[v][q]
    BY <1>2, <2>1 DEF Elsewhere, Beside
  <2>3. faults' = 0
    BY <1>4 DEF Resumed
  <2>4. RestoreInv(v, q)
    BY <1>3, <1>4, <2>2, <2>3, FaultsBefore DEF Resumed, ReadInv, Live
  <2>5. QED
    BY <1>1, <1>3, <2>2, <2>4, ReadSteady
<1>5. \A v \in Runs, q \in Ranks : restored'[v][q].left \subseteq OrEmpty(versions')
  BY <1>1, <1>3 DEF ReadInv
<1>6. QED
  BY <1>4, <1>5 DEF ReadInv

LEMMA ReadMarkRead ==
  ASSUME RunAssumption, TypeInv, WriterInv, \A v \in Runs : ReadInv(v), [Next]_vars,
         NEW u \in Runs, ReadMark(u)
  PROVE  \A v \in Runs : ReadInv(v)'
<1>1. /\ WorkersOK /\ 0 \in Ranks /\ pc[u][0] = "candidates" /\ waiting[u][0] = FALSE
      /\ pc' = [pc EXCEPT ![u][0] = "listing"]
      /\ restored' = [restored EXCEPT ![u][0].mark = HighWater]
      /\ versions' = versions /\ damaged' = damaged /\ cfg' = cfg /\ waiting' = waiting
      /\ entered' = entered /\ vetoed' = vetoed
  BY DEF TypeInv, ControlInv, RunAssumption, ReadMark, Ready, WorkersOK, store
<1>2. /\ pc \in [Runs -> [Ranks -> Phases]] /\ restored \in [Runs -> [Ranks -> Recovery]]
  BY <1>1 DEF WorkersOK
<1>3. /\ pc'[u][0] = "listing" /\ restored'[u][0].left = restored[u][0].left
  BY <1>1, <1>2 DEF Recovery
<1>4. ASSUME NEW v \in Runs, NEW q \in Ranks, v # u \/ q # 0
      PROVE  pc'[v][q] = pc[v][q] /\ restored'[v][q] = restored[v][q]
  BY <1>1, <1>2, <1>4
<1>5. ASSUME NEW v \in Runs, NEW q \in Ranks
      PROVE  restored'[v][q].left = restored[v][q].left
  BY <1>3, <1>4
<1>6. ASSUME NEW v \in Runs, NEW q \in Ranks, Resumed(v, q)' PROVE RestoreInv(v, q)'
  <2>1. faults' = 0 /\ cfg[v].journal /\ cfg[v].resume
    BY <1>1, <1>6 DEF Resumed
  <2>2. Live(v, q)
    <3>1. CASE v = u /\ q = 0
      BY <1>1, <3>1 DEF Live, Ended
    <3>2. CASE v # u \/ q # 0
      BY <1>4, <1>6, <3>2 DEF Resumed, Live
    <3>3. QED
      BY <3>1, <3>2
  <2>3. RestoreInv(v, q)
    BY <2>1, <2>2, FaultsBefore DEF Resumed, ReadInv
  <2>4. CASE v = u /\ q = 0
    <3>1. Whole' = Whole
      BY <1>1 DEF Whole
    <3>2. entered[u][0] >= 2 => Whole \subseteq restored[u][0].left
      BY <1>1, <2>3, <2>4 DEF RestoreInv
    <3>3. QED
      BY <1>1, <1>3, <2>4, <3>1, <3>2 DEF RestoreInv
  <2>5. CASE v # u \/ q # 0
    BY <1>1, <1>4, <1>5, <2>3, <2>5, ReadSteady
  <2>6. QED
    BY <2>4, <2>5
<1>7. QED
  BY <1>1, <1>5, <1>6 DEF ReadInv

LEMMA PublishJournalRead ==
  ASSUME RunAssumption, TypeInv, LockInv, WriterInv, \A v \in Runs : ReadInv(v), [Next]_vars,
         NEW u \in Runs, PublishJournal(u)
  PROVE  \A v \in Runs : ReadInv(v)'
<1>1. /\ WorkersOK /\ 0 \in Ranks /\ pc[u][0] = "publish" /\ waiting[u][0] = FALSE /\ Live(u, 0)
      /\ cfg' = cfg /\ pc' = pc /\ restored' = restored
      /\ UNCHANGED <<waiting, entered, step, vetoed>> /\ saved' = [saved EXCEPT ![u] = TRUE]
  BY DEF TypeInv, ControlInv, RunAssumption, PublishJournal, Publishing, Ready, WorkersOK, Live, Ended
<1>2. Elsewhere(u)
  BY <1>1 DEF Elsewhere, WorkersOK
<1>3. \A v \in Runs \ {u} : ReadInv(v)'
  BY <1>1, <1>2, OthersRead DEF Active
<1>4. ASSUME NEW q \in Ranks, Resumed(u, q)' PROVE RestoreInv(u, q)'
  <2>1. Live(u, q)
    BY <1>1, <1>4 DEF Resumed, Live
  <2>2. pc'[u][q] \in {"validate", "publish"}
    BY <1>1, <2>1, AtPublish
  <2>3. QED
    BY <2>2 DEF RestoreInv
<1>5. \A q \in Ranks : restored'[u][q].left \subseteq OrEmpty(versions')
  BY <1>1, OrEmptyGrows DEF ReadInv
<1>6. QED
  BY <1>3, <1>4, <1>5 DEF ReadInv

LEMMA RestartsRead ==
  ASSUME RunAssumption, TypeInv, WriterInv, \A v \in Runs : ReadInv(v), [Next]_vars,
         NEW u \in Runs, NEW phase, Restarts(u, phase)
  PROVE  \A v \in Runs : ReadInv(v)'
<1>1. /\ WorkersOK /\ 0 \in Ranks /\ Reset(u, phase) /\ phase \in {"rendezvous", "exited"} /\ phase \in Phases
      /\ versions' = versions /\ damaged' = damaged
      /\ \A v \in Runs \ {u} : cfg'[v] = cfg[v]
  BY DEF TypeInv, ControlInv, RunAssumption, Restarts, Phases
<1>2. /\ Elsewhere(u)
      /\ \A r \in Ranks : /\ pc'[u][r] = phase /\ waiting'[u][r] = FALSE /\ entered'[u][r] = 0
                          /\ restored'[u][r] = NoRecovery
  <2>1. Elsewhere(u)
    BY <1>1, ResetFrame
  <2>2. QED
    BY <1>1, <2>1 DEF Reset, WorkersOK
<1>3. ReadInv(u)'
  <2>1. \A r \in Ranks : RestoreInv(u, r)'
    BY <1>1, <1>2 DEF RestoreInv
  <2>2. QED
    BY <1>2, <2>1 DEF ReadInv, NoRecovery
<1>4. ASSUME NEW v \in Runs \ {u} PROVE ReadInv(v)'
  <2>1. /\ cfg'[v] = cfg[v] /\ pc'[v] = pc[v] /\ waiting'[v] = waiting[v] /\ entered'[v] = entered[v]
        /\ vetoed'[v] = vetoed[v] /\ restored'[v] = restored[v]
    BY <1>1, <1>2 DEF Elsewhere
  <2>2. ASSUME NEW q \in Ranks, Resumed(v, q)' PROVE RestoreInv(v, q)'
    <3>1. faults' = 0
      BY <2>2 DEF Resumed
    <3>2. RestoreInv(v, q)
      BY <2>1, <2>2, <3>1, FaultsBefore DEF Resumed, ReadInv, Live
    <3>3. QED
      BY <1>1, <2>1, <3>2, ReadSteady
  <2>3. QED
    BY <1>1, <2>1, <2>2 DEF ReadInv
<1>5. QED
  BY <1>3, <1>4

LEMMA RestsRead ==
  ASSUME RunAssumption, WriterInv, \A v \in Runs : ReadInv(v), [Next]_vars, Rests
  PROVE  \A v \in Runs : ReadInv(v)'
<1>1. /\ cfg' = cfg /\ pc' = pc /\ waiting' = waiting /\ entered' = entered /\ vetoed' = vetoed
      /\ restored' = restored /\ versions' = versions /\ damaged \subseteq damaged'
  BY DEF Rests
<1>2. ASSUME NEW v \in Runs, NEW q \in Ranks, Resumed(v, q)' PROVE RestoreInv(v, q)'
  <2>1. faults' = 0
    BY <1>2 DEF Resumed
  <2>2. RestoreInv(v, q)
    BY <1>1, <1>2, <2>1, FaultsBefore DEF Resumed, ReadInv, Live
  <2>3. QED
    BY <1>1, <2>2, ReadSteady
<1>3. QED
  BY <1>1, <1>2 DEF ReadInv

LEMMA ReadStep ==
  ASSUME RunAssumption, SafeInv, \A v \in Runs : ReadInv(v), [Next]_vars
  PROVE  \A v \in Runs : ReadInv(v)'
<1>1. /\ TypeInv /\ LockInv /\ WriterInv /\ \A v \in Runs : SpanInv(v)
      /\ faults \in Nat
  BY DEF SafeInv, WriterInv
<1>2. QED
  BY <1>1, StepShapes, ComesRead, LeavesRead, FinishesRead, ReadMarkRead,
     PublishJournalRead, RestartsRead, RestsRead

LEMMA ReadInit == ASSUME RunAssumption, Init PROVE \A u \in Runs : ReadInv(u)
  BY DEF Init, ReadInv, Resumed, Live, Ended, NoRecovery

LEMMA ReadSuffices ==
  ASSUME RunAssumption, \A u \in Runs : ReadInv(u)
  PROVE  ResumesFromNewest
<1> SUFFICES ASSUME NEW u \in Runs, NEW r \in Ranks, faults = 0, pc[u][r] \in {"schedule", "capacity"},
                    cfg[u].resume, cfg[u].journal, NEW s \in versions \ damaged
             PROVE  s =< restored[u][r].start
  BY DEF ResumesFromNewest
<1>1. Resumed(u, r)
  BY DEF Resumed, Live, Ended
<1>2. versions # None /\ \A x \in Whole : x =< restored[u][r].start
  BY <1>1 DEF ReadInv, RestoreInv
<1>3. s \in Whole
  BY <1>2 DEF Whole, OrEmpty
<1>4. QED
  BY <1>2, <1>3

-------------------------------------------------------------------------------
(* Theorems                                                                   *)

\* Every variable of the supervisors, workers and artifacts keeps its type.
THEOREM TypesHold == ASSUME RunAssumption PROVE Spec => []TypeOK
<1>1. TypeInv => TypeOK
  BY DEF TypeInv, StoreOK, ControlInv, WorkersOK, TypeOK
<1>2. QED
  BY <1>1, TypeInvariant, PTL

\* For any number of ranks and runs, and whatever is vetoed, lost or killed: when every
\* run journals, the latest checkpoint is never ahead of the journal.
THEOREM LatestStaysBehind == ASSUME RunAssumption PROVE Spec => []LatestNotAhead
<1>1. LatestInv => LatestNotAhead
  BY DEF LatestInv
<1>2. QED
  BY <1>1, LatestInvariant, PTL

\* For any number of ranks, every branch of the program is taken by all of them: while
\* rank 0 publishes a step every live replica has completed exactly that step.
THEOREM ReplicasStayTogether == ASSUME RunAssumption PROVE Spec => []ReplicasTogether
<1>1. ASSUME TypeInv, LockInv, NEW u \in Runs, NEW r \in Ranks, pc[u][0] = "publish", Live(u, r)
      PROVE  step[u][r] = step[u][0]
  <2>1. /\ ControlInv /\ 0 \in Ranks /\ Live(u, 0) /\ PairInv(u, 0, r) /\ PairInv(u, r, 0)
        /\ RankInv(u, r)
    BY <1>1 DEF TypeInv, ControlInv, RunAssumption, Live, Ended, LockInv
  <2>2. \A q \in Ranks : entered[u][q] \in Nat /\ waiting[u][q] \in BOOLEAN
    BY <2>1 DEF ControlInv, WorkersOK
  <2>3. \/ Passed(u, 0) = Passed(u, r) \/ Passed(u, r) = Passed(u, 0) + 1
        \/ Passed(u, 0) = Passed(u, r) + 1
    BY <1>1, <2>1, <2>2 DEF PairInv, Passed
  <2>4. CASE Passed(u, 0) = Passed(u, r)
    BY <1>1, <2>1, <2>4 DEF PairInv, Alike, Same
  <2>5. CASE Passed(u, r) = Passed(u, 0) + 1
    BY <1>1, <2>1, <2>5 DEF PairInv, Follows, Same, NextStep
  <2>6. CASE Passed(u, 0) = Passed(u, r) + 1
    <3>1. Follows(u, r, 0) /\ waiting[u][r] = TRUE
      BY <1>1, <2>1, <2>6, Behind DEF PairInv
    <3>2. pc[u][r] \in Collectives
      BY <2>1, <3>1 DEF RankInv, LocalInv
    <3>3. NextPhase(cfg[u], Accepted(u, r), pc[u][r], step[u][r], restored[u][r].start) = "publish"
      BY <1>1, <3>1 DEF Follows, Same, Phase
    <3>4. pc[u][r] = "validate"
      BY <3>2, <3>3 DEF NextPhase, AfterRendezvous, Collectives, Phases
    <3>5. QED
      BY <3>1, <3>4 DEF Follows, Same, NextStep
  <2>7. QED
    BY <2>3, <2>4, <2>5, <2>6
<1>2. TypeInv /\ LockInv => ReplicasTogether
  BY <1>1 DEF ReplicasTogether
<1>3. QED
  BY <1>2, LockInvariant, PTL

\* A run that admit_schedule let through is never refused a publication for its order or
\* for want of a slot: the room it counted before its first update is the room it uses.
THEOREM AdmissionHolds ==
  ASSUME RunAssumption, OneWriter
  PROVE  Spec => []AdmissionSuffices
<1>1. AdmissionInv => AdmissionSuffices
  BY DEF AdmissionInv, AdmissionSuffices
<1>2. QED
  BY <1>1, AdmissionInvariant, PTL

\* A rank that exited with 0 under its supervisor has finished a saved run: the latest
\* checkpoint and, when it journals, the journal end at the run's last step.
THEOREM SuccessStaysDurable ==
  ASSUME RunAssumption, OneWriter
  PROVE  Spec => []SuccessIsDurable
<1>1. SafeInv => SuccessIsDurable
  BY DEF SafeInv, SavedInv, DoneInv, Done, SuccessIsDurable
<1>2. QED
  BY <1>1, SafeInvariant, PTL

\* While nothing has failed, a run that resumes from the journal goes on from a step no
\* older than any version that still restores: no progress is thrown away silently,
\* however many of the newer versions are damaged and rolled back.
THEOREM ResumeKeepsProgress ==
  ASSUME RunAssumption, OneWriter
  PROVE  Spec => []ResumesFromNewest
<1> DEFINE Reads == \A u \in Runs : ReadInv(u)
<1>1. Init => Reads
  BY ReadInit
<1>2. SafeInv /\ Reads /\ [Next]_vars => Reads'
  BY ReadStep
<1>3. Reads => ResumesFromNewest
  BY ReadSuffices
<1>4. Spec => []SafeInv
  BY SafeInvariant
<1> HIDE DEF Reads
<1>5. QED
  BY <1>1, <1>2, <1>3, <1>4, PTL DEF Spec
===============================================================================
