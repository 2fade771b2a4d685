-------------------------------- MODULE DdpRun --------------------------------
(***************************************************************************)
(* A supervised data-parallel training run: ddp_launch.py starts one       *)
(* process per rank under an exclusive lease on the run's artifacts,       *)
(* watches them and takes them down; ddp_worker.py trains in lockstep with *)
(* the other ranks through collectives and saves at interval boundaries    *)
(* and at the end; ddp_checkpoint.py publishes each save to the journal    *)
(* and then replaces the latest checkpoint.  Runs fail, time out, are      *)
(* killed and are launched again over the same artifacts.                  *)
(*                                                                         *)
(* A collective is a barrier with a verdict: a rank enters it with its     *)
(* vote, and leaves once every rank has entered, or raises when a rank     *)
(* that never entered is dead.  Ranks run the same program, so the number  *)
(* of collectives a rank has entered names the one it is in.               *)
(*                                                                         *)
(* The journal's operations are atomic here; CheckpointJournal has their   *)
(* steps.  What it shows that a killed or failed publication leaves behind *)
(* (one orphaned version, stray temporaries) is the state kept of it.      *)
(***************************************************************************)
EXTENDS Integers, FiniteSetsExt

CONSTANTS
  Runs,          \* slots for supervisors and their workers
  Ranks,         \* 0..world_size-1
  MaxStep,       \* training.optimizer_steps
  MaxVersions,   \* max_versions of the journal
  Lengths,       \* --steps a run may ask for
  Intervals,     \* --checkpoint-interval; None for the final save only
  MaxLaunches,   \* bound: runs launched over the artifacts
  MaxFaults,     \* bound: workers lost, votes and file system calls failed
  MaxDamages,    \* bound: committed versions that become unreadable
  MaxKills,      \* bound: supervisors killed before they took their workers down
  None

Steps == 0..MaxStep

ASSUME RunAssumption ==
  /\ None \notin Runs
  /\ 0 \in Ranks
  /\ MaxStep \in Nat \ {0}
  /\ MaxVersions \in Nat \ {0}
  /\ Lengths \subseteq Nat \ {0}
  /\ Intervals \subseteq (Nat \ {0}) \union {None}
  /\ None \notin Nat /\ \A v \in SUBSET Steps : v # None

VARIABLES
  versions,   \* steps the journal has committed; None before it exists
  damaged,    \* committed steps whose version does not restore any more
  orphan,     \* step of a version file the manifest does not list, or None
  strays,     \* whether a killed publication left temporaries
  latest,     \* step of the latest checkpoint, or None
  lease,      \* run that holds the artifacts' leases, or None
  cfg,        \* command line of each run
  sup,        \* its supervisor: "down", "watching" or "stopping"
  pc,         \* phase of each rank of each run
  waiting,    \* whether the rank is inside its phase's collective
  entered,    \* collectives it has entered
  step,       \* optimizer steps its replica has completed
  vetoed,     \* collectives of the run that some rank entered with a failure
  restored,   \* what each rank restored: candidates left, start, recorded step
  saved,      \* whether rank 0's current save has reached the journal
  refusal,    \* history: a publication refused for its "order" or "capacity"
  mixed,      \* history: some run trained without the journal
  launches, faults, kills

store == <<versions, damaged, orphan, strays, latest>>
workers == <<pc, waiting, entered, step, vetoed, restored, saved>>
bounds == <<launches, faults, kills>>
vars == <<store, lease, cfg, sup, workers, refusal, mixed, bounds>>

Phases == {"rendezvous", "fresh", "candidates", "listing", "load", "schedule",
           "capacity", "train", "validate", "publish", "output", "exited", "failed"}
Configs == [resume : BOOLEAN, journal : BOOLEAN, steps : Lengths, interval : Intervals]

Recovery == [left : SUBSET Steps, start : Steps, mark : Steps \union {None}]
NoRecovery == [left |-> {}, start |-> 0, mark |-> None]

Ended == {"exited", "failed"}
Live(u, r) == pc[u][r] \notin Ended
HighWater == IF versions = None \/ versions = {} THEN None ELSE Max(versions)
OrZero(m) == IF m = None THEN 0 ELSE m
OrEmpty(v) == IF v = None THEN {} ELSE v
End(u, r) == restored[u][r].start + cfg[u].steps
Intact(s) == s \notin damaged

Init ==
  /\ versions = None /\ damaged = {} /\ orphan = None /\ strays = FALSE
  /\ latest = None
  /\ lease = None
  /\ cfg = [u \in Runs |-> None]
  /\ sup = [u \in Runs |-> "down"]
  /\ pc = [u \in Runs |-> [r \in Ranks |-> "exited"]]
  /\ waiting = [u \in Runs |-> [r \in Ranks |-> FALSE]]
  /\ entered = [u \in Runs |-> [r \in Ranks |-> 0]]
  /\ step = [u \in Runs |-> [r \in Ranks |-> 0]]
  /\ vetoed = [u \in Runs |-> {}]
  /\ restored = [u \in Runs |-> [r \in Ranks |-> NoRecovery]]
  /\ saved = [u \in Runs |-> FALSE]
  /\ refusal = "none" /\ mixed = FALSE
  /\ launches = 0 /\ faults = 0 /\ kills = 0

\* No process of the run: before its launch, and once its workers are reaped.
NoWorkers(u) ==
  /\ pc' = [pc EXCEPT ![u] = [r \in Ranks |-> "exited"]]
  /\ waiting' = [waiting EXCEPT ![u] = [r \in Ranks |-> FALSE]]
  /\ entered' = [entered EXCEPT ![u] = [r \in Ranks |-> 0]]
  /\ step' = [step EXCEPT ![u] = [r \in Ranks |-> 0]]
  /\ vetoed' = [vetoed EXCEPT ![u] = {}]
  /\ restored' = [restored EXCEPT ![u] = [r \in Ranks |-> NoRecovery]]
  /\ saved' = [saved EXCEPT ![u] = FALSE]

-------------------------------------------------------------------------------
(* The supervisor: launch_training and _owned_run                             *)

\* Take the leases, then start every rank.
Launch(u, c) ==
  /\ launches < MaxLaunches
  /\ sup[u] = "down" /\ \A r \in Ranks : ~Live(u, r)
  /\ lease = None
  /\ lease' = u
  /\ launches' = launches + 1
  /\ cfg' = [cfg EXCEPT ![u] = c]
  /\ sup' = [sup EXCEPT ![u] = "watching"]
  /\ pc' = [pc EXCEPT ![u] = [r \in Ranks |-> "rendezvous"]]
  /\ waiting' = [waiting EXCEPT ![u] = [r \in Ranks |-> FALSE]]
  /\ entered' = [entered EXCEPT ![u] = [r \in Ranks |-> 0]]
  /\ step' = [step EXCEPT ![u] = [r \in Ranks |-> 0]]
  /\ vetoed' = [vetoed EXCEPT ![u] = {}]
  /\ restored' = [restored EXCEPT ![u] = [r \in Ranks |-> NoRecovery]]
  /\ saved' = [saved EXCEPT ![u] = FALSE]
  /\ mixed' = (mixed \/ ~c.journal)
  /\ UNCHANGED <<store, refusal, faults, kills>>

\* The polling loop saw a worker fail, or its deadline passed.
Alarm(u) == \E r \in Ranks : pc[u][r] = "failed"

ObserveFailure(u) ==
  /\ sup[u] = "watching"
  /\ Alarm(u)
  /\ sup' = [sup EXCEPT ![u] = "stopping"]
  /\ UNCHANGED <<store, lease, cfg, workers, refusal, mixed, bounds>>

Deadline(u) ==
  /\ sup[u] = "watching"
  /\ \E r \in Ranks : pc[u][r] # "exited"
  /\ sup' = [sup EXCEPT ![u] = "stopping"]
  /\ UNCHANGED <<store, lease, cfg, workers, refusal, mixed, bounds>>

\* Every worker is reaped: the logs are closed and the leases dropped.
Reaped(u) ==
  /\ \/ sup[u] = "watching" /\ \A r \in Ranks : pc[u][r] = "exited"
     \/ sup[u] = "stopping" /\ \A r \in Ranks : ~Live(u, r)
  /\ sup' = [sup EXCEPT ![u] = "down"]
  /\ lease' = IF lease = u THEN None ELSE lease
  /\ NoWorkers(u)
  /\ UNCHANGED <<store, cfg, refusal, mixed, bounds>>

\* The supervisor is killed: the kernel closes its descriptors, and with them
\* the leases; the workers are processes of their own and go on.
SupervisorKilled(u) ==
  /\ kills < MaxKills
  /\ sup[u] # "down"
  /\ kills' = kills + 1
  /\ sup' = [sup EXCEPT ![u] = "down"]
  /\ lease' = IF lease = u THEN None ELSE lease
  /\ UNCHANGED <<store, cfg, workers, refusal, mixed, launches, faults>>

-------------------------------------------------------------------------------
(* Collectives                                                                *)

Enter(u, r, vote) ==
  /\ waiting' = [waiting EXCEPT ![u][r] = TRUE]
  /\ entered' = [entered EXCEPT ![u][r] = @ + 1]
  /\ vetoed' = IF vote THEN vetoed ELSE [vetoed EXCEPT ![u] = @ \union {entered[u][r] + 1}]

\* Every rank has come to the collective r is in.
Arrived(u, r) == \A q \in Ranks : entered[u][q] >= entered[u][r]

Accepted(u, r) == entered[u][r] \notin vetoed[u]

Move(u, r, phase) ==
  /\ pc' = [pc EXCEPT ![u][r] = phase]
  /\ waiting' = [waiting EXCEPT ![u][r] = FALSE]

Ready(u, r, phase) == pc[u][r] = phase /\ ~waiting[u][r]
Leaving(u, r, phase) == pc[u][r] = phase /\ waiting[u][r] /\ Arrived(u, r)

\* A rank enters with the verdict of its own check; work that can fail beyond
\* its check (a lost file, a busy journal, a nonfinite gradient) may turn it.
Votes(check, fallible) ==
  {check} \union (IF fallible /\ faults < MaxFaults THEN {FALSE} ELSE {})

CountFault(vote, check) == faults' = IF vote = check THEN faults ELSE faults + 1

EnterWith(u, r, check, fallible) ==
  \E vote \in Votes(check, fallible) :
    Enter(u, r, vote) /\ CountFault(vote, check)

-------------------------------------------------------------------------------
(* The worker: admission and recovery                                         *)

AfterRendezvous(c) ==
  IF c.resume THEN IF c.journal THEN "candidates" ELSE "load"
  ELSE IF c.journal THEN "fresh" ELSE "schedule"

JoinGroup(u, r) ==
  /\ Ready(u, r, "rendezvous")
  /\ Enter(u, r, TRUE)
  /\ UNCHANGED <<store, lease, cfg, sup, pc, step, restored, saved, refusal, mixed, bounds>>

LeaveGroup(u, r) ==
  /\ Leaving(u, r, "rendezvous")
  /\ Move(u, r, AfterRendezvous(cfg[u]))
  /\ UNCHANGED <<store, lease, cfg, sup, entered, step, vetoed, restored, saved, refusal, mixed, bounds>>

\* Whether the directory lets rank 0 open or create the journal.
Openable == versions # None \/ (~strays /\ orphan = None)

\* A run that does not resume opens or creates the journal and wants it empty.
\* Opening may fail, and then leaves what it found: an empty journal created by
\* an opening that failed later is one the next launch would create.
AdmitFresh(u) ==
  /\ Ready(u, 0, "fresh")
  /\ \/ /\ Openable
        /\ versions' = OrEmpty(versions)
        /\ Enter(u, 0, HighWater = None)
        /\ UNCHANGED faults
     \/ /\ faults < MaxFaults \/ ~Openable
        /\ faults' = IF Openable THEN faults + 1 ELSE faults
        /\ Enter(u, 0, FALSE)
        /\ UNCHANGED versions
  /\ UNCHANGED <<damaged, orphan, strays, latest, lease, cfg, sup, pc, step, restored, saved,
                 refusal, mixed, launches, kills>>

\* Rank 0 reads the recorded step and then, under a lease of its own, the
\* candidates.
ReadMark(u) ==
  /\ Ready(u, 0, "candidates")
  /\ pc' = [pc EXCEPT ![u][0] = "listing"]
  /\ restored' = [restored EXCEPT ![u][0].mark = HighWater]
  /\ UNCHANGED <<store, lease, cfg, sup, waiting, entered, step, vetoed, saved, refusal, mixed, bounds>>

ReadCandidates(u) ==
  LET valid == {s \in OrEmpty(versions) : Intact(s)} IN
  /\ Ready(u, 0, "listing")
  /\ restored' = [restored EXCEPT ![u][0].left = valid]
  /\ EnterWith(u, 0, valid # {}, TRUE)
  /\ UNCHANGED <<store, lease, cfg, sup, pc, step, saved, refusal, mixed, launches, kills>>

\* The other ranks wait for rank 0's verdict.
AwaitRankZero(u, r) ==
  /\ r # 0
  /\ \E phase \in {"fresh", "candidates", "capacity", "publish"} : Ready(u, r, phase)
  /\ Enter(u, r, TRUE)
  /\ UNCHANGED <<store, lease, cfg, sup, pc, step, restored, saved, refusal, mixed, bounds>>

LeaveFresh(u, r) ==
  /\ Leaving(u, r, "fresh") /\ Accepted(u, r)
  /\ Move(u, r, "schedule")
  /\ UNCHANGED <<store, lease, cfg, sup, entered, step, vetoed, restored, saved, refusal, mixed, bounds>>

\* The broadcast that follows the vote.
LeaveCandidates(u, r) ==
  /\ Leaving(u, r, "candidates") \/ Leaving(u, r, "listing")
  /\ Accepted(u, r)
  /\ Move(u, r, "load")
  /\ restored' = [restored EXCEPT ![u][r] = restored[u][0]]
  /\ UNCHANGED <<store, lease, cfg, sup, entered, step, vetoed, saved, refusal, mixed, bounds>>

\* Variant: the oldest candidate first.
SourceOldest(u, r) == IF cfg[u].journal THEN Min(restored[u][r].left) ELSE latest

\* The checkpoint a rank loads next, and whether its bytes are there.
Source(u, r) == IF cfg[u].journal THEN Max(restored[u][r].left) ELSE latest
Loadable(u, r) == Source(u, r) # None /\ (cfg[u].journal => Intact(Source(u, r)))

Load(u, r) ==
  /\ Ready(u, r, "load")
  /\ restored' = [restored EXCEPT ![u][r].start = OrZero(Source(u, r))]
  /\ EnterWith(u, r, Loadable(u, r), TRUE)
  /\ UNCHANGED <<store, lease, cfg, sup, pc, step, saved, refusal, mixed, launches, kills>>

\* Ranks that restored different bytes find out when they compare replicas.
SameStart(u) == \A q, r \in Ranks : restored[u][q].start = restored[u][r].start

LeaveLoad(u, r) ==
  /\ Leaving(u, r, "load") /\ Accepted(u, r) /\ SameStart(u)
  /\ Move(u, r, "schedule")
  /\ step' = [step EXCEPT ![u][r] = restored[u][r].start]
  /\ UNCHANGED <<store, lease, cfg, sup, entered, vetoed, restored, saved, refusal, mixed, bounds>>

\* A version some rank rejects is rolled back on every rank: on to the next one.
LoadRejected(u, r) ==
  LET left == restored[u][r].left \ {Source(u, r)} IN
  /\ Leaving(u, r, "load") /\ ~Accepted(u, r)
  /\ cfg[u].journal /\ left # {}
  /\ Move(u, r, "load")
  /\ restored' = [restored EXCEPT ![u][r].left = left]
  /\ UNCHANGED <<store, lease, cfg, sup, entered, step, vetoed, saved, refusal, mixed, bounds>>

LoadExhausted(u, r) ==
  /\ Leaving(u, r, "load")
  /\ IF Accepted(u, r) THEN ~SameStart(u)
     ELSE cfg[u].journal => restored[u][r].left = {Source(u, r)}
  /\ Move(u, r, "failed")
  /\ UNCHANGED <<store, lease, cfg, sup, entered, step, vetoed, restored, saved, refusal, mixed, bounds>>

\* Room in the optimizer's schedule, and progress beyond the recorded step.
Schedulable(u, r) ==
  /\ End(u, r) <= MaxStep
  /\ cfg[u].resume /\ cfg[u].journal => End(u, r) > OrZero(restored[u][r].mark)

ProposeSchedule(u, r) ==
  /\ Ready(u, r, "schedule")
  /\ Enter(u, r, Schedulable(u, r))
  /\ UNCHANGED <<store, lease, cfg, sup, pc, step, restored, saved, refusal, mixed, bounds>>

\* Variant: only rank 0 takes part in the capacity vote.
LeaveScheduleAlone(u, r) ==
  /\ Leaving(u, r, "schedule") /\ Accepted(u, r)
  /\ Move(u, r, IF cfg[u].journal /\ r = 0 THEN "capacity" ELSE "train")
  /\ UNCHANGED <<store, lease, cfg, sup, entered, step, vetoed, restored, saved, refusal, mixed, bounds>>

LeaveSchedule(u, r) ==
  /\ Leaving(u, r, "schedule") /\ Accepted(u, r)
  /\ Move(u, r, IF cfg[u].journal THEN "capacity" ELSE "train")
  /\ UNCHANGED <<store, lease, cfg, sup, entered, step, vetoed, restored, saved, refusal, mixed, bounds>>

\* Variant: the final partial interval takes no slot.
RequiredBoundariesOnly(start, end, interval, recorded) ==
  LET cutoff == IF start > OrZero(recorded) THEN start ELSE OrZero(recorded) IN
  IF end <= cutoff THEN 0
  ELSE IF interval = None THEN 1 ELSE end \div interval - cutoff \div interval

\* admit_schedule: the versions the run will publish, counted without replay.
Required(start, end, interval, recorded) ==
  LET cutoff == IF start > OrZero(recorded) THEN start ELSE OrZero(recorded) IN
  IF end <= cutoff THEN 0
  ELSE IF interval = None THEN 1
  ELSE end \div interval - cutoff \div interval + (IF end % interval # 0 THEN 1 ELSE 0)

AdmitCapacity(u) ==
  /\ Ready(u, 0, "capacity")
  /\ EnterWith(u, 0,
       Required(restored[u][0].start, End(u, 0), cfg[u].interval, HighWater)
         <= MaxVersions - Cardinality(OrEmpty(versions)), TRUE)
  /\ UNCHANGED <<store, lease, cfg, sup, pc, step, restored, saved, refusal, mixed, launches, kills>>

LeaveCapacity(u, r) ==
  /\ Leaving(u, r, "capacity") /\ Accepted(u, r)
  /\ Move(u, r, "train")
  /\ UNCHANGED <<store, lease, cfg, sup, entered, step, vetoed, restored, saved, refusal, mixed, bounds>>

-------------------------------------------------------------------------------
(* The worker: training and publication                                       *)

\* One update: gradients are reduced over every rank, or every rank raises.
Train(u, r) ==
  /\ Ready(u, r, "train")
  /\ EnterWith(u, r, TRUE, TRUE)
  /\ UNCHANGED <<store, lease, cfg, sup, pc, step, restored, saved, refusal, mixed, launches, kills>>

\* Variant: only rank 0 knows of the interval.
SaveDueOnRankZero(u, r, completed) ==
  \/ completed = End(u, r)
  \/ r = 0 /\ cfg[u].interval # None /\ completed % cfg[u].interval = 0

\* The step completed is a boundary: the last one, or a multiple of the interval.
SaveDue(u, r, completed) ==
  \/ completed = End(u, r)
  \/ cfg[u].interval # None /\ completed % cfg[u].interval = 0

LeaveTrain(u, r) ==
  LET completed == step[u][r] + 1 IN
  /\ Leaving(u, r, "train") /\ Accepted(u, r)
  /\ step' = [step EXCEPT ![u][r] = completed]
  /\ Move(u, r, IF SaveDue(u, r, completed) THEN "validate" ELSE "train")
  /\ UNCHANGED <<store, lease, cfg, sup, entered, vetoed, restored, saved, refusal, mixed, bounds>>

\* The optimizer state is validated and the replicas are compared.
Validate(u, r) ==
  /\ Ready(u, r, "validate")
  /\ EnterWith(u, r, TRUE, TRUE)
  /\ UNCHANGED <<store, lease, cfg, sup, pc, step, restored, saved, refusal, mixed, launches, kills>>

LeaveValidate(u, r) ==
  /\ Leaving(u, r, "validate") /\ Accepted(u, r)
  /\ Move(u, r, "publish")
  /\ UNCHANGED <<store, lease, cfg, sup, entered, step, vetoed, restored, saved, refusal, mixed, bounds>>

\* Replayed steps only replace the latest checkpoint.
Journaled(u) ==
  /\ cfg[u].journal
  /\ restored[u][0].mark # None => step[u][0] > restored[u][0].mark

Publishing(u) == Ready(u, 0, "publish")

\* The journal takes the version: it advances, there is room for it and nothing
\* else lies in the directory but an orphan of the same version.
Advances(s) == HighWater # None => s > HighWater
HasRoom == Cardinality(OrEmpty(versions)) < MaxVersions
NoUnknownFiles(s) == ~strays /\ orphan \in {None, s}

PublishJournal(u) ==
  LET s == step[u][0] IN
  /\ Publishing(u) /\ Journaled(u) /\ ~saved[u]
  /\ Advances(s) /\ HasRoom /\ NoUnknownFiles(s)
  /\ versions' = versions \union {s}
  /\ orphan' = None
  /\ saved' = [saved EXCEPT ![u] = TRUE]
  /\ UNCHANGED <<damaged, strays, latest, lease, cfg, sup, pc, waiting, entered, step, vetoed,
                 restored, refusal, mixed, bounds>>

\* The journal refuses it.  An orphan of this step may have other bytes.
PublishRefused(u) ==
  LET s == step[u][0] IN
  /\ Publishing(u) /\ Journaled(u) /\ ~saved[u]
  /\ ~Advances(s) \/ ~HasRoom \/ ~NoUnknownFiles(s) \/ orphan = s
  /\ refusal' = IF ~Advances(s) THEN "order" ELSE IF ~HasRoom THEN "capacity" ELSE refusal
  /\ Enter(u, 0, FALSE)
  /\ UNCHANGED <<store, lease, cfg, sup, pc, step, restored, saved, mixed, bounds>>

\* Variant: the exception is swallowed and rank 0 votes that it published.
PublishFailedUnreported(u) ==
  LET s == step[u][0] IN
  /\ faults < MaxFaults
  /\ Publishing(u) /\ Journaled(u) /\ ~saved[u]
  /\ orphan' \in {orphan, s}
  /\ faults' = faults + 1
  /\ Enter(u, 0, TRUE)
  /\ UNCHANGED <<versions, damaged, strays, latest, lease, cfg, sup, pc, step, restored, saved,
                 refusal, mixed, launches, kills>>

\* A call of the publication fails: before the link, after it, or after the
\* manifest was replaced.
PublishFailed(u) ==
  LET s == step[u][0] IN
  /\ faults < MaxFaults
  /\ Publishing(u) /\ Journaled(u) /\ ~saved[u]
  /\ Advances(s) /\ HasRoom /\ NoUnknownFiles(s)
  /\ \/ orphan' \in {orphan, s} /\ UNCHANGED versions
     \/ orphan' = None /\ versions' = versions \union {s}
  /\ faults' = faults + 1
  /\ Enter(u, 0, FALSE)
  /\ UNCHANGED <<damaged, strays, latest, lease, cfg, sup, pc, step, restored, saved,
                 refusal, mixed, launches, kills>>

\* Variant: the latest checkpoint is replaced before the journal is asked.
ReplaceLatestFirst(u) ==
  /\ Publishing(u)
  /\ latest' = step[u][0]
  /\ EnterWith(u, 0, TRUE, TRUE)
  /\ UNCHANGED <<versions, damaged, orphan, strays, lease, cfg, sup, pc, step, restored, saved,
                 refusal, mixed, launches, kills>>

\* The latest checkpoint is replaced; the call, or the flush after it, may fail.
ReplaceLatest(u) ==
  /\ Publishing(u) /\ (Journaled(u) => saved[u])
  /\ latest' = step[u][0]
  /\ EnterWith(u, 0, TRUE, TRUE)
  /\ UNCHANGED <<versions, damaged, orphan, strays, lease, cfg, sup, pc, step, restored, saved,
                 refusal, mixed, launches, kills>>

ReplaceFailed(u) ==
  /\ faults < MaxFaults
  /\ Publishing(u) /\ (Journaled(u) => saved[u])
  /\ faults' = faults + 1
  /\ Enter(u, 0, FALSE)
  /\ UNCHANGED <<store, lease, cfg, sup, pc, step, restored, saved, refusal, mixed, launches, kills>>

LeavePublish(u, r) ==
  /\ Leaving(u, r, "publish") /\ Accepted(u, r)
  /\ Move(u, r, IF step[u][r] = End(u, r) THEN "output" ELSE "train")
  /\ saved' = IF r = 0 THEN [saved EXCEPT ![u] = FALSE] ELSE saved
  /\ UNCHANGED <<store, lease, cfg, sup, entered, step, vetoed, restored, refusal, mixed, bounds>>

\* A vote went against any phase but a load: every rank raises.
Refused(u, r) ==
  /\ waiting[u][r] /\ Arrived(u, r) /\ ~Accepted(u, r)
  /\ pc[u][r] # "load"
  /\ Move(u, r, "failed")
  /\ UNCHANGED <<store, lease, cfg, sup, entered, step, vetoed, restored, saved, refusal, mixed, bounds>>

WriteOutput(u, r) ==
  /\ pc[u][r] = "output"
  /\ Move(u, r, "exited")
  /\ UNCHANGED <<store, lease, cfg, sup, entered, step, vetoed, restored, saved, refusal, mixed, bounds>>

-------------------------------------------------------------------------------
(* Failures                                                                   *)

\* A collective raises in a rank whose peer is gone.
PeerLost(u, r) ==
  /\ waiting[u][r] /\ \E q \in Ranks : pc[u][q] = "failed"
  /\ Move(u, r, "failed")
  /\ UNCHANGED <<store, lease, cfg, sup, entered, step, vetoed, restored, saved, refusal, mixed, bounds>>

\* A killed process runs no finally clause: what it was publishing stays, as
\* temporaries and as a version the manifest does not list.  Killed once the
\* manifest is replaced, before the unlink, it leaves the version and temporaries.
Killed(u, r) ==
  /\ Live(u, r)
  /\ Move(u, r, "failed")
  /\ \/ UNCHANGED store
     \/ /\ r = 0 /\ Publishing(u) /\ Journaled(u) /\ ~saved[u]
        /\ Advances(step[u][0]) /\ HasRoom /\ NoUnknownFiles(step[u][0])
        /\ strays' = TRUE
        /\ orphan' \in {orphan, step[u][0]}
        /\ UNCHANGED <<versions, damaged, latest>>
     \/ /\ r = 0 /\ Publishing(u) /\ Journaled(u) /\ saved[u]
        /\ strays' = TRUE
        /\ UNCHANGED <<versions, damaged, orphan, latest>>
     \/ /\ r = 0 /\ Ready(u, 0, "fresh") /\ versions = None
        /\ strays' = TRUE
        /\ UNCHANGED <<versions, damaged, orphan, latest>>
  /\ UNCHANGED <<lease, cfg, sup, entered, step, vetoed, restored, saved, refusal, mixed>>

\* A worker crashes, is killed, or raises: injected, out of memory, a collective
\* that timed out.
WorkerLost(u, r) ==
  /\ faults < MaxFaults
  /\ faults' = faults + 1
  /\ Killed(u, r)
  /\ UNCHANGED <<launches, kills>>

\* The supervisor terminates what still runs.
Terminate(u, r) ==
  /\ sup[u] = "stopping"
  /\ Killed(u, r)
  /\ UNCHANGED bounds

Damage(s) ==
  /\ Cardinality(damaged) < MaxDamages
  /\ s \in OrEmpty(versions) \ damaged
  /\ damaged' = damaged \union {s}
  /\ UNCHANGED <<versions, orphan, strays, latest, lease, cfg, sup, workers, refusal, mixed, bounds>>

\* An operator clears what an interrupted publication left.
RemoveUnknown ==
  /\ lease = None
  /\ strays \/ orphan # None
  /\ strays' = FALSE /\ orphan' = None
  /\ UNCHANGED <<versions, damaged, latest, lease, cfg, sup, workers, refusal, mixed, bounds>>

-------------------------------------------------------------------------------
RankZero(u) ==
  \/ AdmitFresh(u) \/ ReadMark(u) \/ ReadCandidates(u) \/ AdmitCapacity(u)
  \/ PublishJournal(u) \/ PublishRefused(u) \/ PublishFailed(u)
  \/ ReplaceLatest(u) \/ ReplaceFailed(u)

Rank(u, r) ==
  \/ JoinGroup(u, r) \/ LeaveGroup(u, r)
  \/ AwaitRankZero(u, r) \/ LeaveFresh(u, r) \/ LeaveCandidates(u, r)
  \/ Load(u, r) \/ LeaveLoad(u, r) \/ LoadRejected(u, r) \/ LoadExhausted(u, r)
  \/ ProposeSchedule(u, r) \/ LeaveSchedule(u, r) \/ LeaveCapacity(u, r)
  \/ Train(u, r) \/ LeaveTrain(u, r) \/ Validate(u, r) \/ LeaveValidate(u, r)
  \/ LeavePublish(u, r) \/ Refused(u, r) \/ WriteOutput(u, r)
  \/ PeerLost(u, r)

Supervisor(u) ==
  \/ \E c \in Configs : Launch(u, c)
  \/ ObserveFailure(u) \/ Deadline(u) \/ Reaped(u) \/ SupervisorKilled(u)

Next ==
  \/ \E u \in Runs : Supervisor(u) \/ RankZero(u)
  \/ \E u \in Runs, r \in Ranks : Rank(u, r) \/ WorkerLost(u, r) \/ Terminate(u, r)
  \/ \E s \in Steps : Damage(s)
  \/ RemoveUnknown

Spec == Init /\ [][Next]_vars

\* The kernel schedules every process, a collective whose peer is gone raises,
\* and the supervisor polls and reaps.  Nothing is assumed of its deadline.
Fairness ==
  \A u \in Runs :
    /\ \A r \in Ranks : WF_vars(Rank(u, r)) /\ WF_vars(Terminate(u, r))
    /\ WF_vars(RankZero(u))
    /\ WF_vars(ObserveFailure(u)) /\ WF_vars(Reaped(u))

FairSpec == Spec /\ Fairness

-------------------------------------------------------------------------------
(* Properties                                                                 *)

\* The type invariant.
TypeOK ==
  /\ versions = None \/ versions \in SUBSET Steps
  /\ damaged \in SUBSET Steps
  /\ orphan \in Steps \union {None} /\ latest \in Steps \union {None}
  /\ strays \in BOOLEAN
  /\ lease \in Runs \union {None}
  /\ cfg \in [Runs -> Configs \union {None}]
  /\ sup \in [Runs -> {"down", "watching", "stopping"}]
  /\ pc \in [Runs -> [Ranks -> Phases]]
  /\ waiting \in [Runs -> [Ranks -> BOOLEAN]]
  /\ entered \in [Runs -> [Ranks -> Nat]]
  /\ step \in [Runs -> [Ranks -> Steps]]
  /\ vetoed \in [Runs -> SUBSET Nat]
  /\ restored \in [Runs -> [Ranks -> Recovery]]
  /\ saved \in [Runs -> BOOLEAN]
  /\ refusal \in {"none", "order", "capacity"}
  /\ mixed \in BOOLEAN

\* admit_schedule says before the first update that every version the run will
\* publish fits and advances: the journal then refuses no publication of it for
\* its order or for want of a slot, however often runs are interrupted,
\* replayed and restored from older versions.
AdmissionSuffices == refusal = "none"

\* The latest checkpoint is a convenience copy: when every run journals, no
\* interleaving of failed publications and replays puts it ahead of the journal.
LatestNotAhead ==
  ~mixed /\ latest # None => HighWater # None /\ latest <= HighWater

\* A rank that exited with 0 has finished a run whose last step is saved: it is
\* the latest checkpoint, and the journal's high-water mark when it journals.
SuccessIsDurable ==
  \A u \in Runs, r \in Ranks :
    sup[u] # "down" /\ pc[u][r] = "exited" =>
      /\ latest = End(u, r)
      /\ cfg[u].journal => HighWater = End(u, r)

\* While rank 0 publishes a step every replica has completed exactly that step:
\* no branch of the program lets a rank run ahead of the save.
ReplicasTogether ==
  \A u \in Runs, r \in Ranks :
    pc[u][0] = "publish" /\ Live(u, r) => step[u][r] = step[u][0]

\* A resumed run goes on from the newest version that still restores, unless a
\* rank failed to read it: no progress is thrown away silently.
ResumesFromNewest ==
  \A u \in Runs, r \in Ranks :
    /\ faults = 0
    /\ pc[u][r] \in {"schedule", "capacity"}
    /\ cfg[u].resume /\ cfg[u].journal
    => \A s \in versions \ damaged : s <= restored[u][r].start

\* Collectives never wait for one another: every launched run is over without
\* its deadline, whichever rank, vote or publication failed in it.
RunEnds ==
  \A u \in Runs : sup[u] = "watching" ~> sup[u] = "down"

\* The supervisor's lease covers its workers until they are reaped: while a run
\* holds the artifacts no worker of another run is alive to write them.
LeaseExcludesOthers ==
  \A u, v \in Runs : lease = v /\ u # v => \A r \in Ranks : ~Live(u, r)

===============================================================================
