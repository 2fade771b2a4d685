--------------------------- MODULE GenerationService ---------------------------
(***************************************************************************)
(* ddp_service.py: generation requests served under one inference lock.    *)
(* A request is admitted as a ticket, queues for the lock by polling while *)
(* its cancellation and deadline are honoured, is replayed from the        *)
(* response cache or charged to the token bucket and generated token by    *)
(* token (generate_tokens of ddp_generation.py), and leaves by two finally *)
(* clauses: the slot's, then the ticket's.  drain stops admission, waits   *)
(* for the tickets and clears the prefix store.                            *)
(*                                                                         *)
(* A request is an id and an input; its answer is a function of the input, *)
(* so the tokens it has given out are counted.  The prefix store is        *)
(* whether it holds anything (PrefixKVStore has the rest).  A request that *)
(* admission refuses changes nothing, and is no step.                      *)
(***************************************************************************)
EXTENDS Integers, Sequences, FiniteSets

CONSTANTS
  Clients,         \* threads that call generate
  Ids,             \* request_id
  Inputs,          \* fingerprints: prompt and sampling
  Cost,            \* Cost[i]: prompt tokens and max_new_tokens
  OutputLength,    \* tokens of a whole answer
  MaxInflight,     \* max_inflight_requests
  CacheCapacity,   \* cache_capacity
  BucketCapacity,  \* TokenBucket.capacity
  Rate,            \* refill_per_second
  MaxTime,         \* bound: seconds on the admission clock
  None

ASSUME ServiceAssumption ==
  /\ Cost \in [Inputs -> Nat \ {0}]
  /\ OutputLength \in Nat \ {0}
  /\ MaxInflight \in Nat \ {0}
  /\ CacheCapacity \in Nat \ {0}
  /\ BucketCapacity \in Nat \ {0}
  /\ Rate \in Nat \ {0}
  /\ MaxTime \in Nat
  /\ None \notin Clients

VARIABLES
  queued, running,   \* admission tickets
  slot,              \* client that holds the inference lock, or None
  draining,
  drain,             \* the drain call: "no", "waiting", "clearing" or "done"
  drained,           \* whether it saw the service empty
  responses,         \* response cache, least recently used first
  tokens, updated,   \* the token bucket
  now,               \* admission clock
  stored,            \* whether the prefix store holds a snapshot
  pc,                \* where each client is in generate
  request,           \* its request
  cancelled, expired,  \* its controls
  emitted,           \* tokens handed to it
  spent,             \* history: tokens charged to the bucket
  work               \* history: whole generations of an id since it was forgotten

tickets == <<queued, running, slot>>
drainer == <<draining, drain, drained>>
bucket == <<tokens, updated, spent>>
cache == <<responses, work>>
caller == <<request, cancelled, expired>>
vars == <<tickets, drainer, bucket, cache, now, stored, pc, caller, emitted>>

Request == [id : Ids, input : Inputs, timed : BOOLEAN]
Response == [id : Ids, input : Inputs, tokens : 0..OutputLength]
Stages == {"idle", "queued", "locked", "serving", "replaying", "generating",
           "finishing", "leaving", "exiting"}

ActiveRequests == Cardinality(queued) + Cardinality(running)
Interrupted(c) == cancelled[c] \/ expired[c]
Goto(c, stage) == pc' = [pc EXCEPT ![c] = stage]

Init ==
  /\ queued = {} /\ running = {} /\ slot = None
  /\ draining = FALSE /\ drain = "no" /\ drained = FALSE
  /\ responses = <<>>
  /\ tokens = BucketCapacity /\ updated = 0 /\ now = 0 /\ spent = 0
  /\ stored = FALSE
  /\ pc = [c \in Clients |-> "idle"]
  /\ request = [c \in Clients |-> None]
  /\ cancelled = [c \in Clients |-> FALSE]
  /\ expired = [c \in Clients |-> FALSE]
  /\ emitted = [c \in Clients |-> 0]
  /\ work = [i \in Ids |-> 0]

-------------------------------------------------------------------------------
(* Admission: _admitted_request and _inference_slot                           *)

Admissible == ~draining /\ ActiveRequests < MaxInflight

Admit(c, r) ==
  /\ pc[c] = "idle"
  /\ Admissible
  /\ queued' = queued \union {c}
  /\ request' = [request EXCEPT ![c] = r]
  /\ Goto(c, "queued")
  /\ UNCHANGED <<running, slot, drainer, bucket, cache, now, stored, cancelled, expired, emitted>>

\* Variant: the poll looks at the cancellation only.
LeaveQueueWhenCancelled(c) ==
  /\ pc[c] = "queued" /\ cancelled[c]
  /\ Goto(c, "exiting")
  /\ UNCHANGED <<tickets, drainer, bucket, cache, now, stored, caller, emitted>>

\* The poll between two attempts on the lock.
LeaveQueue(c) ==
  /\ pc[c] = "queued" /\ Interrupted(c)
  /\ Goto(c, "exiting")
  /\ UNCHANGED <<tickets, drainer, bucket, cache, now, stored, caller, emitted>>

\* Variant: requests generate side by side.
SlotShared == TRUE

\* The controls may have changed since the poll.
SlotFree == slot = None

TakeSlot(c) ==
  /\ pc[c] = "queued" /\ SlotFree
  /\ slot' = c
  /\ Goto(c, "locked")
  /\ UNCHANGED <<queued, running, drainer, bucket, cache, now, stored, caller, emitted>>

Recheck(c) ==
  /\ pc[c] = "locked"
  /\ IF Interrupted(c)
     THEN /\ Goto(c, "leaving")
          /\ UNCHANGED <<queued, running>>
     ELSE /\ queued' = queued \ {c}
          /\ running' = running \union {c}
          /\ Goto(c, "serving")
  /\ UNCHANGED <<slot, drainer, bucket, cache, now, stored, caller, emitted>>

\* Variant: a call interrupted between its poll and the lock keeps the lock.
LeaveSlotHeld(c) ==
  /\ pc[c] = "leaving"
  /\ running' = running \ {c}
  /\ slot' = IF c \in running THEN None ELSE slot
  /\ Goto(c, "exiting")
  /\ UNCHANGED <<queued, drainer, bucket, cache, now, stored, caller, emitted>>

\* The slot's finally clause.
LeaveSlot(c) ==
  /\ pc[c] = "leaving"
  /\ running' = running \ {c}
  /\ slot' = None
  /\ Goto(c, "exiting")
  /\ UNCHANGED <<queued, drainer, bucket, cache, now, stored, caller, emitted>>

\* Variant: only the running ticket is given back.
ExitRunningOnly(c) ==
  /\ pc[c] = "exiting"
  /\ running' = running \ {c}
  /\ stored' = (stored /\ ~(draining /\ queued \union running' = {}))
  /\ Goto(c, "idle")
  /\ request' = [request EXCEPT ![c] = None]
  /\ cancelled' = [cancelled EXCEPT ![c] = FALSE]
  /\ expired' = [expired EXCEPT ![c] = FALSE]
  /\ emitted' = [emitted EXCEPT ![c] = 0]
  /\ UNCHANGED <<queued, slot, drainer, bucket, cache, now>>

\* Variant: the last request leaves its prefill in the store.
ExitKeepsStore(c) ==
  /\ pc[c] = "exiting"
  /\ queued' = queued \ {c}
  /\ running' = running \ {c}
  /\ Goto(c, "idle")
  /\ request' = [request EXCEPT ![c] = None]
  /\ cancelled' = [cancelled EXCEPT ![c] = FALSE]
  /\ expired' = [expired EXCEPT ![c] = FALSE]
  /\ emitted' = [emitted EXCEPT ![c] = 0]
  /\ UNCHANGED <<stored, slot, drainer, bucket, cache, now>>

\* The ticket's finally clause: the last one out of a draining service clears
\* the prefix store.
Exit(c) ==
  /\ pc[c] = "exiting"
  /\ queued' = queued \ {c}
  /\ running' = running \ {c}
  /\ stored' = (stored /\ ~(draining /\ queued' \union running' = {}))
  /\ Goto(c, "idle")
  /\ request' = [request EXCEPT ![c] = None]
  /\ cancelled' = [cancelled EXCEPT ![c] = FALSE]
  /\ expired' = [expired EXCEPT ![c] = FALSE]
  /\ emitted' = [emitted EXCEPT ![c] = 0]
  /\ UNCHANGED <<slot, drainer, bucket, cache, now>>

-------------------------------------------------------------------------------
(* The response cache                                                         *)

Remembered(id) == {i \in DOMAIN responses : responses[i].id = id}
Without(i) == SubSeq(responses, 1, i - 1) \o SubSeq(responses, i + 1, Len(responses))

\* The id was used with different input: the request is rejected.
Conflict(c) ==
  /\ pc[c] = "serving"
  /\ \E i \in Remembered(request[c].id) : responses[i].input # request[c].input
  /\ Goto(c, "leaving")
  /\ UNCHANGED <<tickets, drainer, bucket, cache, now, stored, caller, emitted>>

StartReplay(c) ==
  /\ pc[c] = "serving"
  /\ \E i \in Remembered(request[c].id) :
       /\ responses[i].input = request[c].input
       /\ responses' = Append(Without(i), responses[i])
  /\ Goto(c, "replaying")
  /\ UNCHANGED <<tickets, drainer, bucket, work, now, stored, caller, emitted>>

\* One cached token, unless the controls say stop.
Replay(c) ==
  /\ pc[c] = "replaying"
  /\ \E i \in Remembered(request[c].id) :
       IF Interrupted(c) \/ emitted[c] = responses[i].tokens
       THEN Goto(c, "leaving") /\ UNCHANGED emitted
       ELSE emitted' = [emitted EXCEPT ![c] = @ + 1] /\ UNCHANGED pc
  /\ UNCHANGED <<tickets, drainer, bucket, cache, now, stored, caller>>

-------------------------------------------------------------------------------
(* The token bucket                                                           *)

Refilled ==
  LET full == tokens + (now - updated) * Rate IN
  IF full > BucketCapacity THEN BucketCapacity ELSE full

Unknown(c) == pc[c] = "serving" /\ Remembered(request[c].id) = {}

\* A request that can never be admitted leaves the bucket alone.
TooLarge(c) ==
  /\ Unknown(c) /\ Cost[request[c].input] > BucketCapacity
  /\ Goto(c, "leaving")
  /\ UNCHANGED <<tickets, drainer, bucket, cache, now, stored, caller, emitted>>

Throttled(c) ==
  /\ Unknown(c)
  /\ Refilled < Cost[request[c].input] /\ Cost[request[c].input] <= BucketCapacity
  /\ tokens' = Refilled /\ updated' = now
  /\ Goto(c, "leaving")
  /\ UNCHANGED <<tickets, drainer, spent, cache, now, stored, caller, emitted>>

\* Variant: a charge does not move the time of the last refill.
ConsumeKeepsClock(c) ==
  LET cost == Cost[request[c].input] IN
  /\ Unknown(c)
  /\ cost <= Refilled
  /\ tokens' = Refilled - cost
  /\ spent' = spent + cost
  /\ Goto(c, "generating")
  /\ UNCHANGED <<updated, tickets, drainer, cache, now, stored, caller, emitted>>

Consume(c) ==
  LET cost == Cost[request[c].input] IN
  /\ Unknown(c)
  /\ cost <= Refilled
  /\ tokens' = Refilled - cost /\ updated' = now
  /\ spent' = spent + cost
  /\ Goto(c, "generating")
  /\ UNCHANGED <<tickets, drainer, cache, now, stored, caller, emitted>>

-------------------------------------------------------------------------------
(* Generation                                                                 *)

Working(c) == pc[c] = "generating" /\ ~Interrupted(c)

\* One token; the prefill of the first one may be published to the store.
Emit(c) ==
  /\ Working(c)
  /\ emitted' = [emitted EXCEPT ![c] = @ + 1]
  /\ stored' \in IF emitted[c] = 0 THEN {stored, TRUE} ELSE {stored}
  /\ IF emitted[c] + 1 = OutputLength THEN Goto(c, "finishing") ELSE UNCHANGED pc
  /\ UNCHANGED <<tickets, drainer, bucket, cache, now, caller>>

\* Cancelled or too late between two tokens: a partial answer.
Stop(c) ==
  /\ pc[c] = "generating" /\ Interrupted(c)
  /\ Goto(c, "finishing")
  /\ UNCHANGED <<tickets, drainer, bucket, cache, now, stored, caller, emitted>>

\* The token callback raises, or the model does: there is no answer.
Raise(c) ==
  /\ pc[c] \in {"generating", "replaying"}
  /\ stored' \in IF pc[c] = "generating" /\ emitted[c] = 0 THEN {stored, TRUE} ELSE {stored}
  /\ Goto(c, "leaving")
  /\ UNCHANGED <<tickets, drainer, bucket, cache, now, caller, emitted>>

\* Variant: a partial answer is remembered too.
AnyAnswer(c) == emitted[c] >= 0

Whole(c) == emitted[c] = OutputLength

\* A whole answer is remembered, at the expense of the least recently used.
Finish(c) ==
  LET id == request[c].id
      answer == [id |-> id, input |-> request[c].input, tokens |-> emitted[c]]
      all == IF Whole(c) THEN Append(responses, answer) ELSE responses
      excess == IF Len(all) > CacheCapacity THEN Len(all) - CacheCapacity ELSE 0
      forgotten == {all[i].id : i \in 1..excess} IN
  /\ pc[c] = "finishing"
  /\ responses' = SubSeq(all, excess + 1, Len(all))
  /\ work' = [i \in Ids |-> IF i \in forgotten THEN 0
                            ELSE IF Whole(c) /\ i = id THEN work[i] + 1 ELSE work[i]]
  /\ Goto(c, "leaving")
  /\ UNCHANGED <<tickets, drainer, bucket, now, stored, caller, emitted>>

-------------------------------------------------------------------------------
(* Callers, clock and drain                                                   *)

Cancel(c) ==
  /\ pc[c] # "idle" /\ ~cancelled[c]
  /\ cancelled' = [cancelled EXCEPT ![c] = TRUE]
  /\ UNCHANGED <<tickets, drainer, bucket, cache, now, stored, pc, request, expired, emitted>>

\* The monotonic clock reaches the request's deadline.
Expire(c) ==
  /\ pc[c] # "idle" /\ request[c].timed /\ ~expired[c]
  /\ expired' = [expired EXCEPT ![c] = TRUE]
  /\ UNCHANGED <<tickets, drainer, bucket, cache, now, stored, pc, request, cancelled, emitted>>

Tick ==
  /\ now < MaxTime
  /\ now' = now + 1
  /\ UNCHANGED <<tickets, drainer, bucket, cache, stored, pc, caller, emitted>>

StartDrain ==
  /\ drain = "no"
  /\ drain' = "waiting"
  /\ draining' = TRUE
  /\ UNCHANGED <<tickets, drained, bucket, cache, now, stored, pc, caller, emitted>>

\* The service is empty, or the declared time is over.
EndDrain ==
  /\ drain = "waiting"
  /\ drained' \in {ActiveRequests = 0, FALSE}
  /\ drain' = "clearing"
  /\ UNCHANGED <<tickets, draining, bucket, cache, now, stored, pc, caller, emitted>>

ClearStore ==
  /\ drain = "clearing"
  /\ drain' = "done"
  /\ stored' = FALSE
  /\ UNCHANGED <<tickets, draining, drained, bucket, cache, now, pc, caller, emitted>>

-------------------------------------------------------------------------------
Client(c) ==
  \/ \E r \in Request : Admit(c, r)
  \/ LeaveQueue(c) \/ TakeSlot(c) \/ Recheck(c) \/ LeaveSlot(c) \/ Exit(c)
  \/ Conflict(c) \/ StartReplay(c) \/ Replay(c)
  \/ TooLarge(c) \/ Throttled(c) \/ Consume(c)
  \/ Emit(c) \/ Stop(c) \/ Raise(c) \/ Finish(c)
  \/ Cancel(c) \/ Expire(c)

Next ==
  \/ \E c \in Clients : Client(c)
  \/ Tick \/ StartDrain \/ EndDrain \/ ClearStore

Spec == Init /\ [][Next]_vars

\* Time passes and waiting threads are scheduled.  Nothing is assumed of the
\* thread that runs the model: its kernel is never preempted and may hang.
QueueFairness ==
  \A c \in Clients : WF_vars(Expire(c)) /\ WF_vars(LeaveQueue(c)) /\ WF_vars(Exit(c))

FairSpec == Spec /\ QueueFairness

-------------------------------------------------------------------------------
(* Properties                                                                 *)

\* The type invariant.
TypeOK ==
  /\ queued \in SUBSET Clients /\ running \in SUBSET Clients
  /\ slot \in Clients \union {None}
  /\ draining \in BOOLEAN /\ drained \in BOOLEAN
  /\ drain \in {"no", "waiting", "clearing", "done"}
  /\ responses \in Seq(Response) /\ Len(responses) <= CacheCapacity
  /\ tokens \in 0..BucketCapacity /\ updated \in 0..MaxTime /\ now \in 0..MaxTime
  /\ spent \in Nat
  /\ stored \in BOOLEAN
  /\ pc \in [Clients -> Stages]
  /\ request \in [Clients -> Request \union {None}]
  /\ cancelled \in [Clients -> BOOLEAN] /\ expired \in [Clients -> BOOLEAN]
  /\ emitted \in [Clients -> 0..OutputLength]
  /\ work \in [Ids -> Nat]

\* Tickets and the inference lock are held by exactly the calls that are there:
\* whatever ends a request, in the queue, between its poll and the lock, under the
\* lock or in the model, no place of the queue is lost to it and no lock is held
\* by a call that left it.
HoldsLock(c) ==
  pc[c] \in {"locked", "serving", "replaying", "generating", "finishing", "leaving"}

TicketsMatchCalls ==
  \A c \in Clients :
    /\ slot = c <=> HoldsLock(c)
    /\ c \in queued => pc[c] \in {"queued", "locked", "leaving", "exiting"}
    /\ c \in running => HoldsLock(c) /\ pc[c] # "locked" /\ c \notin queued
    /\ pc[c] \in {"queued", "locked"} => c \in queued
    /\ pc[c] \in {"serving", "replaying", "generating", "finishing"} => c \in running

\* A retry of a remembered request is never generated again: since an id was
\* last forgotten it has been generated whole at most once, and is remembered
\* exactly if it has.
GeneratedOnce ==
  \A i \in Ids : work[i] = Cardinality(Remembered(i)) /\ work[i] <= 1

\* Only whole answers are remembered, so a replay can be whole, whoever was
\* cancelled, late or cut off while the answer was generated or replayed.
AnswersAreWhole ==
  \A i \in DOMAIN responses : responses[i].tokens = OutputLength

\* However requests and refills interleave, no more is charged than the burst
\* and the refill rate allow for the time that has passed.
RateBounded == spent <= BucketCapacity + Rate * now

\* A drain that saw the service empty is final: nothing is admitted after it
\* and nothing is left in the prefix store.  One that timed out leaves the
\* store to the last request still inside.
DrainIsFinal ==
  drain = "done" =>
    /\ drained => ActiveRequests = 0 /\ ~stored
    /\ (\A c \in Clients : pc[c] = "idle") => ~stored

\* A queued request with a deadline leaves the queue even if the request that
\* holds the inference lock never finishes.
TimedRequestsLeaveQueue ==
  \A c \in Clients : (pc[c] = "queued" /\ request[c].timed) ~> pc[c] # "queued"

===============================================================================
