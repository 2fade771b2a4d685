--------------------------- MODULE ContinuousBatching ---------------------------
(***************************************************************************)
(* inference_batching.py: simulate_continuous_batching, one tick a step.   *)
(* A request reserves its prompt and all it may generate when it is        *)
(* admitted, and decodes one token a tick until it has them.               *)
(***************************************************************************)
EXTENDS Integers, Sequences, FiniteSets, SequencesExt

CONSTANTS
  Requests,                \* identifiers: naturals, since ties are broken by name
  Arrivals, Prompts, News, \* values of a request's fields
  BatchSizes, Budgets      \* values of max_batch_size and max_resident_tokens

ASSUME BatchingAssumption ==
  /\ Requests \subseteq Nat /\ IsFiniteSet(Requests) /\ Requests # {}
  /\ Arrivals \subseteq Nat
  /\ \A values \in {Prompts, News, BatchSizes, Budgets} : values \subseteq Nat \ {0}

VARIABLES
  request,   \* fields of each request
  limits,    \* the batch size and the budget
  waiting,   \* requests not admitted yet, by arrival
  active,    \* requests being decoded, with the tokens they have generated
  tick,
  last,      \* what the last tick decoded, and the tokens reserved for it
  decoded    \* history: how many ticks have decoded each request

batchingVars == <<request, limits, waiting, active, tick, last, decoded>>

Reserved(r) == request[r].prompt + request[r].new

\* Arrival first, then the name.
Earlier(a, b) ==
  \/ request[a].arrival < request[b].arrival
  \/ request[a].arrival = request[b].arrival /\ a < b

\* No request may exceed the budget on its own.
BatchingInit ==
  /\ request \in [Requests -> [arrival : Arrivals, prompt : Prompts, new : News]]
  /\ limits \in [batch : BatchSizes, budget : Budgets]
  /\ \A r \in Requests : Reserved(r) =< limits.budget
  /\ \E queue \in [1..Cardinality(Requests) -> Requests] :
       /\ \A i, j \in DOMAIN queue : i < j => Earlier(queue[i], queue[j])
       /\ waiting = queue
  /\ active = <<>>
  /\ tick = 0
  /\ last = [decode |-> {}, reserved |-> 0]
  /\ decoded = [r \in Requests |-> 0]

TotalReserved(rs) == FoldSet(LAMBDA r, sum : Reserved(r) + sum, 0, rs)

\* Variant: a request that does not fit holds up those behind it.
AdmitInOrder(taken, r) ==
  IF taken.ended \/ request[r].arrival > tick
       \/ Cardinality(DOMAIN active) + Len(taken.admitted) >= limits.batch
       \/ taken.reserved + Reserved(r) > limits.budget
  THEN [taken EXCEPT !.ended = TRUE, !.left = Append(@, r)]
  ELSE [taken EXCEPT !.admitted = Append(@, r), !.reserved = @ + Reserved(r)]

\* Variant: a request is taken off the queue before the budget is looked at.
AdmitForgets(taken, r) ==
  IF taken.ended \/ request[r].arrival > tick
       \/ Cardinality(DOMAIN active) + Len(taken.admitted) >= limits.batch
  THEN [taken EXCEPT !.ended = TRUE, !.left = Append(@, r)]
  ELSE IF taken.reserved + Reserved(r) > limits.budget THEN taken
  ELSE [taken EXCEPT !.admitted = Append(@, r), !.reserved = @ + Reserved(r)]

\* The loop over the waiting requests: those that have not come, or a full batch,
\* end it; one that does not fit is passed over.  Both go on waiting.
Admit(taken, r) ==
  IF taken.ended \/ request[r].arrival > tick
       \/ Cardinality(DOMAIN active) + Len(taken.admitted) >= limits.batch
  THEN [taken EXCEPT !.ended = TRUE, !.left = Append(@, r)]
  ELSE IF taken.reserved + Reserved(r) > limits.budget THEN [taken EXCEPT !.left = Append(@, r)]
  ELSE [taken EXCEPT !.admitted = Append(@, r), !.reserved = @ + Reserved(r)]

AdmissionOf(queue) ==
  FoldLeft(LAMBDA taken, r : Admit(taken, r),
           [admitted |-> <<>>, left |-> <<>>, ended |-> FALSE,
            reserved |-> TotalReserved(DOMAIN active)],
           queue)

Served == waiting = <<>> /\ DOMAIN active = {}

Tick ==
  /\ ~Served
  /\ LET taken == AdmissionOf(waiting)
         decode == DOMAIN active \union Range(taken.admitted)
         generated == [r \in decode |-> (IF r \in DOMAIN active THEN active[r] ELSE 0) + 1]
         kept == {r \in decode : generated[r] # request[r].new}
     IN /\ waiting' = taken.left
        /\ active' = [r \in kept |-> generated[r]]
        /\ last' = [decode |-> decode, reserved |-> taken.reserved]
        /\ decoded' = [r \in Requests |-> IF r \in decode THEN decoded[r] + 1 ELSE decoded[r]]
  /\ tick' = tick + 1
  /\ UNCHANGED <<request, limits>>

-------------------------------------------------------------------------------
(* Properties                                                                 *)

Latest == CHOOSE at \in {request[r].arrival : r \in Requests} :
            \A r \in Requests : request[r].arrival =< at
AllNew == FoldSet(LAMBDA r, sum : request[r].new + sum, 0, Requests)

\* The batch and the tokens reserved for it stay within their limits, and no tick
\* is wasted: a request that has come and waits could not have joined the batch
\* of the last tick, and the schedule is over when the last arrival and every
\* decode together have gone by.
NoTickWasted ==
  /\ Cardinality(last.decode) =< limits.batch
  /\ last.reserved = TotalReserved(last.decode) /\ last.reserved =< limits.budget
  /\ \A r \in Range(waiting) :
       request[r].arrival < tick =>
         Cardinality(last.decode) = limits.batch \/ last.reserved + Reserved(r) > limits.budget
  /\ tick =< Latest + AllNew

\* However often it is passed over, no request is lost and none is served twice:
\* it waits and was never decoded, or it is a row of the batch that has decoded
\* what it counts and needs more, or it has decoded all it asked for.
NoRequestLost ==
  \A r \in Requests :
    \/ /\ r \in Range(waiting) /\ r \notin DOMAIN active
       /\ decoded[r] = 0
    \/ /\ r \in DOMAIN active /\ r \notin Range(waiting)
       /\ decoded[r] = active[r] /\ decoded[r] < request[r].new
    \/ /\ r \notin DOMAIN active /\ r \notin Range(waiting)
       /\ decoded[r] = request[r].new

===============================================================================
