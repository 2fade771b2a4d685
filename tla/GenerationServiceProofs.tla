------------------------ MODULE GenerationServiceProofs ------------------------
(***************************************************************************)
(* The generation service's safety properties for every number of callers, *)
(* ids and inputs, every cost, queue, cache and bucket.                    *)
(*                                                                         *)
(* IInv is inductive.  Its parts say who holds the lock and a ticket at    *)
(* each stage of a call (HolderInv), what a call has given out (CallInv),  *)
(* what the cache remembers and how often it was generated (CacheInv), how *)
(* far the bucket has been charged (BucketInv), and what a drain leaves    *)
(* behind (DrainInv).                                                      *)
(***************************************************************************)
EXTENDS GenerationService, SequenceTheorems, FiniteSetTheorems, TLAPS

-------------------------------------------------------------------------------
(* A sequence in least-recently-used order: an element is taken out, or       *)
(* moved to the recent end.                                                   *)

Out(s, i) == SubSeq(s, 1, i - 1) \o SubSeq(s, i + 1, Len(s))
ToEnd(s, i) == Append(Out(s, i), s[i])

\* Taking the element at i out keeps the others and their order.
LEMMA TakenOut ==
  ASSUME NEW S, NEW s \in Seq(S), NEW i \in DOMAIN s
  PROVE  /\ Out(s, i) \in Seq(S) /\ Len(Out(s, i)) = Len(s) - 1
         /\ DOMAIN Out(s, i) = 1..(Len(s) - 1)
         /\ \A k \in 1..(Len(s) - 1) : Out(s, i)[k] = s[IF k < i THEN k ELSE k + 1]
<1> DEFINE a == SubSeq(s, 1, i - 1)
           b == SubSeq(s, i + 1, Len(s))
<1>1. i \in 1..Len(s) /\ Len(s) \in Nat /\ DOMAIN s = 1..Len(s)
  BY LenProperties
<1>2. \A k \in 1..Len(s) : s[k] \in S
  BY ElementOfSeq
<1>3. a \in Seq(S) /\ Len(a) = i - 1 /\ \A k \in 1..(i - 1) : a[k] = s[k]
  <2>1. \A k \in 1..(i - 1) : s[k] \in S
    BY <1>1, <1>2
  <2>2. /\ a \in Seq(S)
        /\ Len(a) = IF 1 <= i - 1 THEN (i - 1) - 1 + 1 ELSE 0
        /\ \A k \in 1..((i - 1) - 1 + 1) : a[k] = s[1 + k - 1]
    BY <1>1, <2>1, SubSeqProperties
  <2> HIDE DEF a
  <2>3. \A k \in 1..(i - 1) : k \in 1..((i - 1) - 1 + 1) /\ 1 + k - 1 = k
    BY <1>1
  <2>4. QED
    BY <1>1, <2>2, <2>3
<1>4. b \in Seq(S) /\ Len(b) = Len(s) - i
      /\ \A k \in 1..(Len(s) - i) : b[k] = s[i + k]
  <2>1. \A k \in (i + 1)..Len(s) : s[k] \in S
    BY <1>1, <1>2
  <2>2. /\ b \in Seq(S)
        /\ Len(b) = IF i + 1 <= Len(s) THEN Len(s) - (i + 1) + 1 ELSE 0
        /\ \A k \in 1..(Len(s) - (i + 1) + 1) : b[k] = s[(i + 1) + k - 1]
    BY <1>1, <2>1, SubSeqProperties
  <2> HIDE DEF b
  <2>3. \A k \in 1..(Len(s) - i) :
          k \in 1..(Len(s) - (i + 1) + 1) /\ (i + 1) + k - 1 = i + k
    BY <1>1
  <2>4. QED
    BY <1>1, <2>2, <2>3
<1> DEFINE t == Out(s, i)
<1> HIDE DEF a, b, t
<1>5. /\ t \in Seq(S)
      /\ Len(t) = Len(a) + Len(b)
      /\ \A k \in 1..(Len(a) + Len(b)) :
           t[k] = IF k <= Len(a) THEN a[k] ELSE b[k - Len(a)]
  BY <1>3, <1>4, ConcatProperties DEF a, b, t, Out
<1>6. Len(t) = Len(s) - 1
  BY <1>1, <1>3, <1>4, <1>5
<1>7. ASSUME NEW k \in 1..(Len(s) - 1)
      PROVE  t[k] = s[IF k < i THEN k ELSE k + 1]
  <2>1. k \in 1..(Len(a) + Len(b))
    BY <1>1, <1>3, <1>4
  <2>2. CASE k < i
    <3>1. k <= Len(a) /\ k \in 1..(i - 1)
      BY <1>1, <1>3, <2>2
    <3>2. t[k] = a[k]
      BY <1>5, <2>1, <3>1
    <3>3. QED
      BY <1>3, <2>2, <3>1, <3>2
  <2>3. CASE ~(k < i)
    <3>1. ~(k <= Len(a)) /\ k - Len(a) \in 1..(Len(s) - i)
          /\ i + (k - Len(a)) = k + 1
      BY <1>1, <1>3, <2>3
    <3>2. t[k] = b[k - Len(a)]
      BY <1>5, <2>1, <3>1
    <3>3. t[k] = s[i + (k - Len(a))]
      BY <1>4, <3>1, <3>2
    <3>4. QED
      BY <2>3, <3>1, <3>3
  <2>4. QED
    BY <2>2, <2>3
<1>8. DOMAIN t = 1..(Len(s) - 1)
  BY <1>5, <1>6, LenProperties
<1>9. QED
  BY <1>5, <1>6, <1>7, <1>8 DEF t

\* Moving the element at i to the end keeps every element.
LEMMA MovedLast ==
  ASSUME NEW S, NEW s \in Seq(S), NEW i \in DOMAIN s
  PROVE  /\ ToEnd(s, i) \in Seq(S) /\ Len(ToEnd(s, i)) = Len(s)
         /\ DOMAIN ToEnd(s, i) = DOMAIN s
         /\ \A k \in DOMAIN s :
              ToEnd(s, i)[k] = s[IF k < i THEN k ELSE IF k < Len(s) THEN k + 1 ELSE i]
<1> DEFINE u == Out(s, i)
           t == ToEnd(s, i)
<1>1. i \in 1..Len(s) /\ Len(s) \in Nat /\ DOMAIN s = 1..Len(s) /\ s[i] \in S
  BY LenProperties, ElementOfSeq
<1>2. u \in Seq(S) /\ Len(u) = Len(s) - 1
      /\ \A k \in 1..(Len(s) - 1) : u[k] = s[IF k < i THEN k ELSE k + 1]
  BY TakenOut
<1> HIDE DEF u, t
<1>3. /\ t \in Seq(S)
      /\ Len(t) = Len(u) + 1
      /\ \A k \in 1..Len(u) : t[k] = u[k]
      /\ t[Len(u) + 1] = s[i]
  <2> DEFINE e == s[i]
  <2>1. t = Append(u, e) /\ e \in S
    BY <1>1 DEF u, t, ToEnd
  <2> HIDE DEF e
  <2>2. /\ Append(u, e) \in Seq(S)
        /\ Len(Append(u, e)) = Len(u) + 1
        /\ \A k \in 1..Len(u) : Append(u, e)[k] = u[k]
        /\ Append(u, e)[Len(u) + 1] = e
    BY <1>2, <2>1, AppendProperties
  <2>3. QED
    BY <2>1, <2>2 DEF e
<1>4. Len(t) = Len(s) /\ DOMAIN t = DOMAIN s /\ t[Len(s)] = s[i]
  BY <1>1, <1>2, <1>3, LenProperties
<1>5. ASSUME NEW k \in DOMAIN s
      PROVE  t[k] = s[IF k < i THEN k ELSE IF k < Len(s) THEN k + 1 ELSE i]
  <2>1. k \in 1..Len(s)
    BY <1>1
  <2>2. CASE k < Len(s)
    <3>1. k \in 1..(Len(s) - 1) /\ k \in 1..Len(u)
      BY <1>1, <1>2, <2>1, <2>2
    <3>2. QED
      <4>1. t[k] = u[k]
        BY <1>3, <3>1
      <4>2. u[k] = s[IF k < i THEN k ELSE k + 1]
        BY <1>2, <3>1
      <4>3. QED
        BY <2>2, <4>1, <4>2
  <2>3. CASE ~(k < Len(s))
    <3>1. k = Len(s) /\ ~(k < i)
      BY <1>1, <2>1, <2>3
    <3>2. QED
      BY <1>4, <2>3, <3>1
  <2>4. QED
    BY <2>2, <2>3
<1>6. QED
  BY <1>3, <1>4, <1>5 DEF t

-------------------------------------------------------------------------------
Running == {"serving", "replaying", "generating", "finishing"}
Inside == Running \union {"locked", "leaving"}

\* The lock is held by the one call that is inside it; a call that runs has
\* exchanged its queued ticket for a running one.
HolderInv ==
  /\ \A c \in Clients : pc[c] \in Inside <=> slot = c
  /\ \A c \in Clients : pc[c] \in Running => c \in running /\ c \notin queued
  /\ \A c \in running : pc[c] \in Running \union {"leaving"} /\ c \notin queued
  /\ \A c \in Clients : pc[c] \in {"queued", "locked"} => c \in queued
  /\ \A c \in queued : pc[c] \in {"queued", "locked", "leaving", "exiting"}
  /\ IsFiniteSet(queued) /\ IsFiniteSet(running)

\* A call has a request, and an unfinished generation lacks a token.
CallInv ==
  \A c \in Clients :
    /\ pc[c] # "idle" => request[c] \in Request
    /\ pc[c] = "generating" => emitted[c] < OutputLength
    /\ pc[c] \in {"idle", "queued", "locked", "serving"} => emitted[c] = 0

\* No id is remembered twice, what is remembered is whole, and a call that
\* generates has no answer remembered yet.
CacheInv ==
  /\ \A i \in DOMAIN responses : responses[i].tokens = OutputLength
  /\ \A i, j \in DOMAIN responses : responses[i].id = responses[j].id => i = j
  /\ \A id \in Ids : work[id] = IF Remembered(id) = {} THEN 0 ELSE 1
  /\ \A c \in Clients :
       pc[c] \in {"generating", "finishing"} => Remembered(request[c].id) = {}

\* What has been charged and what is left never exceed the burst and the
\* refills up to the last one.
BucketInv ==
  /\ updated <= now
  /\ spent + tokens <= BucketCapacity + Rate * updated

\* After the drain has begun nobody comes in; the store holds something only
\* while the drain has not cleared it or somebody is still inside.
DrainInv ==
  /\ draining <=> drain # "no"
  /\ drained => drain \in {"clearing", "done"} /\ queued = {} /\ running = {}
  /\ drain = "done" /\ stored => \E c \in Clients : pc[c] # "idle"
  /\ drain = "done" /\ drained => ~stored

IInv == TypeOK /\ HolderInv /\ CallInv /\ CacheInv /\ BucketInv /\ DrainInv

\* Refills are capped, and counted by the time since the last one.
LEMMA RefillBound ==
  ASSUME IInv
  PROVE  /\ Refilled \in 0..BucketCapacity
         /\ spent + Refilled <= BucketCapacity + Rate * now
<1> USE ServiceAssumption DEF IInv, TypeOK, BucketInv
<1> DEFINE gain == (now - updated) * Rate
<1>1. now - updated \in Nat /\ Rate \in Nat /\ tokens \in Nat /\ spent \in Nat
  OBVIOUS
<1>2. gain \in Nat
  BY <1>1
<1>3. Rate * updated + gain = Rate * now
  BY <1>1
<1>4. Rate * updated \in Nat /\ Rate * now \in Nat
  BY <1>1
<1> HIDE DEF gain
<1>5. Refilled = IF tokens + gain > BucketCapacity THEN BucketCapacity ELSE tokens + gain
  BY DEF Refilled, gain
<1>6. Refilled \in 0..BucketCapacity /\ Refilled <= tokens + gain
  BY <1>1, <1>2, <1>5
<1>7. spent + tokens <= BucketCapacity + Rate * updated
  OBVIOUS
<1>8. QED
  BY <1>1, <1>2, <1>3, <1>4, <1>6, <1>7

\* A charge is taken from what is left after the refill, and moves its time.
LEMMA BucketStep ==
  ASSUME IInv, [Next]_vars
  PROVE  BucketInv'
<1> USE ServiceAssumption DEF IInv, BucketInv, TypeOK, Stages, tickets, drainer, bucket, cache, caller, Goto
<1>1. ASSUME NEW c \in Clients, NEW r \in Request, Admit(c, r)
      PROVE  BucketInv'
  BY <1>1 DEF Admit, Admissible
<1>2. ASSUME NEW c \in Clients, LeaveQueue(c)
      PROVE  BucketInv'
  BY <1>2 DEF LeaveQueue, Interrupted
<1>3. ASSUME NEW c \in Clients, TakeSlot(c)
      PROVE  BucketInv'
  BY <1>3 DEF TakeSlot, SlotFree
<1>4. ASSUME NEW c \in Clients, Recheck(c)
      PROVE  BucketInv'
  BY <1>4 DEF Recheck
<1>5. ASSUME NEW c \in Clients, LeaveSlot(c)
      PROVE  BucketInv'
  BY <1>5 DEF LeaveSlot
<1>6. ASSUME NEW c \in Clients, Exit(c)
      PROVE  BucketInv'
  BY <1>6 DEF Exit
<1>7. ASSUME NEW c \in Clients, Conflict(c)
      PROVE  BucketInv'
  BY <1>7 DEF Conflict
<1>8. ASSUME NEW c \in Clients, StartReplay(c)
      PROVE  BucketInv'
  BY <1>8 DEF StartReplay
<1>9. ASSUME NEW c \in Clients, Replay(c)
      PROVE  BucketInv'
  BY <1>9 DEF Replay
<1>10. ASSUME NEW c \in Clients, TooLarge(c)
      PROVE  BucketInv'
  BY <1>10 DEF TooLarge, Unknown
<1>11. ASSUME NEW c \in Clients, Throttled(c)
      PROVE  BucketInv'
  <2>1. tokens' = Refilled /\ updated' = now /\ now' = now /\ spent' = spent
    BY <1>11 DEF Throttled
  <2>2. QED
    BY <2>1, RefillBound
<1>12. ASSUME NEW c \in Clients, Consume(c)
      PROVE  BucketInv'
  <2> DEFINE cost == Cost[request[c].input]
  <2>1. tokens' = Refilled - cost /\ updated' = now /\ now' = now /\ spent' = spent + cost
    BY <1>12 DEF Consume
  <2>2. cost \in Nat
    <3>1. request[c].input \in Inputs
      BY <1>12 DEF Consume, Unknown, CallInv, Request
    <3>2. QED
      BY <3>1
  <2>3. Refilled \in Nat /\ spent \in Nat
    BY RefillBound
  <2> HIDE DEF cost
  <2>4. spent' + tokens' = spent + Refilled
    BY <2>1, <2>2, <2>3
  <2>5. QED
    BY <2>1, <2>4, RefillBound
<1>13. ASSUME NEW c \in Clients, Emit(c)
      PROVE  BucketInv'
  BY <1>13 DEF Emit, Working, Interrupted
<1>14. ASSUME NEW c \in Clients, Stop(c)
      PROVE  BucketInv'
  BY <1>14 DEF Stop, Interrupted
<1>15. ASSUME NEW c \in Clients, Raise(c)
      PROVE  BucketInv'
  BY <1>15 DEF Raise
<1>16. ASSUME NEW c \in Clients, Finish(c)
      PROVE  BucketInv'
  BY <1>16 DEF Finish
<1>17. ASSUME NEW c \in Clients, Cancel(c)
      PROVE  BucketInv'
  BY <1>17 DEF Cancel
<1>18. ASSUME NEW c \in Clients, Expire(c)
      PROVE  BucketInv'
  BY <1>18 DEF Expire
<1>19. ASSUME Tick
      PROVE  BucketInv'
  BY <1>19 DEF Tick
<1>20. ASSUME StartDrain
      PROVE  BucketInv'
  BY <1>20 DEF StartDrain
<1>21. ASSUME EndDrain
      PROVE  BucketInv'
  BY <1>21 DEF EndDrain
<1>22. ASSUME ClearStore
      PROVE  BucketInv'
  BY <1>22 DEF ClearStore
<1>23. CASE UNCHANGED vars
  BY <1>23 DEF vars
<1>24. QED
  BY <1>1, <1>2, <1>3, <1>4, <1>5, <1>6, <1>7, <1>8, <1>9, <1>10, <1>11, <1>12, <1>13, <1>14, <1>15, <1>16, <1>17, <1>18, <1>19, <1>20, <1>21, <1>22, <1>23 DEF Next, Client

\* A replay moves the answer to the recent end of the cache.
LEMMA ReplayMoves ==
  ASSUME IInv, NEW c \in Clients, StartReplay(c)
  PROVE  \E i \in DOMAIN responses :
           /\ responses' = ToEnd(responses, i)
           /\ responses' \in Seq(Response)
           /\ Len(responses') = Len(responses)
           /\ DOMAIN responses' = DOMAIN responses
           /\ \A k \in DOMAIN responses :
                responses'[k] =
                  responses[IF k < i THEN k ELSE IF k < Len(responses) THEN k + 1 ELSE i]
<1>1. PICK i \in Remembered(request[c].id) : responses' = Append(Without(i), responses[i])
  BY DEF StartReplay
<1>2. i \in DOMAIN responses /\ responses \in Seq(Response)
  BY <1>1 DEF Remembered, IInv, TypeOK
<1>3. responses' = ToEnd(responses, i)
  BY <1>1 DEF Without, ToEnd, Out
<1>4. QED
  BY <1>2, <1>3, MovedLast

\* What a whole answer does to the cache: it comes last, and the first entry
\* goes if there is one too many.
Remembers(c, e) ==
  LET answer == [id |-> request[c].id, input |-> request[c].input, tokens |-> emitted[c]] IN
  /\ responses' \in Seq(Response)
  /\ Len(responses') = Len(responses) + 1 - e
  /\ Len(responses') <= CacheCapacity
  /\ \A k \in 1..Len(responses') :
       responses'[k] = IF k + e <= Len(responses) THEN responses[k + e] ELSE answer
  /\ e = 1 => Len(responses) >= 1
  /\ work' = [i \in Ids |-> IF e = 1 /\ i = responses[1].id THEN 0
                            ELSE IF i = request[c].id THEN work[i] + 1 ELSE work[i]]

\* An unfinished generation leaves the cache alone.
LEMMA FinishPartial ==
  ASSUME IInv, NEW c \in Clients, Finish(c), ~Whole(c)
  PROVE  responses' = responses /\ work' = work
<1> USE ServiceAssumption DEF IInv, TypeOK
<1> DEFINE excess == IF Len(responses) > CacheCapacity THEN Len(responses) - CacheCapacity ELSE 0
<1>1. Len(responses) \in Nat /\ responses \in Seq(Response) /\ CacheCapacity \in Nat
  BY LenProperties
<1>2. excess = 0
  BY <1>1
<1> HIDE DEF excess
<1>3. responses' = SubSeq(responses, excess + 1, Len(responses))
  BY DEF Finish, excess
<1>4. responses' = responses
  BY <1>1, <1>2, <1>3, SubSeqFull
<1>5. work' = [i \in Ids |-> IF i \in {responses[k].id : k \in 1..excess} THEN 0 ELSE work[i]]
  BY DEF Finish, excess
<1>6. 1..excess = {}
  BY <1>2
<1>7. \A i \in Ids : i \notin {responses[k].id : k \in 1..excess}
  BY <1>6
<1>8. work' = [i \in Ids |-> work[i]]
  BY <1>5, <1>7
<1>9. QED
  BY <1>4, <1>8

\* A whole answer is remembered once, at the recent end, and may push out the
\* oldest.
LEMMA FinishWhole ==
  ASSUME IInv, NEW c \in Clients, Finish(c), Whole(c)
  PROVE  \E e \in {0, 1} : Remembers(c, e)
<1> USE ServiceAssumption DEF IInv, TypeOK
<1> DEFINE answer == [id |-> request[c].id, input |-> request[c].input, tokens |-> emitted[c]]
           all == Append(responses, answer)
           excess == IF Len(all) > CacheCapacity THEN Len(all) - CacheCapacity ELSE 0
<1>1. Len(responses) \in Nat /\ responses \in Seq(Response) /\ CacheCapacity \in Nat \ {0}
      /\ Len(responses) <= CacheCapacity
  BY LenProperties
<1>2. answer \in Response
  <2>1. request[c] \in Request
    BY DEF CallInv, Finish
  <2>2. request[c].id \in Ids /\ request[c].input \in Inputs /\ emitted[c] \in 0..OutputLength
    BY <2>1 DEF Request
  <2>3. QED
    BY <2>2 DEF Response
<1> HIDE DEF answer
<1>3. /\ all \in Seq(Response) /\ Len(all) = Len(responses) + 1
      /\ \A k \in 1..Len(responses) : all[k] = responses[k]
      /\ all[Len(responses) + 1] = answer
  BY <1>1, <1>2, AppendProperties
<1> HIDE DEF all
<1>4. /\ excess \in {0, 1}
      /\ excess = 1 => Len(responses) >= 1
      /\ Len(all) - excess <= CacheCapacity
  BY <1>1, <1>3
<1>5. responses' = SubSeq(all, excess + 1, Len(all))
  BY DEF Finish, excess, all, answer
<1>6. work' = [i \in Ids |->
        IF i \in {all[k].id : k \in 1..excess} THEN 0
        ELSE IF i = request[c].id THEN work[i] + 1 ELSE work[i]]
  BY DEF Finish, excess, all, answer
<1> HIDE DEF excess
<1>7. /\ responses' \in Seq(Response)
      /\ Len(responses') = Len(responses) + 1 - excess
      /\ \A k \in 1..Len(responses') : responses'[k] = all[k + excess]
  <2>1. \A k \in (excess + 1)..Len(all) : all[k] \in Response
    BY <1>3, <1>4, ElementOfSeq
  <2>2. excess + 1 \in Int /\ Len(all) \in Int
    BY <1>1, <1>3, <1>4
  <2>3. /\ responses' \in Seq(Response)
        /\ Len(responses') = IF excess + 1 <= Len(all) THEN Len(all) - (excess + 1) + 1 ELSE 0
        /\ \A k \in 1..(Len(all) - (excess + 1) + 1) : responses'[k] = all[(excess + 1) + k - 1]
    BY <1>5, <2>1, <2>2, SubSeqProperties
  <2>4. Len(responses') = Len(responses) + 1 - excess
    BY <1>1, <1>3, <1>4, <2>3
  <2>5. \A k \in 1..Len(responses') :
          k \in 1..(Len(all) - (excess + 1) + 1) /\ (excess + 1) + k - 1 = k + excess
    BY <1>1, <1>3, <1>4, <2>4
  <2>6. QED
    BY <2>3, <2>4, <2>5
<1>8. \A k \in 1..Len(responses') :
        responses'[k] = IF k + excess <= Len(responses) THEN responses[k + excess] ELSE answer
  <2> SUFFICES ASSUME NEW k \in 1..Len(responses')
               PROVE  responses'[k] =
                 IF k + excess <= Len(responses) THEN responses[k + excess] ELSE answer
    OBVIOUS
  <2>1. k + excess \in 1..(Len(responses) + 1)
    BY <1>1, <1>4, <1>7
  <2>2. CASE k + excess <= Len(responses)
    BY <1>3, <1>7, <2>1, <2>2
  <2>3. CASE ~(k + excess <= Len(responses))
    <3>1. k + excess = Len(responses) + 1
      BY <1>1, <2>1, <2>3
    <3>2. QED
      BY <1>3, <1>7, <2>3, <3>1
  <2>4. QED
    BY <2>2, <2>3
<1>9. work' = [i \in Ids |-> IF excess = 1 /\ i = responses[1].id THEN 0
                             ELSE IF i = request[c].id THEN work[i] + 1 ELSE work[i]]
  <2>1. CASE excess = 0
    <3>1. 1..excess = {}
      BY <2>1
    <3>2. \A i \in Ids : i \notin {all[k].id : k \in 1..excess}
      BY <3>1
    <3>3. QED
      BY <1>6, <2>1, <3>2
  <2>2. CASE excess = 1
    <3>1. 1..excess = {1}
      BY <2>2
    <3>2. all[1] = responses[1]
      BY <1>1, <1>3, <1>4, <2>2
    <3>3. {all[k].id : k \in 1..excess} = {responses[1].id}
      <4>1. {all[k].id : k \in {1}} = {all[1].id}
        OBVIOUS
      <4>2. QED
        BY <3>1, <3>2, <4>1
    <3>4. QED
      BY <1>6, <2>2, <3>3
  <2>3. QED
    BY <1>4, <2>1, <2>2
<1>10. Len(responses') <= CacheCapacity
  BY <1>1, <1>3, <1>4, <1>7
<1>11. QED
  BY <1>4, <1>7, <1>8, <1>9, <1>10 DEF Remembers, answer


\* A step that leaves the answers alone and starts no generation.
LEMMA CacheKept ==
  ASSUME IInv, UNCHANGED <<responses, work, request>>,
         \A d \in Clients : pc'[d] \in {"generating", "finishing"} =>
                             pc[d] \in {"generating", "finishing"}
  PROVE  CacheInv'
<1>1. \A id : Remembered(id)' = Remembered(id)
  BY DEF Remembered
<1>2. QED
  BY <1>1 DEF IInv, CacheInv

\* The lock and the tickets follow the call through every way out of it.
LEMMA HolderStep ==
  ASSUME IInv, [Next]_vars
  PROVE  HolderInv'
<1> USE ServiceAssumption DEF IInv, HolderInv, TypeOK, Stages, Running, Inside, tickets, drainer, bucket, cache, caller, Goto
<1>1. ASSUME NEW c \in Clients, NEW r \in Request, Admit(c, r)
      PROVE  HolderInv'
  <2>1. IsFiniteSet(queued') /\ IsFiniteSet(running')
    BY <1>1, FS_EmptySet, FS_AddElement, FS_RemoveElement DEF Admit, Admissible
  <2>2. QED
    BY <1>1, <2>1 DEF Admit, Admissible
<1>2. ASSUME NEW c \in Clients, LeaveQueue(c)
      PROVE  HolderInv'
  BY <1>2 DEF LeaveQueue, Interrupted
<1>3. ASSUME NEW c \in Clients, TakeSlot(c)
      PROVE  HolderInv'
  BY <1>3 DEF TakeSlot, SlotFree
<1>4. ASSUME NEW c \in Clients, Recheck(c)
      PROVE  HolderInv'
  <2>1. CASE Interrupted(c)
    BY <1>4, <2>1 DEF Recheck
  <2>2. CASE ~Interrupted(c)
    <3>1. queued' = queued \ {c} /\ running' = running \union {c} /\ slot' = slot
          /\ pc' = [pc EXCEPT ![c] = "serving"] /\ pc[c] = "locked"
      BY <1>4, <2>2 DEF Recheck
    <3>2. IsFiniteSet(queued') /\ IsFiniteSet(running')
      BY <3>1, FS_AddElement, FS_RemoveElement
    <3>3. QED
      BY <3>1, <3>2
  <2>3. QED
    BY <2>1, <2>2
<1>5. ASSUME NEW c \in Clients, LeaveSlot(c)
      PROVE  HolderInv'
  <2>1. IsFiniteSet(queued') /\ IsFiniteSet(running')
    BY <1>5, FS_EmptySet, FS_AddElement, FS_RemoveElement DEF LeaveSlot
  <2>2. QED
    BY <1>5, <2>1 DEF LeaveSlot
<1>6. ASSUME NEW c \in Clients, Exit(c)
      PROVE  HolderInv'
  <2>1. IsFiniteSet(queued') /\ IsFiniteSet(running')
    BY <1>6, FS_EmptySet, FS_AddElement, FS_RemoveElement DEF Exit
  <2>2. QED
    BY <1>6, <2>1 DEF Exit
<1>7. ASSUME NEW c \in Clients, Conflict(c)
      PROVE  HolderInv'
  BY <1>7 DEF Conflict
<1>8. ASSUME NEW c \in Clients, StartReplay(c)
      PROVE  HolderInv'
  BY <1>8 DEF StartReplay
<1>9. ASSUME NEW c \in Clients, Replay(c)
      PROVE  HolderInv'
  <2>1. UNCHANGED tickets /\ pc[c] = "replaying"
        /\ (pc' = pc \/ pc' = [pc EXCEPT ![c] = "leaving"])
    BY <1>9 DEF Replay
  <2>2. QED
    BY <2>1
<1>10. ASSUME NEW c \in Clients, TooLarge(c)
      PROVE  HolderInv'
  BY <1>10 DEF TooLarge, Unknown
<1>11. ASSUME NEW c \in Clients, Throttled(c)
      PROVE  HolderInv'
  BY <1>11 DEF Throttled, Unknown
<1>12. ASSUME NEW c \in Clients, Consume(c)
      PROVE  HolderInv'
  BY <1>12 DEF Consume, Unknown
<1>13. ASSUME NEW c \in Clients, Emit(c)
      PROVE  HolderInv'
  <2>1. UNCHANGED tickets /\ pc[c] = "generating"
        /\ (pc' = pc \/ pc' = [pc EXCEPT ![c] = "finishing"])
    BY <1>13 DEF Emit, Working
  <2>2. QED
    BY <2>1
<1>14. ASSUME NEW c \in Clients, Stop(c)
      PROVE  HolderInv'
  BY <1>14 DEF Stop, Interrupted
<1>15. ASSUME NEW c \in Clients, Raise(c)
      PROVE  HolderInv'
  BY <1>15 DEF Raise
<1>16. ASSUME NEW c \in Clients, Finish(c)
      PROVE  HolderInv'
  BY <1>16 DEF Finish
<1>17. ASSUME NEW c \in Clients, Cancel(c)
      PROVE  HolderInv'
  BY <1>17 DEF Cancel
<1>18. ASSUME NEW c \in Clients, Expire(c)
      PROVE  HolderInv'
  BY <1>18 DEF Expire
<1>19. ASSUME Tick
      PROVE  HolderInv'
  BY <1>19 DEF Tick
<1>20. ASSUME StartDrain
      PROVE  HolderInv'
  BY <1>20 DEF StartDrain
<1>21. ASSUME EndDrain
      PROVE  HolderInv'
  BY <1>21 DEF EndDrain
<1>22. ASSUME ClearStore
      PROVE  HolderInv'
  BY <1>22 DEF ClearStore
<1>23. CASE UNCHANGED vars
  BY <1>23 DEF vars
<1>24. QED
  BY <1>1, <1>2, <1>3, <1>4, <1>5, <1>6, <1>7, <1>8, <1>9, <1>10, <1>11, <1>12, <1>13, <1>14, <1>15, <1>16, <1>17, <1>18, <1>19, <1>20, <1>21, <1>22, <1>23 DEF Next, Client

\* A call keeps its request, and a generation stops at its length.
LEMMA CallStep ==
  ASSUME IInv, [Next]_vars
  PROVE  CallInv'
<1> USE ServiceAssumption DEF IInv, CallInv, TypeOK, Stages, tickets, drainer, bucket, cache, caller, Goto
<1>1. ASSUME NEW c \in Clients, NEW r \in Request, Admit(c, r)
      PROVE  CallInv'
  BY <1>1 DEF Admit, Admissible
<1>2. ASSUME NEW c \in Clients, LeaveQueue(c)
      PROVE  CallInv'
  BY <1>2 DEF LeaveQueue, Interrupted
<1>3. ASSUME NEW c \in Clients, TakeSlot(c)
      PROVE  CallInv'
  BY <1>3 DEF TakeSlot, SlotFree
<1>4. ASSUME NEW c \in Clients, Recheck(c)
      PROVE  CallInv'
  BY <1>4 DEF Recheck
<1>5. ASSUME NEW c \in Clients, LeaveSlot(c)
      PROVE  CallInv'
  BY <1>5 DEF LeaveSlot
<1>6. ASSUME NEW c \in Clients, Exit(c)
      PROVE  CallInv'
  BY <1>6 DEF Exit
<1>7. ASSUME NEW c \in Clients, Conflict(c)
      PROVE  CallInv'
  BY <1>7 DEF Conflict
<1>8. ASSUME NEW c \in Clients, StartReplay(c)
      PROVE  CallInv'
  BY <1>8 DEF StartReplay
<1>9. ASSUME NEW c \in Clients, Replay(c)
      PROVE  CallInv'
  BY <1>9 DEF Replay
<1>10. ASSUME NEW c \in Clients, TooLarge(c)
      PROVE  CallInv'
  BY <1>10 DEF TooLarge, Unknown
<1>11. ASSUME NEW c \in Clients, Throttled(c)
      PROVE  CallInv'
  BY <1>11 DEF Throttled, Unknown
<1>12. ASSUME NEW c \in Clients, Consume(c)
      PROVE  CallInv'
  BY <1>12 DEF Consume, Unknown
<1>13. ASSUME NEW c \in Clients, Emit(c)
      PROVE  CallInv'
  <2>1. emitted[c] \in Nat /\ emitted[c] < OutputLength /\ OutputLength \in Nat
    BY <1>13 DEF Emit, Working
  <2>2. emitted' = [emitted EXCEPT ![c] = emitted[c] + 1] /\ UNCHANGED request
    BY <1>13 DEF Emit
  <2>3. CASE emitted[c] + 1 = OutputLength
    <3>1. pc' = [pc EXCEPT ![c] = "finishing"] /\ pc[c] = "generating"
      BY <1>13, <2>3 DEF Emit, Working
    <3>2. QED
      BY <2>2, <3>1
  <2>4. CASE emitted[c] + 1 # OutputLength
    <3>1. pc' = pc /\ pc[c] = "generating"
      BY <1>13, <2>4 DEF Emit, Working
    <3>2. emitted[c] + 1 < OutputLength
      BY <2>1, <2>4
    <3>3. QED
      BY <2>2, <3>1, <3>2
  <2>5. QED
    BY <2>3, <2>4
<1>14. ASSUME NEW c \in Clients, Stop(c)
      PROVE  CallInv'
  BY <1>14 DEF Stop, Interrupted
<1>15. ASSUME NEW c \in Clients, Raise(c)
      PROVE  CallInv'
  BY <1>15 DEF Raise
<1>16. ASSUME NEW c \in Clients, Finish(c)
      PROVE  CallInv'
  BY <1>16 DEF Finish
<1>17. ASSUME NEW c \in Clients, Cancel(c)
      PROVE  CallInv'
  BY <1>17 DEF Cancel
<1>18. ASSUME NEW c \in Clients, Expire(c)
      PROVE  CallInv'
  BY <1>18 DEF Expire
<1>19. ASSUME Tick
      PROVE  CallInv'
  BY <1>19 DEF Tick
<1>20. ASSUME StartDrain
      PROVE  CallInv'
  BY <1>20 DEF StartDrain
<1>21. ASSUME EndDrain
      PROVE  CallInv'
  BY <1>21 DEF EndDrain
<1>22. ASSUME ClearStore
      PROVE  CallInv'
  BY <1>22 DEF ClearStore
<1>23. CASE UNCHANGED vars
  BY <1>23 DEF vars
<1>24. QED
  BY <1>1, <1>2, <1>3, <1>4, <1>5, <1>6, <1>7, <1>8, <1>9, <1>10, <1>11, <1>12, <1>13, <1>14, <1>15, <1>16, <1>17, <1>18, <1>19, <1>20, <1>21, <1>22, <1>23 DEF Next, Client

\* Every action keeps the variables in their types.
LEMMA TypeStep ==
  ASSUME IInv, [Next]_vars
  PROVE  TypeOK'
<1> USE ServiceAssumption DEF IInv, TypeOK, Stages, tickets, drainer, bucket, cache, caller, Goto
<1>1. ASSUME NEW c \in Clients, NEW r \in Request, Admit(c, r)
      PROVE  TypeOK'
  BY <1>1 DEF Admit, Admissible
<1>2. ASSUME NEW c \in Clients, LeaveQueue(c)
      PROVE  TypeOK'
  BY <1>2 DEF LeaveQueue, Interrupted
<1>3. ASSUME NEW c \in Clients, TakeSlot(c)
      PROVE  TypeOK'
  BY <1>3 DEF TakeSlot, SlotFree
<1>4. ASSUME NEW c \in Clients, Recheck(c)
      PROVE  TypeOK'
  BY <1>4 DEF Recheck, HolderInv
<1>5. ASSUME NEW c \in Clients, LeaveSlot(c)
      PROVE  TypeOK'
  BY <1>5 DEF LeaveSlot
<1>6. ASSUME NEW c \in Clients, Exit(c)
      PROVE  TypeOK'
  BY <1>6 DEF Exit
<1>7. ASSUME NEW c \in Clients, Conflict(c)
      PROVE  TypeOK'
  BY <1>7 DEF Conflict
<1>8. ASSUME NEW c \in Clients, StartReplay(c)
      PROVE  TypeOK'
  <2>1. responses' \in Seq(Response) /\ Len(responses') <= CacheCapacity
    BY <1>8, ReplayMoves
  <2>2. QED
    BY <1>8, <2>1 DEF StartReplay
<1>9. ASSUME NEW c \in Clients, Replay(c)
      PROVE  TypeOK'
  <2>1. emitted' \in [Clients -> 0..OutputLength]
    <3>1. \/ emitted' = emitted
          \/ /\ emitted' = [emitted EXCEPT ![c] = emitted[c] + 1]
             /\ \E i \in Remembered(request[c].id) : emitted[c] # responses[i].tokens
      BY <1>9 DEF Replay
    <3>2. \A i \in Remembered(request[c].id) : responses[i].tokens = OutputLength
      BY DEF Remembered, CacheInv
    <3>3. emitted' = emitted \/ (emitted[c] # OutputLength /\ emitted' = [emitted EXCEPT ![c] = emitted[c] + 1])
      BY <3>1, <3>2
    <3>4. emitted[c] # OutputLength => emitted[c] + 1 \in 0..OutputLength
      OBVIOUS
    <3>5. QED
      BY <3>3, <3>4
  <2>2. pc' \in [Clients -> Stages]
    <3>1. pc' = pc \/ pc' = [pc EXCEPT ![c] = "leaving"]
      BY <1>9 DEF Replay
    <3>2. QED
      BY <3>1
  <2>3. QED
    BY <1>9, <2>1, <2>2 DEF Replay
<1>10. ASSUME NEW c \in Clients, TooLarge(c)
      PROVE  TypeOK'
  BY <1>10 DEF TooLarge, Unknown
<1>11. ASSUME NEW c \in Clients, Throttled(c)
      PROVE  TypeOK'
  <2>1. tokens' \in 0..BucketCapacity
    BY <1>11, RefillBound DEF Throttled
  <2>2. QED
    BY <1>11, <2>1 DEF Throttled
<1>12. ASSUME NEW c \in Clients, Consume(c)
      PROVE  TypeOK'
  <2> DEFINE cost == Cost[request[c].input]
  <2>1. request[c].input \in Inputs
    BY <1>12 DEF Consume, Unknown, CallInv, Request
  <2>2. cost \in Nat
    BY <2>1
  <2>3. cost <= Refilled /\ tokens' = Refilled - cost /\ spent' = spent + cost
    BY <1>12 DEF Consume
  <2> HIDE DEF cost
  <2>4. tokens' \in 0..BucketCapacity /\ spent' \in Nat
    BY <2>2, <2>3, RefillBound
  <2>5. QED
    BY <1>12, <2>4 DEF Consume
<1>13. ASSUME NEW c \in Clients, Emit(c)
      PROVE  TypeOK'
  <2>1. emitted' \in [Clients -> 0..OutputLength]
    BY <1>13 DEF Emit, Working, CallInv
  <2>2. pc' \in [Clients -> Stages]
    BY <1>13 DEF Emit
  <2>3. stored' \in BOOLEAN
    BY <1>13 DEF Emit
  <2>4. QED
    BY <1>13, <2>1, <2>2, <2>3 DEF Emit
<1>14. ASSUME NEW c \in Clients, Stop(c)
      PROVE  TypeOK'
  BY <1>14 DEF Stop, Interrupted
<1>15. ASSUME NEW c \in Clients, Raise(c)
      PROVE  TypeOK'
  <2>1. stored' \in BOOLEAN
    BY <1>15 DEF Raise
  <2>2. QED
    BY <1>15, <2>1 DEF Raise
<1>16. ASSUME NEW c \in Clients, Finish(c)
      PROVE  TypeOK'
  <2>1. /\ responses' \in Seq(Response) /\ Len(responses') <= CacheCapacity
        /\ work' \in [Ids -> Nat]
    <3>1. CASE Whole(c)
      <4>1. PICK e \in {0, 1} : Remembers(c, e)
        BY <1>16, <3>1, FinishWhole
      <4>2. QED
        BY <4>1 DEF Remembers
    <3>2. CASE ~Whole(c)
      BY <1>16, <3>2, FinishPartial
    <3>3. QED
      BY <3>1, <3>2
  <2>2. pc' \in [Clients -> Stages]
    BY <1>16 DEF Finish
  <2>3. UNCHANGED <<tickets, drainer, bucket, now, stored, caller, emitted>>
    BY <1>16 DEF Finish
  <2>4. QED
    BY <2>1, <2>2, <2>3
<1>17. ASSUME NEW c \in Clients, Cancel(c)
      PROVE  TypeOK'
  BY <1>17 DEF Cancel
<1>18. ASSUME NEW c \in Clients, Expire(c)
      PROVE  TypeOK'
  BY <1>18 DEF Expire
<1>19. ASSUME Tick
      PROVE  TypeOK'
  BY <1>19 DEF Tick
<1>20. ASSUME StartDrain
      PROVE  TypeOK'
  BY <1>20 DEF StartDrain
<1>21. ASSUME EndDrain
      PROVE  TypeOK'
  <2>1. drained' \in BOOLEAN
    BY <1>21 DEF EndDrain
  <2>2. QED
    BY <1>21, <2>1 DEF EndDrain
<1>22. ASSUME ClearStore
      PROVE  TypeOK'
  BY <1>22 DEF ClearStore
<1>23. CASE UNCHANGED vars
  BY <1>23 DEF vars
<1>24. QED
  BY <1>1, <1>2, <1>3, <1>4, <1>5, <1>6, <1>7, <1>8, <1>9, <1>10, <1>11, <1>12, <1>13, <1>14, <1>15, <1>16, <1>17, <1>18, <1>19, <1>20, <1>21, <1>22, <1>23 DEF Next, Client

\* A whole answer is new to the cache, and a replay only moves one.
LEMMA CacheStep ==
  ASSUME IInv, [Next]_vars
  PROVE  CacheInv'
<1> USE ServiceAssumption DEF IInv, CacheInv, TypeOK, Stages, tickets, drainer, bucket, cache, caller, Goto
<1>1. ASSUME NEW c \in Clients, NEW r \in Request, Admit(c, r)
      PROVE  CacheInv'
  BY <1>1 DEF Admit, Admissible, Remembered
<1>2. ASSUME NEW c \in Clients, LeaveQueue(c)
      PROVE  CacheInv'
  BY <1>2, CacheKept DEF LeaveQueue, Interrupted
<1>3. ASSUME NEW c \in Clients, TakeSlot(c)
      PROVE  CacheInv'
  BY <1>3, CacheKept DEF TakeSlot, Interrupted
<1>4. ASSUME NEW c \in Clients, Recheck(c)
      PROVE  CacheInv'
  BY <1>4, CacheKept DEF Recheck, Interrupted
<1>5. ASSUME NEW c \in Clients, LeaveSlot(c)
      PROVE  CacheInv'
  BY <1>5 DEF LeaveSlot, Remembered
<1>6. ASSUME NEW c \in Clients, Exit(c)
      PROVE  CacheInv'
  BY <1>6 DEF Exit, Remembered
<1>7. ASSUME NEW c \in Clients, Conflict(c)
      PROVE  CacheInv'
  BY <1>7 DEF Conflict, Remembered
<1>8. ASSUME NEW c \in Clients, StartReplay(c)
      PROVE  CacheInv'
  <2>1. PICK i \in DOMAIN responses :
          /\ DOMAIN responses' = DOMAIN responses
          /\ \A k \in DOMAIN responses :
               responses'[k] =
                 responses[IF k < i THEN k ELSE IF k < Len(responses) THEN k + 1 ELSE i]
    BY <1>8, ReplayMoves
  <2> DEFINE from(k) == IF k < i THEN k ELSE IF k < Len(responses) THEN k + 1 ELSE i
             to(k) == IF k < i THEN k ELSE IF k = i THEN Len(responses) ELSE k - 1
  <2>2. DOMAIN responses = 1..Len(responses) /\ Len(responses) \in Nat
    BY LenProperties
  <2>3. \A k \in DOMAIN responses : from(k) \in DOMAIN responses /\ to(k) \in DOMAIN responses
    BY <2>2
  <2>4. \A k \in DOMAIN responses : from(to(k)) = k
    BY <2>2
  <2>5. \A j, k \in DOMAIN responses : from(j) = from(k) => j = k
    BY <2>2
  <2>6. \A k \in DOMAIN responses : responses'[k] = responses[from(k)]
    BY <2>1
  <2> HIDE DEF from, to
  <2>7. \A id \in Ids : Remembered(id)' = {} <=> Remembered(id) = {}
    <3> SUFFICES ASSUME NEW id \in Ids
                 PROVE  Remembered(id)' = {} <=> Remembered(id) = {}
      OBVIOUS
    <3>1. ASSUME NEW k \in Remembered(id)' PROVE Remembered(id) # {}
      BY <2>1, <2>3, <2>6, <3>1 DEF Remembered
    <3>2. ASSUME NEW k \in Remembered(id) PROVE Remembered(id)' # {}
      <4>1. k \in DOMAIN responses /\ responses[k].id = id
        BY <3>2 DEF Remembered
      <4>2. to(k) \in DOMAIN responses' /\ responses'[to(k)] = responses[k]
        BY <2>1, <2>3, <2>4, <2>6, <4>1
      <4>3. QED
        BY <4>1, <4>2 DEF Remembered
    <3>3. QED
      BY <3>1, <3>2
  <2>8. UNCHANGED <<work, request>> /\ pc' = [pc EXCEPT ![c] = "replaying"]
    BY <1>8 DEF StartReplay
  <2>9. \A d \in Clients : pc'[d] \in {"generating", "finishing"} =>
          pc[d] \in {"generating", "finishing"} /\ request[d].id \in Ids
    BY <2>8 DEF CallInv, Request
  <2>10. \A d \in Clients : pc'[d] \in {"generating", "finishing"} =>
           Remembered(request[d].id)' = {}
    BY <2>7, <2>8, <2>9
  <2>11. \A k \in DOMAIN responses' : responses'[k].tokens = OutputLength
    BY <2>1, <2>3, <2>6
  <2>12. \A j, k \in DOMAIN responses' : responses'[j].id = responses'[k].id => j = k
    BY <2>1, <2>3, <2>5, <2>6
  <2>13. \A id \in Ids : work'[id] = IF Remembered(id)' = {} THEN 0 ELSE 1
    BY <2>7, <2>8
  <2>14. QED
    BY <2>8, <2>10, <2>11, <2>12, <2>13 DEF Remembered
<1>9. ASSUME NEW c \in Clients, Replay(c)
      PROVE  CacheInv'
  <2>1. UNCHANGED <<responses, work, request>> /\ pc[c] = "replaying"
        /\ (pc' = pc \/ pc' = [pc EXCEPT ![c] = "leaving"])
    BY <1>9 DEF Replay
  <2>2. QED
    BY <2>1 DEF Remembered
<1>10. ASSUME NEW c \in Clients, TooLarge(c)
      PROVE  CacheInv'
  BY <1>10 DEF TooLarge, Unknown, Remembered
<1>11. ASSUME NEW c \in Clients, Throttled(c)
      PROVE  CacheInv'
  BY <1>11 DEF Throttled, Unknown, Remembered
<1>12. ASSUME NEW c \in Clients, Consume(c)
      PROVE  CacheInv'
  <2>1. UNCHANGED <<responses, work, request>> /\ pc' = [pc EXCEPT ![c] = "generating"]
        /\ Remembered(request[c].id) = {}
    BY <1>12 DEF Consume, Unknown
  <2>2. QED
    BY <2>1 DEF Remembered
<1>13. ASSUME NEW c \in Clients, Emit(c)
      PROVE  CacheInv'
  <2>1. UNCHANGED <<responses, work, request>> /\ pc[c] = "generating"
        /\ (pc' = pc \/ pc' = [pc EXCEPT ![c] = "finishing"])
    BY <1>13 DEF Emit, Working
  <2>2. QED
    BY <2>1 DEF Remembered
<1>14. ASSUME NEW c \in Clients, Stop(c)
      PROVE  CacheInv'
  BY <1>14, CacheKept DEF Stop, Interrupted
<1>15. ASSUME NEW c \in Clients, Raise(c)
      PROVE  CacheInv'
  BY <1>15 DEF Raise, Remembered
<1>16. ASSUME NEW c \in Clients, Finish(c)
      PROVE  CacheInv'
  <2>1. pc[c] = "finishing" /\ pc' = [pc EXCEPT ![c] = "leaving"] /\ UNCHANGED request
    BY <1>16 DEF Finish
  <2>2. \A d \in Clients : pc'[d] \notin {"generating", "finishing"}
    BY <2>1 DEF HolderInv, Inside, Running
  <2>3. CASE ~Whole(c)
    BY <1>16, <2>1, <2>2, <2>3, FinishPartial, CacheKept
  <2>4. CASE Whole(c)
    <3>1. PICK e \in {0, 1} : Remembers(c, e)
      BY <1>16, <2>4, FinishWhole
    <3> DEFINE n == Len(responses)
               id == request[c].id
               answer == [id |-> id, input |-> request[c].input, tokens |-> emitted[c]]
    <3>2. n \in Nat /\ DOMAIN responses = 1..n
      BY LenProperties
    <3>3. DOMAIN responses' = 1..(n + 1 - e) /\ (e = 1 => n >= 1)
      BY <3>1, <3>2, LenProperties DEF Remembers
    <3>4. \A k \in 1..(n + 1 - e) :
            responses'[k] = IF k + e <= n THEN responses[k + e] ELSE answer
      BY <3>1, <3>3 DEF Remembers
    <3>5. work' = [i \in Ids |-> IF e = 1 /\ i = responses[1].id THEN 0
                                 ELSE IF i = id THEN work[i] + 1 ELSE work[i]]
      BY <3>1 DEF Remembers
    <3>6. Remembered(id) = {} /\ id \in Ids
      BY <2>1 DEF CacheInv, CallInv, Request
    <3>7. \A k \in 1..n : responses[k].id # id
      BY <3>2, <3>6 DEF Remembered
    <3>8. answer.tokens = OutputLength /\ answer.id = id
      BY <2>4 DEF Whole
    <3> HIDE DEF n, answer
    <3>9. \A k \in 1..(n + 1 - e) :
            \/ k + e \in 1..n /\ responses'[k] = responses[k + e]
            \/ k = n + 1 - e /\ responses'[k] = answer
      BY <3>2, <3>4
    <3>10. \A k \in DOMAIN responses' : responses'[k].tokens = OutputLength
      BY <3>2, <3>3, <3>8, <3>9 DEF CacheInv
    <3>11. \A j, k \in DOMAIN responses' : responses'[j].id = responses'[k].id => j = k
      <4> SUFFICES ASSUME NEW j \in 1..(n + 1 - e), NEW k \in 1..(n + 1 - e),
                          responses'[j].id = responses'[k].id
                   PROVE  j = k
        BY <3>3
      <4>1. CASE j + e \in 1..n /\ responses'[j] = responses[j + e]
                 /\ k + e \in 1..n /\ responses'[k] = responses[k + e]
        <5>1. j + e = k + e
          BY <3>2, <4>1 DEF CacheInv
        <5>2. QED
          BY <3>2, <5>1
      <4>2. QED
        BY <3>7, <3>8, <3>9, <4>1
    <3>12. ASSUME NEW i \in Ids
           PROVE  work'[i] = IF Remembered(i)' = {} THEN 0 ELSE 1
      <4>1. CASE i = id
        <5>1. n + 1 - e \in DOMAIN responses' /\ responses'[n + 1 - e] = answer
          BY <3>2, <3>3, <3>4
        <5>2. Remembered(i)' # {}
          BY <3>8, <4>1, <5>1 DEF Remembered
        <5>3. e = 1 => responses[1].id # id
          BY <3>2, <3>3, <3>7
        <5>4. work[id] = 0
          BY <3>6 DEF CacheInv
        <5>5. QED
          BY <3>5, <4>1, <5>2, <5>3, <5>4
      <4>2. CASE i # id /\ e = 1 /\ i = responses[1].id
        <5>1. ASSUME NEW k \in DOMAIN responses', responses'[k].id = i PROVE FALSE
          <6>1. k + e \in 1..n /\ responses[k + e].id = responses[1].id
            BY <3>3, <3>8, <3>9, <4>2, <5>1
          <6>2. k + e \in DOMAIN responses /\ 1 \in DOMAIN responses
            BY <3>2, <3>3, <4>2, <6>1
          <6>3. k + e = 1
            BY <6>1, <6>2 DEF CacheInv
          <6>4. QED
            BY <3>2, <3>3, <4>2, <6>3
        <5>2. Remembered(i)' = {}
          BY <5>1 DEF Remembered
        <5>3. QED
          BY <3>5, <4>2, <5>2
      <4>3. CASE i # id /\ ~(e = 1 /\ i = responses[1].id)
        <5>1. ASSUME NEW k \in DOMAIN responses', responses'[k].id = i
              PROVE  Remembered(i) # {}
          <6>1. k + e \in DOMAIN responses /\ responses[k + e].id = i
            BY <3>2, <3>3, <3>8, <3>9, <4>3, <5>1
          <6>2. QED
            BY <6>1 DEF Remembered
        <5>2. ASSUME NEW k \in DOMAIN responses, responses[k].id = i
              PROVE  Remembered(i)' # {}
          <6>1. k - e \in 1..(n + 1 - e) /\ (k - e) + e = k /\ k <= n
            BY <3>2, <3>3, <4>3, <5>2
          <6>2. responses'[k - e] = responses[k]
            BY <3>4, <6>1
          <6>3. QED
            BY <3>3, <5>2, <6>1, <6>2 DEF Remembered
        <5>3. Remembered(i)' = {} <=> Remembered(i) = {}
          BY <5>1, <5>2 DEF Remembered
        <5>4. work'[i] = work[i]
          BY <3>5, <4>3
        <5>5. QED
          BY <5>3, <5>4 DEF CacheInv
      <4>4. QED
        BY <4>1, <4>2, <4>3
    <3>13. QED
      BY <2>2, <3>10, <3>11, <3>12 DEF CacheInv
  <2>5. QED
    BY <2>3, <2>4
<1>17. ASSUME NEW c \in Clients, Cancel(c)
      PROVE  CacheInv'
  BY <1>17 DEF Cancel, Remembered
<1>18. ASSUME NEW c \in Clients, Expire(c)
      PROVE  CacheInv'
  BY <1>18, CacheKept DEF Expire, Interrupted
<1>19. ASSUME Tick
      PROVE  CacheInv'
  BY <1>19 DEF Tick, Remembered
<1>20. ASSUME StartDrain
      PROVE  CacheInv'
  BY <1>20 DEF StartDrain, Remembered
<1>21. ASSUME EndDrain
      PROVE  CacheInv'
  BY <1>21 DEF EndDrain, Remembered
<1>22. ASSUME ClearStore
      PROVE  CacheInv'
  BY <1>22 DEF ClearStore, Remembered
<1>23. CASE UNCHANGED vars
  BY <1>23 DEF vars, Remembered
<1>24. QED
  BY <1>1, <1>2, <1>3, <1>4, <1>5, <1>6, <1>7, <1>8, <1>9, <1>10, <1>11, <1>12, <1>13, <1>14, <1>15, <1>16, <1>17, <1>18, <1>19, <1>20, <1>21, <1>22, <1>23 DEF Next, Client

\* Nothing is admitted after the drain began, and the last one out leaves no
\* prefill behind.
LEMMA DrainStep ==
  ASSUME IInv, [Next]_vars
  PROVE  DrainInv'
<1> USE ServiceAssumption DEF IInv, DrainInv, HolderInv, Running, Inside, TypeOK, Stages, tickets, drainer, bucket, cache, caller, Goto
<1>1. ASSUME NEW c \in Clients, NEW r \in Request, Admit(c, r)
      PROVE  DrainInv'
  BY <1>1 DEF Admit, Admissible
<1>2. ASSUME NEW c \in Clients, LeaveQueue(c)
      PROVE  DrainInv'
  BY <1>2 DEF LeaveQueue, Interrupted
<1>3. ASSUME NEW c \in Clients, TakeSlot(c)
      PROVE  DrainInv'
  BY <1>3 DEF TakeSlot, SlotFree
<1>4. ASSUME NEW c \in Clients, Recheck(c)
      PROVE  DrainInv'
  <2>1. c \notin running /\ slot = c
    BY <1>4 DEF Recheck
  <2>2. CASE Interrupted(c)
    BY <1>4, <2>2 DEF Recheck
  <2>3. CASE ~Interrupted(c)
    <3>1. c \in queued
      BY <1>4 DEF Recheck
    <3>2. QED
      BY <1>4, <2>3, <3>1 DEF Recheck
  <2>4. QED
    BY <2>2, <2>3
<1>5. ASSUME NEW c \in Clients, LeaveSlot(c)
      PROVE  DrainInv'
  BY <1>5 DEF LeaveSlot
<1>6. ASSUME NEW c \in Clients, Exit(c)
      PROVE  DrainInv'
  BY <1>6 DEF Exit
<1>7. ASSUME NEW c \in Clients, Conflict(c)
      PROVE  DrainInv'
  BY <1>7 DEF Conflict
<1>8. ASSUME NEW c \in Clients, StartReplay(c)
      PROVE  DrainInv'
  BY <1>8 DEF StartReplay
<1>9. ASSUME NEW c \in Clients, Replay(c)
      PROVE  DrainInv'
  BY <1>9 DEF Replay
<1>10. ASSUME NEW c \in Clients, TooLarge(c)
      PROVE  DrainInv'
  BY <1>10 DEF TooLarge, Unknown
<1>11. ASSUME NEW c \in Clients, Throttled(c)
      PROVE  DrainInv'
  BY <1>11 DEF Throttled, Unknown
<1>12. ASSUME NEW c \in Clients, Consume(c)
      PROVE  DrainInv'
  BY <1>12 DEF Consume, Unknown
<1>13. ASSUME NEW c \in Clients, Emit(c)
      PROVE  DrainInv'
  BY <1>13 DEF Emit, Working, Interrupted
<1>14. ASSUME NEW c \in Clients, Stop(c)
      PROVE  DrainInv'
  BY <1>14 DEF Stop, Interrupted
<1>15. ASSUME NEW c \in Clients, Raise(c)
      PROVE  DrainInv'
  BY <1>15 DEF Raise
<1>16. ASSUME NEW c \in Clients, Finish(c)
      PROVE  DrainInv'
  BY <1>16 DEF Finish
<1>17. ASSUME NEW c \in Clients, Cancel(c)
      PROVE  DrainInv'
  BY <1>17 DEF Cancel
<1>18. ASSUME NEW c \in Clients, Expire(c)
      PROVE  DrainInv'
  BY <1>18 DEF Expire
<1>19. ASSUME Tick
      PROVE  DrainInv'
  BY <1>19 DEF Tick
<1>20. ASSUME StartDrain
      PROVE  DrainInv'
  <2>1. drain = "no" /\ drain' = "waiting" /\ draining' = TRUE
    BY <1>20 DEF StartDrain
  <2>2. ~drained /\ drained' = drained
    BY <1>20, <2>1 DEF StartDrain
  <2>3. QED
    BY <2>1, <2>2
<1>21. ASSUME EndDrain
      PROVE  DrainInv'
  <2>1. drain = "waiting" /\ drain' = "clearing" /\ draining' = draining
    BY <1>21 DEF EndDrain
  <2>2. UNCHANGED <<queued, running>>
    BY <1>21 DEF EndDrain
  <2>3. drained' => queued = {} /\ running = {}
    <3>1. drained' => ActiveRequests = 0
      BY <1>21 DEF EndDrain
    <3>2. Cardinality(queued) \in Nat /\ Cardinality(running) \in Nat
      BY FS_CardinalityType
    <3>3. ActiveRequests = 0 => Cardinality(queued) = 0 /\ Cardinality(running) = 0
      BY <3>2 DEF ActiveRequests
    <3>4. QED
      BY <3>1, <3>3, FS_EmptySet
  <2>4. QED
    BY <2>1, <2>2, <2>3
<1>22. ASSUME ClearStore
      PROVE  DrainInv'
  BY <1>22 DEF ClearStore
<1>23. CASE UNCHANGED vars
  BY <1>23 DEF vars
<1>24. QED
  BY <1>1, <1>2, <1>3, <1>4, <1>5, <1>6, <1>7, <1>8, <1>9, <1>10, <1>11, <1>12, <1>13, <1>14, <1>15, <1>16, <1>17, <1>18, <1>19, <1>20, <1>21, <1>22, <1>23 DEF Next, Client

-------------------------------------------------------------------------------
\* An idle service satisfies the inductive invariant.
LEMMA InitInv == Init => IInv
<1> SUFFICES ASSUME Init PROVE IInv
  OBVIOUS
<1> USE ServiceAssumption DEF Init
<1>1. TypeOK
  <2>1. responses \in Seq(Response) /\ Len(responses) = 0
    OBVIOUS
  <2>2. Len(responses) <= CacheCapacity
    BY <2>1
  <2>3. tokens \in 0..BucketCapacity /\ updated \in 0..MaxTime /\ now \in 0..MaxTime
    OBVIOUS
  <2>4. emitted \in [Clients -> 0..OutputLength] /\ work \in [Ids -> Nat] /\ spent \in Nat
    OBVIOUS
  <2>5. /\ pc \in [Clients -> Stages]
        /\ request \in [Clients -> Request \union {None}]
        /\ cancelled \in [Clients -> BOOLEAN] /\ expired \in [Clients -> BOOLEAN]
    BY DEF Stages
  <2>6. QED
    BY <2>1, <2>2, <2>3, <2>4, <2>5 DEF TypeOK
<1>2. HolderInv
  BY FS_EmptySet DEF HolderInv, Inside, Running
<1>3. CallInv /\ DrainInv
  BY DEF CallInv, DrainInv
<1>4. CacheInv
  <2>1. DOMAIN responses = {}
    OBVIOUS
  <2>2. QED
    BY <2>1 DEF CacheInv, Remembered
<1>5. BucketInv
  BY DEF BucketInv
<1>6. QED
  BY <1>1, <1>2, <1>3, <1>4, <1>5 DEF IInv

\* Every reachable state satisfies the inductive invariant.
THEOREM Invariance == Spec => []IInv
<1>1. IInv /\ [Next]_vars => IInv'
  <2> SUFFICES ASSUME IInv, [Next]_vars PROVE IInv'
    OBVIOUS
  <2>1. TypeOK' /\ HolderInv' /\ CallInv'
    BY TypeStep, HolderStep, CallStep
  <2>2. CacheInv' /\ BucketInv' /\ DrainInv'
    BY CacheStep, BucketStep, DrainStep
  <2>3. QED
    BY <2>1, <2>2 DEF IInv
<1>2. QED
  BY InitInv, <1>1, PTL DEF Spec

-------------------------------------------------------------------------------
\* The variables keep their types: the bucket is never overdrawn or overfull,
\* and no answer is longer than it may be.
THEOREM TypeCorrect == Spec => []TypeOK
<1>1. IInv => TypeOK
  BY DEF IInv
<1>2. QED
  BY <1>1, Invariance, PTL

\* TicketsMatchCalls: the inference lock and both kinds of tickets are held by
\* exactly the calls that are there, and given back by every way out of one.
THEOREM TicketsReturn == Spec => []TicketsMatchCalls
<1>1. IInv => TicketsMatchCalls
  BY DEF IInv, TypeOK, HolderInv, TicketsMatchCalls, HoldsLock, Inside, Running
<1>2. QED
  BY <1>1, Invariance, PTL

\* A remembered answer was generated once, however often its id is retried.
THEOREM RetriesReplay == Spec => []GeneratedOnce
<1>1. IInv => GeneratedOnce
  <2> SUFFICES ASSUME IInv, NEW i \in Ids
               PROVE  work[i] = Cardinality(Remembered(i)) /\ work[i] <= 1
    BY DEF GeneratedOnce
  <2> USE DEF IInv, CacheInv
  <2>1. CASE Remembered(i) = {}
    BY <2>1, FS_EmptySet
  <2>2. CASE Remembered(i) # {}
    <3>1. PICK k \in Remembered(i) : TRUE
      BY <2>2
    <3>2. Remembered(i) = {k}
      BY <3>1 DEF Remembered
    <3>3. Cardinality(Remembered(i)) = 1
      BY <3>2, FS_Singleton
    <3>4. QED
      BY <2>2, <3>3
  <2>3. QED
    BY <2>1, <2>2
<1>2. QED
  BY <1>1, Invariance, PTL

\* No partial answer is ever remembered.
THEOREM OnlyWholeAnswers == Spec => []AnswersAreWhole
<1>1. IInv => AnswersAreWhole
  BY DEF IInv, CacheInv, AnswersAreWhole
<1>2. QED
  BY <1>1, Invariance, PTL

\* The burst and the refill rate bound what is charged in any time.
THEOREM ChargesAreBounded == Spec => []RateBounded
<1>1. IInv => RateBounded
  <2> SUFFICES ASSUME IInv PROVE RateBounded
    OBVIOUS
  <2>1. /\ spent + Refilled <= BucketCapacity + Rate * now
        /\ Refilled \in 0..BucketCapacity
    BY RefillBound
  <2>2. spent \in Nat /\ BucketCapacity \in Nat /\ Rate * now \in Nat
    BY ServiceAssumption DEF IInv, TypeOK
  <2>3. QED
    BY <2>1, <2>2 DEF RateBounded
<1>2. QED
  BY <1>1, Invariance, PTL

\* A drain that saw the service empty leaves it empty, and the prefix store
\* with it; one that did not leaves the store to the last request.
THEOREM DrainsAreFinal == Spec => []DrainIsFinal
<1>1. IInv => DrainIsFinal
  <2> SUFFICES ASSUME IInv, drain = "done" PROVE DrainIsFinal
    BY DEF DrainIsFinal
  <2> USE DEF IInv, DrainInv
  <2>1. drained => ActiveRequests = 0 /\ ~stored
    BY FS_EmptySet DEF ActiveRequests
  <2>2. (\A c \in Clients : pc[c] = "idle") => ~stored
    OBVIOUS
  <2>3. QED
    BY <2>1, <2>2 DEF DrainIsFinal
<1>2. QED
  BY <1>1, Invariance, PTL
===============================================================================
