---------------------------- MODULE MoeDdpRunProofs ----------------------------
(***************************************************************************)
(* Types, agreement of the sessions that stay usable, and the checkpoint   *)
(* of a successful launch, for any number of ranks, updates, launches,     *)
(* calls and faults.                                                       *)
(*                                                                         *)
(* Collectives are numbered, and a rank is where the number of those it    *)
(* has left says (Passed).  Two ranks with the same number stand before or *)
(* inside the same collective with the same replica to go back to          *)
(* (Alike); one that is a number ahead stands where the other will stand   *)
(* once it has left its collective too, whatever the verdict (Follows);    *)
(* and none is two ahead.  A rank whose transport broke has no place in    *)
(* that order any more, but keeps the others from updating: Cuts says what *)
(* they can still do.                                                      *)
(*                                                                         *)
(* A step of a rank enters a collective, leaves it, moves between calls,   *)
(* breaks its transport or ends it (Enters, Leaves, Turns, Breaks, Ends);  *)
(* what each of the five preserves is shown once.                          *)
(***************************************************************************)
EXTENDS MoeDdpRun, TLAPS

\* The replicas of two ranks can be compared.  A launch of one rank is allowed, and has
\* nobody to notice that its numbers are not the schedule's.
Replicated == \E q, r \in Ranks : q # r

\* A state that no rank has to itself: what is claimed of it once there are ranks to compare.
Sound(x) == Replicated => x.skew = {}

Base == IF checkpoint = None THEN Fresh ELSE checkpoint
Collectives == Loading \union StepCall \union Saving
Scheduled == {"idle"} \union StepCall \union Saving

Working(r) == pc[r] # "failed" /\ r \notin cut
Good(r) == entered[r] \notin vetoed

\* Collectives a rank has left, and the one it stands before or inside of: a session
\* between two calls will enter the one of its next call, or of the save.
Passed(r) == IF inside[r] THEN entered[r] - 1 ELSE entered[r]
Seat(p, step, end) == IF p = "idle" THEN IF step < end THEN "admission" ELSE "save" ELSE p
Place(r) == Seat(pc[r], replica[r].step, End(r))

\* The replica that counts until the update is confirmed.
Trial(r) == pc[r] = "confirm" \/ (pc[r] = "update" /\ inside[r])
Settled(r) == IF Trial(r) THEN saved[r] ELSE replica[r]

\* Where a rank inside a collective will be once it has left it.
NextSettled(r) == IF pc[r] = "confirm" /\ Good(r) THEN replica[r] ELSE Settled(r)
NextBegun(r) == IF pc[r] = "schedule" THEN replica[r].step ELSE begun[r]
NextPlace(r) ==
  IF Good(r) THEN Seat(After[pc[r]], NextSettled(r).step, NextBegun(r) + length)
  ELSE "admission"

-------------------------------------------------------------------------------
(* The invariant                                                              *)

\* One rank: what its phase says of its replicas, its launch and its call.
RankInv(r) ==
  pc[r] # "failed" =>
  /\ inside[r] => pc[r] \in Collectives /\ entered[r] >= 1
  /\ armed[r] => pc[r] \in {"objective", "backward"} \/ (pc[r] = "forward" /\ inside[r])
  /\ pc[r] \in {"load", "restore"} => checkpoint # None
  /\ pc[r] = "restore" /\ inside[r] /\ Good(r) => replica[r] = checkpoint
  /\ pc[r] = "schedule" => replica[r] = Base
  /\ pc[r] = "schedule" /\ inside[r] /\ Good(r) => replica[r].step + length =< MaxStep
  /\ pc[r] \in Scheduled => End(r) =< MaxStep /\ Sound(Settled(r))
  /\ pc[r] \in StepCall => Settled(r).step < End(r) /\ calls[r] < MaxCalls
  /\ pc[r] = "idle" => replica[r].step =< End(r)
  /\ pc[r] \in Saving \union {"exited"} => replica[r].step = End(r)
  /\ Trial(r) => replica[r].step = saved[r].step + 1
  /\ \/ pc[r] \in {"objective", "backward", "gradients"}
     \/ pc[r] = "forward" /\ inside[r]
     \/ pc[r] = "update" /\ ~inside[r]
     => saved[r] = replica[r]
  /\ r \in cut => ~inside[r] /\ pc[r] \in {"idle", "admission"} /\ replica[r].step < End(r)

\* Own errors are all there are, and only until an update is confirmed.
Skews ==
  /\ checkpoint # None => Sound(checkpoint)
  /\ \A r \in Ranks : Sound(saved[r]) /\ replica[r].skew \subseteq {r}

\* A confirmed update is sound: two ranks do not err alike.
ConfirmInv(r) ==
  pc[r] = "confirm" /\ inside[r] /\ Good(r) /\ Complete(r) => Sound(replica[r])

\* Nobody enters a collective before everybody has entered the one before it.
Entry ==
  \A r, q \in Ranks :
    /\ entered[r] =< entered[q] + 1
    /\ Working(r) /\ ~inside[r] => entered[r] =< entered[q]

Alike(r, s) ==
  /\ Place(r) = Place(s)
  /\ Place(r) \notin Loading => begun[r] = begun[s] /\ Settled(r) = Settled(s)
Follows(r, s) ==
  /\ inside[s] /\ Complete(s)
  /\ Good(s) \/ pc[s] \in BeforeForward \union Retryable
  /\ Place(r) = NextPlace(s)
  /\ Place(r) \notin Loading => begun[r] = NextBegun(s) /\ Settled(r) = NextSettled(s)
PairInv(r, s) ==
  Working(r) /\ Working(s) =>
    /\ Passed(r) = Passed(s) => Alike(r, s)
    /\ Passed(r) = Passed(s) + 1 => Follows(r, s)
    /\ Passed(r) =< Passed(s) + 1

\* Beside r, which is cut off, s goes no further than the next forward pass; or it has
\* still to leave the last collective r took part in.
Front(r, s) ==
  /\ pc[s] \in {"idle", "admission", "consensus", "forward"}
  /\ replica[s] = replica[r] /\ begun[s] = begun[r]
  /\ pc[s] = "forward" => Passed(s) = entered[r]
  /\ pc[s] = "consensus" => Passed(s) >= entered[r] - 1 \/ (inside[s] /\ ~Good(s))
Behind(r, s) ==
  /\ inside[s] /\ Complete(s)
  /\ \/ Good(s) /\ pc[s] \in {"schedule", "confirm"} /\ replica[s] = replica[r]
     \/ ~Good(s) /\ pc[s] \in Retryable /\ Settled(s) = replica[r]
  /\ NextBegun(s) = begun[r]
CutInv(r, s) ==
  r \in cut /\ pc[r] # "failed" /\ pc[s] # "failed" =>
    IF s \in cut THEN replica[s] = replica[r] /\ begun[s] = begun[r]
    ELSE Passed(s) =< entered[r] /\ (Front(r, s) \/ Behind(r, s))

\* From rank 0's good vote on, whether it is alive or not, the checkpoint is what every
\* rank brought to the save.
PublishedInv(r) ==
  /\ pc[r] = "publication" /\ entered[0] >= Passed(r) + 1 /\ Passed(r) + 1 \notin vetoed
       => checkpoint = replica[r]
  /\ pc[r] = "agreement" /\ entered[0] >= Passed(r) + 2 /\ Passed(r) + 2 \notin vetoed
       => checkpoint = replica[r]
  /\ pc[r] = "exited" /\ launches > 0 => checkpoint = replica[r]

Inv ==
  /\ TypeOK /\ Skews /\ Entry
  /\ \A r \in Ranks : RankInv(r) /\ ConfirmInv(r) /\ PublishedInv(r)
  /\ \A r, s \in Ranks : PairInv(r, s) /\ CutInv(r, s)

-------------------------------------------------------------------------------
(* What a step changes, rank by rank                                          *)

\* Of all ranks a step touches r.
Beside(r) ==
  /\ length' = length
  /\ \A s \in Ranks \ {r} :
       /\ pc'[s] = pc[s] /\ inside'[s] = inside[s] /\ entered'[s] = entered[s]
       /\ begun'[s] = begun[s] /\ replica'[s] = replica[s] /\ saved'[s] = saved[s]
       /\ armed'[s] = armed[s] /\ calls'[s] = calls[s]
       /\ s \in cut' <=> s \in cut

\* r enters the collective of its phase.
Enters(r) ==
  /\ Working(r) /\ ~inside[r] /\ pc[r] \in Collectives
  /\ pc'[r] = pc[r] /\ inside'[r] = TRUE /\ entered'[r] = entered[r] + 1
  /\ vetoed \subseteq vetoed' /\ vetoed' \subseteq vetoed \union {entered[r] + 1}
  /\ cut' = cut /\ begun'[r] = begun[r]
  /\ pc[r] \notin Loading => Settled(r)' = Settled(r)
  /\ pc[r] = "forward" \/ saved'[r] = saved[r]
  /\ pc[r] \in {"restore", "update"} \/ replica'[r] = replica[r]
  /\ pc[r] \in {"confirm", "agreement"} /\ entered[r] + 1 \notin vetoed' => Agree(r)
  /\ Beside(r)

\* Every rank has come, and r leaves: on to what follows, or back to its caller.
Leaves(r) ==
  /\ Working(r) /\ inside[r] /\ Complete(r)
  /\ Good(r) \/ pc[r] \in BeforeForward \union Retryable
  /\ pc'[r] = (IF Good(r) THEN After[pc[r]] ELSE "idle")
  /\ inside'[r] = FALSE /\ entered' = entered /\ vetoed' = vetoed /\ cut' = cut
  /\ begun'[r] = NextBegun(r) /\ saved'[r] = saved[r]
  /\ replica'[r] = (IF Good(r) THEN replica[r] ELSE Settled(r))
  /\ Beside(r)

\* r begins a call or its save, or finds once more that its transport is broken.
Turns(r) ==
  /\ pc[r] # "failed" /\ pc'[r] # "failed" /\ ~inside[r]
  /\ pc[r] \in {"idle", "admission"} /\ pc'[r] \in {"idle", "admission", "save"}
  /\ r \in cut => pc'[r] \in {"idle", "admission"}
  /\ Place(r)' = Place(r)
  /\ inside'[r] = FALSE /\ entered' = entered /\ vetoed' = vetoed /\ cut' = cut
  /\ begun'[r] = begun[r] /\ saved'[r] = saved[r] /\ replica'[r] = replica[r]
  /\ Beside(r)

\* The transport of r breaks, before its forward pass.
Breaks(r) ==
  /\ Working(r) /\ pc[r] \in BeforeForward
  /\ pc'[r] = "idle" /\ inside'[r] = FALSE /\ entered' = entered /\ vetoed' = vetoed
  /\ cut' = cut \union {r}
  /\ begun'[r] = begun[r] /\ saved'[r] = saved[r] /\ replica'[r] = replica[r]
  /\ Beside(r)

Ends(r) ==
  /\ pc'[r] = "failed" /\ entered' = entered /\ vetoed' = vetoed /\ cut' = cut
  /\ Beside(r)

LEMMA SameReplica ==
  ASSUME NEW a \in Replica, NEW b \in Replica, a.step = b.step, a.skew = b.skew
  PROVE  a = b
  BY DEF Replica

LEMMA SoundFits ==
  ASSUME NEW x \in Replica, Sound(x), NEW r \in Ranks
  PROVE  x.skew \subseteq {r}
  BY DEF Replica, Sound, Replicated

LEMMA TypedRank ==
  ASSUME MoeRunAssumption, TypeOK, NEW r \in Ranks
  PROVE  /\ entered[r] \in Nat /\ begun[r] \in Nat /\ length \in Nat /\ End(r) \in Nat
         /\ replica[r].step \in Nat /\ saved[r].step \in Nat /\ Settled(r).step \in Nat
         /\ replica[r] \in Replica /\ saved[r] \in Replica /\ Settled(r) \in Replica
         /\ inside[r] \in BOOLEAN /\ pc[r] \in Phases
         /\ Passed(r) = entered[r] \/ Passed(r) = entered[r] - 1
         /\ Passed(r) \in Int
<1>1. replica[r] \in Replica /\ saved[r] \in Replica
  BY DEF TypeOK
<1>2. MaxStep \in Nat /\ Lengths \subseteq Nat
  BY DEF MoeRunAssumption
<1>3. replica[r].step \in Nat /\ saved[r].step \in Nat
  BY <1>1, <1>2 DEF Replica
<1>4. entered[r] \in Nat /\ begun[r] \in Nat /\ length \in Nat /\ inside[r] \in BOOLEAN /\ pc[r] \in Phases
  BY <1>2 DEF TypeOK
<1>5. QED
  BY <1>1, <1>3, <1>4 DEF Settled, End, Passed

\* The other ranks keep their place in the order.
LEMMA OthersKeep ==
  ASSUME NEW r \in Ranks, Beside(r), NEW s \in Ranks \ {r}
  PROVE  /\ Passed(s)' = Passed(s) /\ Place(s)' = Place(s) /\ Settled(s)' = Settled(s)
         /\ NextBegun(s)' = NextBegun(s) /\ (Working(s)' <=> Working(s))
         /\ (Good(s)' <=> Good(s)) =>
              NextSettled(s)' = NextSettled(s) /\ NextPlace(s)' = NextPlace(s)
<1>1. /\ pc'[s] = pc[s] /\ inside'[s] = inside[s] /\ entered'[s] = entered[s]
      /\ begun'[s] = begun[s] /\ replica'[s] = replica[s] /\ saved'[s] = saved[s]
      /\ (s \in cut' <=> s \in cut) /\ length' = length
  BY DEF Beside
<1>2. Passed(s)' = Passed(s) /\ NextBegun(s)' = NextBegun(s) /\ (Working(s)' <=> Working(s))
  BY <1>1 DEF Passed, NextBegun, Working
<1>3. Settled(s)' = Settled(s)
  BY <1>1 DEF Settled, Trial
<1>4. Place(s)' = Place(s)
  BY <1>1 DEF Place, Seat, End
<1>5. ASSUME Good(s)' <=> Good(s)
      PROVE  NextSettled(s)' = NextSettled(s) /\ NextPlace(s)' = NextPlace(s)
  <2>1. NextSettled(s)' = NextSettled(s)
    BY <1>1, <1>3, <1>5 DEF NextSettled
  <2>2. QED
    BY <1>1, <1>2, <1>5, <2>1 DEF NextPlace, Seat
<1>6. QED
  BY <1>2, <1>3, <1>4, <1>5

LEMMA SeatOfCollective ==
  ASSUME NEW r, pc[r] # "idle"
  PROVE  Place(r) = pc[r]
  BY DEF Place, Seat

LEMMA SeatTells ==
  ASSUME NEW r, Place(r) \notin {"admission", "save"}
  PROVE  pc[r] = Place(r)
  BY DEF Place, Seat

\* The verdict of a collective that everybody has entered does not change.
LEMMA VerdictStays ==
  ASSUME MoeRunAssumption, TypeOK, NEW r \in Ranks, Enters(r), NEW s \in Ranks \ {r}, Complete(s)
  PROVE  Complete(s)' /\ (Good(s)' <=> Good(s))
<1>1. entered[s] =< entered[r] /\ entered[r] \in Nat /\ entered[s] \in Nat
  BY TypedRank DEF Complete
<1>2. entered'[s] = entered[s] /\ entered'[r] = entered[r] + 1 /\ inside'[s] = inside[s]
      /\ vetoed \subseteq vetoed' /\ vetoed' \subseteq vetoed \union {entered[r] + 1}
  BY DEF Enters, Beside
<1>3. Good(s)' <=> Good(s)
  <2>1. entered[s] # entered[r] + 1
    BY <1>1
  <2>2. QED
    BY <1>2, <2>1 DEF Good
<1>4. \A q \in Ranks : entered[q] \in Nat /\ (q # r => entered'[q] = entered[q])
  BY TypedRank DEF Enters, Beside
<1>5. Complete(s)'
  BY <1>1, <1>2, <1>4 DEF Complete
<1>6. QED
  BY <1>3, <1>5

-------------------------------------------------------------------------------
(* Nobody is two collectives ahead                                            *)

LEMMA EntersEntry ==
  ASSUME MoeRunAssumption, TypeOK, Entry, NEW r \in Ranks, Enters(r)
  PROVE  Entry'
<1>1. /\ entered'[r] = entered[r] + 1 /\ inside'[r] = TRUE /\ Working(r) /\ ~inside[r]
      /\ \A q \in Ranks \ {r} : entered'[q] = entered[q] /\ inside'[q] = inside[q]
  BY DEF Enters, Beside
<1>2. \A q \in Ranks \ {r} : Working(q)' <=> Working(q)
  BY OthersKeep DEF Enters
<1>3. \A q \in Ranks : entered[q] \in Nat
  BY TypedRank
<1>4. ASSUME NEW x \in Ranks, NEW q \in Ranks
      PROVE  /\ entered'[x] =< entered'[q] + 1
             /\ Working(x)' /\ ~inside'[x] => entered'[x] =< entered'[q]
  <2>1. entered[x] =< entered[q] + 1 /\ (Working(x) /\ ~inside[x] => entered[x] =< entered[q])
        /\ entered[r] =< entered[q]
    BY <1>1 DEF Entry
  <2>2. entered[q] =< entered'[q]
    BY <1>1, <1>3
  <2>3. entered'[q] \in Nat /\ entered'[x] \in Nat
    BY <1>1, <1>3
  <2>4. CASE x = r
    BY <1>1, <1>3, <2>1, <2>2, <2>3, <2>4
  <2>5. CASE x # r
    BY <1>1, <1>2, <1>3, <2>1, <2>2, <2>3, <2>5
  <2>6. QED
    BY <2>4, <2>5
<1>5. QED
  BY <1>4 DEF Entry

LEMMA LeavesEntry ==
  ASSUME Entry, NEW r \in Ranks, Leaves(r)
  PROVE  Entry'
<1>1. entered' = entered /\ Beside(r) /\ Complete(r)
  BY DEF Leaves
<1>2. ASSUME NEW x \in Ranks, NEW q \in Ranks, Working(x)', ~inside'[x]
      PROVE  entered[x] =< entered[q]
  <2>1. CASE x = r
    BY <1>1, <2>1 DEF Complete
  <2>2. CASE x # r
    <3>1. Working(x) /\ ~inside[x]
      BY <1>1, <1>2, <2>2, OthersKeep DEF Beside
    <3>2. QED
      BY <3>1 DEF Entry
  <2>3. QED
    BY <2>1, <2>2
<1>3. QED
  BY <1>1, <1>2 DEF Entry

LEMMA StaysEntry ==
  ASSUME Entry, NEW r \in Ranks, Turns(r) \/ Breaks(r) \/ Ends(r)
  PROVE  Entry'
<1>1. entered' = entered /\ Beside(r)
  BY DEF Turns, Breaks, Ends
<1>2. ASSUME NEW x \in Ranks, NEW q \in Ranks, Working(x)', ~inside'[x]
      PROVE  entered[x] =< entered[q]
  <2>1. Working(x) /\ ~inside[x]
    <3>1. CASE x = r
      BY <1>2, <3>1 DEF Turns, Breaks, Ends, Working
    <3>2. CASE x # r
      BY <1>1, <1>2, <3>2, OthersKeep DEF Beside
    <3>3. QED
      BY <3>1, <3>2
  <2>2. QED
    BY <2>1 DEF Entry
<1>3. QED
  BY <1>1, <1>2 DEF Entry

-------------------------------------------------------------------------------
(* Ranks two by two                                                           *)

\* A pair that a step leaves alone.
LEMMA PairKeeps ==
  ASSUME NEW r \in Ranks, Beside(r), entered' = entered, vetoed' = vetoed,
         NEW x \in Ranks \ {r}, NEW y \in Ranks \ {r}, PairInv(x, y)
  PROVE  PairInv(x, y)'
<1>1. /\ Passed(x)' = Passed(x) /\ Place(x)' = Place(x) /\ Settled(x)' = Settled(x)
      /\ (Working(x)' <=> Working(x)) /\ begun'[x] = begun[x]
      /\ Passed(y)' = Passed(y) /\ Place(y)' = Place(y) /\ Settled(y)' = Settled(y)
      /\ (Working(y)' <=> Working(y)) /\ begun'[y] = begun[y]
  BY OthersKeep DEF Beside
<1>2. (Good(y)' <=> Good(y)) /\ (Complete(y)' <=> Complete(y)) /\ inside'[y] = inside[y] /\ pc'[y] = pc[y]
  BY DEF Good, Complete, Beside
<1>3. NextBegun(y)' = NextBegun(y) /\ NextSettled(y)' = NextSettled(y) /\ NextPlace(y)' = NextPlace(y)
  BY <1>2, OthersKeep
<1>4. Alike(x, y) => Alike(x, y)'
  BY <1>1 DEF Alike
<1>5. Follows(x, y) => Follows(x, y)'
  BY <1>1, <1>2, <1>3 DEF Follows
<1>6. QED
  BY <1>1, <1>4, <1>5 DEF PairInv

LEMMA EntersPairs ==
  ASSUME MoeRunAssumption, Inv, NEW r \in Ranks, Enters(r), NEW x \in Ranks, NEW y \in Ranks
  PROVE  PairInv(x, y)'
<1>1. TypeOK /\ Entry /\ PairInv(x, y) /\ Beside(r) /\ ~inside[r]
  BY DEF Inv, Enters
<1>2. /\ Passed(r)' = Passed(r) /\ Place(r)' = Place(r) /\ begun'[r] = begun[r]
      /\ Place(r) \notin Loading => Settled(r)' = Settled(r)
      /\ (Working(r)' <=> Working(r))
  <2>1. pc[r] \in Collectives /\ pc'[r] = pc[r] /\ "idle" \notin Collectives
    BY DEF Enters, Collectives, Loading, StepCall, BeforeForward, BeforeRetry, Retryable, Saving
  <2>2. Place(r) = pc[r] /\ Place(r)' = pc'[r]
    BY <2>1 DEF Place, Seat
  <2>3. Passed(r)' = Passed(r)
    BY <1>1, TypedRank DEF Enters, Passed
  <2>4. QED
    BY <2>1, <2>2, <2>3 DEF Enters, Working
<1>3. ASSUME NEW z \in Ranks
      PROVE  /\ Passed(z)' = Passed(z) /\ Place(z)' = Place(z) /\ begun'[z] = begun[z]
             /\ Place(z) \notin Loading => Settled(z)' = Settled(z)
             /\ (Working(z)' <=> Working(z))
  BY <1>1, <1>2, OthersKeep DEF Beside
<1>4. ASSUME Alike(x, y)
      PROVE  Alike(x, y)'
  BY <1>3, <1>4 DEF Alike
<1>5. ASSUME Follows(x, y)
      PROVE  Follows(x, y)'
  <2>1. y \in Ranks \ {r} /\ Complete(y) /\ inside[y]
    BY <1>1, <1>5 DEF Follows
  <2>2. Complete(y)' /\ (Good(y)' <=> Good(y)) /\ inside'[y] = inside[y] /\ pc'[y] = pc[y]
    BY <1>1, <2>1, VerdictStays DEF Beside
  <2>3. NextBegun(y)' = NextBegun(y) /\ NextSettled(y)' = NextSettled(y) /\ NextPlace(y)' = NextPlace(y)
    BY <1>1, <2>1, <2>2, OthersKeep
  <2>4. QED
    BY <1>3, <1>5, <2>2, <2>3 DEF Follows
<1>6. QED
  BY <1>1, <1>3, <1>4, <1>5 DEF PairInv

\* Two ranks inside the same collective will leave it alike.
LEMMA NextAlike ==
  ASSUME MoeRunAssumption, Inv, NEW r \in Ranks, NEW s \in Ranks, Working(r), Working(s),
         inside[r], inside[s], entered[s] = entered[r], Complete(r),
         Good(r) \/ pc[r] \in BeforeForward \union Retryable
  PROVE  /\ Complete(s) /\ (Good(s) <=> Good(r)) /\ pc[s] = pc[r] /\ NextPlace(s) = NextPlace(r)
         /\ NextPlace(r) \notin Loading =>
              NextBegun(s) = NextBegun(r) /\ NextSettled(s) = NextSettled(r)
<1>1. /\ TypeOK /\ Alike(r, s) /\ RankInv(r) /\ RankInv(s) /\ ConfirmInv(r) /\ ConfirmInv(s)
  BY DEF Inv, PairInv, Passed
<1>2. pc[r] \in Collectives /\ pc[s] \in Collectives
  BY <1>1 DEF RankInv, Working
<1>3. pc[s] = pc[r] /\ pc[r] = Place(r)
  <2>1. "idle" \notin Collectives
    BY DEF Collectives, Loading, StepCall, BeforeForward, BeforeRetry, Retryable, Saving
  <2>2. QED
    BY <1>1, <1>2, <2>1, SeatOfCollective DEF Alike
<1>4. Complete(s) /\ (Good(s) <=> Good(r))
  BY DEF Complete, Good
<1>5. /\ pc[r] \notin Loading => begun[s] = begun[r] /\ Settled(s) = Settled(r)
      /\ pc[r] = "schedule" => replica[s] = replica[r]
  BY <1>1, <1>3 DEF Alike, RankInv
<1>6. pc[r] = "confirm" /\ Good(r) => replica[s] = replica[r]
  <2> SUFFICES ASSUME pc[r] = "confirm", Good(r)
               PROVE  replica[s] = replica[r]
    OBVIOUS
  <2>1. Sound(replica[r]) /\ Sound(replica[s])
    BY <1>1, <1>3, <1>4 DEF ConfirmInv
  <2>2. Settled(s) = Settled(r) /\ Settled(s) = saved[s] /\ Settled(r) = saved[r]
    <3>1. pc[r] \notin Loading
      BY DEF Loading
    <3>2. QED
      BY <1>3, <1>5, <3>1 DEF Settled, Trial
  <2>3. replica[r].step = saved[r].step + 1 /\ replica[s].step = saved[s].step + 1
    BY <1>1, <1>3 DEF RankInv, Trial, Working
  <2>4. replica[r] \in Replica /\ replica[s] \in Replica
    BY <1>1, TypedRank
  <2>5. replica[s].step = replica[r].step /\ (s # r => replica[s].skew = replica[r].skew)
    BY <2>1, <2>2, <2>3 DEF Sound, Replicated
  <2>6. QED
    BY <2>4, <2>5, SameReplica
<1>7. CASE pc[r] \in {"load", "restore"}
  <2>1. Good(r)
    BY <1>7 DEF BeforeForward, Retryable
  <2>2. After[pc[r]] \in {"restore", "schedule"}
    BY <1>7 DEF After, Phases, Loading, StepCall, BeforeForward, BeforeRetry, Retryable, Saving, Ended
  <2>3. NextPlace(r) = After[pc[r]] /\ NextPlace(s) = After[pc[r]]
    BY <1>3, <1>4, <2>1, <2>2 DEF NextPlace, Seat
  <2>4. QED
    BY <1>3, <1>4, <2>2, <2>3 DEF Loading
<1>8. CASE pc[r] \notin {"load", "restore"}
  <2>1. NextBegun(s) = NextBegun(r) /\ NextSettled(s) = NextSettled(r)
    <3>1. CASE pc[r] = "schedule"
      BY <1>3, <1>4, <1>5, <3>1 DEF NextBegun, NextSettled, Settled, Trial
    <3>2. CASE pc[r] # "schedule"
      BY <1>3, <1>4, <1>5, <1>6, <1>8, <3>2 DEF NextBegun, NextSettled, Loading
    <3>3. QED
      BY <3>1, <3>2
  <2>2. NextPlace(s) = NextPlace(r)
    BY <1>3, <1>4, <2>1 DEF NextPlace
  <2>3. QED
    BY <1>3, <1>4, <2>1, <2>2
<1>9. QED
  BY <1>7, <1>8
\* A rank that leaves its collective is where it was going to be.
LEMMA LeavesSelf ==
  ASSUME MoeRunAssumption, Inv, NEW r \in Ranks, Leaves(r)
  PROVE  /\ Passed(r)' = Passed(r) + 1 /\ Working(r)' /\ Place(r)' = NextPlace(r)
         /\ begun'[r] = NextBegun(r)
         /\ pc[r] # "load" => Settled(r)' = NextSettled(r)
<1>1. TypeOK /\ RankInv(r) /\ entered[r] \in Nat
  BY TypedRank DEF Inv
<1>2. /\ Working(r) /\ inside[r]
      /\ Good(r) \/ pc[r] \in BeforeForward \union Retryable
      /\ pc'[r] = (IF Good(r) THEN After[pc[r]] ELSE "idle")
      /\ inside'[r] = FALSE /\ entered' = entered /\ vetoed' = vetoed /\ cut' = cut
      /\ begun'[r] = NextBegun(r) /\ saved'[r] = saved[r]
      /\ replica'[r] = (IF Good(r) THEN replica[r] ELSE Settled(r))
      /\ length' = length
  BY DEF Leaves, Beside
<1>3. pc[r] \in Collectives
  BY <1>1, <1>2 DEF RankInv, Working
<1>4. /\ After[pc[r]] \in Phases \ {"failed"}
      /\ After[pc[r]] = "idle" <=> pc[r] \in {"schedule", "confirm"}
      /\ After[pc[r]] = "confirm" <=> pc[r] = "update"
      /\ After[pc[r]] # "update" \/ pc[r] = "gradients"
  BY <1>3 DEF Collectives, After, Phases, Loading, StepCall, BeforeForward, BeforeRetry, Retryable,
              Saving, Ended
<1>5. Passed(r)' = Passed(r) + 1 /\ Working(r)'
  BY <1>1, <1>2, <1>4 DEF Passed, Working
<1>6. Settled(r)' = NextSettled(r)
  <2>1. CASE ~Good(r)
    <3>1. pc'[r] = "idle" /\ replica'[r] = Settled(r)
      BY <1>2, <2>1
    <3>2. QED
      BY <2>1, <3>1 DEF Settled, Trial, NextSettled
  <2>2. CASE Good(r) /\ pc[r] = "update"
    BY <1>2, <1>4, <2>2 DEF Settled, Trial, NextSettled
  <2>3. CASE Good(r) /\ pc[r] # "update"
    <3>1. pc'[r] # "confirm" /\ replica'[r] = replica[r] /\ ~inside'[r]
      BY <1>2, <1>4, <2>3
    <3>2. Settled(r)' = replica[r]
      BY <3>1 DEF Settled, Trial
    <3>3. QED
      BY <2>3, <3>2 DEF Settled, Trial, NextSettled
  <2>4. QED
    BY <2>1, <2>2, <2>3
<1>7. Place(r)' = NextPlace(r)
  <2>1. CASE ~Good(r)
    <3>1. pc[r] \in StepCall /\ pc[r] # "schedule"
      BY <1>2, <2>1 DEF StepCall, BeforeForward, Retryable
    <3>2. Settled(r).step < begun[r] + length /\ begun'[r] = begun[r]
      BY <1>1, <1>2, <3>1 DEF RankInv, Working, NextBegun, End
    <3>3. pc'[r] = "idle" /\ replica'[r] = Settled(r)
      BY <1>2, <2>1
    <3>4. QED
      BY <1>2, <2>1, <3>2, <3>3 DEF Place, Seat, NextPlace, End
  <2>2. CASE Good(r)
    <3>1. pc'[r] = After[pc[r]] /\ replica'[r] = replica[r]
      BY <1>2, <2>2
    <3>2. After[pc[r]] = "idle" => NextSettled(r) = replica[r]
      BY <1>4, <2>2 DEF NextSettled, Settled, Trial
    <3>3. QED
      BY <1>2, <2>2, <3>1, <3>2 DEF Place, Seat, NextPlace, End
  <2>3. QED
    BY <2>1, <2>2
<1>8. QED
  BY <1>2, <1>5, <1>6, <1>7

LEMMA LeavesPairs ==
  ASSUME MoeRunAssumption, Inv, NEW r \in Ranks, Leaves(r), NEW x \in Ranks, NEW y \in Ranks
  PROVE  PairInv(x, y)'
<1>1. /\ TypeOK /\ Beside(r) /\ entered' = entered /\ vetoed' = vetoed /\ Working(r)
      /\ inside[r] /\ Complete(r)
      /\ Good(r) \/ pc[r] \in BeforeForward \union Retryable
  BY DEF Inv, Leaves
<1>2. /\ Passed(r)' = Passed(r) + 1 /\ Working(r)' /\ Place(r)' = NextPlace(r)
      /\ begun'[r] = NextBegun(r)
      /\ pc[r] # "load" => Settled(r)' = NextSettled(r)
  BY LeavesSelf
<1>3. entered[r] \in Nat /\ Passed(r) = entered[r] - 1
  BY <1>1, TypedRank DEF Passed
<1>4. pc[r] = "load" => NextPlace(r) \in Loading
  <2>1. pc[r] = "load" => Good(r) /\ After[pc[r]] = "restore"
    BY <1>1 DEF BeforeForward, Retryable, After, Phases, Loading, StepCall, BeforeRetry, Saving, Ended
  <2>2. QED
    BY <2>1 DEF NextPlace, Seat, Loading
<1>5. ASSUME NEW s \in Ranks \ {r}, Working(s)
      PROVE  PairInv(s, r)' /\ PairInv(r, s)'
  <2>1. /\ Passed(s)' = Passed(s) /\ Place(s)' = Place(s) /\ Settled(s)' = Settled(s)
        /\ Working(s)' /\ begun'[s] = begun[s] /\ inside'[s] = inside[s] /\ pc'[s] = pc[s]
    BY <1>1, <1>5, OthersKeep DEF Beside
  <2>2. entered[s] >= entered[r] /\ entered[s] \in Nat /\ Passed(s) \in Int
        /\ (Passed(s) = entered[s] \/ (inside[s] /\ Passed(s) = entered[s] - 1))
    BY <1>1, TypedRank DEF Complete, Passed
  <2>3. PairInv(s, r) /\ Passed(s) =< Passed(r) + 1
    BY <1>1, <1>5 DEF Inv, PairInv
  <2>4. Passed(s) = Passed(r) \/ Passed(s) = Passed(r) + 1
    BY <1>3, <2>2, <2>3
  <2>5. CASE Passed(s) = Passed(r)
    <3>1. inside[s] /\ entered[s] = entered[r]
      BY <1>3, <2>2, <2>5
    <3>2. /\ Complete(s) /\ (Good(s) <=> Good(r)) /\ pc[s] = pc[r] /\ NextPlace(s) = NextPlace(r)
          /\ NextPlace(r) \notin Loading =>
               NextBegun(s) = NextBegun(r) /\ NextSettled(s) = NextSettled(r)
      BY <1>1, <1>5, <3>1, NextAlike
    <3>3. (Good(s)' <=> Good(s)) /\ Complete(s)'
      BY <1>1, <2>1, <3>2 DEF Good, Complete, Beside
    <3>4. NextBegun(s)' = NextBegun(s) /\ NextSettled(s)' = NextSettled(s) /\ NextPlace(s)' = NextPlace(s)
      BY <1>1, <3>3, OthersKeep
    <3>5. Follows(r, s)'
      <4>1. inside'[s] /\ Complete(s)' /\ (Good(s)' \/ pc'[s] \in BeforeForward \union Retryable)
        BY <1>1, <2>1, <3>1, <3>2, <3>3
      <4>2. Place(r)' = NextPlace(s)'
        BY <1>2, <3>2, <3>4
      <4>3. Place(r)' \notin Loading => begun'[r] = NextBegun(s)' /\ Settled(r)' = NextSettled(s)'
        BY <1>2, <1>4, <3>2, <3>4
      <4>4. QED
        BY <4>1, <4>2, <4>3 DEF Follows
    <3>6. Passed(r)' = Passed(s)' + 1 /\ Passed(r)' \in Int /\ Passed(s)' \in Int
      BY <1>2, <1>3, <2>1, <2>2, <2>5
    <3>7. QED
      BY <3>5, <3>6 DEF PairInv
  <2>6. CASE Passed(s) = Passed(r) + 1
    <3>1. Follows(s, r)
      BY <1>1, <1>5, <2>3, <2>6 DEF PairInv
    <3>2. Place(s)' = Place(r)'
      BY <1>2, <2>1, <3>1 DEF Follows
    <3>3. Place(s)' \notin Loading => begun'[s] = begun'[r] /\ Settled(s)' = Settled(r)'
      BY <1>2, <1>4, <2>1, <3>1 DEF Follows
    <3>4. Alike(s, r)' /\ Alike(r, s)'
      BY <3>2, <3>3 DEF Alike
    <3>5. Passed(r)' = Passed(s)' /\ Passed(r)' \in Int
      BY <1>2, <1>3, <2>1, <2>6
    <3>6. QED
      BY <3>4, <3>5 DEF PairInv
  <2>7. QED
    BY <2>4, <2>5, <2>6
<1>6. CASE x # r /\ y # r
  <2>1. PairInv(x, y)
    BY DEF Inv
  <2>2. QED
    BY <1>1, <1>6, <2>1, PairKeeps
<1>7. CASE x = r /\ y = r
  <2>1. Alike(x, y)' /\ Passed(x)' \in Int /\ Passed(x)' = Passed(y)'
    BY <1>2, <1>3, <1>7 DEF Alike
  <2>2. QED
    BY <2>1 DEF PairInv
<1>8. CASE x = r /\ y # r
  <2>1. CASE Working(y)
    BY <1>5, <1>8, <2>1
  <2>2. CASE ~Working(y)
    <3>1. ~Working(y)'
      BY <1>1, <1>8, <2>2, OthersKeep
    <3>2. QED
      BY <3>1 DEF PairInv
  <2>3. QED
    BY <2>1, <2>2
<1>9. CASE x # r /\ y = r
  <2>1. CASE Working(x)
    BY <1>5, <1>9, <2>1
  <2>2. CASE ~Working(x)
    <3>1. ~Working(x)'
      BY <1>1, <1>9, <2>2, OthersKeep
    <3>2. QED
      BY <3>1 DEF PairInv
  <2>3. QED
    BY <2>1, <2>2
<1>10. QED
  BY <1>6, <1>7, <1>8, <1>9

LEMMA TurnsPairs ==
  ASSUME MoeRunAssumption, Inv, NEW r \in Ranks, Turns(r), NEW x \in Ranks, NEW y \in Ranks
  PROVE  PairInv(x, y)'
<1>1. /\ TypeOK /\ PairInv(x, y) /\ Beside(r) /\ ~inside[r] /\ entered' = entered /\ vetoed' = vetoed
      /\ Place(r)' = Place(r) /\ begun'[r] = begun[r] /\ (Working(r)' <=> Working(r))
  BY DEF Inv, Turns, Working
<1>2. Passed(r)' = Passed(r)
  BY <1>1 DEF Turns, Passed
<1>3. Settled(r)' = Settled(r)
  BY DEF Turns, Settled, Trial
<1>4. ASSUME NEW z \in Ranks
      PROVE  /\ Passed(z)' = Passed(z) /\ Place(z)' = Place(z) /\ begun'[z] = begun[z]
             /\ Settled(z)' = Settled(z) /\ (Working(z)' <=> Working(z))
  BY <1>1, <1>2, <1>3, OthersKeep DEF Beside
<1>5. ASSUME Alike(x, y)
      PROVE  Alike(x, y)'
  BY <1>4, <1>5 DEF Alike
<1>6. ASSUME Follows(x, y)
      PROVE  Follows(x, y)'
  <2>1. y \in Ranks \ {r} /\ Complete(y) /\ inside[y]
    BY <1>1, <1>6 DEF Follows
  <2>2. Complete(y)' /\ (Good(y)' <=> Good(y)) /\ inside'[y] = inside[y] /\ pc'[y] = pc[y]
    BY <1>1, <2>1 DEF Beside, Complete, Good
  <2>3. NextBegun(y)' = NextBegun(y) /\ NextSettled(y)' = NextSettled(y) /\ NextPlace(y)' = NextPlace(y)
    BY <1>1, <2>1, <2>2, OthersKeep
  <2>4. QED
    BY <1>4, <1>6, <2>2, <2>3 DEF Follows
<1>7. QED
  BY <1>1, <1>4, <1>5, <1>6 DEF PairInv

LEMMA DropsPairs ==
  ASSUME Inv, NEW r \in Ranks, Breaks(r) \/ Ends(r), NEW x \in Ranks, NEW y \in Ranks
  PROVE  PairInv(x, y)'
<1>1. Beside(r) /\ entered' = entered /\ vetoed' = vetoed /\ ~Working(r)' /\ PairInv(x, y)
  BY DEF Inv, Breaks, Ends, Working
<1>2. CASE x = r \/ y = r
  BY <1>1, <1>2 DEF PairInv
<1>3. CASE x # r /\ y # r
  BY <1>1, <1>3, PairKeeps
<1>4. QED
  BY <1>2, <1>3

-------------------------------------------------------------------------------
(* Beside a rank that is cut off                                              *)

LEMMA FrontExcludes ==
  ASSUME NEW s, pc[s] \in {"idle", "admission", "consensus", "forward"}
  PROVE  /\ ~Trial(s) /\ Settled(s) = replica[s] /\ pc[s] # "schedule"
         /\ pc[s] \notin Retryable
  BY DEF Trial, Settled, Retryable

\* A pair that a step leaves alone.
LEMMA CutKeeps ==
  ASSUME NEW r \in Ranks, Beside(r), entered' = entered, vetoed' = vetoed,
         NEW x \in Ranks, NEW y \in Ranks \ {r}, CutInv(x, y),
         x \in cut' /\ pc'[x] # "failed" => x \in cut /\ pc[x] # "failed",
         (replica'[x] = replica[x] /\ begun'[x] = begun[x]) \/ pc'[x] = "failed"
  PROVE  CutInv(x, y)'
<1>1. /\ Passed(y)' = Passed(y) /\ Settled(y)' = Settled(y) /\ NextBegun(y)' = NextBegun(y)
      /\ (y \in cut' <=> y \in cut) /\ pc'[y] = pc[y] /\ inside'[y] = inside[y]
      /\ replica'[y] = replica[y] /\ begun'[y] = begun[y]
      /\ (Good(y)' <=> Good(y)) /\ (Complete(y)' <=> Complete(y))
  BY OthersKeep DEF Beside, Good, Complete
<1>2. SUFFICES ASSUME x \in cut', pc'[x] # "failed", pc'[y] # "failed"
               PROVE  IF y \in cut' THEN replica'[y] = replica'[x] /\ begun'[y] = begun'[x]
                      ELSE Passed(y)' =< entered'[x] /\ (Front(x, y)' \/ Behind(x, y)')
  BY DEF CutInv
<1>3. /\ replica'[x] = replica[x] /\ begun'[x] = begun[x]
      /\ IF y \in cut THEN replica[y] = replica[x] /\ begun[y] = begun[x]
         ELSE Passed(y) =< entered[x] /\ (Front(x, y) \/ Behind(x, y))
  BY <1>1, <1>2 DEF CutInv
<1>4. Front(x, y) => Front(x, y)'
  BY <1>1, <1>3 DEF Front
<1>5. Behind(x, y) => Behind(x, y)'
  BY <1>1, <1>3 DEF Behind
<1>6. QED
  BY <1>1, <1>3, <1>4, <1>5

LEMMA EntersCuts ==
  ASSUME MoeRunAssumption, Inv, NEW r \in Ranks, Enters(r), NEW x \in Ranks, NEW y \in Ranks
  PROVE  CutInv(x, y)'
<1>1. TypeOK /\ CutInv(x, y) /\ Beside(r) /\ cut' = cut /\ Working(r) /\ ~inside[r]
  BY DEF Inv, Enters
<1>2. SUFFICES ASSUME x \in cut, pc'[x] # "failed", pc'[y] # "failed"
               PROVE  IF y \in cut THEN replica'[y] = replica'[x] /\ begun'[y] = begun'[x]
                      ELSE Passed(y)' =< entered'[x] /\ (Front(x, y)' \/ Behind(x, y)')
  BY <1>1 DEF CutInv
<1>3. /\ x # r /\ pc'[x] = pc[x] /\ replica'[x] = replica[x] /\ begun'[x] = begun[x]
      /\ entered'[x] = entered[x]
  BY <1>1, <1>2 DEF Beside, Working
<1>4. CASE y = r
  <2>1. /\ pc'[r] = pc[r] /\ pc[r] \in Collectives /\ pc[r] # "failed" /\ y \notin cut
        /\ begun'[r] = begun[r]
        /\ pc[r] \in {"restore", "update"} \/ replica'[r] = replica[r]
    BY <1>1, <1>4 DEF Enters, Working
  <2>2. Passed(r) =< entered[x] /\ Front(x, r)
    BY <1>1, <1>2, <1>3, <1>4, <2>1 DEF CutInv, Behind
  <2>3. Passed(r)' = Passed(r) /\ Passed(r) = entered[r] /\ entered[r] \in Nat
    BY <1>1, TypedRank DEF Enters, Passed
  <2>4. pc[r] = "consensus" => Passed(r) >= entered[x] - 1
    BY <1>1, <2>2 DEF Front
  <2>5. Front(x, r)'
    BY <1>3, <2>1, <2>2, <2>3, <2>4 DEF Front
  <2>6. QED
    BY <1>3, <1>4, <2>1, <2>2, <2>3, <2>5
<1>5. CASE y # r
  <2>1. /\ Passed(y)' = Passed(y) /\ Settled(y)' = Settled(y) /\ NextBegun(y)' = NextBegun(y)
        /\ pc'[y] = pc[y] /\ inside'[y] = inside[y]
        /\ replica'[y] = replica[y] /\ begun'[y] = begun[y] /\ entered'[y] = entered[y]
        /\ ~Good(y) => ~Good(y)'
    BY <1>1, <1>5, OthersKeep DEF Beside, Enters, Good
  <2>2. Front(x, y) => Front(x, y)'
    BY <1>3, <2>1 DEF Front
  <2>3. ASSUME Behind(x, y) PROVE Behind(x, y)'
    <3>1. Complete(y)' /\ (Good(y)' <=> Good(y))
      BY <1>1, <1>5, <2>3, VerdictStays DEF Behind
    <3>2. QED
      BY <1>3, <2>1, <2>3, <3>1 DEF Behind
  <2>4. QED
    BY <1>1, <1>2, <1>3, <2>1, <2>2, <2>3 DEF CutInv
<1>6. QED
  BY <1>4, <1>5

LEMMA LeavesCuts ==
  ASSUME MoeRunAssumption, Inv, NEW r \in Ranks, Leaves(r), NEW x \in Ranks, NEW y \in Ranks
  PROVE  CutInv(x, y)'
<1>1. /\ TypeOK /\ Entry /\ CutInv(x, y) /\ Beside(r) /\ cut' = cut /\ Working(r) /\ inside[r]
      /\ Complete(r) /\ entered' = entered /\ vetoed' = vetoed
  BY DEF Inv, Leaves
<1>2. CASE x = r
  BY <1>1, <1>2 DEF CutInv, Working
<1>3. CASE x # r /\ y # r
  <2>1. pc'[x] = pc[x] /\ replica'[x] = replica[x] /\ begun'[x] = begun[x]
    BY <1>1, <1>3 DEF Beside
  <2>2. QED
    BY <1>1, <1>3, <2>1, CutKeeps
<1>4. CASE x # r /\ y = r
  <2>1. SUFFICES ASSUME x \in cut, pc[x] # "failed"
                 PROVE  Passed(r)' =< entered[x] /\ Front(x, r)'
    BY <1>1, <1>4 DEF CutInv, Beside, Working
  <2>2. /\ replica'[x] = replica[x] /\ begun'[x] = begun[x]
        /\ Front(x, r) \/ Behind(x, r)
    BY <1>1, <1>4, <2>1 DEF Beside, CutInv, Working
  <2>3. entered[r] \in Nat /\ entered[x] \in Nat /\ entered[r] =< entered[x]
        /\ entered[x] =< entered[r] + 1
    BY <1>1, TypedRank DEF Complete, Entry
  <2>4. Passed(r)' = entered[r] /\ Passed(r) = entered[r] - 1
    BY <1>1 DEF Passed, Leaves
  <2>5. /\ pc'[r] = (IF Good(r) THEN After[pc[r]] ELSE "idle")
        /\ begun'[r] = NextBegun(r)
        /\ replica'[r] = (IF Good(r) THEN replica[r] ELSE Settled(r))
    BY DEF Leaves
  <2>6. /\ After["admission"] = "consensus" /\ After["consensus"] = "forward"
        /\ After["schedule"] = "idle" /\ After["confirm"] = "idle"
    BY DEF After, Phases, Loading, StepCall, BeforeForward, BeforeRetry, Retryable, Saving, Ended
  <2>7. CASE Front(x, r)
    <3>1. pc[r] \in {"idle", "admission", "consensus", "forward"}
          /\ replica[r] = replica[x] /\ begun[r] = begun[x]
      BY <2>7 DEF Front
    <3>2. pc[r] \in {"admission", "consensus"}
      <4>1. pc[r] # "forward"
        BY <2>3, <2>4, <2>7 DEF Front
      <4>2. pc[r] # "idle"
        <5>1. RankInv(r)
          BY DEF Inv
        <5>2. QED
          BY <1>1, <5>1 DEF RankInv, Working, Collectives, Loading, StepCall, BeforeForward,
                            BeforeRetry, Retryable, Saving
      <4>3. QED
        BY <3>1, <4>1, <4>2
    <3>3. replica'[r] = replica[x] /\ begun'[r] = begun[x]
      BY <2>5, <3>1, FrontExcludes DEF NextBegun
    <3>4. CASE ~Good(r)
      BY <2>2, <2>3, <2>4, <2>5, <3>3, <3>4 DEF Front
    <3>5. CASE Good(r) /\ pc[r] = "admission"
      <4>1. pc'[r] = "consensus" /\ Passed(r)' >= entered[x] - 1
        BY <2>3, <2>4, <2>5, <2>6, <3>5
      <4>2. QED
        BY <1>1, <1>4, <2>2, <2>3, <2>4, <3>3, <4>1 DEF Front
    <3>6. CASE Good(r) /\ pc[r] = "consensus"
      <4>1. pc'[r] = "forward"
        BY <2>5, <2>6, <3>6
      <4>2. Passed(r) >= entered[x] - 1
        BY <2>7, <3>6 DEF Front
      <4>3. Passed(r)' = entered[x]
        BY <2>3, <2>4, <4>2
      <4>4. QED
        BY <1>1, <2>2, <2>3, <2>4, <3>3, <4>1, <4>3 DEF Front
    <3>7. QED
      BY <3>2, <3>4, <3>5, <3>6
  <2>8. CASE Behind(x, r)
    <3>1. pc'[r] = "idle" /\ replica'[r] = replica[x] /\ begun'[r] = begun[x]
      BY <2>5, <2>6, <2>8 DEF Behind
    <3>2. QED
      BY <2>2, <2>3, <2>4, <3>1 DEF Front
  <2>9. QED
    BY <2>2, <2>7, <2>8
<1>5. QED
  BY <1>2, <1>3, <1>4

LEMMA TurnsCuts ==
  ASSUME MoeRunAssumption, Inv, NEW r \in Ranks, Turns(r), NEW x \in Ranks, NEW y \in Ranks
  PROVE  CutInv(x, y)'
<1>1. /\ TypeOK /\ CutInv(x, y) /\ Beside(r) /\ cut' = cut /\ ~inside[r] /\ pc[r] # "failed"
      /\ entered' = entered /\ vetoed' = vetoed
      /\ replica'[r] = replica[r] /\ begun'[r] = begun[r]
  BY DEF Inv, Turns
<1>2. \A z \in Ranks : replica'[z] = replica[z] /\ begun'[z] = begun[z] /\ (pc'[z] # "failed" => pc[z] # "failed")
  BY <1>1 DEF Beside
<1>3. CASE y # r
  BY <1>1, <1>2, <1>3, CutKeeps
<1>4. CASE y = r
  <2>1. SUFFICES ASSUME x \in cut, pc'[x] # "failed"
                 PROVE  IF r \in cut THEN replica[r] = replica[x] /\ begun[r] = begun[x]
                        ELSE Passed(r)' =< entered[x] /\ (Front(x, r)' \/ Behind(x, r)')
    BY <1>1, <1>2, <1>4 DEF CutInv
  <2>2. CASE r \in cut
    BY <1>1, <1>2, <1>4, <2>1, <2>2 DEF CutInv
  <2>3. CASE r \notin cut
    <3>1. x # r /\ Passed(r) =< entered[x] /\ Front(x, r)
      BY <1>1, <1>2, <1>4, <2>1, <2>3 DEF CutInv, Behind
    <3>2. Passed(r)' = Passed(r)
      BY <1>1 DEF Turns, Passed
    <3>3. pc'[r] # "save"
      <4> SUFFICES ASSUME pc'[r] = "save"
                   PROVE  FALSE
        OBVIOUS
      <4>1. Place(r) = "save"
        BY DEF Turns, Place, Seat
      <4>2. ~(replica[r].step < begun[r] + length)
        BY <4>1 DEF Turns, Place, Seat, End
      <4>3. replica[x].step < begun[x] + length
        <5>1. RankInv(x) /\ pc[x] # "failed"
          BY <1>2, <2>1 DEF Inv
        <5>2. QED
          BY <2>1, <5>1 DEF RankInv, End
      <4>4. QED
        BY <3>1, <4>2, <4>3 DEF Front
    <3>4. Front(x, r)'
      BY <1>1, <1>2, <3>1, <3>3 DEF Front, Turns
    <3>5. QED
      BY <2>3, <3>1, <3>2, <3>4
  <2>4. QED
    BY <2>2, <2>3
<1>5. QED
  BY <1>3, <1>4

LEMMA EndsCuts ==
  ASSUME Inv, NEW r \in Ranks, Ends(r), NEW x \in Ranks, NEW y \in Ranks
  PROVE  CutInv(x, y)'
<1>1. CutInv(x, y) /\ Beside(r) /\ cut' = cut /\ pc'[r] = "failed" /\ entered' = entered /\ vetoed' = vetoed
  BY DEF Inv, Ends
<1>2. CASE x = r \/ y = r
  BY <1>1, <1>2 DEF CutInv
<1>3. CASE x # r /\ y # r
  <2>1. pc'[x] = pc[x] /\ replica'[x] = replica[x] /\ begun'[x] = begun[x]
    BY <1>1, <1>3 DEF Beside
  <2>2. QED
    BY <1>1, <1>3, <2>1, CutKeeps
<1>4. QED
  BY <1>2, <1>3

\* The moment a transport breaks: what the order of the ranks says of the others.
LEMMA BreaksCuts ==
  ASSUME MoeRunAssumption, Inv, NEW r \in Ranks, Breaks(r), NEW x \in Ranks, NEW y \in Ranks
  PROVE  CutInv(x, y)'
<1>1. /\ TypeOK /\ Entry /\ CutInv(x, y) /\ CutInv(x, r) /\ CutInv(y, r) /\ PairInv(y, r) /\ PairInv(r, y)
      /\ RankInv(r) /\ RankInv(y)
      /\ Beside(r) /\ entered' = entered /\ vetoed' = vetoed /\ cut' = cut \union {r}
      /\ Working(r) /\ pc[r] \in BeforeForward /\ pc'[r] = "idle"
      /\ replica'[r] = replica[r] /\ begun'[r] = begun[r] /\ length' = length
  BY DEF Inv, Breaks, Beside
<1>2. \A z \in Ranks : replica'[z] = replica[z] /\ begun'[z] = begun[z]
                       /\ (pc'[z] # "failed" => pc[z] # "failed")
  BY <1>1 DEF Beside, BeforeForward
<1>3. CASE x # r /\ y # r
  BY <1>1, <1>2, <1>3, CutKeeps
<1>4. CASE x = r /\ y = r
  BY <1>1, <1>4 DEF CutInv
<1>5. CASE x # r /\ y = r
  <2> SUFFICES ASSUME x \in cut, pc[x] # "failed"
               PROVE  replica[r] = replica[x] /\ begun[r] = begun[x]
    BY <1>1, <1>2, <1>5 DEF CutInv
  <2>1. Front(x, r) \/ Behind(x, r)
    BY <1>1, <1>5 DEF CutInv, Working
  <2>2. ~Behind(x, r)
    BY <1>1 DEF Behind, BeforeForward, Retryable
  <2>3. QED
    BY <2>1, <2>2 DEF Front
<1>6. CASE x = r /\ y # r /\ y \in cut
  <2> SUFFICES ASSUME pc[y] # "failed"
               PROVE  replica[y] = replica[r] /\ begun[y] = begun[r]
    BY <1>1, <1>2, <1>6 DEF CutInv
  <2>1. Front(y, r) \/ Behind(y, r)
    BY <1>1, <1>6 DEF CutInv, Working
  <2>2. ~Behind(y, r)
    BY <1>1 DEF Behind, BeforeForward, Retryable
  <2>3. QED
    BY <2>1, <2>2 DEF Front
<1>7. CASE x = r /\ y # r /\ y \notin cut
  <2>1. /\ Passed(y)' = Passed(y) /\ (Front(r, y)' <=> Front(r, y)) /\ (Behind(r, y)' <=> Behind(r, y))
        /\ pc'[y] = pc[y] /\ (y \in cut' <=> y \in cut)
    <3>1. /\ Passed(y)' = Passed(y) /\ Settled(y)' = Settled(y) /\ NextBegun(y)' = NextBegun(y)
          /\ (y \in cut' <=> y \in cut) /\ pc'[y] = pc[y] /\ inside'[y] = inside[y]
          /\ (Good(y)' <=> Good(y)) /\ (Complete(y)' <=> Complete(y))
      BY <1>1, <1>7, OthersKeep DEF Beside, Good, Complete
    <3>2. QED
      BY <1>1, <1>2, <3>1 DEF Front, Behind
  <2> SUFFICES ASSUME pc[y] # "failed"
               PROVE  Passed(y) =< entered[r] /\ (Front(r, y) \/ Behind(r, y))
    BY <1>1, <1>7, <2>1 DEF CutInv
  <2>2. Working(y)
    BY <1>7 DEF Working
  <2>3. /\ entered[r] \in Nat /\ entered[y] \in Nat /\ inside[r] \in BOOLEAN /\ inside[y] \in BOOLEAN
        /\ Passed(r) = (IF inside[r] THEN entered[r] - 1 ELSE entered[r])
        /\ Passed(y) = (IF inside[y] THEN entered[y] - 1 ELSE entered[y])
        /\ entered[y] =< entered[r] + 1
        /\ ~inside[y] => entered[y] =< entered[r]
    BY <1>1, <2>2, TypedRank DEF Entry, Passed
  <2>4. Passed(y) =< entered[r]
    BY <2>3
  <2>5. Place(r) = pc[r] /\ pc[r] \in {"admission", "consensus"} /\ Settled(r) = replica[r]
    BY <1>1, FrontExcludes DEF BeforeForward, Place, Seat
  <2>6. Place(y) \in {"admission", "consensus", "forward"} => pc[y] \in {"idle", "admission", "consensus", "forward"}
    BY DEF Place, Seat
  <2>7. CASE Passed(y) = Passed(r)
    <3>1. Place(y) = pc[r] /\ begun[y] = begun[r] /\ Settled(y) = replica[r]
      BY <1>1, <2>2, <2>5, <2>7 DEF PairInv, Alike, Loading
    <3>2. pc[y] \in {"idle", "admission", "consensus", "forward"} /\ Place(y) # "forward"
      BY <2>5, <2>6, <3>1
    <3>3. pc[y] # "forward" /\ replica[y] = replica[r]
      BY <3>1, <3>2, FrontExcludes DEF Place, Seat
    <3>4. QED
      BY <2>3, <2>4, <2>7, <3>1, <3>2, <3>3 DEF Front
  <2>8. CASE Passed(y) = Passed(r) + 1
    <3>1. Follows(y, r)
      BY <1>1, <2>2, <2>8 DEF PairInv
    <3>2. inside[r] /\ Place(y) = NextPlace(r)
      BY <3>1 DEF Follows
    <3>3. After["admission"] = "consensus" /\ After["consensus"] = "forward"
      BY DEF After, Phases, Loading, StepCall, BeforeForward, BeforeRetry, Retryable, Saving, Ended
    <3>4. Place(y) \in {"admission", "consensus", "forward"}
      BY <2>5, <3>2, <3>3 DEF NextPlace, Seat
    <3>5. begun[y] = begun[r] /\ Settled(y) = replica[r]
      BY <2>5, <3>1, <3>4 DEF Follows, NextBegun, NextSettled, Loading
    <3>6. replica[y] = replica[r] /\ pc[y] \in {"idle", "admission", "consensus", "forward"}
      BY <2>6, <3>4, <3>5, FrontExcludes
    <3>7. Passed(y) = entered[r]
      BY <2>3, <2>8, <3>2
    <3>8. QED
      BY <2>3, <2>4, <3>5, <3>6, <3>7 DEF Front
  <2>9. CASE Passed(r) = Passed(y) + 1
    <3>1. Follows(r, y)
      BY <1>1, <2>2, <2>9 DEF PairInv
    <3>2. /\ inside[y] /\ Complete(y) /\ pc[r] = NextPlace(y)
          /\ begun[r] = NextBegun(y) /\ replica[r] = NextSettled(y)
      BY <2>5, <3>1 DEF Follows, Loading
    <3>3. pc[y] \in Collectives
      BY <1>1, <2>2, <3>2 DEF RankInv, Working
    <3>4. CASE ~Good(y)
      <4>1. pc[y] \in BeforeForward \union Retryable /\ Settled(y) = replica[r]
        BY <3>1, <3>2, <3>4 DEF Follows, NextSettled
      <4>2. CASE pc[y] \in Retryable
        BY <2>4, <3>2, <3>4, <4>1, <4>2 DEF Behind
      <4>3. CASE pc[y] \in BeforeForward
        <5>1. replica[y] = replica[r] /\ begun[y] = begun[r]
          BY <3>2, <4>1, <4>3, FrontExcludes DEF BeforeForward, NextBegun
        <5>2. Front(r, y)
          BY <3>2, <3>4, <4>3, <5>1 DEF Front, BeforeForward
        <5>3. QED
          BY <2>4, <5>2
      <4>4. QED
        BY <2>4, <4>1, <4>2, <4>3
    <3>5. CASE Good(y)
      <4>1. pc[y] \in {"schedule", "confirm", "admission"}
        BY <2>5, <3>2, <3>3, <3>5
           DEF NextPlace, Seat, Collectives, After, Phases, Loading, StepCall, BeforeForward, BeforeRetry,
               Retryable, Saving, Ended
      <4>2. CASE pc[y] \in {"schedule", "confirm"}
        <5>1. replica[y] = replica[r]
          BY <3>2, <3>5, <4>2 DEF NextSettled, Settled, Trial
        <5>2. QED
          BY <2>4, <3>2, <3>5, <4>2, <5>1 DEF Behind
      <4>3. CASE pc[y] = "admission"
        <5>1. replica[y] = replica[r] /\ begun[y] = begun[r]
          BY <3>2, <4>3, FrontExcludes DEF NextSettled, NextBegun
        <5>2. QED
          BY <2>4, <4>3, <5>1 DEF Front
      <4>4. QED
        BY <4>1, <4>2, <4>3
    <3>6. QED
      BY <3>4, <3>5
  <2>10. Passed(y) \in Int /\ Passed(r) \in Int /\ Passed(y) =< Passed(r) + 1 /\ Passed(r) =< Passed(y) + 1
    BY <1>1, <2>2, TypedRank DEF PairInv
  <2>11. QED
    BY <2>7, <2>8, <2>9, <2>10
<1>8. QED
  BY <1>3, <1>4, <1>5, <1>6, <1>7

-------------------------------------------------------------------------------
(* The checkpoint                                                             *)

\* Where the others are while rank 0 is about to publish.
LEMMA WhilePublishing ==
  ASSUME MoeRunAssumption, Inv, Working(0), pc[0] = "publication", ~inside[0],
         NEW y \in Ranks, Working(y)
  PROVE  /\ replica[y] = replica[0]
         /\ \/ pc[y] = "publication" /\ Passed(y) = entered[0]
            \/ pc[y] = "agreement" /\ Passed(y) + 1 = entered[0]
<1>1. 0 \in Ranks
  BY DEF MoeRunAssumption
<1>2. TypeOK /\ PairInv(0, y) /\ PairInv(y, 0) /\ RankInv(y) /\ entered[0] \in Nat /\ Passed(y) \in Int
      /\ Passed(0) = entered[0] /\ Passed(0) \in Int
  BY <1>1, TypedRank DEF Inv, Passed
<1>3. Place(0) = "publication" /\ Settled(0) = replica[0] /\ "publication" \notin Loading
  BY DEF Place, Seat, Settled, Trial, Loading
<1>4. CASE Passed(0) = Passed(y)
  <2>1. Place(y) = "publication" /\ Settled(y) = Settled(0)
    BY <1>2, <1>3, <1>4 DEF PairInv, Alike
  <2>2. pc[y] = "publication"
    BY <2>1, SeatTells
  <2>3. QED
    BY <1>2, <1>3, <1>4, <2>1, <2>2 DEF Settled, Trial
<1>5. CASE Passed(0) = Passed(y) + 1
  <2>1. inside[y] /\ NextPlace(y) = "publication" /\ NextSettled(y) = replica[0]
    BY <1>2, <1>3, <1>5 DEF PairInv, Follows
  <2>2. pc[y] \in Collectives
    BY <1>2, <2>1 DEF RankInv, Working
  <2>3. Good(y) /\ After[pc[y]] = "publication"
    BY <2>1 DEF NextPlace, Seat
  <2>4. pc[y] = "agreement"
    BY <2>2, <2>3 DEF Collectives, After, Phases, Loading, StepCall, BeforeForward, BeforeRetry,
                      Retryable, Saving, Ended
  <2>5. replica[y] = replica[0]
    BY <2>1, <2>4 DEF NextSettled, Settled, Trial
  <2>6. QED
    BY <1>2, <1>5, <2>4, <2>5
<1>6. CASE Passed(y) = Passed(0) + 1
  <2>1. inside[0]
    BY <1>2, <1>6 DEF PairInv, Follows
  <2>2. QED
    BY <2>1
<1>7. QED
  BY <1>2, <1>4, <1>5, <1>6 DEF PairInv

\* A rank that is saving has a transport.
LEMMA SavingWorks ==
  ASSUME Inv, NEW y \in Ranks, pc[y] \in {"agreement", "publication", "exited"}
  PROVE  Working(y)
  BY DEF Inv, RankInv, Working

LEMMA EntersPublished ==
  ASSUME MoeRunAssumption, Inv, NEW r \in Ranks, Enters(r), NEW y \in Ranks, launches' = launches,
         r # 0 \/ pc[r] # "publication" => checkpoint' = checkpoint,
         r = 0 /\ pc[r] = "publication" /\ entered[r] + 1 \notin vetoed' => checkpoint' = replica[r]
  PROVE  PublishedInv(y)'
<1>1. /\ TypeOK /\ Entry /\ PublishedInv(y) /\ Beside(r) /\ ~inside[r] /\ Working(r)
      /\ pc'[r] = pc[r] /\ inside'[r] = TRUE /\ entered'[r] = entered[r] + 1
      /\ vetoed \subseteq vetoed' /\ 0 \in Ranks /\ pc[r] \in Collectives
  BY DEF Inv, Enters, MoeRunAssumption
<1>2. /\ pc'[y] = pc[y] /\ Passed(y)' = Passed(y) /\ Passed(y) \in Int
      /\ entered[0] \in Nat /\ entered[r] \in Nat
      /\ pc[y] \in {"agreement", "publication", "exited"} => replica'[y] = replica[y]
  <2>1. pc'[y] = pc[y] /\ Passed(y)' = Passed(y)
    BY <1>1, OthersKeep, TypedRank DEF Beside, Passed
  <2>2. Passed(y) \in Int /\ entered[0] \in Nat /\ entered[r] \in Nat
    BY <1>1, TypedRank
  <2>3. pc[y] \in {"agreement", "publication", "exited"} => replica'[y] = replica[y]
    BY <1>1 DEF Enters, Beside
  <2>4. QED
    BY <2>1, <2>2, <2>3
<1>3. CASE r = 0 /\ pc[r] = "publication"
  <2>1. SUFFICES ASSUME pc[y] \in {"agreement", "publication", "exited"}
                 PROVE  PublishedInv(y)'
    BY <1>2 DEF PublishedInv
  <2>2. Working(y)
    BY <2>1, SavingWorks
  <2>3. replica[y] = replica[0]
        /\ \/ pc[y] = "publication" /\ Passed(y) = entered[0]
           \/ pc[y] = "agreement" /\ Passed(y) + 1 = entered[0]
    BY <1>1, <1>3, <2>2, WhilePublishing
  <2>4. entered[0] + 1 \notin vetoed' => checkpoint' = replica'[y]
    BY <1>2, <1>3, <2>1, <2>3
  <2>5. (pc[y] = "publication" => Passed(y) + 1 = entered[0] + 1)
        /\ (pc[y] = "agreement" => Passed(y) + 2 = entered[0] + 1) /\ pc[y] # "exited"
    BY <1>2, <2>3
  <2>6. QED
    BY <1>2, <2>4, <2>5 DEF PublishedInv
<1>4. CASE r # 0 \/ pc[r] # "publication"
  <2>1. checkpoint' = checkpoint
    BY <1>4
  <2>2. ASSUME pc[y] = "publication", entered'[0] >= Passed(y) + 1
        PROVE  entered[0] >= Passed(y) + 1
    <3>1. CASE r # 0
      BY <1>1, <2>2, <3>1 DEF Beside
    <3>2. CASE r = 0
      <4> SUFFICES ASSUME entered[0] = Passed(y)
                   PROVE  FALSE
        BY <1>1, <1>2, <2>2, <3>2
      <4>1. Working(y) /\ Passed(0) = entered[0]
        BY <1>1, <2>2, <3>2, SavingWorks DEF Passed
      <4>2. Alike(0, y)
        BY <1>1, <3>2, <4>1 DEF Inv, PairInv
      <4>3. Place(0) = "publication"
        BY <2>2, <4>2 DEF Alike, Place, Seat
      <4>4. QED
        BY <1>4, <3>2, <4>3, SeatTells
    <3>3. QED
      BY <3>1, <3>2
  <2>3. ASSUME pc[y] = "agreement", entered'[0] >= Passed(y) + 2
        PROVE  entered[0] >= Passed(y) + 2
    <3>1. CASE r # 0
      BY <1>1, <2>3, <3>1 DEF Beside
    <3>2. CASE r = 0
      <4> SUFFICES ASSUME entered[0] = Passed(y) + 1
                   PROVE  FALSE
        BY <1>1, <1>2, <2>3, <3>2
      <4>1. Working(y) /\ Passed(0) = entered[0]
        BY <1>1, <2>3, <3>2, SavingWorks DEF Passed
      <4>2. Follows(0, y)
        BY <1>1, <3>2, <4>1 DEF Inv, PairInv
      <4>3. Good(y)
        BY <2>3, <4>2 DEF Follows, BeforeForward, Retryable
      <4>4. After["agreement"] = "publication"
        BY DEF After, Phases, Loading, StepCall, BeforeForward, BeforeRetry, Retryable, Saving, Ended
      <4>5. Place(0) = "publication"
        BY <2>3, <4>2, <4>3, <4>4 DEF Follows, NextPlace, Seat
      <4>6. QED
        BY <1>4, <3>2, <4>5, SeatTells
    <3>3. QED
      BY <3>1, <3>2
  <2>4. QED
    BY <1>1, <1>2, <2>1, <2>2, <2>3 DEF PublishedInv
<1>5. QED
  BY <1>3, <1>4

LEMMA OthersPublished ==
  ASSUME MoeRunAssumption, Inv, NEW r \in Ranks, Beside(r), entered' = entered, vetoed' = vetoed,
         checkpoint' = checkpoint, launches' = launches, NEW y \in Ranks \ {r}
  PROVE  PublishedInv(y)'
<1>1. PublishedInv(y) /\ pc'[y] = pc[y] /\ replica'[y] = replica[y] /\ Passed(y)' = Passed(y)
  BY OthersKeep DEF Inv, Beside
<1>2. QED
  BY <1>1 DEF PublishedInv

LEMMA LeavesPublished ==
  ASSUME MoeRunAssumption, Inv, NEW r \in Ranks, Leaves(r), NEW y \in Ranks,
         checkpoint' = checkpoint, launches' = launches
  PROVE  PublishedInv(y)'
<1>1. /\ TypeOK /\ Entry /\ PublishedInv(r) /\ RankInv(r) /\ 0 \in Ranks
      /\ entered' = entered /\ vetoed' = vetoed /\ Beside(r) /\ Complete(r)
  BY DEF Inv, Leaves, MoeRunAssumption
<1>2. CASE y # r
  BY <1>1, <1>2, OthersPublished
<1>3. CASE y = r
  <2>1. Passed(r)' = Passed(r) + 1 /\ Passed(r)' = entered[r] /\ entered[r] \in Nat /\ entered[0] \in Nat
        /\ entered[0] =< entered[r] + 1 /\ entered[r] =< entered[0]
    <3>1. Passed(r)' = entered[r] /\ Passed(r) = entered[r] - 1
      BY DEF Leaves, Passed
    <3>2. entered[r] \in Nat /\ entered[0] \in Nat /\ entered[0] =< entered[r] + 1 /\ entered[r] =< entered[0]
      BY <1>1, TypedRank DEF Entry, Complete
    <3>3. QED
      BY <3>1, <3>2
  <2>2. pc[r] \in Collectives
    BY <1>1 DEF RankInv, Leaves, Working
  <2>3. /\ pc'[r] = "publication" => Good(r) /\ pc[r] = "agreement"
        /\ pc'[r] = "exited" => Good(r) /\ pc[r] = "publication"
    BY <2>2 DEF Leaves, Collectives, After, Phases, Loading, StepCall, BeforeForward, BeforeRetry,
                Retryable, Saving, Ended
  <2>4. Good(r) => replica'[r] = replica[r]
    BY DEF Leaves
  <2>5. ASSUME pc'[r] = "publication", entered[0] >= Passed(r)' + 1, Passed(r)' + 1 \notin vetoed
        PROVE  checkpoint = replica'[r]
    <3>1. entered[0] >= Passed(r) + 2 /\ Passed(r) + 2 \notin vetoed
      <4>1. Passed(r)' + 1 = Passed(r) + 2
        BY <2>1 DEF Leaves, Passed
      <4>2. QED
        BY <2>5, <4>1
    <3>2. QED
      BY <1>1, <2>3, <2>4, <2>5, <3>1 DEF PublishedInv
  <2>6. ~(entered[0] >= Passed(r)' + 2)
    BY <2>1
  <2>7. ASSUME pc'[r] = "exited"
        PROVE  checkpoint = replica'[r]
    <3>1. pc[r] = "publication" /\ Good(r) /\ Passed(r) + 1 = entered[r]
      BY <2>1, <2>3, <2>7
    <3>2. QED
      BY <1>1, <2>1, <2>4, <3>1 DEF PublishedInv, Good
  <2>8. QED
    BY <1>1, <1>3, <2>5, <2>6, <2>7 DEF PublishedInv
<1>4. QED
  BY <1>2, <1>3

LEMMA RestPublished ==
  ASSUME MoeRunAssumption, Inv, NEW r \in Ranks, Turns(r) \/ Breaks(r) \/ Ends(r), NEW y \in Ranks,
         checkpoint' = checkpoint, launches' = launches
  PROVE  PublishedInv(y)'
<1>1. /\ entered' = entered /\ vetoed' = vetoed /\ Beside(r)
      /\ pc'[r] \notin {"publication", "agreement", "exited"}
  BY DEF Turns, Breaks, Ends
<1>2. CASE y # r
  BY <1>1, <1>2, OthersPublished
<1>3. CASE y = r
  BY <1>1, <1>3 DEF PublishedInv
<1>4. QED
  BY <1>2, <1>3

-------------------------------------------------------------------------------
(* A confirmed update is sound                                                *)

LEMMA EntersConfirm ==
  ASSUME MoeRunAssumption, Inv, NEW r \in Ranks, Enters(r), NEW y \in Ranks
  PROVE  ConfirmInv(y)'
<1>1. /\ TypeOK /\ Entry /\ Skews /\ Beside(r) /\ ~inside[r] /\ Working(r) /\ pc'[r] = pc[r]
      /\ entered'[r] = entered[r] + 1 /\ vetoed \subseteq vetoed'
  BY DEF Inv, Enters
<1>2. SUFFICES ASSUME Replicated, pc'[y] = "confirm", inside'[y], entered'[y] \notin vetoed',
                      \A s \in Ranks : entered'[s] >= entered'[y]
               PROVE  replica'[y].skew = {}
  BY DEF ConfirmInv, Good, Complete, Sound
<1>3. \A s \in Ranks : entered[s] \in Nat /\ (s # r => entered'[s] = entered[s])
  BY <1>1, TypedRank DEF Beside
<1>4. pc[y] = "confirm" /\ replica'[y] = replica[y]
  BY <1>1, <1>2 DEF Beside, Enters
<1>5. CASE y = r
  <2>1. PICK z \in Ranks : z # r
    BY <1>2 DEF Replicated
  <2>2. entered[z] = entered[r] + 1
    <3>1. entered[z] =< entered[r] + 1
      BY <1>1 DEF Entry
    <3>2. entered[z] >= entered[r] + 1
      BY <1>1, <1>2, <1>3, <1>5, <2>1
    <3>3. QED
      BY <1>3, <3>1, <3>2
  <2>3. Agree(r)
    BY <1>1, <1>2, <1>4, <1>5 DEF Enters
  <2>4. replica[z] = replica[r]
    BY <2>2, <2>3 DEF Agree
  <2>5. QED
    BY <1>1, <1>4, <1>5, <2>1, <2>4 DEF Skews
<1>6. CASE y # r
  <2>1. inside[y] /\ entered'[y] = entered[y] /\ entered[y] \notin vetoed
    BY <1>1, <1>2, <1>6 DEF Beside
  <2>2. CASE entered[r] >= entered[y]
    <3>1. Complete(y)
      BY <1>2, <1>3, <2>1, <2>2 DEF Complete
    <3>2. QED
      BY <1>2, <1>4, <2>1, <3>1 DEF Inv, ConfirmInv, Good, Sound
  <2>3. CASE ~(entered[r] >= entered[y])
    <3>1. entered[y] = entered[r] + 1
      BY <1>1, <1>2, <1>3, <2>1, <2>3
    <3>2. Working(y)
      BY <1>4, <2>1 DEF Inv, RankInv, Working
    <3>3. Passed(y) = Passed(r)
      BY <1>1, <1>3, <2>1, <3>1 DEF Passed
    <3>4. Place(r) = "confirm"
      BY <1>1, <1>4, <3>2, <3>3 DEF Inv, PairInv, Alike, Place, Seat
    <3>5. pc[r] = "confirm"
      BY <3>4, SeatTells
    <3>6. Agree(r)
      BY <1>2, <2>1, <3>1, <3>5 DEF Enters
    <3>7. replica[y] = replica[r]
      BY <3>1, <3>6 DEF Agree
    <3>8. QED
      BY <1>1, <1>4, <1>6, <3>7 DEF Skews
  <2>4. QED
    BY <2>2, <2>3
<1>7. QED
  BY <1>5, <1>6

LEMMA RestConfirm ==
  ASSUME Inv, NEW r \in Ranks, Leaves(r) \/ Turns(r) \/ Breaks(r) \/ Ends(r), NEW y \in Ranks
  PROVE  ConfirmInv(y)'
<1>1. Beside(r) /\ entered' = entered /\ vetoed' = vetoed
      /\ (inside'[r] = FALSE \/ pc'[r] = "failed")
  BY DEF Leaves, Turns, Breaks, Ends
<1>2. CASE y = r
  BY <1>1, <1>2 DEF ConfirmInv
<1>3. CASE y # r
  BY <1>1, <1>3 DEF Inv, ConfirmInv, Beside, Good, Complete
<1>4. QED
  BY <1>2, <1>3

-------------------------------------------------------------------------------
(* Steps of one rank                                                          *)

LEMMA OthersRank ==
  ASSUME Inv, NEW r \in Ranks, Beside(r), NEW s \in Ranks \ {r}, vetoed \subseteq vetoed',
         checkpoint' = checkpoint \/ pc[s] \notin Loading
  PROVE  RankInv(s)'
<1>1. RankInv(s)
  BY DEF Inv
<1>2. /\ pc'[s] = pc[s] /\ inside'[s] = inside[s] /\ entered'[s] = entered[s]
      /\ begun'[s] = begun[s] /\ replica'[s] = replica[s] /\ saved'[s] = saved[s]
      /\ armed'[s] = armed[s] /\ calls'[s] = calls[s]
      /\ (s \in cut' <=> s \in cut) /\ length' = length
      /\ Settled(s)' = Settled(s) /\ (Trial(s)' <=> Trial(s)) /\ End(s)' = End(s)
      /\ (Good(s)' => Good(s))
  <2>1. /\ pc'[s] = pc[s] /\ inside'[s] = inside[s] /\ entered'[s] = entered[s]
        /\ begun'[s] = begun[s] /\ replica'[s] = replica[s] /\ saved'[s] = saved[s]
        /\ armed'[s] = armed[s] /\ calls'[s] = calls[s]
        /\ (s \in cut' <=> s \in cut) /\ length' = length
    BY DEF Beside
  <2>2. QED
    BY <2>1 DEF Settled, Trial, End, Good
<1>3. pc[s] \in Loading => checkpoint' = checkpoint /\ Base' = Base
  BY DEF Base
<1> HIDE DEF Base, Settled, Trial, End, Good
<1>4. pc[s] \in {"load", "restore", "schedule"} => pc[s] \in Loading
  BY DEF Loading
<1>5. QED
  BY <1>1, <1>2, <1>3, <1>4 DEF RankInv

LEMMA JoinFrame ==
  ASSUME MoeRunAssumption, TypeOK, NEW r \in Ranks, NEW good \in BOOLEAN, Join(r, good)
  PROVE  /\ inside'[r] = TRUE /\ entered'[r] = entered[r] + 1 /\ entered[r] \in Nat
         /\ \A s \in Ranks \ {r} : inside'[s] = inside[s] /\ entered'[s] = entered[s]
         /\ vetoed \subseteq vetoed' /\ vetoed' \subseteq vetoed \union {entered[r] + 1}
         /\ good \/ entered[r] + 1 \in vetoed'
         /\ inside' \in [Ranks -> BOOLEAN] /\ entered' \in [Ranks -> Nat] /\ vetoed' \in SUBSET Nat
         /\ UNCHANGED <<length, begun, pc, cut>>
<1>1. inside \in [Ranks -> BOOLEAN] /\ entered \in [Ranks -> Nat] /\ vetoed \in SUBSET Nat
  BY DEF TypeOK
<1>2. /\ inside' = [inside EXCEPT ![r] = TRUE] /\ entered' = [entered EXCEPT ![r] = @ + 1]
      /\ vetoed' = IF good THEN vetoed ELSE vetoed \union {entered[r] + 1}
      /\ UNCHANGED <<length, begun, pc, cut>>
  BY DEF Join
<1>3. entered[r] \in Nat /\ inside' \in [Ranks -> BOOLEAN] /\ entered' \in [Ranks -> Nat]
  BY <1>1, <1>2
<1>4. /\ inside'[r] = TRUE /\ entered'[r] = entered[r] + 1
      /\ \A s \in Ranks \ {r} : inside'[s] = inside[s] /\ entered'[s] = entered[s]
  BY <1>1, <1>2
<1>5. /\ vetoed \subseteq vetoed' /\ vetoed' \subseteq vetoed \union {entered[r] + 1}
      /\ good \/ entered[r] + 1 \in vetoed'
  BY <1>2
<1>6. vetoed' \in SUBSET Nat
  BY <1>1, <1>3, <1>5
<1>7. QED
  BY <1>2, <1>3, <1>4, <1>5, <1>6

\* r enters the collective of phase p with its replica, rollback point and reducer so.
Steps(r, p, good, rep, sav, arm) ==
  /\ Ready(r, p) /\ Join(r, good)
  /\ replica' = [replica EXCEPT ![r] = rep]
  /\ saved' = [saved EXCEPT ![r] = sav]
  /\ armed' = [armed EXCEPT ![r] = arm]
  /\ UNCHANGED <<calls, launches>>
  /\ faults' \in 0..MaxFaults

\* What it may bring along.
Brings(r, p, good, rep, sav, arm) ==
  /\ rep \in Replica /\ rep.skew \subseteq {r}
  /\ IF p = "restore" THEN good => rep = checkpoint
     ELSE IF p = "update" THEN rep.step = replica[r].step + 1
     ELSE rep = replica[r]
  /\ sav = (IF p = "forward" THEN replica[r] ELSE saved[r])
  /\ arm \in BOOLEAN
  /\ arm => p \in {"forward", "objective", "backward"}
  /\ p = "schedule" /\ good => replica[r].step + length =< MaxStep
  /\ p \in {"confirm", "agreement"} /\ good => Agree(r)

LEMMA StepsEnters ==
  ASSUME MoeRunAssumption, Inv, NEW r \in Ranks, NEW p \in Collectives, NEW good \in BOOLEAN, NEW rep, NEW sav,
         NEW arm, Steps(r, p, good, rep, sav, arm), Brings(r, p, good, rep, sav, arm)
  PROVE  /\ Enters(r) /\ pc[r] = p
         /\ replica'[r] = rep /\ saved'[r] = sav /\ armed'[r] = arm
<1>1. TypeOK /\ RankInv(r)
  BY DEF Inv
<1>2. /\ inside'[r] = TRUE /\ entered'[r] = entered[r] + 1
      /\ \A s \in Ranks \ {r} : inside'[s] = inside[s] /\ entered'[s] = entered[s]
      /\ vetoed \subseteq vetoed' /\ vetoed' \subseteq vetoed \union {entered[r] + 1}
      /\ good \/ entered[r] + 1 \in vetoed'
      /\ UNCHANGED <<length, begun, pc, cut>>
  BY <1>1, JoinFrame DEF Steps
<1>3. /\ replica'[r] = rep /\ saved'[r] = sav /\ armed'[r] = arm
      /\ \A s \in Ranks \ {r} : replica'[s] = replica[s] /\ saved'[s] = saved[s] /\ armed'[s] = armed[s]
      /\ calls' = calls
  BY <1>1 DEF Steps, TypeOK
<1>4. Beside(r)
  BY <1>2, <1>3 DEF Beside
<1>5. pc[r] = p /\ ~inside[r] /\ r \notin cut /\ p # "failed" /\ Working(r)
  BY DEF Steps, Ready, Working, Collectives, Loading, StepCall, BeforeForward, BeforeRetry, Retryable,
         Saving
<1>6. p \notin Loading => Settled(r)' = Settled(r)
  <2>1. CASE p = "update"
    <3>1. saved[r] = replica[r] /\ saved'[r] = saved[r]
      BY <1>1, <1>3, <1>5, <2>1 DEF RankInv, Brings
    <3>2. QED
      BY <1>2, <1>5, <2>1, <3>1 DEF Settled, Trial
  <2>2. CASE p # "update" /\ p \notin Loading
    <3>1. rep = replica[r] /\ (p = "confirm" => sav = saved[r])
      BY <2>2 DEF Brings, Loading
    <3>2. QED
      BY <1>2, <1>3, <1>5, <2>2, <3>1 DEF Settled, Trial
  <2>3. QED
    BY <2>1, <2>2
<1>7. /\ p = "forward" \/ saved'[r] = saved[r]
      /\ p \in {"restore", "update"} \/ replica'[r] = replica[r]
      /\ p \in {"confirm", "agreement"} /\ entered[r] + 1 \notin vetoed' => Agree(r)
  BY <1>2, <1>3 DEF Brings
<1>8. QED
  BY <1>2, <1>3, <1>4, <1>5, <1>6, <1>7 DEF Enters

LEMMA StepsRank ==
  ASSUME MoeRunAssumption, Inv, NEW r \in Ranks, NEW p \in Collectives, NEW good \in BOOLEAN, NEW rep, NEW sav,
         NEW arm, Steps(r, p, good, rep, sav, arm), Brings(r, p, good, rep, sav, arm),
         checkpoint' = checkpoint \/ p \notin Loading
  PROVE  RankInv(r)'
<1>1. TypeOK /\ RankInv(r) /\ Enters(r) /\ pc[r] = p
      /\ replica'[r] = rep /\ saved'[r] = sav /\ armed'[r] = arm
  BY StepsEnters DEF Inv
<1>2. /\ pc'[r] = p /\ inside'[r] /\ ~inside[r] /\ entered'[r] = entered[r] + 1 /\ entered[r] \in Nat
      /\ (Good(r)' => good) /\ begun' = begun /\ length' = length /\ cut' = cut /\ calls' = calls
      /\ r \notin cut /\ p # "failed"
  <2>1. Join(r, good)
    BY DEF Steps
  <2>2. /\ inside'[r] = TRUE /\ entered'[r] = entered[r] + 1 /\ entered[r] \in Nat
        /\ good \/ entered[r] + 1 \in vetoed'
        /\ UNCHANGED <<length, begun, pc, cut>>
    BY <1>1, <2>1, JoinFrame
  <2>3. QED
    BY <1>1, <2>2 DEF Good, Steps, Ready, Enters, Working
<1>3. /\ p = "restore" /\ good => rep = checkpoint
      /\ p = "update" => rep.step = replica[r].step + 1
      /\ p \notin {"restore", "update"} => rep = replica[r]
      /\ sav = (IF p = "forward" THEN replica[r] ELSE saved[r])
      /\ arm => p \in {"forward", "objective", "backward"}
      /\ p = "schedule" /\ good => replica[r].step + length =< MaxStep
  BY DEF Brings
<1>4. p \notin Loading => Settled(r)' = Settled(r)
  BY <1>1 DEF Enters
<1>5. (Trial(r)' <=> p \in {"update", "confirm"}) /\ (Trial(r) <=> p = "confirm") /\ End(r)' = End(r)
  BY <1>1, <1>2 DEF Trial, End
<1>6. /\ p \in {"load", "restore", "schedule"} <=> p \in Loading
      /\ p \notin {"idle", "exited"}
  BY DEF Collectives, Loading, StepCall, BeforeForward, BeforeRetry, Retryable, Saving
<1>7. p \in Loading => checkpoint' = checkpoint /\ Base' = Base
  BY DEF Base
<1>8. p \in Scheduled \union StepCall \union Saving => p \notin Loading
  BY DEF Loading, Scheduled, StepCall, BeforeForward, BeforeRetry, Retryable, Saving
<1> HIDE DEF Base, Settled, Trial, End, Good
<1>9. /\ p \in {"load", "restore"} => checkpoint' # None
      /\ p = "restore" /\ Good(r)' => rep = checkpoint'
      /\ p = "schedule" => rep = Base'
      /\ p = "schedule" /\ Good(r)' => rep.step + length =< MaxStep
  BY <1>1, <1>2, <1>3, <1>6, <1>7 DEF RankInv
<1>10. /\ p \in Scheduled => End(r) =< MaxStep /\ Sound(Settled(r)')
       /\ p \in StepCall => Settled(r)'.step < End(r) /\ calls[r] < MaxCalls
  BY <1>1, <1>2, <1>4, <1>8 DEF RankInv
<1>11. p \in Saving => rep.step = End(r)
  <2>1. p \in Saving => p \notin {"restore", "update"}
    BY DEF Saving
  <2>2. QED
    BY <1>1, <1>2, <1>3, <2>1 DEF RankInv
<1>12. Trial(r)' => rep.step = sav.step + 1
  <2>1. p = "update" => saved[r] = replica[r]
    BY <1>1, <1>2 DEF RankInv
  <2>2. p = "confirm" => replica[r].step = saved[r].step + 1
    BY <1>1, <1>2, <1>5 DEF RankInv
  <2>3. QED
    BY <1>3, <1>5, <2>1, <2>2
<1>13. p \in {"objective", "backward", "gradients", "forward"} => sav = rep
  BY <1>1, <1>2, <1>3 DEF RankInv
<1>14. QED
  BY <1>1, <1>2, <1>3, <1>5, <1>6, <1>9, <1>10, <1>11, <1>12, <1>13 DEF RankInv

\* Whatever r brings to a collective, the invariant holds with it.
LEMMA StepsInv ==
  ASSUME MoeRunAssumption, Inv, NEW r \in Ranks, NEW p \in Collectives, NEW good \in BOOLEAN,
         NEW rep, NEW sav, NEW arm, Steps(r, p, good, rep, sav, arm), Brings(r, p, good, rep, sav, arm),
         r # 0 \/ p # "publication" => checkpoint' = checkpoint,
         p = "publication" => checkpoint' \in {checkpoint, replica[0]},
         r = 0 /\ p = "publication" /\ good => checkpoint' = replica[0]
  PROVE  Inv'
<1>1. /\ TypeOK /\ Skews /\ Entry /\ Enters(r) /\ pc[r] = p /\ 0 \in Ranks /\ Beside(r)
      /\ vetoed \subseteq vetoed' /\ launches' = launches /\ calls' = calls
      /\ replica'[r] = rep /\ saved'[r] = sav /\ armed'[r] = arm
  <2>1. Enters(r) /\ pc[r] = p /\ replica'[r] = rep /\ saved'[r] = sav /\ armed'[r] = arm
    BY StepsEnters
  <2>2. QED
    BY <2>1 DEF Inv, Enters, Steps, MoeRunAssumption
<1>2. p = "publication" => p \notin Loading
  BY DEF Loading
<1>3. p = "publication" => replica[r] = rep
  BY DEF Brings
<1>4. r = 0 /\ p = "publication" /\ entered[r] + 1 \notin vetoed' => checkpoint' = replica[r]
  <2>1. Join(r, good)
    BY DEF Steps
  <2>2. good \/ entered[r] + 1 \in vetoed'
    BY <1>1, <2>1, JoinFrame
  <2>3. QED
    BY <2>2
<1>5. checkpoint' = checkpoint \/ (p = "publication" /\ r = 0 /\ checkpoint' = replica[0])
  OBVIOUS
<1>6. TypeOK'
  <2>1. /\ checkpoint \in Replica \union {None} /\ length \in {0} \union Lengths
        /\ begun \in [Ranks -> 0..MaxStep] /\ pc \in [Ranks -> Phases] /\ cut \in SUBSET Ranks
        /\ replica \in [Ranks -> Replica] /\ saved \in [Ranks -> Replica]
        /\ armed \in [Ranks -> BOOLEAN] /\ calls \in [Ranks -> 0..MaxCalls]
        /\ launches \in 0..MaxLaunches
    BY <1>1 DEF TypeOK
  <2>2. /\ inside' \in [Ranks -> BOOLEAN] /\ entered' \in [Ranks -> Nat] /\ vetoed' \in SUBSET Nat
        /\ UNCHANGED <<length, begun, pc, cut>>
    <3>1. Join(r, good)
      BY DEF Steps
    <3>2. QED
      BY <1>1, <3>1, JoinFrame
  <2>3. rep \in Replica /\ sav \in Replica /\ arm \in BOOLEAN
    BY <2>1 DEF Brings
  <2>4. /\ replica' \in [Ranks -> Replica] /\ saved' \in [Ranks -> Replica] /\ armed' \in [Ranks -> BOOLEAN]
        /\ UNCHANGED <<calls, launches>> /\ faults' \in 0..MaxFaults
    BY <2>1, <2>3 DEF Steps
  <2>5. checkpoint' \in Replica \union {None}
    BY <1>1, <1>5, <2>1
  <2>6. QED
    BY <2>1, <2>2, <2>4, <2>5 DEF TypeOK
<1>7. Skews'
  <2>1. pc[0] = "publication" => Sound(replica[0])
    BY <1>1, FrontExcludes DEF Inv, RankInv, Scheduled, Saving, Settled, Trial
  <2>2. checkpoint' # None => Sound(checkpoint')
    BY <1>1, <1>5, <2>1 DEF Skews
  <2>3. rep.skew \subseteq {r} /\ Sound(sav)
    <3>1. p = "forward" => Sound(replica[r])
      BY <1>1 DEF Inv, RankInv, Scheduled, StepCall, BeforeRetry, Settled, Trial
    <3>2. QED
      BY <1>1, <3>1 DEF Brings, Skews
  <2>4. ASSUME NEW s \in Ranks PROVE Sound(saved'[s]) /\ replica'[s].skew \subseteq {s}
    BY <1>1, <2>3 DEF Skews, Beside
  <2>5. QED
    BY <2>2, <2>4 DEF Skews
<1>8. ASSUME NEW s \in Ranks PROVE RankInv(s)'
  <2>1. CASE s = r
    <3>1. checkpoint' = checkpoint \/ p \notin Loading
      BY <1>2, <1>5
    <3>2. QED
      BY <2>1, <3>1, StepsRank
  <2>2. CASE s # r
    <3>1. checkpoint' = checkpoint \/ pc[s] \notin Loading
      <4> SUFFICES ASSUME p = "publication", r = 0
                   PROVE  pc[s] \notin Loading
        BY <1>5
      <4>1. CASE Working(s)
        <5>1. Working(0) /\ ~inside[0] /\ pc[0] = "publication"
          BY <1>1 DEF Enters
        <5>2. pc[s] \in {"publication", "agreement"}
          BY <4>1, <5>1, WhilePublishing
        <5>3. QED
          BY <5>2 DEF Loading
      <4>2. CASE ~Working(s)
        BY <4>2 DEF Working, Inv, RankInv, Loading
      <4>3. QED
        BY <4>1, <4>2
    <3>2. QED
      BY <1>1, <2>2, <3>1, OthersRank
  <2>3. QED
    BY <2>1, <2>2
<1>9. Entry' /\ \A s \in Ranks : ConfirmInv(s)'
  BY <1>1, EntersEntry, EntersConfirm
<1>10. \A s \in Ranks : PublishedInv(s)'
  BY <1>1, <1>4, EntersPublished
<1>11. \A x, y \in Ranks : PairInv(x, y)' /\ CutInv(x, y)'
  BY <1>1, EntersPairs, EntersCuts
<1>12. QED
  BY <1>6, <1>7, <1>8, <1>9, <1>10, <1>11 DEF Inv

\* r takes another turn: it leaves a collective, moves between calls, or breaks its transport.
LEMMA TurnsInv ==
  ASSUME MoeRunAssumption, Inv, NEW r \in Ranks, Leaves(r) \/ Turns(r) \/ Breaks(r) \/ Ends(r),
         RankInv(r)', TypeOK', checkpoint' = checkpoint, launches' = launches,
         Sound(saved'[r]), replica'[r].skew \subseteq {r}
  PROVE  Inv'
<1>1. Beside(r) /\ vetoed' = vetoed /\ Entry /\ Skews
  BY DEF Inv, Leaves, Turns, Breaks, Ends
<1>2. \A s \in Ranks : RankInv(s)'
  <2>1. \A s \in Ranks \ {r} : RankInv(s)'
    BY <1>1, OthersRank
  <2>2. QED
    BY <2>1
<1>3. Skews'
  <2>1. ASSUME NEW s \in Ranks PROVE Sound(saved'[s]) /\ replica'[s].skew \subseteq {s}
    BY <1>1 DEF Skews, Beside
  <2>2. QED
    BY <1>1, <2>1 DEF Skews
<1>4. Entry' /\ \A s \in Ranks : ConfirmInv(s)' /\ PublishedInv(s)'
  <2>1. Entry'
    BY <1>1, LeavesEntry, StaysEntry
  <2>2. ASSUME NEW s \in Ranks PROVE ConfirmInv(s)' /\ PublishedInv(s)'
    BY RestConfirm, LeavesPublished, RestPublished
  <2>3. QED
    BY <2>1, <2>2
<1>5. ASSUME NEW x \in Ranks, NEW y \in Ranks PROVE PairInv(x, y)' /\ CutInv(x, y)'
  <2>1. CASE Leaves(r)
    BY <2>1, LeavesPairs, LeavesCuts
  <2>2. CASE Turns(r)
    BY <2>2, TurnsPairs, TurnsCuts
  <2>3. CASE Breaks(r)
    BY <2>3, DropsPairs, BreaksCuts
  <2>4. CASE Ends(r)
    BY <2>4, DropsPairs, EndsCuts
  <2>5. QED
    BY <2>1, <2>2, <2>3, <2>4
<1>6. QED
  BY <1>2, <1>3, <1>4, <1>5 DEF Inv

-------------------------------------------------------------------------------
(* Entering a collective, action by action                                    *)

LEMMA Itself ==
  ASSUME TypeOK, NEW r \in Ranks
  PROVE  /\ replica = [replica EXCEPT ![r] = replica[r]]
         /\ saved = [saved EXCEPT ![r] = saved[r]]
         /\ armed = [armed EXCEPT ![r] = armed[r]]
         /\ armed[r] \in BOOLEAN /\ replica[r] \in Replica
  BY DEF TypeOK

LEMMA FaultCounted ==
  ASSUME MoeRunAssumption, TypeOK, NEW bad \in BOOLEAN, bad => Fault, Count(bad)
  PROVE  faults' \in 0..MaxFaults
  BY DEF TypeOK, Fault, Count, MoeRunAssumption

LEMMA ArmedBefore ==
  ASSUME Inv, NEW r \in Ranks, NEW p \in Collectives, Ready(r, p), armed[r]
  PROVE  p \in {"objective", "backward"}
<1>1. p # "failed"
  BY DEF Collectives, Loading, StepCall, BeforeForward, BeforeRetry, Retryable, Saving
<1>2. QED
  BY <1>1 DEF Inv, RankInv, Ready

\* A rank that votes and brings nothing.
LEMMA VotesInv ==
  ASSUME MoeRunAssumption, Inv, NEW r \in Ranks,
         NEW p \in Collectives \ {"restore", "update", "forward"}, NEW good \in BOOLEAN,
         Ready(r, p), Join(r, good), UNCHANGED <<session, launches>>,
         faults' \in 0..MaxFaults,
         p = "schedule" /\ good => replica[r].step + length =< MaxStep,
         p \in {"confirm", "agreement"} /\ good => Agree(r),
         r # 0 \/ p # "publication" => checkpoint' = checkpoint,
         p = "publication" => checkpoint' \in {checkpoint, replica[0]},
         r = 0 /\ p = "publication" /\ good => checkpoint' = replica[0]
  PROVE  Inv'
<1>1. TypeOK /\ Skews
  BY DEF Inv
<1>2. Steps(r, p, good, replica[r], saved[r], armed[r])
  BY <1>1, Itself DEF Steps, session
<1>3. Brings(r, p, good, replica[r], saved[r], armed[r])
  <2>1. replica[r] \in Replica /\ armed[r] \in BOOLEAN /\ replica[r].skew \subseteq {r}
    BY <1>1, Itself DEF Skews
  <2>2. armed[r] => p \in {"forward", "objective", "backward"}
    BY ArmedBefore
  <2>3. QED
    BY <2>1, <2>2 DEF Brings
<1>4. QED
  BY <1>2, <1>3, StepsInv

LEMMA AdmitInv ==
  ASSUME MoeRunAssumption, Inv, NEW r \in Ranks, Admit(r)
  PROVE  Inv'
<1>1. TypeOK /\ "admission" \in Collectives
  BY DEF Inv, Collectives, StepCall, BeforeForward
<1>2. PICK good \in {TRUE} \union (IF Fault THEN {FALSE} ELSE {}) :
        Join(r, good /\ replica[r].step < MaxStep) /\ Count(~good)
  BY DEF Admit
<1>3. good \in BOOLEAN /\ (~good => Fault)
  BY <1>2
<1>4. faults' \in 0..MaxFaults
  BY <1>1, <1>2, <1>3, FaultCounted
<1>5. (good /\ replica[r].step < MaxStep) \in BOOLEAN
  OBVIOUS
<1>6. QED
  BY <1>1, <1>2, <1>4, <1>5, VotesInv DEF Admit

LEMMA CompareInv ==
  ASSUME MoeRunAssumption, Inv, NEW r \in Ranks, Compare(r)
  PROVE  Inv'
<1>1. TypeOK /\ {"consensus", "confirm", "agreement"} \subseteq Collectives \ {"restore", "update", "forward"}
  BY DEF Inv, Collectives, StepCall, BeforeForward, Retryable, Saving
<1>2. PICK p \in {"consensus", "confirm", "agreement"} : Ready(r, p)
  BY DEF Compare
<1>3. Agree(r) \in BOOLEAN
  BY DEF Agree
<1>4. faults' \in 0..MaxFaults
  BY <1>1 DEF Compare, TypeOK
<1>5. QED
  BY <1>1, <1>2, <1>3, <1>4, VotesInv DEF Compare

LEMMA VoteInv ==
  ASSUME MoeRunAssumption, Inv, NEW r \in Ranks, Vote(r) \/ AdmitSave(r)
  PROVE  Inv'
<1>1. TypeOK /\ {"objective", "gradients", "save"} \subseteq Collectives \ {"restore", "update", "forward"}
  BY DEF Inv, Collectives, StepCall, BeforeRetry, Retryable, Saving
<1>2. PICK p \in {"objective", "gradients", "save"} : Ready(r, p)
  BY DEF Vote, AdmitSave
<1>3. PICK good \in {TRUE} \union (IF Fault THEN {FALSE} ELSE {}) : Join(r, good) /\ Count(~good)
  BY DEF Vote, AdmitSave
<1>4. good \in BOOLEAN /\ (~good => Fault)
  BY <1>3
<1>5. faults' \in 0..MaxFaults
  BY <1>1, <1>3, <1>4, FaultCounted
<1>6. UNCHANGED <<checkpoint, session, launches>>
  BY DEF Vote, AdmitSave
<1>7. QED
  BY <1>1, <1>2, <1>3, <1>4, <1>5, <1>6, VotesInv

LEMMA BackwardInv ==
  ASSUME MoeRunAssumption, Inv, NEW r \in Ranks, Backward(r)
  PROVE  Inv'
<1>1. TypeOK /\ "backward" \in Collectives \ {"restore", "update", "forward"}
  BY DEF Inv, Collectives, StepCall, BeforeRetry
<1>2. faults' \in 0..MaxFaults
  BY <1>1 DEF Backward, TypeOK
<1>3. QED
  BY <1>1, <1>2, VotesInv DEF Backward

LEMMA ScheduleInv ==
  ASSUME MoeRunAssumption, Inv, NEW r \in Ranks, Schedule(r)
  PROVE  Inv'
<1>1. TypeOK /\ "schedule" \in Collectives \ {"restore", "update", "forward"}
  BY DEF Inv, Collectives, Loading
<1>2. faults' \in 0..MaxFaults
  BY <1>1 DEF Schedule, TypeOK
<1>3. (replica[r].step + length =< MaxStep) \in BOOLEAN
  OBVIOUS
<1>4. QED
  BY <1>1, <1>2, <1>3, VotesInv DEF Schedule

LEMMA PublishInv ==
  ASSUME MoeRunAssumption, Inv, NEW r \in Ranks, Publish(r)
  PROVE  Inv'
<1>1. TypeOK /\ "publication" \in Collectives \ {"restore", "update", "forward"}
  BY DEF Inv, Collectives, Saving
<1>2. PICK good \in BOOLEAN, replaced \in BOOLEAN :
        /\ Fault \/ good
        /\ good => replaced
        /\ checkpoint' = IF r = 0 /\ replaced THEN replica[0] ELSE checkpoint
        /\ Join(r, good)
        /\ Count(~good)
  BY DEF Publish
<1>3. faults' \in 0..MaxFaults
  BY <1>1, <1>2, FaultCounted
<1>4. QED
  BY <1>1, <1>2, <1>3, VotesInv DEF Publish

LEMMA ForwardInv ==
  ASSUME MoeRunAssumption, Inv, NEW r \in Ranks, Forward(r)
  PROVE  Inv'
<1>1. TypeOK /\ Skews /\ "forward" \in Collectives
  BY DEF Inv, Collectives, StepCall, BeforeRetry
<1>2. PICK good \in {TRUE} \union (IF Fault THEN {FALSE} ELSE {}) : Join(r, good) /\ Count(~good)
  BY DEF Forward
<1>3. good \in BOOLEAN /\ (~good => Fault)
  BY <1>2
<1>4. faults' \in 0..MaxFaults
  BY <1>1, <1>2, <1>3, FaultCounted
<1>5. Steps(r, "forward", good, replica[r], replica[r], TRUE)
  BY <1>1, <1>2, <1>4, Itself DEF Steps, Forward
<1>6. Brings(r, "forward", good, replica[r], replica[r], TRUE)
  BY <1>1, Itself DEF Brings, Skews
<1>7. QED
  BY <1>1, <1>3, <1>5, <1>6, StepsInv DEF Forward

LEMMA UpdateInv ==
  ASSUME MoeRunAssumption, Inv, NEW r \in Ranks, Update(r)
  PROVE  Inv'
<1>1. TypeOK /\ Skews /\ RankInv(r) /\ "update" \in Collectives
  BY DEF Inv, Collectives, StepCall, Retryable
<1> DEFINE rep(sound) == [step |-> replica[r].step + 1,
                          skew |-> IF sound THEN replica[r].skew ELSE replica[r].skew \union {r}]
<1>2. PICK good \in BOOLEAN, sound \in BOOLEAN :
        /\ Fault \/ (good /\ sound)
        /\ ~good => ~sound
        /\ replica' = [replica EXCEPT ![r] = rep(sound)]
        /\ Join(r, good)
        /\ Count(~sound)
  BY DEF Update
<1>3. faults' \in 0..MaxFaults
  BY <1>1, <1>2, FaultCounted
<1>4. Steps(r, "update", good, rep(sound), saved[r], armed[r])
  <2> HIDE DEF rep
  <2>1. QED
    BY <1>1, <1>2, <1>3, Itself DEF Steps, Update
<1>5. rep(sound) \in Replica /\ rep(sound).skew \subseteq {r} /\ rep(sound).step = replica[r].step + 1
  <2>1. replica[r].step < MaxStep
    <3>1. Ready(r, "update")
      BY DEF Update
    <3>2. Settled(r) = replica[r] /\ "update" \in StepCall /\ "update" \in Scheduled
      BY <3>1 DEF Ready, Settled, Trial, StepCall, Retryable, Scheduled
    <3>3. replica[r].step < End(r) /\ End(r) =< MaxStep
      BY <1>1, <3>1, <3>2 DEF RankInv, Ready
    <3>4. QED
      BY <1>1, <3>3, TypedRank DEF MoeRunAssumption
  <2>2. replica[r].step \in 0..MaxStep /\ replica[r].skew \in SUBSET Ranks /\ replica[r].skew \subseteq {r}
    BY <1>1, Itself DEF Replica, Skews
  <2>3. QED
    BY <2>1, <2>2 DEF Replica, MoeRunAssumption
<1>6. Brings(r, "update", good, rep(sound), saved[r], armed[r])
  <2> HIDE DEF rep
  <2>1. ~armed[r]
    BY <1>1, ArmedBefore DEF Update
  <2>2. QED
    BY <1>5, <2>1, <1>1, Itself DEF Brings
<1> HIDE DEF rep
<1>7. QED
  BY <1>1, <1>2, <1>4, <1>6, StepsInv DEF Update

LEMMA RecoverInv ==
  ASSUME MoeRunAssumption, Inv, NEW r \in Ranks, Recover(r)
  PROVE  Inv'
<1>1. TypeOK /\ Skews /\ RankInv(r) /\ {"load", "restore"} \subseteq Collectives
  BY DEF Inv, Collectives, Loading
<1>2. PICK p \in {"load", "restore"} : Ready(r, p)
  BY DEF Recover
<1>3. PICK good \in {TRUE} \union (IF Fault THEN {FALSE} ELSE {}) :
        /\ Join(r, good) /\ Count(~good)
        /\ replica' = IF pc[r] = "restore" /\ good
                      THEN [replica EXCEPT ![r] = checkpoint] ELSE replica
  BY DEF Recover
<1>4. good \in BOOLEAN /\ (~good => Fault)
  BY <1>3
<1>5. faults' \in 0..MaxFaults
  BY <1>1, <1>3, <1>4, FaultCounted
<1> DEFINE rep == IF p = "restore" /\ good THEN checkpoint ELSE replica[r]
<1>6. Steps(r, p, good, rep, saved[r], armed[r])
  <2>1. pc[r] = p
    BY <1>2 DEF Ready
  <2>2. replica' = [replica EXCEPT ![r] = rep]
    BY <1>1, <1>3, <2>1, Itself
  <2> HIDE DEF rep
  <2>3. QED
    BY <1>1, <1>2, <1>3, <1>5, <2>2, Itself DEF Steps, Recover
<1>7. Brings(r, p, good, rep, saved[r], armed[r])
  <2>1. pc[r] = p /\ ~armed[r] /\ checkpoint # None
    BY <1>1, <1>2, ArmedBefore DEF Ready, RankInv
  <2>2. checkpoint \in Replica /\ Sound(checkpoint)
    BY <1>1, <2>1 DEF TypeOK, Skews
  <2>3. rep \in Replica /\ rep.skew \subseteq {r}
    BY <1>1, <2>2, Itself, SoundFits DEF Skews
  <2>4. IF p = "restore" THEN good => rep = checkpoint ELSE rep = replica[r]
    OBVIOUS
  <2> HIDE DEF rep
  <2>5. QED
    BY <1>1, <1>2, <2>1, <2>3, <2>4, Itself DEF Brings
<1> HIDE DEF rep
<1>8. p \in Collectives /\ p # "publication" /\ checkpoint' = checkpoint
  BY <1>1, <1>2 DEF Recover
<1>9. QED
  BY <1>4, <1>6, <1>7, <1>8, StepsInv

-------------------------------------------------------------------------------
(* Leaving, turning and ending, action by action                              *)

LEMMA AfterIs ==
  /\ After["load"] = "restore" /\ After["restore"] = "schedule" /\ After["schedule"] = "idle"
  /\ After["admission"] = "consensus" /\ After["consensus"] = "forward"
  /\ After["forward"] = "objective" /\ After["objective"] = "backward"
  /\ After["backward"] = "gradients" /\ After["gradients"] = "update"
  /\ After["update"] = "confirm" /\ After["confirm"] = "idle"
  /\ After["save"] = "agreement" /\ After["agreement"] = "publication"
  /\ After["publication"] = "exited"
  BY DEF After, Phases, Loading, StepCall, BeforeForward, BeforeRetry, Retryable, Saving, Ended

LEMMA AfterTyped ==
  ASSUME NEW p \in Collectives
  PROVE  After[p] \in Phases \ {"failed"}
  BY AfterIs DEF Collectives, Phases, Loading, StepCall, BeforeForward, BeforeRetry, Retryable, Saving, Ended

LEMMA LeavesRank ==
  ASSUME MoeRunAssumption, Inv, NEW r \in Ranks, Leaves(r), checkpoint' = checkpoint,
         armed'[r] => armed[r] /\ pc[r] # "backward",
         pc'[r] = "idle" \/ calls'[r] = calls[r]
  PROVE  RankInv(r)'
<1>1. /\ TypeOK /\ Skews /\ RankInv(r) /\ ConfirmInv(r) /\ pc[r] # "failed" /\ r \notin cut
      /\ pc[r] \in Collectives /\ inside[r] /\ Complete(r) /\ inside'[r] = FALSE /\ cut' = cut
      /\ length' = length /\ begun'[r] = NextBegun(r) /\ saved'[r] = saved[r]
  BY DEF Inv, Leaves, Working, RankInv, Beside
<1>2. /\ replica[r].step \in Nat /\ saved[r].step \in Nat /\ begun[r] \in Nat /\ length \in Nat
      /\ End(r) \in Nat /\ End(r) = begun[r] + length /\ End(r)' = begun'[r] + length
  BY <1>1, TypedRank DEF End
<1>3. CASE ~Good(r)
  <2>1. /\ pc[r] \in BeforeForward \union Retryable /\ pc'[r] = "idle" /\ replica'[r] = Settled(r)
        /\ begun'[r] = begun[r]
    BY <1>1, <1>3 DEF Leaves, NextBegun, BeforeForward, Retryable
  <2>2. /\ End(r) =< MaxStep /\ Sound(Settled(r)) /\ Settled(r).step < End(r) /\ ~armed[r]
    BY <1>1, <2>1 DEF RankInv, Scheduled, StepCall, BeforeForward, Retryable
  <2>3. Settled(r)' = Settled(r) /\ ~Trial(r)' /\ End(r)' = End(r)
    BY <1>2, <2>1 DEF Settled, Trial
  <2>4. replica'[r].step =< End(r)'
    BY <1>1, <1>2, <2>1, <2>2, <2>3, TypedRank
  <2> HIDE DEF Settled, Trial, End
  <2>5. QED
    BY <1>1, <2>1, <2>2, <2>3, <2>4
       DEF RankInv, Scheduled, StepCall, BeforeForward, BeforeRetry, Retryable, Saving
<1>4. CASE Good(r)
  <2>1. pc'[r] = After[pc[r]] /\ replica'[r] = replica[r]
    BY <1>4 DEF Leaves
  <2>2. CASE pc[r] = "load"
    <3>1. pc'[r] = "restore" /\ ~armed[r] /\ checkpoint # None
      BY <1>1, <2>1, <2>2, AfterIs DEF RankInv
    <3>2. QED
      BY <1>1, <3>1 DEF RankInv, Trial, Scheduled, StepCall, BeforeForward, BeforeRetry, Retryable, Saving
  <2>3. CASE pc[r] = "restore"
    <3>1. pc'[r] = "schedule" /\ ~armed[r] /\ checkpoint # None /\ replica[r] = checkpoint
      BY <1>1, <1>4, <2>1, <2>3, AfterIs DEF RankInv
    <3>2. replica'[r] = Base'
      BY <2>1, <3>1 DEF Base
    <3> HIDE DEF Base
    <3>3. QED
      BY <1>1, <3>1, <3>2 DEF RankInv, Trial, Scheduled, StepCall, BeforeForward, BeforeRetry, Retryable, Saving
  <2>4. CASE pc[r] = "schedule"
    <3>1. /\ pc'[r] = "idle" /\ ~armed[r] /\ replica[r] = Base /\ replica[r].step + length =< MaxStep
          /\ begun'[r] = replica[r].step
      BY <1>1, <1>4, <2>1, <2>4, AfterIs DEF RankInv, NextBegun
    <3>2. Sound(replica'[r])
      BY <1>1, <2>1, <3>1 DEF Base, Skews, Fresh, Sound
    <3>3. Settled(r)' = replica'[r] /\ ~Trial(r)' /\ End(r)' =< MaxStep /\ replica'[r].step =< End(r)'
      BY <1>2, <2>1, <3>1 DEF Settled, Trial
    <3> HIDE DEF Base, Settled, Trial, End
    <3>4. QED
      BY <1>1, <3>1, <3>2, <3>3 DEF RankInv, Scheduled, StepCall, BeforeForward, BeforeRetry, Retryable, Saving
  <2>5. CASE pc[r] \in {"admission", "consensus", "forward", "objective", "backward", "gradients", "update"}
    <3>1. /\ pc[r] \in StepCall /\ pc[r] \in Scheduled /\ begun'[r] = begun[r]
      BY <1>1, <2>5 DEF NextBegun, Scheduled, StepCall, BeforeForward, BeforeRetry, Retryable
    <3>2. /\ pc[r] = "admission" => pc'[r] = "consensus"
          /\ pc[r] = "consensus" => pc'[r] = "forward"
          /\ pc[r] = "forward" => pc'[r] = "objective"
          /\ pc[r] = "objective" => pc'[r] = "backward"
          /\ pc[r] = "backward" => pc'[r] = "gradients"
          /\ pc[r] = "gradients" => pc'[r] = "update"
          /\ pc[r] = "update" => pc'[r] = "confirm"
      BY <2>1, AfterIs
    <3>3. /\ Settled(r)' = Settled(r) /\ (Trial(r)' <=> Trial(r)) /\ (Trial(r) <=> pc[r] = "update")
          /\ End(r)' = End(r)
      BY <1>1, <1>2, <2>1, <2>5, <3>1, <3>2 DEF Settled, Trial
    <3>4. calls'[r] = calls[r]
      BY <2>5, <3>2
    <3>5. /\ End(r) =< MaxStep /\ Sound(Settled(r)) /\ Settled(r).step < End(r) /\ calls[r] < MaxCalls
          /\ Trial(r) => replica[r].step = saved[r].step + 1
          /\ pc[r] \in {"forward", "objective", "backward", "gradients"} => saved[r] = replica[r]
          /\ armed'[r] => pc[r] \in {"forward", "objective"}
      BY <1>1, <3>1 DEF RankInv
    <3> HIDE DEF Settled, Trial, End
    <3>6. pc'[r] \notin {"load", "restore", "schedule", "idle", "save", "agreement", "publication", "exited"}
      BY <2>5, <3>2
    <3>7. QED
      BY <1>1, <2>1, <2>5, <3>2, <3>3, <3>4, <3>5, <3>6 DEF RankInv, Saving
  <2>6. CASE pc[r] = "confirm"
    <3>1. /\ pc'[r] = "idle" /\ ~armed[r] /\ Sound(replica[r]) /\ begun'[r] = begun[r]
      BY <1>1, <1>4, <2>1, <2>6, AfterIs DEF RankInv, ConfirmInv, NextBegun
    <3>2. /\ Settled(r) = saved[r] /\ saved[r].step < End(r) /\ End(r) =< MaxStep
          /\ replica[r].step = saved[r].step + 1
      BY <1>1, <2>6 DEF RankInv, Settled, Trial, Scheduled, StepCall, Retryable
    <3>3. Settled(r)' = replica'[r] /\ ~Trial(r)' /\ End(r)' = End(r) /\ replica'[r].step =< End(r)
      BY <1>2, <2>1, <3>1, <3>2 DEF Settled, Trial
    <3> HIDE DEF Settled, Trial, End
    <3>4. QED
      BY <1>1, <2>1, <3>1, <3>2, <3>3
         DEF RankInv, Scheduled, StepCall, BeforeForward, BeforeRetry, Retryable, Saving
  <2>7. CASE pc[r] \in Saving
    <3>1. /\ pc'[r] \in {"agreement", "publication", "exited"} /\ ~armed[r] /\ begun'[r] = begun[r]
          /\ replica[r].step = End(r)
      BY <1>1, <2>1, <2>7, AfterIs DEF RankInv, NextBegun, Saving
    <3>2. Settled(r) = replica[r] /\ Sound(replica[r]) /\ End(r) =< MaxStep
      BY <1>1, <2>7 DEF RankInv, Settled, Trial, Scheduled, Saving
    <3>3. Settled(r)' = replica'[r] /\ ~Trial(r)' /\ End(r)' = End(r)
      BY <1>2, <2>1, <3>1 DEF Settled, Trial
    <3> HIDE DEF Settled, Trial, End
    <3>4. QED
      BY <1>1, <2>1, <3>1, <3>2, <3>3
         DEF RankInv, Scheduled, StepCall, BeforeForward, BeforeRetry, Retryable, Saving
  <2>8. QED
    BY <1>1, <2>2, <2>3, <2>4, <2>5, <2>6, <2>7
       DEF Collectives, Loading, StepCall, BeforeForward, BeforeRetry, Retryable
<1>5. QED
  BY <1>3, <1>4

LEMMA LeavesInv ==
  ASSUME MoeRunAssumption, Inv, NEW r \in Ranks, Leaves(r), TypeOK',
         checkpoint' = checkpoint, launches' = launches,
         armed'[r] => armed[r] /\ pc[r] # "backward",
         pc'[r] = "idle" \/ calls'[r] = calls[r]
  PROVE  Inv'
<1>1. RankInv(r)'
  BY LeavesRank
<1>2. Sound(saved'[r]) /\ replica'[r].skew \subseteq {r}
  <2>1. saved[r] \in Replica
    BY DEF Inv, TypeOK
  <2>2. QED
    BY <2>1, SoundFits DEF Inv, Skews, Leaves, Settled
<1>3. QED
  BY <1>1, <1>2, TurnsInv

LEMMA PhaseSets ==
  /\ StepCall \subseteq Collectives /\ Loading \subseteq Collectives /\ Saving \subseteq Collectives
  /\ BeforeForward \subseteq StepCall /\ Retryable \subseteq StepCall /\ BeforeRetry \subseteq StepCall
  /\ "failed" \notin Collectives /\ "idle" \notin Collectives /\ "exited" \notin Collectives
  /\ {"idle", "failed", "exited"} \subseteq Phases /\ Collectives \subseteq Phases
  BY DEF Collectives, Phases, Loading, StepCall, BeforeForward, BeforeRetry, Retryable, Saving, Ended

\* What r does to its phase, and that it touches no other rank.
LEMMA Moves ==
  ASSUME TypeOK, NEW r \in Ranks, NEW p \in Phases, Goto(r, p),
         inside' = [inside EXCEPT ![r] = FALSE] \/ inside' = inside
  PROVE  /\ pc'[r] = p /\ pc' \in [Ranks -> Phases] /\ inside' \in [Ranks -> BOOLEAN]
         /\ \A s \in Ranks \ {r} : pc'[s] = pc[s] /\ inside'[s] = inside[s]
  BY DEF TypeOK, Goto

LEMMA ProceedInv ==
  ASSUME MoeRunAssumption, Inv, NEW r \in Ranks, Proceed(r) \/ Advance(r)
  PROVE  Inv'
<1>1. TypeOK /\ RankInv(r)
  BY DEF Inv
<1>2. /\ pc[r] \in Collectives /\ Complete(r) /\ Good(r) /\ inside[r] /\ Goto(r, After[pc[r]])
      /\ inside' = [inside EXCEPT ![r] = FALSE]
      /\ UNCHANGED <<checkpoint, length, entered, vetoed, cut, replica, saved, launches, faults>>
  BY PhaseSets DEF Proceed, Advance, Accepted, Complete, Good, session
<1>3. /\ pc'[r] = After[pc[r]] /\ pc' \in [Ranks -> Phases] /\ inside' \in [Ranks -> BOOLEAN]
      /\ \A s \in Ranks \ {r} : pc'[s] = pc[s] /\ inside'[s] = inside[s]
  BY <1>1, <1>2, Moves, AfterTyped
<1>4. inside'[r] = FALSE /\ r \notin cut
  BY <1>1, <1>2, PhaseSets DEF RankInv, TypeOK
<1>5. begun' = [begun EXCEPT ![r] = NextBegun(r)]
  <2>1. CASE Proceed(r)
    <3>1. pc[r] # "schedule" /\ begun' = begun /\ begun \in [Ranks -> 0..MaxStep]
      BY <1>1, <2>1 DEF Proceed, StepCall, BeforeForward, BeforeRetry, Retryable, TypeOK
    <3>2. QED
      BY <3>1 DEF NextBegun
  <2>2. CASE Advance(r)
    BY <1>1, <2>2 DEF Advance, NextBegun, TypeOK
  <2>3. QED
    BY <2>1, <2>2
<1>6. armed' = [armed EXCEPT ![r] = armed[r] /\ pc[r] # "backward"] /\ armed[r] \in BOOLEAN
  <2>1. armed \in [Ranks -> BOOLEAN]
    BY <1>1 DEF TypeOK
  <2>2. CASE Proceed(r)
    <3>1. CASE pc[r] = "backward"
      BY <2>1, <2>2, <3>1 DEF Proceed
    <3>2. CASE pc[r] # "backward"
      <4>1. (armed[r] /\ pc[r] # "backward") = armed[r] /\ armed' = armed
        BY <2>1, <2>2, <3>2 DEF Proceed
      <4>2. QED
        BY <2>1, <4>1
    <3>3. QED
      BY <3>1, <3>2
  <2>3. CASE Advance(r)
    <3>1. (armed[r] /\ pc[r] # "backward") = armed[r] /\ armed' = armed
      BY <2>1, <2>3 DEF Advance, session, Loading, Saving
    <3>2. QED
      BY <2>1, <3>1
  <2>4. QED
    BY <2>1, <2>2, <2>3
<1>7. /\ calls' \in [Ranks -> 0..MaxCalls] /\ \A s \in Ranks \ {r} : calls'[s] = calls[s]
      /\ pc'[r] = "idle" \/ calls'[r] = calls[r]
  <2>1. calls \in [Ranks -> 0..MaxCalls] /\ MaxCalls \in Nat
    BY <1>1 DEF TypeOK, MoeRunAssumption
  <2>2. CASE pc[r] = "confirm" /\ Proceed(r)
    <3>1. calls[r] < MaxCalls
      BY <1>1, <2>2 DEF RankInv, StepCall, Retryable
    <3>2. calls' = [calls EXCEPT ![r] = @ + 1] /\ pc'[r] = "idle"
      BY <1>3, <2>2, AfterIs DEF Proceed
    <3>3. calls[r] + 1 \in 0..MaxCalls
      BY <2>1, <3>1
    <3>4. QED
      BY <2>1, <3>2, <3>3
  <2>3. CASE ~(pc[r] = "confirm" /\ Proceed(r))
    BY <2>1, <2>3 DEF Proceed, Advance, session
  <2>4. QED
    BY <2>2, <2>3
<1>8. /\ begun' \in [Ranks -> 0..MaxStep] /\ armed' \in [Ranks -> BOOLEAN]
      /\ begun'[r] = NextBegun(r) /\ armed'[r] = (armed[r] /\ pc[r] # "backward")
      /\ \A s \in Ranks \ {r} : begun'[s] = begun[s] /\ armed'[s] = armed[s]
  <2>1. begun \in [Ranks -> 0..MaxStep] /\ armed \in [Ranks -> BOOLEAN] /\ replica[r].step \in 0..MaxStep
    BY <1>1 DEF TypeOK, Replica
  <2>2. NextBegun(r) \in 0..MaxStep
    BY <2>1 DEF NextBegun
  <2> HIDE DEF NextBegun
  <2>3. QED
    BY <1>5, <1>6, <2>1, <2>2
<1>9. TypeOK'
  BY <1>1, <1>2, <1>3, <1>7, <1>8 DEF TypeOK
<1>10. Leaves(r)
  <2>1. Beside(r)
    BY <1>2, <1>3, <1>7, <1>8 DEF Beside
  <2>2. QED
    BY <1>2, <1>3, <1>4, <1>8, <2>1, PhaseSets DEF Leaves, Working
<1>11. QED
  BY <1>2, <1>7, <1>8, <1>9, <1>10, LeavesInv

LEMMA RejectedInv ==
  ASSUME MoeRunAssumption, Inv, NEW r \in Ranks, RejectCall(r) \/ RetryLater(r)
  PROVE  Inv'
<1>1. TypeOK /\ RankInv(r)
  BY DEF Inv
<1>2. /\ pc[r] \in BeforeForward \union Retryable /\ Complete(r) /\ ~Good(r) /\ inside[r] /\ Goto(r, "idle")
      /\ inside' = [inside EXCEPT ![r] = FALSE] /\ calls' = [calls EXCEPT ![r] = @ + 1]
      /\ UNCHANGED <<checkpoint, length, begun, entered, vetoed, cut, saved, armed, launches, faults>>
  BY DEF RejectCall, RetryLater, Rejected, Complete, Good
<1>3. pc[r] \in StepCall /\ pc[r] # "failed" /\ pc[r] # "schedule" /\ pc[r] # "backward"
  BY <1>2 DEF StepCall, BeforeForward, BeforeRetry, Retryable
<1>4. /\ pc'[r] = "idle" /\ pc' \in [Ranks -> Phases] /\ inside' \in [Ranks -> BOOLEAN]
      /\ \A s \in Ranks \ {r} : pc'[s] = pc[s] /\ inside'[s] = inside[s]
  BY <1>1, <1>2, Moves, PhaseSets
<1>5. inside'[r] = FALSE /\ r \notin cut
  BY <1>1, <1>2, <1>3 DEF RankInv, TypeOK
<1>6. replica' = [replica EXCEPT ![r] = Settled(r)]
  <2>1. replica \in [Ranks -> Replica]
    BY <1>1 DEF TypeOK
  <2>2. CASE pc[r] \in BeforeForward
    <3>1. Settled(r) = replica[r] /\ replica' = replica
      BY <2>2 DEF BeforeForward, Retryable, Settled, Trial, RejectCall, RetryLater
    <3>2. QED
      BY <2>1, <3>1
  <2>3. CASE pc[r] \in Retryable
    <3>1. Settled(r) = saved[r]
      BY <1>1, <1>2, <1>3, <2>3 DEF Retryable, Settled, Trial, RankInv
    <3>2. QED
      BY <2>1, <2>3, <3>1 DEF BeforeForward, Retryable, RejectCall, RetryLater, Restored
  <2>4. QED
    BY <1>2, <2>2, <2>3
<1>7. calls' \in [Ranks -> 0..MaxCalls] /\ \A s \in Ranks \ {r} : calls'[s] = calls[s]
  <2>1. calls \in [Ranks -> 0..MaxCalls] /\ MaxCalls \in Nat /\ calls[r] < MaxCalls
    BY <1>1, <1>3 DEF TypeOK, MoeRunAssumption, RankInv
  <2>2. calls[r] + 1 \in 0..MaxCalls
    BY <2>1
  <2>3. QED
    BY <1>2, <2>1, <2>2
<1>8. /\ replica' \in [Ranks -> Replica] /\ replica'[r] = Settled(r)
      /\ \A s \in Ranks \ {r} : replica'[s] = replica[s]
  <2>1. replica \in [Ranks -> Replica] /\ Settled(r) \in Replica
    BY <1>1, TypedRank DEF TypeOK
  <2> HIDE DEF Settled
  <2>2. QED
    BY <1>6, <2>1
<1>9. TypeOK'
  BY <1>1, <1>2, <1>4, <1>7, <1>8 DEF TypeOK
<1>10. Leaves(r)
  <2>1. Beside(r)
    BY <1>2, <1>4, <1>7, <1>8 DEF Beside
  <2> HIDE DEF Settled
  <2>2. QED
    BY <1>2, <1>3, <1>4, <1>5, <1>8, <2>1 DEF Leaves, Working, NextBegun
<1>11. QED
  BY <1>2, <1>3, <1>4, <1>9, <1>10, LeavesInv

LEMMA CallInv ==
  ASSUME MoeRunAssumption, Inv, NEW r \in Ranks, Call(r) \/ StartSave(r)
  PROVE  Inv'
<1>1. TypeOK /\ RankInv(r) /\ Skews
  BY DEF Inv
<1>2. PICK p \in {"admission", "save"} :
        /\ pc[r] = "idle" /\ Goto(r, p)
        /\ p = "admission" => replica[r].step < End(r) /\ calls[r] < MaxCalls
        /\ p = "save" => replica[r].step >= End(r)
        /\ UNCHANGED <<checkpoint, length, begun, inside, entered, vetoed, cut, session, launches, faults>>
  BY DEF Call, StartSave, AllDone
<1>3. /\ replica[r].step \in Nat /\ End(r) \in Nat /\ inside[r] = FALSE /\ ~armed[r] /\ p \in Phases
      /\ replica[r].step =< End(r) /\ End(r) =< MaxStep /\ Sound(Settled(r))
      /\ r \in cut => p = "admission"
  <2>1. replica[r].step \in Nat /\ End(r) \in Nat /\ inside[r] \in BOOLEAN
    BY <1>1, TypedRank
  <2>2. /\ ~inside[r] /\ ~armed[r] /\ replica[r].step =< End(r) /\ End(r) =< MaxStep
        /\ Sound(Settled(r))
        /\ r \in cut => replica[r].step < End(r)
    BY <1>1, <1>2, PhaseSets DEF RankInv, Scheduled
  <2>3. p \in Phases
    BY <1>2 DEF Phases, StepCall, BeforeForward, Saving
  <2>4. QED
    BY <1>2, <2>1, <2>2, <2>3
<1>4. /\ pc'[r] = p /\ pc' \in [Ranks -> Phases]
      /\ \A s \in Ranks \ {r} : pc'[s] = pc[s] /\ inside'[s] = inside[s]
  BY <1>1, <1>2, <1>3, Moves
<1>5. TypeOK'
  BY <1>1, <1>2, <1>4 DEF TypeOK, session
<1>6. /\ End(r)' = End(r) /\ Settled(r)' = replica[r] /\ Settled(r) = replica[r] /\ ~Trial(r)'
      /\ Place(r) = p /\ Place(r)' = p
  BY <1>2, <1>3, <1>4 DEF End, Settled, Trial, Place, Seat, session
<1>7. Turns(r)
  <2>1. Beside(r)
    BY <1>2, <1>4 DEF Beside, session
  <2>2. QED
    BY <1>2, <1>3, <1>4, <1>6, <2>1 DEF Turns, session
<1>8. RankInv(r)'
  <2>1. /\ replica' = replica /\ saved' = saved /\ armed' = armed /\ calls' = calls /\ cut' = cut
        /\ inside' = inside
    BY <1>2 DEF session
  <2> HIDE DEF End, Settled, Trial
  <2>2. CASE p = "admission"
    BY <1>2, <1>3, <1>4, <1>6, <2>1, <2>2 DEF RankInv, Saving
  <2>3. CASE p = "save"
    BY <1>2, <1>3, <1>4, <1>6, <2>1, <2>3 DEF RankInv, StepCall, BeforeForward, BeforeRetry, Retryable
  <2>4. QED
    BY <1>2, <2>2, <2>3
<1>9. QED
  BY <1>1, <1>2, <1>5, <1>7, <1>8, TurnsInv DEF Skews, session

LEMMA EndsInv ==
  ASSUME MoeRunAssumption, Inv, NEW r \in Ranks, GiveUp(r) \/ Poison(r) \/ Fail(r) \/ Kill(r)
  PROVE  Inv'
<1>1. TypeOK /\ Skews
  BY DEF Inv
<1>2. /\ Goto(r, "failed")
      /\ inside' = [inside EXCEPT ![r] = FALSE] \/ inside' = inside
      /\ Restored(r) \/ replica' = replica
      /\ faults' = faults \/ (Kill(r) /\ Fault /\ Count(TRUE))
      /\ UNCHANGED <<checkpoint, length, begun, entered, vetoed, cut, saved, armed, calls, launches>>
  BY DEF GiveUp, Poison, Fail, Kill, session, Count
<1>3. /\ pc'[r] = "failed" /\ pc' \in [Ranks -> Phases] /\ inside' \in [Ranks -> BOOLEAN]
      /\ \A s \in Ranks \ {r} : pc'[s] = pc[s] /\ inside'[s] = inside[s]
  BY <1>1, <1>2, Moves, PhaseSets
<1>4. /\ replica' \in [Ranks -> Replica] /\ replica'[r] \in {replica[r], saved[r]}
      /\ \A s \in Ranks \ {r} : replica'[s] = replica[s]
  BY <1>1, <1>2 DEF TypeOK, Restored
<1>5. faults' \in 0..MaxFaults
  <2>1. TRUE \in BOOLEAN
    OBVIOUS
  <2>2. CASE faults' = faults
    BY <1>1, <2>2 DEF TypeOK
  <2>3. CASE Fault /\ Count(TRUE)
    BY <1>1, <2>1, <2>3, FaultCounted
  <2>4. QED
    BY <1>2, <2>2, <2>3
<1>6. TypeOK'
  BY <1>1, <1>2, <1>3, <1>4, <1>5 DEF TypeOK
<1>7. Ends(r)
  BY <1>2, <1>3, <1>4 DEF Ends, Beside
<1>8. RankInv(r)'
  BY <1>3 DEF RankInv
<1>9. Sound(saved'[r]) /\ replica'[r].skew \subseteq {r}
  <2>1. saved[r] \in Replica
    BY <1>1 DEF TypeOK
  <2>2. QED
    BY <1>1, <1>2, <1>4, <2>1, SoundFits DEF Skews
<1>10. QED
  BY <1>2, <1>6, <1>7, <1>8, <1>9, TurnsInv

LEMMA DisconnectInv ==
  ASSUME MoeRunAssumption, Inv, NEW r \in Ranks, Disconnect(r)
  PROVE  Inv'
<1>1. TypeOK /\ Skews /\ RankInv(r)
  BY DEF Inv
<1>2. /\ pc[r] \in {"admission", "consensus"} /\ Goto(r, "idle") /\ cut' = cut \union {r}
      /\ inside' = [inside EXCEPT ![r] = FALSE] /\ calls' = [calls EXCEPT ![r] = @ + 1]
      /\ Count(FALSE) \/ (Fault /\ Count(TRUE))
      /\ UNCHANGED <<checkpoint, length, begun, entered, vetoed, replica, saved, armed, launches>>
  BY DEF Disconnect, BeforeForward
<1>3. /\ pc'[r] = "idle" /\ pc' \in [Ranks -> Phases] /\ inside' \in [Ranks -> BOOLEAN]
      /\ \A s \in Ranks \ {r} : pc'[s] = pc[s] /\ inside'[s] = inside[s]
  BY <1>1, <1>2, Moves, PhaseSets
<1>4. /\ pc[r] \in StepCall /\ pc[r] \in Scheduled /\ pc[r] \in BeforeForward /\ pc[r] # "failed"
  BY <1>2 DEF StepCall, Scheduled, BeforeForward
<1>5. /\ inside'[r] = FALSE /\ ~armed[r] /\ End(r) =< MaxStep /\ Sound(Settled(r))
      /\ Settled(r) = replica[r] /\ replica[r].step < End(r) /\ calls[r] < MaxCalls
      /\ r \in cut => ~inside[r] /\ pc[r] = "admission"
  BY <1>1, <1>2, <1>4 DEF RankInv, Settled, Trial, TypeOK
<1>6. faults' \in 0..MaxFaults
  <2>1. {TRUE, FALSE} \subseteq BOOLEAN
    OBVIOUS
  <2>2. QED
    BY <1>1, <1>2, <2>1, FaultCounted
<1>7. calls' \in [Ranks -> 0..MaxCalls] /\ \A s \in Ranks \ {r} : calls'[s] = calls[s]
  <2>1. calls \in [Ranks -> 0..MaxCalls] /\ MaxCalls \in Nat
    BY <1>1 DEF TypeOK, MoeRunAssumption
  <2>2. calls[r] + 1 \in 0..MaxCalls
    BY <1>5, <2>1
  <2>3. QED
    BY <1>2, <2>1, <2>2
<1>8. TypeOK'
  BY <1>1, <1>2, <1>3, <1>6, <1>7 DEF TypeOK
<1>9. Beside(r)
  BY <1>2, <1>3, <1>7 DEF Beside
<1>10. /\ End(r)' = End(r) /\ Settled(r)' = replica[r] /\ ~Trial(r)'
       /\ replica[r].step \in Nat /\ End(r) \in Nat
  BY <1>1, <1>2, <1>3, TypedRank DEF End, Settled, Trial
<1>11. Turns(r) \/ Breaks(r)
  <2>1. CASE r \in cut
    <3>1. Place(r) = "admission" /\ Place(r)' = "admission" /\ cut' = cut
      BY <1>2, <1>3, <1>5, <1>10, <2>1 DEF Place, Seat
    <3>2. Turns(r)
      BY <1>2, <1>3, <1>5, <1>9, <2>1, <3>1 DEF Turns
    <3>3. QED
      BY <3>2
  <2>2. CASE r \notin cut
    BY <1>2, <1>3, <1>4, <1>5, <1>9, <2>2 DEF Breaks, Working
  <2>3. QED
    BY <2>1, <2>2
<1>12. RankInv(r)'
  <2> HIDE DEF End, Settled, Trial
  <2>1. QED
    BY <1>2, <1>3, <1>5, <1>10 DEF RankInv, StepCall, BeforeForward, BeforeRetry, Retryable, Saving
<1>13. QED
  BY <1>1, <1>2, <1>8, <1>11, <1>12, TurnsInv DEF Skews

-------------------------------------------------------------------------------
(* The supervisor                                                             *)

\* A new launch: every rank stands before its first collective.
LEMMA LaunchInv ==
  ASSUME MoeRunAssumption, Inv, NEW resume \in BOOLEAN, NEW n \in Lengths, Launch(resume, n)
  PROVE  Inv'
<1>1. TypeOK /\ Skews
  BY DEF Inv
<1> DEFINE first == IF resume THEN "load" ELSE "schedule"
<1>2. /\ pc' = [r \in Ranks |-> first] /\ inside' = [r \in Ranks |-> FALSE]
      /\ entered' = [r \in Ranks |-> 0] /\ begun' = [r \in Ranks |-> 0]
      /\ replica' = [r \in Ranks |-> Fresh] /\ saved' = [r \in Ranks |-> Fresh]
      /\ armed' = [r \in Ranks |-> FALSE] /\ calls' = [r \in Ranks |-> 0]
      /\ length' = n /\ vetoed' = {} /\ cut' = {} /\ launches' = launches + 1
      /\ launches < MaxLaunches /\ checkpoint' = checkpoint /\ faults' = faults
      /\ (resume <=> checkpoint # None)
  BY DEF Launch, ResumeFits
<1>3. first \in {"load", "schedule"} /\ first \in Phases /\ first \in Loading
      /\ first \notin Scheduled \union StepCall \union Saving \union {"exited", "idle"}
  BY DEF Phases, Loading, Scheduled, StepCall, BeforeForward, BeforeRetry, Retryable, Saving
<1>4. (first = "load" => checkpoint # None) /\ (first = "schedule" => checkpoint = None)
  BY <1>2
<1> HIDE DEF first
<1>5. Fresh \in Replica /\ Sound(Fresh) /\ Fresh.skew = {} /\ 0 \in 0..MaxStep /\ 0 \in 0..MaxCalls
      /\ launches + 1 \in 0..MaxLaunches
  BY <1>1, <1>2 DEF Fresh, Replica, MoeRunAssumption, TypeOK, Sound
<1>6. TypeOK'
  BY <1>1, <1>2, <1>3, <1>5 DEF TypeOK
<1>7. ASSUME NEW r \in Ranks
      PROVE  /\ pc'[r] = first /\ inside'[r] = FALSE /\ entered'[r] = 0 /\ begun'[r] = 0
             /\ replica'[r] = Fresh /\ saved'[r] = Fresh /\ armed'[r] = FALSE /\ r \notin cut'
             /\ ~Trial(r)' /\ Passed(r)' = 0 /\ Place(r)' = first
  <2>1. /\ pc'[r] = first /\ inside'[r] = FALSE /\ entered'[r] = 0 /\ begun'[r] = 0
        /\ replica'[r] = Fresh /\ saved'[r] = Fresh /\ armed'[r] = FALSE /\ r \notin cut'
    BY <1>2
  <2>2. QED
    BY <1>3, <2>1 DEF Trial, Passed, Place, Seat
<1>8. Skews' /\ Entry'
  BY <1>1, <1>2, <1>5, <1>7 DEF Skews, Entry
<1>9. ASSUME NEW r \in Ranks PROVE RankInv(r)' /\ ConfirmInv(r)' /\ PublishedInv(r)'
  <2>1. first = "schedule" => Base' = Fresh
    BY <1>2, <1>4 DEF Base
  <2> HIDE DEF Base, Trial
  <2>2. RankInv(r)'
    BY <1>2, <1>3, <1>4, <1>7, <2>1 DEF RankInv
  <2>3. ConfirmInv(r)' /\ PublishedInv(r)'
    BY <1>3, <1>7 DEF ConfirmInv, PublishedInv
  <2>4. QED
    BY <2>2, <2>3
<1>10. ASSUME NEW r \in Ranks, NEW s \in Ranks PROVE PairInv(r, s)' /\ CutInv(r, s)'
  <2>1. Alike(r, s)'
    BY <1>3, <1>7 DEF Alike
  <2>2. Passed(r)' = 0 /\ Passed(s)' = 0 /\ r \notin cut'
    BY <1>7
  <2>3. QED
    BY <2>1, <2>2 DEF PairInv, CutInv
<1>11. QED
  BY <1>6, <1>8, <1>9, <1>10 DEF Inv

\* What is left is taken down; workers that had exited stay as they are.
LEMMA ReapInv ==
  ASSUME MoeRunAssumption, Inv, Reap
  PROVE  Inv'
<1>1. TypeOK /\ Skews /\ Entry
  BY DEF Inv
<1>2. /\ pc' = [r \in Ranks |-> IF Live(r) THEN "failed" ELSE pc[r]]
      /\ UNCHANGED <<checkpoint, length, begun, inside, entered, vetoed, cut, replica, saved, armed,
                     calls, launches, faults>>
  BY DEF Reap, session
<1>3. ASSUME NEW r \in Ranks
      PROVE  /\ pc'[r] = "failed" \/ (pc'[r] = "exited" /\ pc[r] = "exited" /\ r \notin cut)
             /\ pc'[r] \in Phases
  BY <1>2, PhaseSets DEF Live, Ended, Inv, RankInv
<1>4. TypeOK' /\ Skews'
  BY <1>1, <1>2, <1>3 DEF TypeOK, Skews
<1>5. ASSUME NEW r \in Ranks, Working(r)'
      PROVE  Working(r) /\ pc'[r] = "exited" /\ pc[r] = "exited"
  BY <1>2, <1>3, <1>5 DEF Working
<1>6. Entry'
  <2>1. \A r, q \in Ranks : entered[r] =< entered[q] + 1
    BY <1>1 DEF Entry
  <2>2. \A r, q \in Ranks : Working(r)' /\ ~inside[r] => entered[r] =< entered[q]
    BY <1>1, <1>5 DEF Entry
  <2>3. QED
    BY <1>2, <2>1, <2>2 DEF Entry
<1>7. ASSUME NEW r \in Ranks, pc'[r] = "exited"
      PROVE  /\ Passed(r)' = Passed(r) /\ Place(r)' = Place(r) /\ Settled(r)' = Settled(r)
             /\ Trial(r)' = Trial(r) /\ End(r)' = End(r) /\ Place(r)' = "exited" /\ Place(r) = "exited"
             /\ pc[r] = "exited"
  <2>1. pc[r] = "exited"
    BY <1>3, <1>7
  <2>2. QED
    BY <1>2, <1>7, <2>1 DEF Passed, Place, Seat, Settled, Trial, End
<1>8. ASSUME NEW r \in Ranks PROVE RankInv(r)' /\ ConfirmInv(r)' /\ PublishedInv(r)'
  <2>1. CASE pc'[r] = "failed"
    BY <2>1 DEF RankInv, ConfirmInv, PublishedInv
  <2>2. CASE pc'[r] = "exited"
    <3>1. RankInv(r) /\ PublishedInv(r)
      BY DEF Inv
    <3>2. Settled(r)' = Settled(r) /\ ~Trial(r)' /\ End(r)' = End(r) /\ pc[r] = "exited"
      BY <1>7, <2>2 DEF Trial
    <3>3. RankInv(r)'
      <4> HIDE DEF Settled, Trial, End
      <4>1. QED
        BY <1>2, <2>2, <3>1, <3>2 DEF RankInv, Scheduled, StepCall, BeforeForward, BeforeRetry, Retryable, Saving
    <3>4. QED
      BY <1>2, <2>2, <3>1, <3>2, <3>3 DEF ConfirmInv, PublishedInv
  <2>3. QED
    BY <1>3, <2>1, <2>2
<1>9. ASSUME NEW r \in Ranks, NEW s \in Ranks PROVE PairInv(r, s)'
  <2>1. SUFFICES ASSUME Working(r)', Working(s)'
                 PROVE  /\ Passed(r)' = Passed(s)' => Alike(r, s)'
                        /\ Passed(r)' = Passed(s)' + 1 => Follows(r, s)'
                        /\ Passed(r)' =< Passed(s)' + 1
    BY DEF PairInv
  <2>2. /\ Passed(r)' = Passed(r) /\ Passed(s)' = Passed(s) /\ pc[s] = "exited"
        /\ Place(r)' = Place(r) /\ Place(s)' = Place(s) /\ Settled(r)' = Settled(r)
        /\ Settled(s)' = Settled(s) /\ begun' = begun
    BY <1>2, <1>5, <1>7, <2>1
  <2>3. /\ Passed(r) = Passed(s) => Alike(r, s)
        /\ Passed(r) = Passed(s) + 1 => Follows(r, s)
        /\ Passed(r) =< Passed(s) + 1
    BY <1>5, <2>1 DEF Inv, PairInv
  <2>4. ~Follows(r, s)
    BY <2>2, PhaseSets DEF Follows, Inv, RankInv
  <2> HIDE DEF Passed, Place, Settled, Follows
  <2>5. Alike(r, s) => Alike(r, s)'
    BY <2>2 DEF Alike
  <2>6. QED
    BY <2>2, <2>3, <2>4, <2>5
<1>10. ASSUME NEW r \in Ranks, NEW s \in Ranks PROVE CutInv(r, s)'
  BY <1>2, <1>3 DEF CutInv
<1>11. QED
  BY <1>4, <1>6, <1>8, <1>9, <1>10 DEF Inv

-------------------------------------------------------------------------------
(* The invariant holds                                                        *)

LEMMA InitInv ==
  ASSUME MoeRunAssumption, Init
  PROVE  Inv
<1>1. /\ Fresh \in Replica /\ Sound(Fresh) /\ Fresh.skew = {} /\ Fresh.step = 0 /\ 0 \in 0..MaxStep
      /\ 0 \in 0..MaxCalls /\ 0 \in 0..MaxLaunches /\ 0 \in 0..MaxFaults
  BY DEF Fresh, Replica, MoeRunAssumption, Sound
<1>2. TypeOK
  BY <1>1, PhaseSets DEF Init, TypeOK
<1>3. ASSUME NEW r \in Ranks
      PROVE  /\ pc[r] = "exited" /\ inside[r] = FALSE /\ entered[r] = 0 /\ begun[r] = 0
             /\ replica[r] = Fresh /\ saved[r] = Fresh /\ armed[r] = FALSE /\ r \notin cut
             /\ ~Trial(r) /\ Settled(r) = Fresh /\ End(r) = 0 /\ Passed(r) = 0 /\ Place(r) = "exited"
  <2>1. /\ pc[r] = "exited" /\ inside[r] = FALSE /\ entered[r] = 0 /\ begun[r] = 0 /\ length = 0
        /\ replica[r] = Fresh /\ saved[r] = Fresh /\ armed[r] = FALSE /\ r \notin cut
    BY DEF Init
  <2>2. QED
    BY <2>1 DEF Trial, Settled, End, Passed, Place, Seat
<1>4. checkpoint = None /\ launches = 0
  BY DEF Init
<1>5. Skews /\ Entry
  <2>1. \A r \in Ranks : saved[r] = Fresh /\ replica[r] = Fresh /\ entered[r] = 0
    BY <1>3
  <2>2. Skews
    BY <1>1, <1>4, <2>1 DEF Skews
  <2>3. Entry
    BY <2>1 DEF Entry
  <2>4. QED
    BY <2>2, <2>3
<1>6. ASSUME NEW r \in Ranks PROVE RankInv(r) /\ ConfirmInv(r) /\ PublishedInv(r)
  <2>1. /\ pc[r] = "exited" /\ inside[r] = FALSE /\ armed[r] = FALSE /\ r \notin cut
        /\ replica[r].step = 0
    BY <1>1, <1>3
  <2>2. ~Trial(r) /\ End(r) = 0
    BY <1>3
  <2> HIDE DEF Trial, End
  <2>3. RankInv(r)
    BY <2>1, <2>2 DEF RankInv, Scheduled, StepCall, BeforeForward, BeforeRetry, Retryable, Saving
  <2>4. QED
    BY <1>4, <2>1, <2>3 DEF ConfirmInv, PublishedInv
<1>7. ASSUME NEW r \in Ranks, NEW s \in Ranks PROVE PairInv(r, s) /\ CutInv(r, s)
  <2>1. Alike(r, s)
    BY <1>3 DEF Alike
  <2>2. Passed(r) = 0 /\ Passed(s) = 0 /\ r \notin cut
    BY <1>3
  <2>3. QED
    BY <2>1, <2>2 DEF PairInv, CutInv
<1>8. QED
  BY <1>2, <1>5, <1>6, <1>7 DEF Inv

LEMMA StutterInv ==
  ASSUME Inv, UNCHANGED vars
  PROVE  Inv'
<1>1. UNCHANGED <<checkpoint, length, begun, pc, inside, entered, vetoed, cut, replica, saved, armed,
                  calls, launches, faults>>
  BY DEF vars, progress, session
<1>2. QED
  BY <1>1 DEF Inv, TypeOK, Skews, Entry, RankInv, ConfirmInv, PublishedInv, PairInv, CutInv, Alike, Follows,
              Front, Behind, Passed, Place, Seat, Settled, Trial, End, Working, Good, Complete, NextSettled,
              NextBegun, NextPlace, Base

LEMMA StepInv ==
  ASSUME MoeRunAssumption, Inv, Next
  PROVE  Inv'
<1>1. CASE \E resume \in BOOLEAN, n \in Lengths : Launch(resume, n)
  BY <1>1, LaunchInv
<1>2. CASE Reap
  BY <1>2, ReapInv
<1>3. CASE \E r \in Ranks : Step(r) \/ Disconnect(r) \/ Kill(r)
  <2>1. PICK r \in Ranks : Step(r) \/ Disconnect(r) \/ Kill(r)
    BY <1>3
  <2>2. CASE Call(r) \/ StartSave(r)
    BY <2>2, CallInv
  <2>3. CASE GiveUp(r) \/ Poison(r) \/ Fail(r) \/ Kill(r)
    BY <2>3, EndsInv
  <2>4. CASE Recover(r)
    BY <2>4, RecoverInv
  <2>5. CASE Schedule(r)
    BY <2>5, ScheduleInv
  <2>6. CASE Vote(r) \/ AdmitSave(r)
    BY <2>6, VoteInv
  <2>7. CASE Publish(r)
    BY <2>7, PublishInv
  <2>8. CASE Admit(r)
    BY <2>8, AdmitInv
  <2>9. CASE Compare(r)
    BY <2>9, CompareInv
  <2>10. CASE Forward(r)
    BY <2>10, ForwardInv
  <2>11. CASE Backward(r)
    BY <2>11, BackwardInv
  <2>12. CASE Update(r)
    BY <2>12, UpdateInv
  <2>13. CASE Proceed(r) \/ Advance(r)
    BY <2>13, ProceedInv
  <2>14. CASE RejectCall(r) \/ RetryLater(r)
    BY <2>14, RejectedInv
  <2>15. CASE Disconnect(r)
    BY <2>15, DisconnectInv
  <2>16. QED
    BY <2>1, <2>2, <2>3, <2>4, <2>5, <2>6, <2>7, <2>8, <2>9, <2>10, <2>11, <2>12, <2>13, <2>14, <2>15
       DEF Step
<1>4. QED
  BY <1>1, <1>2, <1>3 DEF Next

LEMMA InvHolds ==
  ASSUME MoeRunAssumption
  PROVE  Spec => []Inv
<1>1. Init => Inv
  BY InitInv
<1>2. Inv /\ [Next]_vars => Inv'
  BY StepInv, StutterInv
<1>3. QED
  BY <1>1, <1>2, PTL DEF Spec

-------------------------------------------------------------------------------
(* What it says                                                               *)

\* Every variable keeps its type: updates stay within the plan and calls within
\* theirs, whatever fails.
THEOREM TypeCorrect ==
  ASSUME MoeRunAssumption
  PROVE  Spec => []TypeOK
<1>1. Inv => TypeOK
  BY DEF Inv
<1>2. QED
  BY <1>1, InvHolds, PTL

\* However many calls each of them has returned from: a session that a rejected call was
\* restored to, or one that has not heard of the rejection yet, waits for the same
\* update with the same numbers as any other whose transport is whole.
LEMMA IdleAgree ==
  ASSUME MoeRunAssumption, Inv, NEW r \in Ranks, NEW s \in Ranks, pc[r] = "idle", pc[s] = "idle"
  PROVE  replica[r] = replica[s] /\ begun[r] = begun[s]
<1>1. TypeOK /\ RankInv(r) /\ RankInv(s) /\ PairInv(r, s) /\ PairInv(s, r) /\ CutInv(r, s) /\ CutInv(s, r)
  BY DEF Inv
<1>2. /\ ~inside[r] /\ ~inside[s] /\ Settled(r) = replica[r] /\ Settled(s) = replica[s]
  BY <1>1, PhaseSets DEF RankInv, Settled, Trial
<1>3. CASE r \in cut
  <2>1. ~Behind(r, s)
    BY <1>2 DEF Behind
  <2>2. QED
    BY <1>1, <1>3, <2>1 DEF CutInv, Front
<1>4. CASE s \in cut
  <2>1. ~Behind(s, r)
    BY <1>2 DEF Behind
  <2>2. QED
    BY <1>1, <1>4, <2>1 DEF CutInv, Front
<1>5. CASE r \notin cut /\ s \notin cut
  <2>1. /\ Working(r) /\ Working(s) /\ entered[r] \in Nat /\ entered[s] \in Nat
        /\ Passed(r) = entered[r] /\ Passed(s) = entered[s]
    BY <1>1, <1>2, <1>5, TypedRank DEF Working, Passed
  <2>2. entered[r] =< entered[s] /\ entered[s] =< entered[r]
    BY <1>2, <2>1 DEF Inv, Entry
  <2>3. Alike(r, s)
    BY <1>1, <2>1, <2>2 DEF PairInv
  <2>4. Place(r) \notin Loading
    BY DEF Place, Seat, Loading
  <2>5. QED
    BY <1>2, <2>3, <2>4 DEF Alike
<1>6. QED
  BY <1>3, <1>4, <1>5

\* MoEDDPTrainingSession.step: whatever failed on which rank, sessions that may be used
\* again stand at the same update with the same sound numbers, and the reducer of none
\* of them is left waiting for a backward pass.
THEOREM SessionsAgree ==
  ASSUME MoeRunAssumption, Replicated
  PROVE  Spec => []UsableSessionsAgree
<1>1. ASSUME Inv PROVE UsableSessionsAgree
  <2>1. ASSUME NEW r \in Ranks, NEW s \in Ranks, pc[r] = "idle", pc[s] = "idle"
        PROVE  replica[r] = replica[s] /\ replica[r].skew = {} /\ ~armed[r]
    <3>1. RankInv(r) /\ Settled(r) = replica[r] /\ pc[r] \in Scheduled
      BY <1>1, <2>1 DEF Inv, Settled, Trial, Scheduled
    <3>2. ~armed[r] /\ Sound(replica[r])
      BY <2>1, <3>1 DEF RankInv
    <3>3. replica[r] = replica[s]
      BY <1>1, <2>1, IdleAgree
    <3>4. QED
      BY <3>2, <3>3 DEF Sound
  <2>2. QED
    BY <2>1 DEF UsableSessionsAgree
<1>2. QED
  BY <1>1, InvHolds, PTL

\* moe_ddp_worker.py and save_moe_ddp_checkpoint: a worker exits normally only when the
\* published checkpoint holds its replica at the end of its launch, and no checkpoint
\* ever holds numbers the schedule does not define.
THEOREM SuccessSaved ==
  ASSUME MoeRunAssumption, Replicated
  PROVE  Spec => []SuccessIsSaved
<1>1. ASSUME Inv PROVE SuccessIsSaved
  <2>1. checkpoint # None => checkpoint.skew = {}
    BY <1>1 DEF Inv, Skews, Sound
  <2>2. ASSUME NEW r \in Ranks, pc[r] = "exited", launches > 0
        PROVE  checkpoint = replica[r] /\ replica[r].step = End(r)
    BY <1>1, <2>2 DEF Inv, RankInv, PublishedInv
  <2>3. QED
    BY <2>1, <2>2 DEF SuccessIsSaved
<1>2. QED
  BY <1>1, InvHolds, PTL

==============================================================================
