-------------------------- MODULE PrefixKVStoreProofs --------------------------
(***************************************************************************)
(* The prefix store's safety properties for every number of threads,       *)
(* models and prompts, every size and both budgets.                        *)
(*                                                                         *)
(* IInv is inductive.  Its parts say who is inside the store's lock        *)
(* (LockInv), what a reservation is for while it is in progress (AskInv),  *)
(* what residents and copies are (EntriesAreTrue, LeaseInv), and that each *)
(* counter is a sum of the charges it stands for.  A sum is not defined    *)
(* here by recursion: it is witnessed, by the partial sums along the LRU   *)
(* order (ResidentInv) and by a measure of the sets of threads             *)
(* (LeasedInv), which a step that adds or returns a charge updates.        *)
(***************************************************************************)
EXTENDS PrefixKVStore, SequenceTheorems, FiniteSetTheorems, WellFoundedInduction, TLAPS

-------------------------------------------------------------------------------
(* A sequence in least-recently-used order: an element is taken out, or       *)
(* moved to the recent end.                                                   *)

Out(s, i) == SubSeq(s, 1, i - 1) \o SubSeq(s, i + 1, Len(s))
ToEnd(s, i) == Append(Out(s, i), s[i])

\* Taking the element at i out keeps the others and their order.
LEMMA TakenOut ==
  ASSUME NEW S, NEW s \in Seq(S), NEW i \in DOMAIN s
  PROVE  /\ Out(s, i) \in Seq(S) /\ Len(Out(s, i)) = Len(s) - 1
         /\ DOMAIN Out(s, i) = 1..(Len(s) - 1)
         /\ \A k \in 1..(Len(s) - 1) : Out(s, i)[k] = s[IF k < i THEN k ELSE k + 1]
<1> DEFINE a == SubSeq(s, 1, i - 1)
           b == SubSeq(s, i + 1, Len(s))
<1>1. i \in 1..Len(s) /\ Len(s) \in Nat /\ DOMAIN s = 1..Len(s)
  BY LenProperties
<1>2. \A k \in 1..Len(s) : s[k] \in S
  BY ElementOfSeq
<1>3. a \in Seq(S) /\ Len(a) = i - 1 /\ \A k \in 1..(i - 1) : a[k] = s[k]
  <2>1. \A k \in 1..(i - 1) : s[k] \in S
    BY <1>1, <1>2
  <2>2. /\ a \in Seq(S)
        /\ Len(a) = IF 1 <= i - 1 THEN (i - 1) - 1 + 1 ELSE 0
        /\ \A k \in 1..((i - 1) - 1 + 1) : a[k] = s[1 + k - 1]
    BY <1>1, <2>1, SubSeqProperties
  <2> HIDE DEF a
  <2>3. \A k \in 1..(i - 1) : k \in 1..((i - 1) - 1 + 1) /\ 1 + k - 1 = k
    BY <1>1
  <2>4. QED
    BY <1>1, <2>2, <2>3
<1>4. b \in Seq(S) /\ Len(b) = Len(s) - i
      /\ \A k \in 1..(Len(s) - i) : b[k] = s[i + k]
  <2>1. \A k \in (i + 1)..Len(s) : s[k] \in S
    BY <1>1, <1>2
  <2>2. /\ b \in Seq(S)
        /\ Len(b) = IF i + 1 <= Len(s) THEN Len(s) - (i + 1) + 1 ELSE 0
        /\ \A k \in 1..(Len(s) - (i + 1) + 1) : b[k] = s[(i + 1) + k - 1]
    BY <1>1, <2>1, SubSeqProperties
  <2> HIDE DEF b
  <2>3. \A k \in 1..(Len(s) - i) :
          k \in 1..(Len(s) - (i + 1) + 1) /\ (i + 1) + k - 1 = i + k
    BY <1>1
  <2>4. QED
    BY <1>1, <2>2, <2>3
<1> DEFINE t == Out(s, i)
<1> HIDE DEF a, b, t
<1>5. /\ t \in Seq(S)
      /\ Len(t) = Len(a) + Len(b)
      /\ \A k \in 1..(Len(a) + Len(b)) :
           t[k] = IF k <= Len(a) THEN a[k] ELSE b[k - Len(a)]
  BY <1>3, <1>4, ConcatProperties DEF a, b, t, Out
<1>6. Len(t) = Len(s) - 1
  BY <1>1, <1>3, <1>4, <1>5
<1>7. ASSUME NEW k \in 1..(Len(s) - 1)
      PROVE  t[k] = s[IF k < i THEN k ELSE k + 1]
  <2>1. k \in 1..(Len(a) + Len(b))
    BY <1>1, <1>3, <1>4
  <2>2. CASE k < i
    <3>1. k <= Len(a) /\ k \in 1..(i - 1)
      BY <1>1, <1>3, <2>2
    <3>2. t[k] = a[k]
      BY <1>5, <2>1, <3>1
    <3>3. QED
      BY <1>3, <2>2, <3>1, <3>2
  <2>3. CASE ~(k < i)
    <3>1. ~(k <= Len(a)) /\ k - Len(a) \in 1..(Len(s) - i)
          /\ i + (k - Len(a)) = k + 1
      BY <1>1, <1>3, <2>3
    <3>2. t[k] = b[k - Len(a)]
      BY <1>5, <2>1, <3>1
    <3>3. t[k] = s[i + (k - Len(a))]
      BY <1>4, <3>1, <3>2
    <3>4. QED
      BY <2>3, <3>1, <3>3
  <2>4. QED
    BY <2>2, <2>3
<1>8. DOMAIN t = 1..(Len(s) - 1)
  BY <1>5, <1>6, LenProperties
<1>9. QED
  BY <1>5, <1>6, <1>7, <1>8 DEF t

\* Moving the element at i to the end keeps every element.
LEMMA MovedLast ==
  ASSUME NEW S, NEW s \in Seq(S), NEW i \in DOMAIN s
  PROVE  /\ ToEnd(s, i) \in Seq(S) /\ Len(ToEnd(s, i)) = Len(s)
         /\ DOMAIN ToEnd(s, i) = DOMAIN s
         /\ \A k \in DOMAIN s :
              ToEnd(s, i)[k] = s[IF k < i THEN k ELSE IF k < Len(s) THEN k + 1 ELSE i]
<1> DEFINE u == Out(s, i)
           t == ToEnd(s, i)
<1>1. i \in 1..Len(s) /\ Len(s) \in Nat /\ DOMAIN s = 1..Len(s) /\ s[i] \in S
  BY LenProperties, ElementOfSeq
<1>2. u \in Seq(S) /\ Len(u) = Len(s) - 1
      /\ \A k \in 1..(Len(s) - 1) : u[k] = s[IF k < i THEN k ELSE k + 1]
  BY TakenOut
<1> HIDE DEF u, t
<1>3. /\ t \in Seq(S)
      /\ Len(t) = Len(u) + 1
      /\ \A k \in 1..Len(u) : t[k] = u[k]
      /\ t[Len(u) + 1] = s[i]
  <2> DEFINE e == s[i]
  <2>1. t = Append(u, e) /\ e \in S
    BY <1>1 DEF u, t, ToEnd
  <2> HIDE DEF e
  <2>2. /\ Append(u, e) \in Seq(S)
        /\ Len(Append(u, e)) = Len(u) + 1
        /\ \A k \in 1..Len(u) : Append(u, e)[k] = u[k]
        /\ Append(u, e)[Len(u) + 1] = e
    BY <1>2, <2>1, AppendProperties
  <2>3. QED
    BY <2>1, <2>2 DEF e
<1>4. Len(t) = Len(s) /\ DOMAIN t = DOMAIN s /\ t[Len(s)] = s[i]
  BY <1>1, <1>2, <1>3, LenProperties
<1>5. ASSUME NEW k \in DOMAIN s
      PROVE  t[k] = s[IF k < i THEN k ELSE IF k < Len(s) THEN k + 1 ELSE i]
  <2>1. k \in 1..Len(s)
    BY <1>1
  <2>2. CASE k < Len(s)
    <3>1. k \in 1..(Len(s) - 1) /\ k \in 1..Len(u)
      BY <1>1, <1>2, <2>1, <2>2
    <3>2. QED
      <4>1. t[k] = u[k]
        BY <1>3, <3>1
      <4>2. u[k] = s[IF k < i THEN k ELSE k + 1]
        BY <1>2, <3>1
      <4>3. QED
        BY <2>2, <4>1, <4>2
  <2>3. CASE ~(k < Len(s))
    <3>1. k = Len(s) /\ ~(k < i)
      BY <1>1, <2>1, <2>3
    <3>2. QED
      BY <1>4, <2>3, <3>1
  <2>4. QED
    BY <2>2, <2>3
<1>6. QED
  BY <1>3, <1>4, <1>5 DEF t

-------------------------------------------------------------------------------
\* The type invariant without the counters.
Shape ==
  /\ entries \in Seq(Entry)
  /\ lock \in Threads \union {None}
  /\ pc \in [Threads -> {"idle", "reserving", "copying", "prefill", "decoding"}]
  /\ job \in [Threads -> Key \union {None}]
  /\ ask \in Ask
  /\ lease \in [Threads -> Lease \union {None}]
  /\ failures \in Nat

\* A reservation is made under the lock, for a thread that has a job.
LockInv ==
  /\ \A t \in Threads : pc[t] \in {"reserving", "copying"} <=> lock = t
  /\ \A t \in Threads : pc[t] # "idle" => job[t] \in Key
  /\ \A t \in Threads : pc[t] = "idle" => lease[t] = None

\* A thread that borrows has no copy yet, and its source is resident, of its
\* model, and agrees with its prompt as far as it is to be copied.
Sourced(t) ==
  /\ lease[t] = None
  /\ Holding(ask.source) # {}
  /\ ask.source.identity = job[t].identity
  /\ ask.length \in 1..Len(job[t].tokens)
  /\ SharesPrefix(ask.source.tokens, job[t].tokens, ask.length)
  /\ ask.length = Len(job[t].tokens) => ask.source.tokens = job[t].tokens

\* What the reservation in progress is for.
AskInv ==
  \A t \in Threads : lock = t =>
    /\ ~Publishing(ask) => Sourced(t)
    /\ Publishing(ask) => ask.size = BytesFor(Len(job[t].tokens), TRUE)
    /\ pc[t] = "copying" /\ Publishing(ask) => Len(entries) < MaxEntries

\* A copy is no longer than the borrower's prompt.
LeaseInv ==
  /\ LeasesAreTrue
  /\ \A t \in Threads : lease[t] # None =>
       Len(lease[t].value.kv) <= Len(job[t].tokens)

\* f holds the partial sums of the charges along the LRU order s.
PartialSums(f, s) ==
  /\ f \in [0..Len(s) -> Nat]
  /\ f[0] = 0
  /\ \A n \in 1..Len(s) : f[n] = f[n - 1] + EntrySize(s[n])
  /\ \A m, n \in 0..Len(s) : m <= n => f[m] <= f[n]

\* The residents' bytes are the sum of their charges.
ResidentInv == \E f : PartialSums(f, entries) /\ f[Len(entries)] = resident

Charge(t) == IF lease[t] = None THEN 0 ELSE lease[t].size

\* m measures a set of threads by the copies they hold.
Measure(m, charge) ==
  /\ m \in [SUBSET Threads -> Nat]
  /\ m[{}] = 0
  /\ \A T \in SUBSET Threads : \A t \in T : m[T] = m[T \ {t}] + charge[t]

\* The copies' bytes are the sum over the threads that hold them.
LeasedInv ==
  \E m : Measure(m, [t \in Threads |-> Charge(t)]) /\ m[Threads] = leased

Holders == {t \in Threads : lease[t] # None}
ActiveInv == IsFiniteSet(Holders) /\ active = Cardinality(Holders)

\* Bytes are reserved only while they are copied.
ReservedInv ==
  /\ \A t \in Threads : pc[t] = "copying" => reserved = ask.size
  /\ (\A t \in Threads : pc[t] # "copying") => reserved = 0

IInv ==
  /\ Shape /\ LockInv /\ AskInv /\ EntriesAreTrue /\ LeaseInv
  /\ ResidentInv /\ LeasedInv /\ ActiveInv /\ ReservedInv
  /\ WithinBudget

-------------------------------------------------------------------------------
\* The bytes of a snapshot are a number.
LEMMA SizeType ==
  ASSUME NEW n \in Nat, NEW b
  PROVE  BytesFor(n, b) \in Nat
<1>1. TokenBytes * n \in Nat
  BY StoreAssumption
<1>2. QED
  BY <1>1, StoreAssumption DEF BytesFor

\* The charge of a resident is a number.
LEMMA EntrySizeType ==
  ASSUME entries \in Seq(Entry), NEW i \in 1..Len(entries)
  PROVE  EntrySize(entries[i]) \in Nat
<1>1. entries[i] \in Entry
  BY ElementOfSeq
<1>2. entries[i].key.tokens \in Seq(Int)
  BY <1>1, StoreAssumption DEF Entry, Key
<1>3. QED
  BY <1>2, LenProperties, SizeType DEF EntrySize

\* The first n elements of a sequence.
LEMMA PrefixOf ==
  ASSUME NEW S, NEW s \in Seq(S), NEW n \in Nat, n <= Len(s)
  PROVE  /\ SubSeq(s, 1, n) \in Seq(S) /\ Len(SubSeq(s, 1, n)) = n
         /\ \A k \in 1..n : SubSeq(s, 1, n)[k] = s[k]
<1>1. \A k \in 1..n : s[k] \in S
  BY ElementOfSeq, LenProperties
<1> DEFINE m == 1
<1>2. m \in Int /\ \A k \in m..n : s[k] \in S
  BY <1>1
<1> HIDE DEF m
<1>3. /\ SubSeq(s, m, n) \in Seq(S)
      /\ Len(SubSeq(s, m, n)) = IF m <= n THEN n - m + 1 ELSE 0
      /\ \A k \in 1..(n - m + 1) : SubSeq(s, m, n)[k] = s[m + k - 1]
  BY <1>2, SubSeqProperties
<1>4. m = 1
  BY DEF m
<1>5. \A k \in 1..n : m + k - 1 = k /\ k \in 1..(n - m + 1)
  BY <1>4
<1>6. Len(SubSeq(s, m, n)) = n
  BY <1>3, <1>4
<1>7. QED
  BY <1>3, <1>4, <1>5, <1>6

\* Taking an entry out, or moving it to the recent end, invents none.
LEMMA EntriesKept ==
  ASSUME Shape, NEW i \in DOMAIN entries
  PROVE  /\ Without(i) \in Seq(Entry) /\ Len(Without(i)) = Len(entries) - 1
         /\ \A k \in DOMAIN Without(i) : \E j \in DOMAIN entries \ {i} : Without(i)[k] = entries[j]
         /\ \A j \in DOMAIN entries \ {i} : \E k \in DOMAIN Without(i) : Without(i)[k] = entries[j]
         /\ MovedToEnd(i) \in Seq(Entry) /\ Len(MovedToEnd(i)) = Len(entries)
         /\ \A k \in DOMAIN MovedToEnd(i) : \E j \in DOMAIN entries : MovedToEnd(i)[k] = entries[j]
<1>1. entries \in Seq(Entry) /\ i \in 1..Len(entries) /\ Len(entries) \in Nat
      /\ DOMAIN entries = 1..Len(entries)
  BY LenProperties DEF Shape
<1>2. Without(i) = Out(entries, i) /\ MovedToEnd(i) = ToEnd(entries, i)
  BY DEF Without, Out, MovedToEnd, ToEnd
<1> DEFINE w == Without(i)
           m == MovedToEnd(i)
<1>3. /\ w \in Seq(Entry) /\ Len(w) = Len(entries) - 1
      /\ DOMAIN w = 1..(Len(entries) - 1)
      /\ \A k \in 1..(Len(entries) - 1) : w[k] = entries[IF k < i THEN k ELSE k + 1]
  <2> DEFINE o == Out(entries, i)
  <2>1. /\ o \in Seq(Entry) /\ Len(o) = Len(entries) - 1
        /\ DOMAIN o = 1..(Len(entries) - 1)
        /\ \A k \in 1..(Len(entries) - 1) : o[k] = entries[IF k < i THEN k ELSE k + 1]
    BY <1>1, TakenOut
  <2>2. w = o
    BY <1>2
  <2> HIDE DEF o, w
  <2>3. QED
    BY <2>1, <2>2
<1>4. /\ m \in Seq(Entry) /\ Len(m) = Len(entries) /\ DOMAIN m = DOMAIN entries
      /\ \A k \in DOMAIN entries :
           m[k] = entries[IF k < i THEN k ELSE IF k < Len(entries) THEN k + 1 ELSE i]
  <2> DEFINE o == ToEnd(entries, i)
  <2>1. /\ o \in Seq(Entry) /\ Len(o) = Len(entries) /\ DOMAIN o = DOMAIN entries
        /\ \A k \in DOMAIN entries :
             o[k] = entries[IF k < i THEN k ELSE IF k < Len(entries) THEN k + 1 ELSE i]
    BY <1>1, MovedLast
  <2>2. m = o
    BY <1>2
  <2> HIDE DEF o, m
  <2>3. QED
    BY <2>1, <2>2
<1> HIDE DEF w, m
<1>5. ASSUME NEW k \in DOMAIN w
      PROVE  \E j \in DOMAIN entries \ {i} : w[k] = entries[j]
  <2>1. (IF k < i THEN k ELSE k + 1) \in DOMAIN entries \ {i}
    BY <1>1, <1>3
  <2>2. QED
    BY <1>3, <2>1
<1>6. ASSUME NEW j \in DOMAIN entries \ {i}
      PROVE  \E k \in DOMAIN w : w[k] = entries[j]
  <2> DEFINE k == IF j < i THEN j ELSE j - 1
  <2>1. k \in 1..(Len(entries) - 1) /\ (IF k < i THEN k ELSE k + 1) = j
    BY <1>1
  <2>2. QED
    BY <1>3, <2>1
<1>7. ASSUME NEW k \in DOMAIN m
      PROVE  \E j \in DOMAIN entries : m[k] = entries[j]
  <2>1. (IF k < i THEN k ELSE IF k < Len(entries) THEN k + 1 ELSE i) \in DOMAIN entries
    BY <1>1, <1>4
  <2>2. QED
    BY <1>4, <2>1
<1>8. QED
  BY <1>3, <1>4, <1>5, <1>6, <1>7 DEF w, m

\* Whatever a thread borrowed, the forward pass over the rest of its prompt
\* computes the whole of it, under its own model.
LEMMA ComputedIsTrue ==
  ASSUME IInv, NEW t \in Threads, pc[t] # "idle"
  PROVE  Computed(t) = [model |-> job[t].identity, kv |-> job[t].tokens, logits |-> TRUE]
<1> DEFINE p == job[t].tokens
           b == Borrowed(t)
<1>1. job[t] \in Key /\ p \in Prompts /\ p \in Seq(Int) /\ Len(p) \in Nat
  <2>1. job[t] \in Key
    BY DEF IInv, LockInv
  <2>2. QED
    BY <2>1, StoreAssumption, LenProperties DEF Key
<1>2. CASE lease[t] = None
  <2>1. b = <<>> /\ Len(b) = 0
    BY <1>2 DEF Borrowed
  <2>2. Suffix(t) = SubSeq(p, 1, Len(p))
    BY <2>1 DEF Suffix
  <2> HIDE DEF p, b
  <2>3. SubSeq(p, 1, Len(p)) = p
    BY <1>1, SubSeqFull
  <2>4. b \o p = p
    BY <1>1, <2>1, ConcatEmptySeq
  <2>5. QED
    BY <1>2, <2>2, <2>3, <2>4 DEF Computed, p, b
<1>3. CASE lease[t] # None
  <2>1. lease[t] \in Lease
    BY <1>3 DEF IInv, Shape
  <2>2. /\ b \in Seq(Int) /\ Len(b) \in Nat /\ Len(b) <= Len(p)
        /\ b = SubSeq(p, 1, Len(b))
        /\ lease[t].value.model = job[t].identity
    BY <1>3, <2>1, LenProperties
    DEF IInv, LeaseInv, LeasesAreTrue, Borrowed, Lease, Snapshot
  <2>3. Suffix(t) = SubSeq(p, Len(b) + 1, Len(p))
    BY DEF Suffix
  <2> HIDE DEF p, b
  <2>4. SubSeq(p, 1, Len(b)) \o SubSeq(p, Len(b) + 1, Len(p)) = SubSeq(p, 1, Len(p))
    <3>1. /\ 1 \in 1..(Len(p) + 1) /\ Len(b) \in (1 - 1)..Len(p)
          /\ Len(p) \in Len(b)..Len(p)
      BY <1>1, <2>2
    <3> DEFINE m == 1
               k == Len(b)
               n == Len(p)
    <3> HIDE DEF m, k, n
    <3>2. SubSeq(p, m, k) \o SubSeq(p, k + 1, n) = SubSeq(p, m, n)
      BY <1>1, <3>1, ConcatAdjacentSubSeq DEF m, k, n
    <3>3. QED
      BY <3>2 DEF m, k, n
  <2>5. SubSeq(p, 1, Len(p)) = p
    BY <1>1, SubSeqFull
  <2>6. b \o Suffix(t) = p
    BY <2>2, <2>3, <2>4, <2>5
  <2>7. QED
    BY <1>3, <2>2, <2>6 DEF Computed, p, b
<1>4. QED
  BY <1>2, <1>3

\* The copy that is handed out is a snapshot, charged as it was reserved, to a
\* thread that has none.
LEMMA BorrowShape ==
  ASSUME IInv, NEW t \in Threads, Borrow(t)
  PROVE  /\ lease[t] = None
         /\ \E v \in Snapshot : lease' = [lease EXCEPT ![t] = [value |-> v, size |-> ask.size]]
<1>1. PICK i \in Holding(ask.source) : lease' = [lease EXCEPT ![t] =
        [value |-> [model |-> entries[i].value.model,
                    kv |-> SubSeq(entries[i].value.kv, 1, ask.length),
                    logits |-> entries[i].value.logits /\ ask.source.tokens = job[t].tokens],
         size |-> ask.size]]
  BY DEF Borrow
<1> DEFINE s == entries[i].value.kv
           v == [model |-> entries[i].value.model,
                 kv |-> SubSeq(s, 1, ask.length),
                 logits |-> entries[i].value.logits /\ ask.source.tokens = job[t].tokens]
<1>2. i \in DOMAIN entries /\ i \in 1..Len(entries) /\ entries[i].key = ask.source
  BY LenProperties DEF Holding, IInv, Shape
<1>3. entries[i] \in Entry
  BY <1>2, ElementOfSeq DEF IInv, Shape
<1>4. entries[i].value \in Snapshot /\ entries[i].key \in Key
  BY <1>3 DEF Entry
<1>5. Sourced(t)
  BY DEF Borrow, Copying, IInv, AskInv
<1>6. entries[i].value = [model |-> entries[i].key.identity,
                          kv |-> entries[i].key.tokens, logits |-> TRUE]
  BY <1>2 DEF IInv, EntriesAreTrue
<1>7. s \in Seq(Int) /\ ask.length \in Nat /\ ask.length <= Len(s)
  BY <1>2, <1>4, <1>5, <1>6 DEF Snapshot, Sourced, SharesPrefix
<1> HIDE DEF s
<1>8. SubSeq(s, 1, ask.length) \in Seq(Int)
  BY <1>7, PrefixOf
<1>9. v \in Snapshot
  BY <1>4, <1>8 DEF Snapshot
<1>10. lease' = [lease EXCEPT ![t] = [value |-> v, size |-> ask.size]]
  BY <1>1 DEF s
<1> HIDE DEF v
<1>11. QED
  BY <1>5, <1>9, <1>10 DEF Sourced

\* Every action keeps the variables in their types.
LEMMA ShapeStep ==
  ASSUME IInv, [Next]_vars
  PROVE  Shape'
<1> USE StoreAssumption DEF IInv, Shape, Reserving, Copying, Publishable, Goto, Return, counters
<1>1. ASSUME NEW t \in Threads, NEW key \in Key, Acquire(t, key)
      PROVE  Shape'
  <2>1. ask' \in Ask
    <3>1. CASE LongestMatch(key) = {}
      BY <1>1, <3>1 DEF Acquire
    <3>2. CASE LongestMatch(key) # {}
      <4>1. PICK m \in LongestMatch(key) :
              ask' = [size |-> BytesFor(m[2], entries[m[1]].key.tokens = key.tokens),
                      source |-> entries[m[1]].key, length |-> m[2]]
        BY <1>1, <3>2 DEF Acquire
      <4>2. m[1] \in DOMAIN entries /\ m[2] \in Nat
        BY DEF LongestMatch
      <4>3. entries[m[1]] \in Entry
        BY <4>2, ElementOfSeq
      <4>4. entries[m[1]].key \in Key
        BY <4>3 DEF Entry
      <4>5. BytesFor(m[2], entries[m[1]].key.tokens = key.tokens) \in Nat
        BY <4>2, SizeType
      <4>6. QED
        BY <4>1, <4>2, <4>4, <4>5 DEF Ask
    <3>3. QED
      BY <3>1, <3>2
  <2>2. UNCHANGED <<entries, lease, failures>> /\ job' = [job EXCEPT ![t] = key]
    BY <1>1 DEF Acquire
  <2>3. lock' \in Threads \union {None}
    BY <1>1 DEF Acquire
  <2>4. pc' \in [Threads -> {"idle", "reserving", "copying", "prefill", "decoding"}]
    BY <1>1 DEF Acquire
  <2>5. QED
    BY <2>1, <2>2, <2>3, <2>4
<1>2. ASSUME NEW t \in Threads, Evict(t)
      PROVE  Shape'
  <2>1. PICK i \in DOMAIN entries : entries' = Without(i)
    BY <1>2 DEF Evict, Victims
  <2>2. entries' \in Seq(Entry)
    BY <2>1, EntriesKept
  <2>3. QED
    BY <1>2, <2>2 DEF Evict
<1>3. ASSUME NEW t \in Threads, Reserve(t)
      PROVE  Shape'
  BY <1>3 DEF Reserve
<1>4. ASSUME NEW t \in Threads, Bypass(t)
      PROVE  Shape'
  BY <1>4 DEF Bypass, NoAsk, Ask
<1>5. ASSUME NEW t \in Threads, Borrow(t)
      PROVE  Shape'
  <2>1. PICK v \in Snapshot : lease' = [lease EXCEPT ![t] = [value |-> v, size |-> ask.size]]
    BY <1>5, BorrowShape
  <2>2. [value |-> v, size |-> ask.size] \in Lease
    BY DEF Lease, Ask
  <2>3. PICK i \in DOMAIN entries : entries' = MovedToEnd(i)
    BY <1>5 DEF Borrow, Holding
  <2>4. entries' \in Seq(Entry)
    BY <2>3, EntriesKept
  <2>5. QED
    BY <1>5, <2>1, <2>2, <2>4 DEF Borrow, NoAsk, Ask
<1>6. ASSUME NEW t \in Threads, UseExact(t)
      PROVE  Shape'
  BY <1>6 DEF UseExact
<1>7. ASSUME NEW t \in Threads, Refresh(t)
      PROVE  Shape'
  <2>1. PICK i \in DOMAIN entries : entries' = MovedToEnd(i)
    BY <1>7 DEF Refresh, Holding
  <2>2. entries' \in Seq(Entry)
    BY <2>1, EntriesKept
  <2>3. QED
    BY <1>7, <2>2 DEF Refresh
<1>8. ASSUME NEW t \in Threads, Publish(t)
      PROVE  Shape'
  <2>1. job[t] \in Key
    BY <1>8 DEF Publish, LockInv
  <2>2. Len(job[t].tokens) \in Nat
    BY <2>1, LenProperties DEF Key
  <2>3. ask' \in Ask
    BY <1>8, <2>2, SizeType DEF Publish, Ask
  <2>4. QED
    BY <1>8, <2>3 DEF Publish
<1>9. ASSUME NEW t \in Threads, Store(t)
      PROVE  Shape'
  <2>1. /\ job[t] \in Key
        /\ Computed(t) = [model |-> job[t].identity, kv |-> job[t].tokens, logits |-> TRUE]
    BY <1>9, ComputedIsTrue DEF Store, LockInv
  <2>2. [key |-> job[t], value |-> Computed(t)] \in Entry
    BY <2>1 DEF Key, Entry, Snapshot
  <2>3. entries' \in Seq(Entry)
    BY <1>9, <2>2, AppendProperties DEF Store
  <2>4. QED
    BY <1>9, <2>3 DEF Store, NoAsk, Ask
<1>10. ASSUME NEW t \in Threads, Release(t)
      PROVE  Shape'
  BY <1>10 DEF Release
<1>11. ASSUME NEW t \in Threads, CopyFails(t)
      PROVE  Shape'
  BY <1>11 DEF CopyFails, NoAsk, Ask
<1>12. ASSUME NEW t \in Threads, ForwardFails(t)
      PROVE  Shape'
  BY <1>12 DEF ForwardFails
<1>13. ASSUME Clear
      PROVE  Shape'
  BY <1>13 DEF Clear
<1>14. ASSUME UNCHANGED vars
      PROVE  Shape'
  BY <1>14 DEF vars
<1>15. QED
  BY <1>1, <1>2, <1>3, <1>4, <1>5, <1>6, <1>7, <1>8, <1>9, <1>10, <1>11, <1>12, <1>13, <1>14 DEF Next, Thread

\* The thread that reserves is the one that holds the store's lock.
LEMMA LockStep ==
  ASSUME IInv, [Next]_vars
  PROVE  LockInv'
<1> USE StoreAssumption DEF IInv, Shape, LockInv, Reserving, Copying, Publishable, Goto, Return, counters
<1>1. ASSUME NEW t \in Threads, NEW key \in Key, Acquire(t, key)
      PROVE  LockInv'
  BY <1>1 DEF Acquire
<1>2. ASSUME NEW t \in Threads, Evict(t)
      PROVE  LockInv'
  BY <1>2 DEF Evict
<1>3. ASSUME NEW t \in Threads, Reserve(t)
      PROVE  LockInv'
  BY <1>3 DEF Reserve
<1>4. ASSUME NEW t \in Threads, Bypass(t)
      PROVE  LockInv'
  BY <1>4 DEF Bypass
<1>5. ASSUME NEW t \in Threads, Borrow(t)
      PROVE  LockInv'
  BY <1>5 DEF Borrow
<1>6. ASSUME NEW t \in Threads, UseExact(t)
      PROVE  LockInv'
  BY <1>6 DEF UseExact
<1>7. ASSUME NEW t \in Threads, Refresh(t)
      PROVE  LockInv'
  BY <1>7 DEF Refresh
<1>8. ASSUME NEW t \in Threads, Publish(t)
      PROVE  LockInv'
  BY <1>8 DEF Publish
<1>9. ASSUME NEW t \in Threads, Store(t)
      PROVE  LockInv'
  BY <1>9 DEF Store
<1>10. ASSUME NEW t \in Threads, Release(t)
      PROVE  LockInv'
  BY <1>10 DEF Release
<1>11. ASSUME NEW t \in Threads, CopyFails(t)
      PROVE  LockInv'
  BY <1>11 DEF CopyFails
<1>12. ASSUME NEW t \in Threads, ForwardFails(t)
      PROVE  LockInv'
  BY <1>12 DEF ForwardFails
<1>13. ASSUME Clear
      PROVE  LockInv'
  BY <1>13 DEF Clear
<1>14. ASSUME UNCHANGED vars
      PROVE  LockInv'
  BY <1>14 DEF vars
<1>15. QED
  BY <1>1, <1>2, <1>3, <1>4, <1>5, <1>6, <1>7, <1>8, <1>9, <1>10, <1>11, <1>12, <1>13, <1>14 DEF Next, Thread

\* A reservation keeps its purpose until it is over, and its source is spared.
LEMMA AskStep ==
  ASSUME IInv, [Next]_vars
  PROVE  AskInv'
<1> USE StoreAssumption DEF IInv, Shape, LockInv, AskInv, Sourced, Holding, Publishing, Reserving, Copying, Publishable, Goto, Return, counters
<1>1. ASSUME NEW t \in Threads, NEW key \in Key, Acquire(t, key)
      PROVE  AskInv'
  <2> SUFFICES ASSUME LongestMatch(key) # {} PROVE AskInv'
    BY <1>1 DEF Acquire
  <2>1. PICK m \in LongestMatch(key) :
          /\ ask' = [size |-> BytesFor(m[2], entries[m[1]].key.tokens = key.tokens),
                     source |-> entries[m[1]].key, length |-> m[2]]
          /\ lock' = t
          /\ pc' = [pc EXCEPT ![t] = "reserving"]
    BY <1>1 DEF Acquire
  <2>2. /\ m[1] \in DOMAIN entries /\ m[1] \in 1..Len(entries)
        /\ m[2] \in 1..Len(key.tokens) /\ m[2] \in Reusable(entries[m[1]], key)
    BY LenProperties DEF LongestMatch
  <2>3. entries[m[1]] \in Entry
    BY <2>2, ElementOfSeq
  <2>4. ask'.source = entries[m[1]].key /\ ask'.length = m[2] /\ ask'.source \in Key
    BY <2>1, <2>3 DEF Entry
  <2>5. job'[t] = key /\ lease'[t] = None /\ entries' = entries
    BY <1>1 DEF Acquire
  <2>6. ask'.source # None
    BY <2>4 DEF Key
  <2>7. m[1] \in Holding(ask.source)'
    BY <2>2, <2>4, <2>5
  <2>8. Sourced(t)'
    BY <2>2, <2>4, <2>5, <2>7 DEF Reusable
  <2>9. QED
    BY <2>1, <2>6, <2>8
<1>2. ASSUME NEW t \in Threads, Evict(t)
      PROVE  AskInv'
  <2>1. PICK i \in Victims : entries' = Without(i)
    BY <1>2 DEF Evict
  <2>2. i \in DOMAIN entries /\ entries[i].key # ask.source
    BY DEF Victims
  <2>3. UNCHANGED <<ask, lock, job, lease, pc>> /\ lock = t /\ pc[t] = "reserving"
    BY <1>2 DEF Evict
  <2>4. ASSUME Sourced(t) PROVE Holding(ask.source)' # {}
    <3>1. PICK j \in Holding(ask.source) : TRUE
      BY <2>4
    <3>2. j \in DOMAIN entries \ {i}
      BY <2>2, <3>1
    <3>3. PICK k \in DOMAIN Without(i) : Without(i)[k] = entries[j]
      BY <3>2, <2>2, EntriesKept
    <3>4. k \in Holding(ask.source)'
      BY <3>1, <3>3, <2>1, <2>3
    <3>5. QED
      BY <3>4
  <2>5. ~Publishing(ask) => Sourced(t)'
    <3> HIDE DEF Holding
    <3>1. QED
      BY <2>3, <2>4
  <2>6. QED
    BY <2>3, <2>5
<1>3. ASSUME NEW t \in Threads, Reserve(t)
      PROVE  AskInv'
  <2>1. UNCHANGED <<ask, lock, job, lease, entries>> /\ lock = t /\ pc' = [pc EXCEPT ![t] = "copying"]
    BY <1>3 DEF Reserve
  <2>2. Publishing(ask) => Len(entries) < MaxEntries
    BY <1>3 DEF Reserve, Fits
  <2>3. QED
    BY <2>1, <2>2
<1>4. ASSUME NEW t \in Threads, Bypass(t)
      PROVE  AskInv'
  <2>1. lock' = None
    BY <1>4 DEF Bypass
  <2>2. QED
    BY <2>1
<1>5. ASSUME NEW t \in Threads, Borrow(t)
      PROVE  AskInv'
  <2>1. lock' = None
    BY <1>5 DEF Borrow
  <2>2. QED
    BY <2>1
<1>6. ASSUME NEW t \in Threads, UseExact(t)
      PROVE  AskInv'
  <2>1. UNCHANGED <<ask, lock, job, lease, entries>> /\ pc' = [pc EXCEPT ![t] = "decoding"]
    BY <1>6 DEF UseExact
  <2>2. \A u \in Threads : lock' = u => u # t /\ pc'[u] = pc[u]
    BY <1>6, <2>1 DEF UseExact
  <2>3. QED
    BY <2>1, <2>2
<1>7. ASSUME NEW t \in Threads, Refresh(t)
      PROVE  AskInv'
  <2>1. lock' = None
    BY <1>7 DEF Refresh
  <2>2. QED
    BY <2>1
<1>8. ASSUME NEW t \in Threads, Publish(t)
      PROVE  AskInv'
  <2>1. /\ ask' = [size |-> BytesFor(Len(job[t].tokens), TRUE), source |-> None, length |-> 0]
        /\ lock' = t /\ job' = job /\ pc' = [pc EXCEPT ![t] = "reserving"]
    BY <1>8 DEF Publish
  <2>2. QED
    BY <2>1
<1>9. ASSUME NEW t \in Threads, Store(t)
      PROVE  AskInv'
  <2>1. lock' = None
    BY <1>9 DEF Store
  <2>2. QED
    BY <2>1
<1>10. ASSUME NEW t \in Threads, Release(t)
      PROVE  AskInv'
  <2>1. lock' = None
    BY <1>10 DEF Release
  <2>2. QED
    BY <2>1
<1>11. ASSUME NEW t \in Threads, CopyFails(t)
      PROVE  AskInv'
  <2>1. lock' = None
    BY <1>11 DEF CopyFails
  <2>2. QED
    BY <2>1
<1>12. ASSUME NEW t \in Threads, ForwardFails(t)
      PROVE  AskInv'
  <2>1. lock' = None
    BY <1>12 DEF ForwardFails
  <2>2. QED
    BY <2>1
<1>13. ASSUME Clear
      PROVE  AskInv'
  <2>1. lock' = None
    BY <1>13 DEF Clear
  <2>2. QED
    BY <2>1
<1>14. ASSUME UNCHANGED vars
      PROVE  AskInv'
  BY <1>14 DEF vars
<1>15. QED
  BY <1>1, <1>2, <1>3, <1>4, <1>5, <1>6, <1>7, <1>8, <1>9, <1>10, <1>11, <1>12, <1>13, <1>14 DEF Next, Thread

\* A resident is what the forward pass computed; the others stay as they are.
LEMMA EntriesStep ==
  ASSUME IInv, [Next]_vars
  PROVE  EntriesAreTrue'
<1> USE DEF IInv, EntriesAreTrue, counters
<1>1. ASSUME NEW t \in Threads, NEW key \in Key, Acquire(t, key)
      PROVE  EntriesAreTrue'
  BY <1>1 DEF Acquire
<1>2. ASSUME NEW t \in Threads, Evict(t)
      PROVE  EntriesAreTrue'
  <2>1. PICK i \in DOMAIN entries : entries' = Without(i)
    BY <1>2 DEF Evict, Victims
  <2>2. \A k \in DOMAIN entries' : \E j \in DOMAIN entries : entries'[k] = entries[j]
    BY <2>1, EntriesKept
  <2>3. QED
    BY <2>2
<1>3. ASSUME NEW t \in Threads, Reserve(t)
      PROVE  EntriesAreTrue'
  BY <1>3 DEF Reserve
<1>4. ASSUME NEW t \in Threads, Bypass(t)
      PROVE  EntriesAreTrue'
  BY <1>4 DEF Bypass
<1>5. ASSUME NEW t \in Threads, Borrow(t)
      PROVE  EntriesAreTrue'
  <2>1. PICK i \in DOMAIN entries : entries' = MovedToEnd(i)
    BY <1>5 DEF Borrow, Holding
  <2>2. \A k \in DOMAIN entries' : \E j \in DOMAIN entries : entries'[k] = entries[j]
    BY <2>1, EntriesKept
  <2>3. QED
    BY <2>2
<1>6. ASSUME NEW t \in Threads, UseExact(t)
      PROVE  EntriesAreTrue'
  BY <1>6 DEF UseExact
<1>7. ASSUME NEW t \in Threads, Refresh(t)
      PROVE  EntriesAreTrue'
  <2>1. PICK i \in DOMAIN entries : entries' = MovedToEnd(i)
    BY <1>7 DEF Refresh, Holding
  <2>2. \A k \in DOMAIN entries' : \E j \in DOMAIN entries : entries'[k] = entries[j]
    BY <2>1, EntriesKept
  <2>3. QED
    BY <2>2
<1>8. ASSUME NEW t \in Threads, Publish(t)
      PROVE  EntriesAreTrue'
  BY <1>8 DEF Publish
<1>9. ASSUME NEW t \in Threads, Store(t)
      PROVE  EntriesAreTrue'
  <2> DEFINE e == [key |-> job[t], value |-> Computed(t)]
  <2>1. Computed(t) = [model |-> job[t].identity, kv |-> job[t].tokens, logits |-> TRUE]
    BY <1>9, ComputedIsTrue DEF Store, Copying
  <2>2. job[t] \in Key
    BY <1>9 DEF Store, Copying, LockInv
  <2>3. e \in Entry
    BY <2>1, <2>2, StoreAssumption DEF Key, Entry, Snapshot
  <2>4. e.value = [model |-> e.key.identity, kv |-> e.key.tokens, logits |-> TRUE]
    BY <2>1
  <2>5. entries' = Append(entries, e)
    BY <1>9 DEF Store
  <2>6. entries \in Seq(Entry) /\ Len(entries) \in Nat /\ DOMAIN entries = 1..Len(entries)
    BY LenProperties DEF Shape
  <2> HIDE DEF e
  <2>7. /\ DOMAIN entries' = 1..(Len(entries) + 1)
        /\ \A k \in 1..Len(entries) : entries'[k] = entries[k]
        /\ entries'[Len(entries) + 1] = e
    BY <2>3, <2>5, <2>6, AppendProperties, LenProperties
  <2>8. ASSUME NEW k \in DOMAIN entries'
        PROVE  entries'[k].value = [model |-> entries'[k].key.identity,
                                    kv |-> entries'[k].key.tokens, logits |-> TRUE]
    <3>1. CASE k = Len(entries) + 1
      BY <2>4, <2>7, <3>1
    <3>2. CASE k # Len(entries) + 1
      <4>1. k \in DOMAIN entries /\ entries'[k] = entries[k]
        BY <2>6, <2>7, <2>8, <3>2
      <4>2. QED
        BY <4>1
    <3>3. QED
      BY <3>1, <3>2
  <2>9. QED
    BY <2>8
<1>10. ASSUME NEW t \in Threads, Release(t)
      PROVE  EntriesAreTrue'
  BY <1>10 DEF Release
<1>11. ASSUME NEW t \in Threads, CopyFails(t)
      PROVE  EntriesAreTrue'
  BY <1>11 DEF CopyFails
<1>12. ASSUME NEW t \in Threads, ForwardFails(t)
      PROVE  EntriesAreTrue'
  BY <1>12 DEF ForwardFails
<1>13. ASSUME Clear
      PROVE  EntriesAreTrue'
  BY <1>13 DEF Clear
<1>14. ASSUME UNCHANGED vars
      PROVE  EntriesAreTrue'
  BY <1>14 DEF vars
<1>15. QED
  BY <1>1, <1>2, <1>3, <1>4, <1>5, <1>6, <1>7, <1>8, <1>9, <1>10, <1>11, <1>12, <1>13, <1>14 DEF Next, Thread

\* A copy is taken from a true resident, as far as it agrees with the prompt.
LEMMA LeaseStep ==
  ASSUME IInv, [Next]_vars
  PROVE  LeaseInv'
<1> USE DEF IInv, Shape, LeaseInv, LeasesAreTrue, LockInv, Goto, Return, counters
<1>1. ASSUME NEW t \in Threads, NEW key \in Key, Acquire(t, key)
      PROVE  LeaseInv'
  <2>1. \A u \in Threads : lease'[u] # None => lease'[u] = lease[u] /\ job'[u] = job[u]
    BY <1>1 DEF Acquire
  <2>2. QED
    BY <2>1
<1>2. ASSUME NEW t \in Threads, Evict(t)
      PROVE  LeaseInv'
  <2>1. \A u \in Threads : lease'[u] # None => lease'[u] = lease[u] /\ job'[u] = job[u]
    BY <1>2 DEF Evict
  <2>2. QED
    BY <2>1
<1>3. ASSUME NEW t \in Threads, Reserve(t)
      PROVE  LeaseInv'
  <2>1. \A u \in Threads : lease'[u] # None => lease'[u] = lease[u] /\ job'[u] = job[u]
    BY <1>3 DEF Reserve
  <2>2. QED
    BY <2>1
<1>4. ASSUME NEW t \in Threads, Bypass(t)
      PROVE  LeaseInv'
  <2>1. \A u \in Threads : lease'[u] # None => lease'[u] = lease[u] /\ job'[u] = job[u]
    BY <1>4 DEF Bypass
  <2>2. QED
    BY <2>1
<1>5. ASSUME NEW t \in Threads, Borrow(t)
      PROVE  LeaseInv'
  <2>1. PICK i \in Holding(ask.source) : lease' = [lease EXCEPT ![t] =
          [value |-> [model |-> entries[i].value.model,
                      kv |-> SubSeq(entries[i].value.kv, 1, ask.length),
                      logits |-> entries[i].value.logits /\ ask.source.tokens = job[t].tokens],
           size |-> ask.size]]
    BY <1>5 DEF Borrow
  <2>2. /\ Sourced(t) /\ job[t] \in Key /\ job' = job
    BY <1>5 DEF Borrow, Copying, AskInv
  <2> DEFINE p == job[t].tokens
             q == ask.source.tokens
             n == ask.length
             v == lease'[t].value
  <2>3. /\ i \in DOMAIN entries /\ i \in 1..Len(entries) /\ entries[i].key = ask.source
    BY LenProperties DEF Holding
  <2>4. /\ entries[i] \in Entry
        /\ entries[i].value = [model |-> ask.source.identity, kv |-> q, logits |-> TRUE]
    BY <2>3, ElementOfSeq DEF EntriesAreTrue
  <2>5. /\ v.model = job[t].identity
        /\ v.kv = SubSeq(q, 1, n)
        /\ v.logits = (q = p)
    BY <2>1, <2>2, <2>4 DEF Sourced
  <2>6. p \in Seq(Int) /\ q \in Seq(Int) /\ n \in Nat /\ n <= Len(p) /\ n <= Len(q)
        /\ Len(p) \in Nat /\ Len(q) \in Nat /\ (n = Len(p) => q = p)
        /\ \A k \in 1..n : q[k] = p[k]
    <3>1. ask.source \in Key
      BY <2>3, <2>4 DEF Entry
    <3>2. p \in Prompts /\ q \in Prompts
      BY <2>2, <3>1 DEF Key
    <3>3. QED
      BY <2>2, <3>2, StoreAssumption, LenProperties DEF Sourced, SharesPrefix
  <2> HIDE DEF p, q, n, v
  <2>7. /\ SubSeq(q, 1, n) \in Seq(Int) /\ Len(SubSeq(q, 1, n)) = n
        /\ \A k \in 1..n : SubSeq(q, 1, n)[k] = q[k]
    BY <2>6, PrefixOf
  <2>8. /\ SubSeq(p, 1, n) \in Seq(Int) /\ Len(SubSeq(p, 1, n)) = n
        /\ \A k \in 1..n : SubSeq(p, 1, n)[k] = p[k]
    BY <2>6, PrefixOf
  <2>9. SubSeq(q, 1, n) = SubSeq(p, 1, n)
    <3> DEFINE a == SubSeq(q, 1, n)
               b == SubSeq(p, 1, n)
    <3>1. a \in Seq(Int) /\ b \in Seq(Int) /\ Len(a) = Len(b)
          /\ \A k \in 1..Len(a) : a[k] = b[k]
      BY <2>6, <2>7, <2>8
    <3> HIDE DEF a, b
    <3>2. a = b
      BY <3>1, SeqEqual
    <3>3. QED
      BY <3>2 DEF a, b
  <2>10. Len(v.kv) = n /\ v.kv = SubSeq(p, 1, Len(v.kv))
    BY <2>5, <2>7, <2>9
  <2>11. ASSUME v.kv = p PROVE v.logits
    <3>1. n = Len(p)
      BY <2>10, <2>11
    <3>2. q = p
      BY <2>6, <3>1
    <3>3. QED
      BY <2>5, <3>2
  <2>12. ASSUME NEW u \in Threads, lease'[u] # None
         PROVE  /\ lease'[u].value.model = job'[u].identity
                /\ lease'[u].value.kv = SubSeq(job'[u].tokens, 1, Len(lease'[u].value.kv))
                /\ lease'[u].value.kv = job'[u].tokens => lease'[u].value.logits
                /\ Len(lease'[u].value.kv) <= Len(job'[u].tokens)
    <3>1. CASE u = t
      BY <2>2, <2>5, <2>6, <2>10, <2>11, <3>1 DEF p, v
    <3>2. CASE u # t
      BY <2>1, <2>2, <2>12, <3>2
    <3>3. QED
      BY <3>1, <3>2
  <2>13. QED
    BY <2>12
<1>6. ASSUME NEW t \in Threads, UseExact(t)
      PROVE  LeaseInv'
  <2>1. \A u \in Threads : lease'[u] # None => lease'[u] = lease[u] /\ job'[u] = job[u]
    BY <1>6 DEF UseExact
  <2>2. QED
    BY <2>1
<1>7. ASSUME NEW t \in Threads, Refresh(t)
      PROVE  LeaseInv'
  <2>1. \A u \in Threads : lease'[u] # None => lease'[u] = lease[u] /\ job'[u] = job[u]
    BY <1>7 DEF Refresh
  <2>2. QED
    BY <2>1
<1>8. ASSUME NEW t \in Threads, Publish(t)
      PROVE  LeaseInv'
  <2>1. \A u \in Threads : lease'[u] # None => lease'[u] = lease[u] /\ job'[u] = job[u]
    BY <1>8 DEF Publish
  <2>2. QED
    BY <2>1
<1>9. ASSUME NEW t \in Threads, Store(t)
      PROVE  LeaseInv'
  <2>1. \A u \in Threads : lease'[u] # None => lease'[u] = lease[u] /\ job'[u] = job[u]
    BY <1>9 DEF Store
  <2>2. QED
    BY <2>1
<1>10. ASSUME NEW t \in Threads, Release(t)
      PROVE  LeaseInv'
  <2>1. \A u \in Threads : lease'[u] # None => lease'[u] = lease[u] /\ job'[u] = job[u]
    BY <1>10 DEF Release
  <2>2. QED
    BY <2>1
<1>11. ASSUME NEW t \in Threads, CopyFails(t)
      PROVE  LeaseInv'
  <2>1. \A u \in Threads : lease'[u] # None => lease'[u] = lease[u] /\ job'[u] = job[u]
    BY <1>11 DEF CopyFails
  <2>2. QED
    BY <2>1
<1>12. ASSUME NEW t \in Threads, ForwardFails(t)
      PROVE  LeaseInv'
  <2>1. \A u \in Threads : lease'[u] # None => lease'[u] = lease[u] /\ job'[u] = job[u]
    BY <1>12 DEF ForwardFails
  <2>2. QED
    BY <2>1
<1>13. ASSUME Clear
      PROVE  LeaseInv'
  BY <1>13 DEF Clear
<1>14. ASSUME UNCHANGED vars
      PROVE  LeaseInv'
  BY <1>14 DEF vars
<1>15. QED
  BY <1>1, <1>2, <1>3, <1>4, <1>5, <1>6, <1>7, <1>8, <1>9, <1>10, <1>11, <1>12, <1>13, <1>14 DEF Next, Thread

\* The charges stay summed when an entry is taken out.
LEMMA SumWithout ==
  ASSUME Shape, NEW i \in DOMAIN entries, NEW f, PartialSums(f, entries)
  PROVE  \E g : /\ PartialSums(g, Without(i))
                /\ g[Len(entries) - 1] = f[Len(entries)] - EntrySize(entries[i])
<1> DEFINE s == entries
           w == Without(i)
           N == Len(entries)
           size == EntrySize(entries[i])
           g == [n \in 0..(N - 1) |-> IF n < i THEN f[n] ELSE f[n + 1] - size]
<1>1. s \in Seq(Entry) /\ N \in Nat /\ i \in 1..N
  BY LenProperties DEF Shape
<1>2. /\ w \in Seq(Entry) /\ Len(w) = N - 1
      /\ \A k \in 1..(N - 1) : w[k] = s[IF k < i THEN k ELSE k + 1]
  <2> DEFINE o == Out(entries, i)
  <2>1. /\ o \in Seq(Entry) /\ Len(o) = Len(entries) - 1
        /\ \A k \in 1..(Len(entries) - 1) : o[k] = entries[IF k < i THEN k ELSE k + 1]
    BY <1>1, TakenOut
  <2>2. w = o
    BY DEF Without, Out
  <2> HIDE DEF o, w
  <2>3. QED
    BY <2>1, <2>2
<1>3. /\ f \in [0..N -> Nat] /\ f[0] = 0
      /\ \A n \in 1..N : f[n] = f[n - 1] + EntrySize(s[n])
      /\ \A m, n \in 0..N : m <= n => f[m] <= f[n]
  BY DEF PartialSums
<1>4. \A n \in 0..N : f[n] \in Nat
  BY <1>3
<1>5. i \in 0..N /\ i - 1 \in 0..N /\ f[i] = f[i - 1] + size
  BY <1>1, <1>3
<1>6. size \in Int
  BY <1>1, EntrySizeType
<1> HIDE DEF s, w, N, size, g
<1>7. ASSUME NEW n \in 0..(N - 1) PROVE g[n] = IF n < i THEN f[n] ELSE f[n + 1] - size
  BY DEF g
<1>8. ASSUME NEW n \in 0..(N - 1) PROVE g[n] \in Nat
  <2>1. CASE n < i
    BY <1>1, <1>4, <1>7, <2>1
  <2>2. CASE ~(n < i)
    <3>1. n + 1 \in 0..N /\ i <= n + 1
      BY <1>1, <2>2
    <3>2. f[i] <= f[n + 1] /\ f[n + 1] \in Nat /\ f[i] \in Nat /\ f[i - 1] \in Nat
      BY <1>3, <1>4, <1>5, <3>1
    <3>3. QED
      BY <1>5, <1>6, <1>7, <2>2, <3>2
  <2>3. QED
    BY <2>1, <2>2
<1>9. g \in [0..(N - 1) -> Nat]
  BY <1>8 DEF g
<1>10. g[0] = 0
  BY <1>1, <1>3, <1>7
<1>11. ASSUME NEW n \in 1..(N - 1) PROVE g[n] = g[n - 1] + EntrySize(w[n])
  <2>1. n \in 0..(N - 1) /\ n - 1 \in 0..(N - 1) /\ n \in 1..N /\ n + 1 \in 1..N
        /\ n + 1 - 1 = n /\ n - 1 + 1 = n
    BY <1>1
  <2>2. /\ f[n] = f[n - 1] + EntrySize(s[n])
        /\ f[n + 1] = f[n] + EntrySize(s[n + 1])
    BY <1>3, <2>1
  <2>3. f[n] \in Int /\ f[n - 1] \in Int /\ f[n + 1] \in Int
    BY <1>1, <1>4, <2>1
  <2>4. g[n] = (IF n < i THEN f[n] ELSE f[n + 1] - size)
        /\ g[n - 1] = IF n - 1 < i THEN f[n - 1] ELSE f[n] - size
    BY <1>7, <2>1
  <2>5. EntrySize(s[n]) \in Int /\ EntrySize(s[n + 1]) \in Int
    BY <1>1, <2>1, EntrySizeType DEF s, N
  <2>6. CASE n < i
    <3>1. n - 1 < i /\ w[n] = s[n]
      BY <1>1, <1>2, <2>1, <2>6
    <3>2. QED
      BY <2>2, <2>4, <2>6, <3>1
  <2>7. CASE n = i
    <3>1. n - 1 < i /\ w[n] = s[n + 1]
      BY <1>1, <1>2, <2>1, <2>7
    <3>2. EntrySize(s[n]) = size
      BY <2>7 DEF s, size
    <3>3. QED
      BY <2>2, <2>3, <2>4, <2>5, <2>7, <3>1, <3>2
  <2>8. CASE n > i
    <3>1. ~(n < i) /\ ~(n - 1 < i) /\ w[n] = s[n + 1]
      BY <1>1, <1>2, <2>1, <2>8
    <3>2. QED
      BY <1>6, <2>2, <2>3, <2>4, <2>5, <3>1
  <2>9. QED
    BY <1>1, <2>6, <2>7, <2>8
<1>12. ASSUME NEW m \in 0..(N - 1), NEW n \in 0..(N - 1), m <= n PROVE g[m] <= g[n]
  <2>1. /\ m \in 0..N /\ m + 1 \in 0..N /\ n \in 0..N /\ n + 1 \in 0..N
        /\ f[m] \in Nat /\ f[m + 1] \in Nat /\ f[n] \in Nat /\ f[n + 1] \in Nat
        /\ f[i] \in Nat /\ f[i - 1] \in Nat
    BY <1>1, <1>4
  <2>2. CASE n < i
    <3>1. f[m] <= f[n] /\ m < i
      BY <1>1, <1>3, <1>12, <2>1, <2>2
    <3>2. QED
      BY <1>7, <2>2, <3>1
  <2>3. CASE ~(n < i) /\ m < i
    <3>1. m <= i - 1 /\ i <= n + 1
      BY <1>1, <2>3
    <3>2. f[m] <= f[i - 1] /\ f[i] <= f[n + 1]
      BY <1>3, <1>5, <2>1, <3>1
    <3>3. QED
      BY <1>5, <1>6, <1>7, <2>1, <2>3, <3>2
  <2>4. CASE ~(n < i) /\ ~(m < i)
    <3>1. f[m + 1] <= f[n + 1]
      BY <1>1, <1>3, <1>12, <2>1
    <3>2. QED
      BY <1>6, <1>7, <2>1, <2>4, <3>1
  <2>5. QED
    BY <2>2, <2>3, <2>4
<1>13. g[N - 1] = f[N] - size
  <2>1. N - 1 \in 0..(N - 1) /\ N - 1 + 1 = N
    BY <1>1
  <2>2. CASE i = N
    <3>1. f[N] = f[N - 1] + size /\ f[N - 1] \in Nat
      BY <1>4, <1>5, <2>2
    <3>2. g[N - 1] = f[N - 1]
      BY <1>1, <1>7, <2>1, <2>2
    <3>3. QED
      BY <1>6, <3>1, <3>2
  <2>3. CASE i # N
    <3>1. ~(N - 1 < i)
      BY <1>1, <2>3
    <3>2. QED
      BY <1>7, <2>1, <3>1
  <2>4. QED
    BY <2>2, <2>3
<1>14. PartialSums(g, w)
  BY <1>2, <1>9, <1>10, <1>11, <1>12 DEF PartialSums
<1>15. QED
  BY <1>13, <1>14 DEF w, N, size

\* The charges stay summed when an entry is added at the recent end.
LEMMA SumAppended ==
  ASSUME NEW s \in Seq(Entry), NEW e \in Entry, NEW f, PartialSums(f, s)
  PROVE  \E g : /\ PartialSums(g, Append(s, e))
                /\ g[Len(s) + 1] = f[Len(s)] + EntrySize(e)
<1> DEFINE N == Len(s)
           size == EntrySize(e)
           a == Append(s, e)
           g == [n \in 0..(N + 1) |-> IF n <= N THEN f[n] ELSE f[N] + size]
<1>1. N \in Nat
  BY LenProperties
<1>2. Len(a) = N + 1 /\ a[N + 1] = e /\ \A k \in 1..N : a[k] = s[k]
  BY AppendProperties
<1>3. /\ f \in [0..N -> Nat] /\ f[0] = 0
      /\ \A n \in 1..N : f[n] = f[n - 1] + EntrySize(s[n])
      /\ \A m, n \in 0..N : m <= n => f[m] <= f[n]
  BY DEF PartialSums
<1>4. size \in Nat
  <2>1. e.key.tokens \in Seq(Int)
    BY StoreAssumption DEF Entry, Key
  <2>2. QED
    BY <2>1, LenProperties, SizeType DEF EntrySize
<1>5. \A n \in 0..N : f[n] \in Nat
  BY <1>3
<1> HIDE DEF N, size, a, g
<1>6. \A n \in 0..N : g[n] = f[n]
  BY <1>1 DEF g
<1>7. g[N + 1] = f[N] + size
  BY <1>1 DEF g
<1>8. f[N] \in Nat /\ 0 \in 0..N /\ N \in 0..N
  BY <1>1, <1>5
<1>9. g \in [0..(N + 1) -> Nat]
  <2>1. ASSUME NEW n \in 0..(N + 1)
        PROVE  (IF n <= N THEN f[n] ELSE f[N] + size) \in Nat
    BY <1>1, <1>4, <1>5, <1>8
  <2>2. QED
    BY <2>1 DEF g
<1>10. ASSUME NEW n \in 1..(N + 1) PROVE g[n] = g[n - 1] + EntrySize(a[n])
  <2>1. CASE n <= N
    <3>1. n \in 1..N /\ n \in 0..N /\ n - 1 \in 0..N
      BY <1>1, <2>1
    <3>2. QED
      BY <1>2, <1>3, <1>6, <3>1
  <2>2. CASE n = N + 1
    <3>1. n - 1 = N
      BY <1>1, <2>2
    <3>2. QED
      BY <1>2, <1>6, <1>7, <1>8, <2>2, <3>1 DEF size
  <2>3. QED
    BY <1>1, <2>1, <2>2
<1>11. ASSUME NEW m \in 0..(N + 1), NEW n \in 0..(N + 1), m <= n PROVE g[m] <= g[n]
  <2>1. CASE n <= N
    <3>1. m \in 0..N /\ n \in 0..N
      BY <1>1, <1>11, <2>1
    <3>2. QED
      BY <1>3, <1>6, <1>11, <3>1
  <2>2. CASE n = N + 1 /\ m <= N
    <3>1. m \in 0..N
      BY <1>1, <2>2
    <3>2. f[m] <= f[N] /\ f[m] \in Nat
      BY <1>3, <1>5, <1>8, <3>1
    <3>3. QED
      BY <1>4, <1>6, <1>7, <1>8, <2>2, <3>1, <3>2
  <2>3. CASE m = N + 1 /\ n = N + 1
    BY <1>4, <1>7, <1>8, <2>3
  <2>4. QED
    BY <1>1, <1>11, <2>1, <2>2, <2>3
<1>12. PartialSums(g, a)
  <2>1. g[0] = 0
    BY <1>3, <1>6, <1>8
  <2>2. QED
    BY <1>2, <1>9, <1>10, <1>11, <2>1 DEF PartialSums
<1>13. QED
  BY <1>7, <1>12 DEF a, N, size

\* An entry that moves to the recent end is still charged once.
LEMMA SumMoved ==
  ASSUME Shape, NEW i \in DOMAIN entries, NEW f, PartialSums(f, entries)
  PROVE  \E g : /\ PartialSums(g, MovedToEnd(i))
                /\ g[Len(entries)] = f[Len(entries)]
<1> DEFINE w == Without(i)
           N == Len(entries)
           e == entries[i]
<1>1. e \in Entry /\ N \in Nat
  BY LenProperties, ElementOfSeq DEF Shape
<1>2. w \in Seq(Entry) /\ Len(w) = N - 1
  BY EntriesKept
<1>3. PICK g : PartialSums(g, w) /\ g[N - 1] = f[N] - EntrySize(e)
  BY SumWithout
<1>4. MovedToEnd(i) = Append(w, e)
  BY DEF MovedToEnd
<1>5. EntrySize(e) \in Int
  BY LenProperties, EntrySizeType DEF Shape
<1>6. f[N] \in Int
  BY <1>1 DEF PartialSums
<1> HIDE DEF w, N, e
<1>7. PICK h : PartialSums(h, Append(w, e)) /\ h[Len(w) + 1] = g[Len(w)] + EntrySize(e)
  BY <1>1, <1>2, <1>3, SumAppended
<1>8. h[N] = f[N]
  <2>1. Len(w) + 1 = N
    BY <1>1, <1>2
  <2>2. QED
    BY <1>2, <1>3, <1>5, <1>6, <1>7, <2>1
<1>9. QED
  BY <1>4, <1>7, <1>8 DEF N

\* Every way an entry comes, goes or moves charges it once.
LEMMA ResidentStep ==
  ASSUME IInv, [Next]_vars
  PROVE  ResidentInv'
<1> USE DEF IInv, counters
<1>1. ASSUME NEW t \in Threads, NEW key \in Key, Acquire(t, key)
      PROVE  ResidentInv'
  <2>1. UNCHANGED <<entries, resident>>
    BY <1>1 DEF Acquire
  <2>2. QED
    BY <2>1 DEF ResidentInv, PartialSums
<1>2. ASSUME NEW t \in Threads, Evict(t)
      PROVE  ResidentInv'
  <2>1. PICK i \in DOMAIN entries :
          entries' = Without(i) /\ resident' = resident - EntrySize(entries[i])
    BY <1>2 DEF Evict, Victims
  <2>2. PICK f : PartialSums(f, entries) /\ f[Len(entries)] = resident
    BY DEF ResidentInv
  <2>3. PICK g : /\ PartialSums(g, Without(i))
                 /\ g[Len(entries) - 1] = f[Len(entries)] - EntrySize(entries[i])
    BY <2>2, SumWithout
  <2>4. Len(Without(i)) = Len(entries) - 1
    BY EntriesKept
  <2>5. PartialSums(g, entries') /\ g[Len(entries')] = resident'
    BY <2>1, <2>2, <2>3, <2>4
  <2>6. QED
    BY <2>5 DEF ResidentInv, PartialSums
<1>3. ASSUME NEW t \in Threads, Reserve(t)
      PROVE  ResidentInv'
  <2>1. UNCHANGED <<entries, resident>>
    BY <1>3 DEF Reserve
  <2>2. QED
    BY <2>1 DEF ResidentInv, PartialSums
<1>4. ASSUME NEW t \in Threads, Bypass(t)
      PROVE  ResidentInv'
  <2>1. UNCHANGED <<entries, resident>>
    BY <1>4 DEF Bypass
  <2>2. QED
    BY <2>1 DEF ResidentInv, PartialSums
<1>5. ASSUME NEW t \in Threads, Borrow(t)
      PROVE  ResidentInv'
  <2>1. PICK i \in DOMAIN entries : entries' = MovedToEnd(i) /\ resident' = resident
    BY <1>5 DEF Borrow, Holding
  <2>2. PICK f : PartialSums(f, entries) /\ f[Len(entries)] = resident
    BY DEF ResidentInv
  <2>3. PICK g : PartialSums(g, MovedToEnd(i)) /\ g[Len(entries)] = f[Len(entries)]
    BY <2>2, SumMoved
  <2>4. Len(MovedToEnd(i)) = Len(entries)
    BY EntriesKept
  <2>5. PartialSums(g, entries') /\ g[Len(entries')] = resident'
    BY <2>1, <2>2, <2>3, <2>4
  <2>6. QED
    BY <2>5 DEF ResidentInv, PartialSums
<1>6. ASSUME NEW t \in Threads, UseExact(t)
      PROVE  ResidentInv'
  <2>1. UNCHANGED <<entries, resident>>
    BY <1>6 DEF UseExact
  <2>2. QED
    BY <2>1 DEF ResidentInv, PartialSums
<1>7. ASSUME NEW t \in Threads, Refresh(t)
      PROVE  ResidentInv'
  <2>1. PICK i \in DOMAIN entries : entries' = MovedToEnd(i) /\ resident' = resident
    BY <1>7 DEF Refresh, Holding
  <2>2. PICK f : PartialSums(f, entries) /\ f[Len(entries)] = resident
    BY DEF ResidentInv
  <2>3. PICK g : PartialSums(g, MovedToEnd(i)) /\ g[Len(entries)] = f[Len(entries)]
    BY <2>2, SumMoved
  <2>4. Len(MovedToEnd(i)) = Len(entries)
    BY EntriesKept
  <2>5. PartialSums(g, entries') /\ g[Len(entries')] = resident'
    BY <2>1, <2>2, <2>3, <2>4
  <2>6. QED
    BY <2>5 DEF ResidentInv, PartialSums
<1>8. ASSUME NEW t \in Threads, Publish(t)
      PROVE  ResidentInv'
  <2>1. UNCHANGED <<entries, resident>>
    BY <1>8 DEF Publish
  <2>2. QED
    BY <2>1 DEF ResidentInv, PartialSums
<1>9. ASSUME NEW t \in Threads, Store(t)
      PROVE  ResidentInv'
  <2> DEFINE e == [key |-> job[t], value |-> Computed(t)]
  <2>1. Computed(t) = [model |-> job[t].identity, kv |-> job[t].tokens, logits |-> TRUE]
    BY <1>9, ComputedIsTrue DEF Store, Copying
  <2>2. job[t] \in Key /\ ask.size = EntrySize(e)
    BY <1>9 DEF Store, Copying, LockInv, AskInv, EntrySize
  <2>3. e \in Entry
    BY <2>1, <2>2, StoreAssumption DEF Key, Entry, Snapshot
  <2>4. entries \in Seq(Entry) /\ entries' = Append(entries, e) /\ resident' = resident + EntrySize(e)
    BY <1>9, <2>2 DEF Store, Shape
  <2>5. PICK f : PartialSums(f, entries) /\ f[Len(entries)] = resident
    BY DEF ResidentInv
  <2> HIDE DEF e
  <2>6. PICK g : /\ PartialSums(g, Append(entries, e))
                 /\ g[Len(entries) + 1] = f[Len(entries)] + EntrySize(e)
    BY <2>3, <2>4, <2>5, SumAppended
  <2>7. Len(Append(entries, e)) = Len(entries) + 1
    BY <2>3, <2>4, AppendProperties
  <2>8. PartialSums(g, entries') /\ g[Len(entries')] = resident'
    BY <2>4, <2>5, <2>6, <2>7
  <2>9. QED
    BY <2>8 DEF ResidentInv, PartialSums
<1>10. ASSUME NEW t \in Threads, Release(t)
      PROVE  ResidentInv'
  <2>1. UNCHANGED <<entries, resident>>
    BY <1>10 DEF Release
  <2>2. QED
    BY <2>1 DEF ResidentInv, PartialSums
<1>11. ASSUME NEW t \in Threads, CopyFails(t)
      PROVE  ResidentInv'
  <2>1. UNCHANGED <<entries, resident>>
    BY <1>11 DEF CopyFails
  <2>2. QED
    BY <2>1 DEF ResidentInv, PartialSums
<1>12. ASSUME NEW t \in Threads, ForwardFails(t)
      PROVE  ResidentInv'
  <2>1. UNCHANGED <<entries, resident>>
    BY <1>12 DEF ForwardFails
  <2>2. QED
    BY <2>1 DEF ResidentInv, PartialSums
<1>13. ASSUME Clear
      PROVE  ResidentInv'
  <2> DEFINE g == [n \in 0..0 |-> 0]
  <2>1. entries' = <<>> /\ resident' = 0 /\ Len(<<>>) = 0
    BY <1>13 DEF Clear
  <2>2. PartialSums(g, <<>>) /\ g[0] = 0
    BY DEF PartialSums
  <2> HIDE DEF g
  <2>3. PartialSums(g, entries') /\ g[Len(entries')] = resident'
    BY <2>1, <2>2
  <2>4. QED
    BY <2>3 DEF ResidentInv, PartialSums
<1>14. ASSUME UNCHANGED vars
      PROVE  ResidentInv'
  <2>1. UNCHANGED <<entries, resident>>
    BY <1>14 DEF vars
  <2>2. QED
    BY <2>1 DEF ResidentInv, PartialSums
<1>15. QED
  BY <1>1, <1>2, <1>3, <1>4, <1>5, <1>6, <1>7, <1>8, <1>9, <1>10, <1>11, <1>12, <1>13, <1>14 DEF Next, Thread

\* A thread that takes a copy adds its charge to every set it is in.
LEMMA MeasureGrows ==
  ASSUME NEW c, NEW m, Measure(m, c), c \in [Threads -> Nat],
         NEW t \in Threads, c[t] = 0, NEW size \in Nat
  PROVE  \E h : Measure(h, [c EXCEPT ![t] = size]) /\ h[Threads] = m[Threads] + size
<1> DEFINE d == [c EXCEPT ![t] = size]
           h == [T \in SUBSET Threads |-> m[T] + (IF t \in T THEN size ELSE 0)]
<1>1. \A T \in SUBSET Threads : m[T] \in Nat
  BY DEF Measure
<1>2. h \in [SUBSET Threads -> Nat]
  BY <1>1
<1>3. ASSUME NEW T \in SUBSET Threads, NEW u \in T
      PROVE  h[T] = h[T \ {u}] + d[u]
  <2>1. T \ {u} \in SUBSET Threads /\ m[T] = m[T \ {u}] + c[u] /\ u \in Threads
    BY DEF Measure
  <2>2. m[T] \in Nat /\ m[T \ {u}] \in Nat /\ c[u] \in Nat /\ d[u] \in Nat
    BY <1>1, <2>1
  <2>3. CASE u = t
    <3>1. h[T] = m[T] + size /\ h[T \ {u}] = m[T \ {u}] + 0 /\ d[u] = size
      BY <2>1, <2>3
    <3>2. m[T] = m[T \ {u}]
      BY <2>1, <2>2, <2>3
    <3>3. QED
      BY <2>2, <3>1, <3>2
  <2>4. CASE u # t
    <3> DEFINE k == IF t \in T THEN size ELSE 0
    <3>1. h[T] = m[T] + k /\ h[T \ {u}] = m[T \ {u}] + k /\ d[u] = c[u] /\ k \in Nat
      BY <2>1, <2>4
    <3> HIDE DEF k
    <3>2. QED
      BY <2>1, <2>2, <3>1
  <2>5. QED
    BY <2>3, <2>4
<1>4. Measure(h, d)
  <2>1. h[{}] = 0
    BY DEF Measure
  <2>2. QED
    BY <1>2, <1>3, <2>1 DEF Measure
<1>5. h[Threads] = m[Threads] + size
  OBVIOUS
<1>6. QED
  BY <1>4, <1>5

\* A thread that returns its copy takes its charge from every set it is in.
LEMMA MeasureShrinks ==
  ASSUME NEW c, NEW m, Measure(m, c), c \in [Threads -> Nat], NEW t \in Threads
  PROVE  \E h : Measure(h, [c EXCEPT ![t] = 0]) /\ h[Threads] = m[Threads] - c[t]
<1> DEFINE d == [c EXCEPT ![t] = 0]
           h == [T \in SUBSET Threads |-> m[T \ {t}]]
<1>1. \A T \in SUBSET Threads : m[T] \in Nat
  BY DEF Measure
<1>2. h \in [SUBSET Threads -> Nat]
  BY <1>1
<1>3. ASSUME NEW T \in SUBSET Threads, NEW u \in T
      PROVE  h[T] = h[T \ {u}] + d[u]
  <2>1. T \ {u} \in SUBSET Threads /\ T \ {t} \in SUBSET Threads /\ u \in Threads
    OBVIOUS
  <2>2. h[T] = m[T \ {t}] /\ h[T \ {u}] = m[(T \ {u}) \ {t}]
    BY <2>1
  <2>3. m[T \ {t}] \in Nat
    BY <1>1, <2>1
  <2>4. CASE u = t
    <3>1. (T \ {u}) \ {t} = T \ {t} /\ d[u] = 0
      BY <2>1, <2>4
    <3>2. m[(T \ {u}) \ {t}] = m[T \ {t}]
      BY <3>1
    <3>3. h[T \ {u}] = h[T] /\ h[T] \in Nat
      BY <2>2, <2>3, <3>2
    <3> HIDE DEF h, d
    <3>4. QED
      BY <3>1, <3>3
  <2>5. CASE u # t
    <3>1. (T \ {u}) \ {t} = (T \ {t}) \ {u} /\ d[u] = c[u] /\ u \in T \ {t}
      BY <2>1, <2>5
    <3>2. m[T \ {t}] = m[(T \ {t}) \ {u}] + c[u]
      BY <2>1, <3>1 DEF Measure
    <3>3. QED
      BY <2>2, <3>1, <3>2
  <2>6. QED
    BY <2>4, <2>5
<1>4. Measure(h, d)
  <2>1. h[{}] = 0
    BY DEF Measure
  <2>2. QED
    BY <1>2, <1>3, <2>1 DEF Measure
<1>5. h[Threads] = m[Threads] - c[t]
  <2>1. m[Threads] = m[Threads \ {t}] + c[t] /\ h[Threads] = m[Threads \ {t}]
    BY DEF Measure
  <2>2. m[Threads \ {t}] \in Nat /\ c[t] \in Nat
    BY <1>1
  <2>3. QED
    BY <2>1, <2>2
<1>6. QED
  BY <1>4, <1>5

\* What a thread's copy is charged is a number.
LEMMA ChargeType ==
  ASSUME Shape
  PROVE  [t \in Threads |-> Charge(t)] \in [Threads -> Nat]
BY DEF Shape, Charge, Lease

\* A return uncharges the copy, if there is one.
LEMMA ReturnUncharges ==
  ASSUME IInv, NEW t \in Threads, Return(t)
  PROVE  LeasedInv' /\ ActiveInv'
<1> USE DEF IInv, Shape, Return
<1> DEFINE c == [u \in Threads |-> Charge(u)]
<1>1. lease' = [lease EXCEPT ![t] = None]
  OBVIOUS
<1>2. [u \in Threads |-> Charge(u)]' = [c EXCEPT ![t] = 0]
  BY <1>1 DEF Charge
<1>3. Holders' = Holders \ {t}
  BY <1>1 DEF Holders
<1>4. leased' = leased - c[t]
  <2>1. CASE lease[t] = None
    <3>1. c[t] = 0 /\ leased' = leased
      BY <2>1 DEF Charge
    <3>2. leased \in Nat
      BY DEF LeasedInv, Measure
    <3>3. QED
      BY <3>1, <3>2
  <2>2. CASE lease[t] # None
    BY <2>2 DEF Charge
  <2>3. QED
    BY <2>1, <2>2
<1>5. active' = Cardinality(Holders')
  <2>1. Cardinality(Holders') = IF t \in Holders THEN Cardinality(Holders) - 1 ELSE Cardinality(Holders)
    BY <1>3, FS_RemoveElement DEF ActiveInv
  <2>2. QED
    BY <2>1 DEF ActiveInv, Holders
<1>6. IsFiniteSet(Holders')
  BY <1>3, FS_RemoveElement DEF ActiveInv
<1>7. PICK m : Measure(m, c) /\ m[Threads] = leased
  BY DEF LeasedInv
<1>8. c \in [Threads -> Nat]
  BY ChargeType
<1> HIDE DEF c
<1>9. PICK h : Measure(h, [c EXCEPT ![t] = 0]) /\ h[Threads] = m[Threads] - c[t]
  BY <1>7, <1>8, MeasureShrinks
<1>10. Measure(h, [u \in Threads |-> Charge(u)]') /\ h[Threads] = leased'
  BY <1>2, <1>4, <1>7, <1>9
<1>11. LeasedInv'
  BY <1>10 DEF LeasedInv, Measure
<1>12. QED
  BY <1>5, <1>6, <1>11 DEF ActiveInv

\* Copies are charged from the borrowing to the return, through every clear.
LEMMA LeasedStep ==
  ASSUME IInv, [Next]_vars
  PROVE  LeasedInv' /\ ActiveInv'
<1> USE DEF IInv, counters
<1>1. ASSUME NEW t \in Threads, NEW key \in Key, Acquire(t, key)
      PROVE  LeasedInv' /\ ActiveInv'
  <2>1. UNCHANGED <<lease, leased, active>>
    BY <1>1 DEF Acquire
  <2>2. QED
    BY <2>1 DEF LeasedInv, Measure, Charge, ActiveInv, Holders
<1>2. ASSUME NEW t \in Threads, Evict(t)
      PROVE  LeasedInv' /\ ActiveInv'
  <2>1. UNCHANGED <<lease, leased, active>>
    BY <1>2 DEF Evict
  <2>2. QED
    BY <2>1 DEF LeasedInv, Measure, Charge, ActiveInv, Holders
<1>3. ASSUME NEW t \in Threads, Reserve(t)
      PROVE  LeasedInv' /\ ActiveInv'
  <2>1. UNCHANGED <<lease, leased, active>>
    BY <1>3 DEF Reserve
  <2>2. QED
    BY <2>1 DEF LeasedInv, Measure, Charge, ActiveInv, Holders
<1>4. ASSUME NEW t \in Threads, Bypass(t)
      PROVE  LeasedInv' /\ ActiveInv'
  <2>1. UNCHANGED <<lease, leased, active>>
    BY <1>4 DEF Bypass
  <2>2. QED
    BY <2>1 DEF LeasedInv, Measure, Charge, ActiveInv, Holders
<1>5. ASSUME NEW t \in Threads, Borrow(t)
      PROVE  LeasedInv' /\ ActiveInv'
  <2> DEFINE c == [u \in Threads |-> Charge(u)]
  <2>1. PICK v \in Snapshot : lease' = [lease EXCEPT ![t] = [value |-> v, size |-> ask.size]]
    BY <1>5, BorrowShape
  <2>2. lease[t] = None /\ leased' = leased + ask.size /\ active' = active + 1
    BY <1>5, BorrowShape DEF Borrow
  <2>3. ask.size \in Nat /\ [value |-> v, size |-> ask.size] # None
    <3>1. [value |-> v, size |-> ask.size] \in Lease
      BY DEF Shape, Ask, Lease
    <3>2. QED
      BY <3>1, StoreAssumption DEF Lease
  <2>4. [u \in Threads |-> Charge(u)]' = [c EXCEPT ![t] = ask.size]
    BY <2>1, <2>3 DEF Charge, Shape
  <2>5. Holders' = Holders \union {t} /\ t \notin Holders
    BY <2>1, <2>2, <2>3 DEF Holders, Shape
  <2>6. IsFiniteSet(Holders') /\ active' = Cardinality(Holders')
    BY <2>2, <2>5, FS_AddElement DEF ActiveInv
  <2>7. PICK m : Measure(m, c) /\ m[Threads] = leased
    BY DEF LeasedInv
  <2>8. c \in [Threads -> Nat] /\ c[t] = 0
    BY <2>2, ChargeType DEF Charge
  <2> DEFINE n == ask.size
  <2> HIDE DEF c, n
  <2>9. PICK h : Measure(h, [c EXCEPT ![t] = n]) /\ h[Threads] = m[Threads] + n
    <3>1. n \in Nat
      BY <2>3 DEF n
    <3>2. QED
      BY <2>7, <2>8, <3>1, MeasureGrows, ZenonT(30)
  <2>10. Measure(h, [u \in Threads |-> Charge(u)]') /\ h[Threads] = leased'
    BY <2>2, <2>4, <2>7, <2>9 DEF n
  <2>11. LeasedInv'
    BY <2>10 DEF LeasedInv, Measure
  <2>12. QED
    BY <2>6, <2>11 DEF ActiveInv
<1>6. ASSUME NEW t \in Threads, UseExact(t)
      PROVE  LeasedInv' /\ ActiveInv'
  <2>1. UNCHANGED <<lease, leased, active>>
    BY <1>6 DEF UseExact
  <2>2. QED
    BY <2>1 DEF LeasedInv, Measure, Charge, ActiveInv, Holders
<1>7. ASSUME NEW t \in Threads, Refresh(t)
      PROVE  LeasedInv' /\ ActiveInv'
  <2>1. UNCHANGED <<lease, leased, active>>
    BY <1>7 DEF Refresh
  <2>2. QED
    BY <2>1 DEF LeasedInv, Measure, Charge, ActiveInv, Holders
<1>8. ASSUME NEW t \in Threads, Publish(t)
      PROVE  LeasedInv' /\ ActiveInv'
  <2>1. UNCHANGED <<lease, leased, active>>
    BY <1>8 DEF Publish
  <2>2. QED
    BY <2>1 DEF LeasedInv, Measure, Charge, ActiveInv, Holders
<1>9. ASSUME NEW t \in Threads, Store(t)
      PROVE  LeasedInv' /\ ActiveInv'
  <2>1. UNCHANGED <<lease, leased, active>>
    BY <1>9 DEF Store
  <2>2. QED
    BY <2>1 DEF LeasedInv, Measure, Charge, ActiveInv, Holders
<1>10. ASSUME NEW t \in Threads, Release(t)
      PROVE  LeasedInv' /\ ActiveInv'
  <2>1. Return(t)
    BY <1>10 DEF Release
  <2>2. QED
    BY <2>1, ReturnUncharges
<1>11. ASSUME NEW t \in Threads, CopyFails(t)
      PROVE  LeasedInv' /\ ActiveInv'
  <2>1. Return(t)
    BY <1>11 DEF CopyFails
  <2>2. QED
    BY <2>1, ReturnUncharges
<1>12. ASSUME NEW t \in Threads, ForwardFails(t)
      PROVE  LeasedInv' /\ ActiveInv'
  <2>1. Return(t)
    BY <1>12 DEF ForwardFails
  <2>2. QED
    BY <2>1, ReturnUncharges
<1>13. ASSUME Clear
      PROVE  LeasedInv' /\ ActiveInv'
  <2>1. UNCHANGED <<lease, leased, active>>
    BY <1>13 DEF Clear
  <2>2. QED
    BY <2>1 DEF LeasedInv, Measure, Charge, ActiveInv, Holders
<1>14. ASSUME UNCHANGED vars
      PROVE  LeasedInv' /\ ActiveInv'
  <2>1. UNCHANGED <<lease, leased, active>>
    BY <1>14 DEF vars
  <2>2. QED
    BY <2>1 DEF LeasedInv, Measure, Charge, ActiveInv, Holders
<1>15. QED
  BY <1>1, <1>2, <1>3, <1>4, <1>5, <1>6, <1>7, <1>8, <1>9, <1>10, <1>11, <1>12, <1>13, <1>14 DEF Next, Thread

\* What is reserved is what the thread in the lock copies.
LEMMA ReservedStep ==
  ASSUME IInv, [Next]_vars
  PROVE  ReservedInv'
<1> USE StoreAssumption DEF IInv, Shape, LockInv, ReservedInv, Reserving, Copying, Publishable, Goto, Return, counters
<1>1. ASSUME NEW t \in Threads, NEW key \in Key, Acquire(t, key)
      PROVE  ReservedInv'
  BY <1>1 DEF Acquire
<1>2. ASSUME NEW t \in Threads, Evict(t)
      PROVE  ReservedInv'
  BY <1>2 DEF Evict
<1>3. ASSUME NEW t \in Threads, Reserve(t)
      PROVE  ReservedInv'
  <2>1. pc[t] = "reserving" /\ ~\E u \in Threads : pc[u] = "copying"
    BY <1>3 DEF Reserve
  <2>2. reserved = 0 /\ ask.size \in Nat
    BY <2>1 DEF Ask
  <2>3. reserved' = ask'.size
    BY <1>3, <2>2 DEF Reserve
  <2>4. pc'[t] = "copying"
    BY <1>3 DEF Reserve
  <2>5. QED
    BY <2>3, <2>4
<1>4. ASSUME NEW t \in Threads, Bypass(t)
      PROVE  ReservedInv'
  BY <1>4 DEF Bypass
<1>5. ASSUME NEW t \in Threads, Borrow(t)
      PROVE  ReservedInv'
  <2>1. reserved = ask.size /\ ask.size \in Nat
    BY <1>5 DEF Borrow, Ask
  <2>2. reserved' = 0
    BY <1>5, <2>1 DEF Borrow
  <2>3. \A u \in Threads : pc'[u] # "copying"
    BY <1>5 DEF Borrow
  <2>4. QED
    BY <2>2, <2>3
<1>6. ASSUME NEW t \in Threads, UseExact(t)
      PROVE  ReservedInv'
  BY <1>6 DEF UseExact
<1>7. ASSUME NEW t \in Threads, Refresh(t)
      PROVE  ReservedInv'
  BY <1>7 DEF Refresh
<1>8. ASSUME NEW t \in Threads, Publish(t)
      PROVE  ReservedInv'
  BY <1>8 DEF Publish
<1>9. ASSUME NEW t \in Threads, Store(t)
      PROVE  ReservedInv'
  <2>1. reserved = ask.size /\ ask.size \in Nat
    BY <1>9 DEF Store, Ask
  <2>2. reserved' = 0
    BY <1>9, <2>1 DEF Store
  <2>3. \A u \in Threads : pc'[u] # "copying"
    BY <1>9 DEF Store
  <2>4. QED
    BY <2>2, <2>3
<1>10. ASSUME NEW t \in Threads, Release(t)
      PROVE  ReservedInv'
  BY <1>10 DEF Release
<1>11. ASSUME NEW t \in Threads, CopyFails(t)
      PROVE  ReservedInv'
  <2>1. reserved = ask.size /\ ask.size \in Nat
    BY <1>11 DEF CopyFails, Ask
  <2>2. reserved' = 0
    BY <1>11, <2>1 DEF CopyFails
  <2>3. \A u \in Threads : pc'[u] # "copying"
    BY <1>11 DEF CopyFails
  <2>4. QED
    BY <2>2, <2>3
<1>12. ASSUME NEW t \in Threads, ForwardFails(t)
      PROVE  ReservedInv'
  BY <1>12 DEF ForwardFails
<1>13. ASSUME Clear
      PROVE  ReservedInv'
  BY <1>13 DEF Clear
<1>14. ASSUME UNCHANGED vars
      PROVE  ReservedInv'
  BY <1>14 DEF vars
<1>15. QED
  BY <1>1, <1>2, <1>3, <1>4, <1>5, <1>6, <1>7, <1>8, <1>9, <1>10, <1>11, <1>12, <1>13, <1>14 DEF Next, Thread

\* The counters are numbers.
LEMMA CounterTypes ==
  ASSUME IInv
  PROVE  /\ resident \in Nat /\ reserved \in Nat /\ leased \in Nat /\ active \in Nat
         /\ ask.size \in Nat
<1> USE DEF IInv
<1>1. resident \in Nat
  BY LenProperties DEF ResidentInv, PartialSums, Shape
<1>2. leased \in Nat
  BY DEF LeasedInv, Measure
<1>3. active \in Nat
  BY FS_CardinalityType DEF ActiveInv
<1>4. ask.size \in Nat
  BY DEF Shape, Ask
<1>5. reserved \in Nat
  BY <1>4 DEF ReservedInv
<1>6. QED
  BY <1>1, <1>2, <1>3, <1>4, <1>5

\* Nothing is added that did not fit, and what is given back was there.
LEMMA BudgetStep ==
  ASSUME IInv, [Next]_vars
  PROVE  WithinBudget'
<1> USE DEF IInv, WithinBudget, counters
<1>1. ASSUME NEW t \in Threads, NEW key \in Key, Acquire(t, key)
      PROVE  WithinBudget'
  BY <1>1 DEF Acquire
<1>2. ASSUME NEW t \in Threads, Evict(t)
      PROVE  WithinBudget'
  <2>1. PICK i \in DOMAIN entries :
          entries' = Without(i) /\ resident' = resident - EntrySize(entries[i])
    BY <1>2 DEF Evict, Victims
  <2>2. Len(entries') = Len(entries) - 1 /\ Len(entries) \in Nat
    BY <2>1, EntriesKept, LenProperties DEF Shape
  <2>3. EntrySize(entries[i]) \in Nat
    BY LenProperties, EntrySizeType DEF Shape
  <2>4. reserved' = reserved /\ leased' = leased /\ MaxEntries \in Nat /\ MaxBytes \in Nat
    BY <1>2, StoreAssumption DEF Evict
  <2>5. QED
    BY <2>1, <2>2, <2>3, <2>4, CounterTypes
<1>3. ASSUME NEW t \in Threads, Reserve(t)
      PROVE  WithinBudget'
  <2>1. /\ resident + leased + reserved + ask.size <= MaxBytes
        /\ reserved' = reserved + ask.size
        /\ UNCHANGED <<entries, resident, leased>>
    BY <1>3 DEF Reserve, Fits
  <2>2. QED
    BY <2>1, CounterTypes, StoreAssumption
<1>4. ASSUME NEW t \in Threads, Bypass(t)
      PROVE  WithinBudget'
  BY <1>4 DEF Bypass
<1>5. ASSUME NEW t \in Threads, Borrow(t)
      PROVE  WithinBudget'
  <2>1. PICK i \in DOMAIN entries : entries' = MovedToEnd(i)
    BY <1>5 DEF Borrow, Holding
  <2>2. Len(entries') = Len(entries)
    BY <2>1, EntriesKept
  <2>3. leased' = leased + ask.size /\ reserved' = reserved - ask.size /\ resident' = resident
    BY <1>5 DEF Borrow
  <2>4. QED
    BY <2>2, <2>3, CounterTypes
<1>6. ASSUME NEW t \in Threads, UseExact(t)
      PROVE  WithinBudget'
  BY <1>6 DEF UseExact
<1>7. ASSUME NEW t \in Threads, Refresh(t)
      PROVE  WithinBudget'
  <2>1. PICK i \in DOMAIN entries : entries' = MovedToEnd(i)
    BY <1>7 DEF Refresh, Holding
  <2>2. Len(entries') = Len(entries)
    BY <2>1, EntriesKept
  <2>3. QED
    BY <1>7, <2>2 DEF Refresh
<1>8. ASSUME NEW t \in Threads, Publish(t)
      PROVE  WithinBudget'
  BY <1>8 DEF Publish
<1>9. ASSUME NEW t \in Threads, Store(t)
      PROVE  WithinBudget'
  <2> DEFINE e == [key |-> job[t], value |-> Computed(t)]
  <2>1. /\ entries' = Append(entries, e) /\ leased' = leased
        /\ resident' = resident + ask.size /\ reserved' = reserved - ask.size
    BY <1>9 DEF Store
  <2>2. Len(entries) < MaxEntries /\ Len(entries) \in Nat /\ MaxEntries \in Nat
    BY <1>9, LenProperties, StoreAssumption DEF Store, Copying, AskInv, Shape
  <2>3. Len(entries') = Len(entries) + 1
    <3>1. e \in Entry
      <4>1. job[t] \in Key
        BY <1>9 DEF Store, Copying, LockInv
      <4>2. Computed(t) = [model |-> job[t].identity, kv |-> job[t].tokens, logits |-> TRUE]
        BY <1>9, ComputedIsTrue DEF Store, Copying
      <4>3. QED
        BY <4>1, <4>2, StoreAssumption DEF Key, Entry, Snapshot
    <3> HIDE DEF e
    <3>2. entries \in Seq(Entry)
      BY DEF Shape
    <3>3. QED
      BY <2>1, <3>1, <3>2, AppendProperties
  <2>4. QED
    BY <2>1, <2>2, <2>3, CounterTypes
<1>10. ASSUME NEW t \in Threads, Release(t)
      PROVE  WithinBudget'
  <2>1. UNCHANGED <<entries, resident>> /\ reserved' <= reserved /\ reserved' \in Int
        /\ Return(t)
    BY <1>10, CounterTypes DEF Release
  <2>2. leased' \in Int /\ leased' <= leased
    <3>1. CASE lease[t] = None
      BY <2>1, <3>1, CounterTypes DEF Return
    <3>2. CASE lease[t] # None
      <4>1. lease[t].size \in Nat /\ leased' = leased - lease[t].size
        BY <2>1, <3>2 DEF Return, Shape, Lease
      <4>2. QED
        BY <4>1, CounterTypes
    <3>3. QED
      BY <3>1, <3>2
  <2>3. MaxBytes \in Nat /\ entries' = entries /\ resident' = resident
    BY <2>1, StoreAssumption
  <2>4. resident' + reserved' + leased' <= MaxBytes
    BY <2>1, <2>2, <2>3, CounterTypes
  <2>5. QED
    BY <2>3, <2>4
<1>11. ASSUME NEW t \in Threads, CopyFails(t)
      PROVE  WithinBudget'
  <2>1. UNCHANGED <<entries, resident>> /\ reserved' <= reserved /\ reserved' \in Int
        /\ Return(t)
    BY <1>11, CounterTypes DEF CopyFails
  <2>2. leased' \in Int /\ leased' <= leased
    <3>1. CASE lease[t] = None
      BY <2>1, <3>1, CounterTypes DEF Return
    <3>2. CASE lease[t] # None
      <4>1. lease[t].size \in Nat /\ leased' = leased - lease[t].size
        BY <2>1, <3>2 DEF Return, Shape, Lease
      <4>2. QED
        BY <4>1, CounterTypes
    <3>3. QED
      BY <3>1, <3>2
  <2>3. MaxBytes \in Nat /\ entries' = entries /\ resident' = resident
    BY <2>1, StoreAssumption
  <2>4. resident' + reserved' + leased' <= MaxBytes
    BY <2>1, <2>2, <2>3, CounterTypes
  <2>5. QED
    BY <2>3, <2>4
<1>12. ASSUME NEW t \in Threads, ForwardFails(t)
      PROVE  WithinBudget'
  <2>1. UNCHANGED <<entries, resident>> /\ reserved' <= reserved /\ reserved' \in Int
        /\ Return(t)
    BY <1>12, CounterTypes DEF ForwardFails
  <2>2. leased' \in Int /\ leased' <= leased
    <3>1. CASE lease[t] = None
      BY <2>1, <3>1, CounterTypes DEF Return
    <3>2. CASE lease[t] # None
      <4>1. lease[t].size \in Nat /\ leased' = leased - lease[t].size
        BY <2>1, <3>2 DEF Return, Shape, Lease
      <4>2. QED
        BY <4>1, CounterTypes
    <3>3. QED
      BY <3>1, <3>2
  <2>3. MaxBytes \in Nat /\ entries' = entries /\ resident' = resident
    BY <2>1, StoreAssumption
  <2>4. resident' + reserved' + leased' <= MaxBytes
    BY <2>1, <2>2, <2>3, CounterTypes
  <2>5. QED
    BY <2>3, <2>4
<1>13. ASSUME Clear
      PROVE  WithinBudget'
  <2>1. entries' = <<>> /\ Len(<<>>) = 0 /\ resident' = 0 /\ UNCHANGED <<reserved, leased>>
    BY <1>13 DEF Clear
  <2>2. QED
    BY <2>1, CounterTypes, StoreAssumption
<1>14. ASSUME UNCHANGED vars
      PROVE  WithinBudget'
  BY <1>14 DEF vars
<1>15. QED
  BY <1>1, <1>2, <1>3, <1>4, <1>5, <1>6, <1>7, <1>8, <1>9, <1>10, <1>11, <1>12, <1>13, <1>14 DEF Next, Thread

-------------------------------------------------------------------------------
\* An empty store satisfies the inductive invariant.
LEMMA InitInv == Init => IInv
<1> SUFFICES ASSUME Init PROVE IInv
  OBVIOUS
<1> USE StoreAssumption DEF Init
<1>1. Shape
  BY DEF Shape, NoAsk, Ask
<1>2. LockInv /\ AskInv
  BY DEF LockInv, AskInv
<1>3. EntriesAreTrue /\ LeaseInv
  BY DEF EntriesAreTrue, LeaseInv, LeasesAreTrue
<1>4. ResidentInv
  <2> DEFINE g == [n \in 0..0 |-> 0]
  <2>1. PartialSums(g, <<>>) /\ g[0] = 0
    BY DEF PartialSums
  <2> HIDE DEF g
  <2>2. PartialSums(g, entries) /\ g[Len(entries)] = resident
    BY <2>1
  <2>3. QED
    BY <2>2 DEF ResidentInv
<1>5. LeasedInv
  <2> DEFINE m == [T \in SUBSET Threads |-> 0]
  <2>1. Measure(m, [t \in Threads |-> Charge(t)]) /\ m[Threads] = 0
    BY DEF Measure, Charge
  <2> HIDE DEF m
  <2>2. QED
    BY <2>1 DEF LeasedInv
<1>6. Holders = {}
  BY DEF Holders
<1>7. ActiveInv /\ ReservedInv
  BY <1>6, FS_EmptySet DEF ActiveInv, ReservedInv
<1>8. WithinBudget
  BY DEF WithinBudget
<1>9. QED
  BY <1>1, <1>2, <1>3, <1>4, <1>5, <1>7, <1>8 DEF IInv

\* Every reachable state satisfies the inductive invariant.
THEOREM Invariance == Spec => []IInv
<1>1. IInv /\ [Next]_vars => IInv'
  <2> SUFFICES ASSUME IInv, [Next]_vars PROVE IInv'
    OBVIOUS
  <2>1. Shape' /\ LockInv' /\ AskInv'
    BY ShapeStep, LockStep, AskStep
  <2>2. EntriesAreTrue' /\ LeaseInv'
    BY EntriesStep, LeaseStep
  <2>3. ResidentInv' /\ LeasedInv' /\ ActiveInv' /\ ReservedInv' /\ WithinBudget'
    BY ResidentStep, LeasedStep, ReservedStep, BudgetStep
  <2>4. QED
    BY <2>1, <2>2, <2>3 DEF IInv
<1>2. QED
  BY InitInv, <1>1, PTL DEF Spec

-------------------------------------------------------------------------------
\* The variables keep their types: no counter is ever driven below zero by a
\* charge that is given back twice.
THEOREM TypeCorrect == Spec => []TypeOK
<1>1. IInv => TypeOK
  BY CounterTypes DEF IInv, Shape, TypeOK
<1>2. QED
  BY <1>1, Invariance, PTL

\* Residents, reservations and copies stay within both budgets at every step.
THEOREM BudgetHolds == Spec => []WithinBudget
<1>1. IInv => WithinBudget
  BY DEF IInv
<1>2. QED
  BY <1>1, Invariance, PTL

\* A resident is the whole prefill of its own prompt under its own model.
THEOREM ResidentsAreTrue == Spec => []EntriesAreTrue
<1>1. IInv => EntriesAreTrue
  BY DEF IInv
<1>2. QED
  BY <1>1, Invariance, PTL

\* A borrowed copy is a prefix of the borrower's prompt under its model.
THEOREM CopiesAreTrue == Spec => []LeasesAreTrue
<1>1. IInv => LeasesAreTrue
  BY DEF IInv, LeaseInv
<1>2. QED
  BY <1>1, Invariance, PTL

\* The source of a copy is never evicted to make room for it.
THEOREM SourcesAreSpared == Spec => []SourceStays
<1>1. IInv => SourceStays
  BY DEF IInv, LockInv, AskInv, Sourced, SourceStays
<1>2. QED
  BY <1>1, Invariance, PTL

-------------------------------------------------------------------------------
(* The counters' sums.  A fold over a set is a function that is chosen by its  *)
(* recursive equation; a measure satisfies that equation, and what satisfies   *)
(* it agrees with the measure on every finite set.                             *)

LEMMA LeastExists ==
  ASSUME NEW T \in SUBSET Nat, T # {}
  PROVE  \E t \in T : \A x \in T : t =< x
<1>1. \E t \in T : \A x \in T : <<x, t>> \notin OpToRel(<, Nat)
  BY NatLessThanWellFounded, WFMin
<1>2. PICK t \in T : \A x \in T : <<x, t>> \notin OpToRel(<, Nat)
  BY <1>1
<1>3. \A x \in T : ~(x < t)
  BY <1>2 DEF OpToRel
<1>4. QED
  BY <1>3

Pick(s) == CHOOSE x \in s : TRUE

\* g sums c over the subsets of S, one picked element after the other.
Sums(g, S, c) == g = [s \in SUBSET S |-> IF s = {} THEN 0 ELSE c[Pick(s)] + g[s \ {Pick(s)}]]

MeasureOf(m, S, c) ==
  /\ m \in [SUBSET S -> Nat]
  /\ m[{}] = 0
  /\ \A T \in SUBSET S : \A t \in T : m[T] = m[T \ {t}] + c[t]

LEMMA PickedIsThere == ASSUME NEW s, s # {} PROVE Pick(s) \in s
BY DEF Pick

\* A measure is such a sum.
LEMMA MeasureSums ==
  ASSUME NEW S, NEW c \in [S -> Nat], NEW m, MeasureOf(m, S, c)
  PROVE  Sums(m, S, c)
<1>1. ASSUME NEW s \in SUBSET S
      PROVE  m[s] = IF s = {} THEN 0 ELSE c[Pick(s)] + m[s \ {Pick(s)}]
  <2>1. CASE s = {}
    BY <2>1 DEF MeasureOf
  <2>2. CASE s # {}
    <3>1. Pick(s) \in s /\ Pick(s) \in S /\ s \ {Pick(s)} \in SUBSET S
      BY <2>2, PickedIsThere
    <3>2. m[s] = m[s \ {Pick(s)}] + c[Pick(s)]
      BY <3>1 DEF MeasureOf
    <3>3. m[s \ {Pick(s)}] \in Nat /\ c[Pick(s)] \in Nat
      BY <3>1 DEF MeasureOf
    <3>4. QED
      BY <2>2, <3>2, <3>3
  <2>3. QED
    BY <2>1, <2>2
<1>2. m = [s \in SUBSET S |-> m[s]]
  BY DEF MeasureOf
<1>3. QED
  BY <1>1, <1>2 DEF Sums

\* Every such sum is the measure.
LEMMA SumIsMeasure ==
  ASSUME NEW S, IsFiniteSet(S), NEW c \in [S -> Nat], NEW m, MeasureOf(m, S, c), NEW g, Sums(g, S, c)
  PROVE  g[S] = m[S]
<1> DEFINE Bad == {s \in SUBSET S : g[s] # m[s]}
           T == {Cardinality(s) : s \in Bad}
<1>1. \A s \in SUBSET S : IsFiniteSet(s) /\ Cardinality(s) \in Nat
  BY FS_Subset, FS_CardinalityType
<1>2. SUFFICES ASSUME Bad # {} PROVE FALSE
  OBVIOUS
<1>3. T \in SUBSET Nat /\ T # {}
  BY <1>1, <1>2
<1> HIDE DEF T
<1>4. PICK n \in T : \A x \in T : n =< x
  BY <1>3, LeastExists
<1>5. PICK s \in Bad : Cardinality(s) = n
  BY <1>4 DEF T
<1>6. s \in SUBSET S /\ g[s] # m[s]
  OBVIOUS
<1>7. g[s] = IF s = {} THEN 0 ELSE c[Pick(s)] + g[s \ {Pick(s)}]
  BY <1>6 DEF Sums
<1>8. m[s] = IF s = {} THEN 0 ELSE c[Pick(s)] + m[s \ {Pick(s)}]
  BY <1>6, MeasureSums DEF Sums
<1>9. s # {}
  BY <1>6, <1>7, <1>8
<1> DEFINE r == s \ {Pick(s)}
<1>10. r \in SUBSET S /\ Cardinality(r) = n - 1 /\ n \in Nat
  <2>1. Pick(s) \in s
    BY <1>9, PickedIsThere
  <2>2. Cardinality(r) = Cardinality(s) - 1
    BY <1>1, <1>6, <2>1, FS_RemoveElement
  <2>3. QED
    BY <1>1, <1>5, <1>6, <2>2
<1>11. r \notin Bad
  <2>1. SUFFICES ASSUME r \in Bad PROVE FALSE
    OBVIOUS
  <2>2. n - 1 \in T
    BY <1>10, <2>1 DEF T
  <2>3. QED
    BY <1>4, <1>10, <2>2
<1>12. g[r] = m[r]
  BY <1>10, <1>11
<1> HIDE DEF r
<1>13. QED
  BY <1>6, <1>7, <1>8, <1>9, <1>12 DEF r

\* The charges of the entries in LRU order have a measure, the last partial sum.
LEMMA PartialSumsMeasured ==
  ASSUME Shape, NEW f, PartialSums(f, entries)
  PROVE  \E m : /\ MeasureOf(m, DOMAIN entries, [i \in DOMAIN entries |-> EntrySize(entries[i])])
              /\ m[DOMAIN entries] = f[Len(entries)]
<1> DEFINE c == [i \in DOMAIN entries |-> EntrySize(entries[i])]
           Measured(n) == \E m : MeasureOf(m, 1..n, c) /\ m[1..n] = f[n]
           T == {n \in 0..Len(entries) : ~Measured(n)}
<1>1. Len(entries) \in Nat /\ DOMAIN entries = 1..Len(entries) /\ \A i \in DOMAIN entries : c[i] \in Nat
  BY EntrySizeType DEF Shape
<1> HIDE DEF c
<1>2. Measured(0)
  <2> DEFINE m == [s \in SUBSET (1..0) |-> 0]
  <2>1. 1..0 = {}
    OBVIOUS
  <2>2. MeasureOf(m, 1..0, c) /\ m[1..0] = f[0]
    BY <2>1 DEF MeasureOf, PartialSums
  <2> HIDE DEF m
  <2>3. QED
    BY <2>2
<1>3. ASSUME NEW n \in 1..Len(entries), Measured(n - 1) PROVE Measured(n)
  <2>1. PICK m : MeasureOf(m, 1..(n - 1), c) /\ m[1..(n - 1)] = f[n - 1]
    BY <1>3
  <2> DEFINE h == [s \in SUBSET (1..n) |-> m[s \ {n}] + (IF n \in s THEN c[n] ELSE 0)]
  <2>2. n \in Nat /\ n \in DOMAIN entries /\ c[n] \in Nat
    BY <1>1
  <2>3. \A s \in SUBSET (1..n) : s \ {n} \in SUBSET (1..(n - 1)) /\ m[s \ {n}] \in Nat
    <3>1. \A s \in SUBSET (1..n) : s \ {n} \in SUBSET (1..(n - 1))
      BY <2>2
    <3>2. QED
      BY <2>1, <3>1 DEF MeasureOf
  <2>4. h \in [SUBSET (1..n) -> Nat]
    <3>1. ASSUME NEW s \in SUBSET (1..n) PROVE m[s \ {n}] + (IF n \in s THEN c[n] ELSE 0) \in Nat
      <4>1. m[s \ {n}] \in Nat
        BY <2>3
      <4>2. (IF n \in s THEN c[n] ELSE 0) \in Nat
        BY <2>2
      <4>3. QED
        BY <4>1, <4>2
    <3>2. QED
      BY <3>1
  <2>5. h[{}] = 0
    BY <2>1 DEF MeasureOf
  <2>6. ASSUME NEW s \in SUBSET (1..n), NEW t \in s PROVE h[s] = h[s \ {t}] + c[t]
    <3>1. h[s] = m[s \ {n}] + (IF n \in s THEN c[n] ELSE 0)
      OBVIOUS
    <3>2. s \ {t} \in SUBSET (1..n) /\ h[s \ {t}] = m[(s \ {t}) \ {n}] + (IF n \in s \ {t} THEN c[n] ELSE 0)
      OBVIOUS
    <3>3. CASE t = n
      <4>1. (s \ {t}) \ {n} = s \ {n} /\ n \notin s \ {t} /\ n \in s
        BY <3>3
      <4>2. h[s] = m[s \ {n}] + c[n] /\ h[s \ {t}] = m[s \ {n}] + 0
        BY <3>1, <3>2, <4>1
      <4>3. m[s \ {n}] \in Nat /\ c[n] \in Nat
        BY <2>2, <2>3
      <4> HIDE DEF h
      <4>4. QED
        BY <3>3, <4>2, <4>3
    <3>4. CASE t # n
      <4>1. (s \ {t}) \ {n} = (s \ {n}) \ {t} /\ (n \in s \ {t} <=> n \in s) /\ t \in s \ {n}
        BY <3>4
      <4>2. m[s \ {n}] = m[(s \ {n}) \ {t}] + c[t]
        BY <2>1, <2>3, <4>1 DEF MeasureOf
      <4>3. m[s \ {n}] \in Nat /\ m[(s \ {n}) \ {t}] \in Nat /\ c[t] \in Nat
        <5>1. s \ {t} \in SUBSET (1..n) /\ t \in 1..n
          OBVIOUS
        <5>2. t \in DOMAIN entries
          BY <1>1, <2>2, <5>1
        <5>3. m[(s \ {t}) \ {n}] \in Nat /\ m[s \ {n}] \in Nat
          BY <2>3, <5>1
        <5>4. m[(s \ {n}) \ {t}] \in Nat
          BY <4>1, <5>3
        <5>5. QED
          BY <1>1, <5>2, <5>3, <5>4
      <4> DEFINE k == IF n \in s THEN c[n] ELSE 0
      <4>4. h[s] = m[s \ {n}] + k /\ h[s \ {t}] = m[(s \ {n}) \ {t}] + k /\ k \in Nat
        BY <2>2, <3>1, <3>2, <4>1
      <4> HIDE DEF h, k
      <4>5. QED
        BY <4>2, <4>3, <4>4
    <3>5. QED
      BY <3>3, <3>4
  <2>7. MeasureOf(h, 1..n, c)
    BY <2>4, <2>5, <2>6 DEF MeasureOf
  <2>8. h[1..n] = f[n]
    <3>1. (1..n) \ {n} = 1..(n - 1) /\ n \in 1..n
      BY <2>2
    <3>2. h[1..n] = m[1..(n - 1)] + c[n]
      BY <3>1
    <3>3. f[n] = f[n - 1] + EntrySize(entries[n])
      BY DEF PartialSums
    <3>4. c[n] = EntrySize(entries[n])
      BY <2>2 DEF c
    <3>5. QED
      BY <2>1, <3>2, <3>3, <3>4
  <2> HIDE DEF h
  <2>9. QED
    BY <2>7, <2>8
<1> HIDE DEF Measured
<1>4. T = {}
  <2>1. SUFFICES ASSUME T # {} PROVE FALSE
    OBVIOUS
  <2>2. T \in SUBSET Nat
    BY <1>1
  <2>3. PICK n \in T : \A x \in T : n =< x
    BY <2>1, <2>2, LeastExists
  <2>4. n \in 0..Len(entries) /\ ~Measured(n) /\ n # 0
    BY <1>2
  <2>5. n \in 1..Len(entries) /\ n - 1 \in 0..Len(entries) /\ ~(n =< n - 1)
    BY <1>1, <2>4
  <2>6. Measured(n - 1)
    BY <2>3, <2>5
  <2>7. QED
    BY <1>3, <2>4, <2>5, <2>6
<1>5. Measured(Len(entries))
  BY <1>1, <1>4
<1>6. QED
  BY <1>1, <1>5 DEF Measured, c

\* The store's sums are their measures.
LEMMA ResidentSum ==
  ASSUME Shape, ResidentInv
  PROVE  resident = MapThenSumSet(LAMBDA i : EntrySize(entries[i]), DOMAIN entries)
<1> DEFINE S == DOMAIN entries
           c == [i \in S |-> EntrySize(entries[i])]
           P(g) == g = [s \in SUBSET S |-> IF s = {} THEN 0
                          ELSE EntrySize(entries[CHOOSE x \in s : TRUE]) + g[s \ {CHOOSE x \in s : TRUE}]]
<1>1. PICK m : MeasureOf(m, S, c) /\ m[S] = resident
  BY PartialSumsMeasured DEF ResidentInv
<1>2. S = 1..Len(entries) /\ Len(entries) \in Nat /\ c \in [S -> Nat]
  BY EntrySizeType DEF Shape
<1>3. IsFiniteSet(S)
  BY <1>2, FS_Interval
<1>4. ASSUME NEW g PROVE Sums(g, S, c) <=> P(g)
  <2>1. ASSUME NEW s \in SUBSET S, s # {} PROVE c[Pick(s)] = EntrySize(entries[CHOOSE x \in s : TRUE])
    BY <2>1, PickedIsThere DEF Pick
  <2>2. [s \in SUBSET S |-> IF s = {} THEN 0 ELSE c[Pick(s)] + g[s \ {Pick(s)}]]
        = [s \in SUBSET S |-> IF s = {} THEN 0
             ELSE EntrySize(entries[CHOOSE x \in s : TRUE]) + g[s \ {CHOOSE x \in s : TRUE}]]
    BY <2>1 DEF Pick
  <2>3. QED
    BY <2>2 DEF Sums
<1>5. P(m)
  BY <1>1, <1>2, <1>4, MeasureSums
<1>6. P(CHOOSE g : P(g))
  BY <1>5
<1>7. (CHOOSE g : P(g))[S] = m[S]
  <2> DEFINE g == CHOOSE g : P(g)
  <2>1. P(g)
    BY <1>6
  <2> HIDE DEF g, P
  <2>2. Sums(g, S, c)
    BY <1>4, <2>1
  <2> HIDE DEF c, S
  <2>3. g[S] = m[S]
    BY <1>1, <1>2, <1>3, <2>2, SumIsMeasure
  <2>4. QED
    BY <2>3 DEF g
<1>8. MapThenSumSet(LAMBDA i : EntrySize(entries[i]), DOMAIN entries) = (CHOOSE g : P(g))[S]
  BY Zenon DEF MapThenSumSet, MapThenFoldSet
<1>9. QED
  BY <1>1, <1>7, <1>8

LEMMA LeasedSum ==
  ASSUME Shape, LeasedInv
  PROVE  leased = MapThenSumSet(LAMBDA t : IF lease[t] = None THEN 0 ELSE lease[t].size, Threads)
<1> DEFINE c == [t \in Threads |-> Charge(t)]
           P(g) == g = [s \in SUBSET Threads |-> IF s = {} THEN 0
                          ELSE (IF lease[CHOOSE x \in s : TRUE] = None THEN 0
                                ELSE lease[CHOOSE x \in s : TRUE].size) + g[s \ {CHOOSE x \in s : TRUE}]]
<1>1. PICK m : MeasureOf(m, Threads, c) /\ m[Threads] = leased
  BY DEF LeasedInv, Measure, MeasureOf
<1>2. c \in [Threads -> Nat] /\ IsFiniteSet(Threads)
  BY ChargeType, StoreAssumption DEF StoreAssumption
<1>3. ASSUME NEW g PROVE Sums(g, Threads, c) <=> P(g)
  <2>1. ASSUME NEW s \in SUBSET Threads, s # {} PROVE c[Pick(s)] = Charge(CHOOSE x \in s : TRUE)
    BY <2>1, PickedIsThere DEF Pick
  <2>2. [s \in SUBSET Threads |-> IF s = {} THEN 0 ELSE c[Pick(s)] + g[s \ {Pick(s)}]]
        = [s \in SUBSET Threads |-> IF s = {} THEN 0
             ELSE Charge(CHOOSE x \in s : TRUE) + g[s \ {CHOOSE x \in s : TRUE}]]
    BY <2>1 DEF Pick
  <2>3. QED
    BY <2>2 DEF Sums, Charge
<1>4. P(m)
  BY <1>1, <1>2, <1>3, MeasureSums
<1>5. P(CHOOSE g : P(g))
  BY <1>4
<1>6. (CHOOSE g : P(g))[Threads] = m[Threads]
  <2> DEFINE g == CHOOSE g : P(g)
  <2>1. P(g)
    BY <1>5
  <2> HIDE DEF g, P
  <2>2. Sums(g, Threads, c)
    BY <1>3, <2>1
  <2> HIDE DEF c
  <2>3. g[Threads] = m[Threads]
    BY <1>1, <1>2, <2>2, SumIsMeasure
  <2>4. QED
    BY <2>3 DEF g
<1>7. MapThenSumSet(LAMBDA t : IF lease[t] = None THEN 0 ELSE lease[t].size, Threads)
      = (CHOOSE g : P(g))[Threads]
  BY Zenon DEF MapThenSumSet, MapThenFoldSet
<1>8. QED
  BY <1>1, <1>6, <1>7

\* The counters are the sums of what they count, at every step of any number of threads.
THEOREM AccountsBalance == Spec => []Accounting
<1>1. IInv => Accounting
  <2>1. SUFFICES ASSUME IInv PROVE Accounting
    OBVIOUS
  <2>2. Shape /\ ResidentInv /\ LeasedInv /\ ActiveInv /\ ReservedInv
    BY <2>1 DEF IInv
  <2>3. active = Cardinality({t \in Threads : lease[t] # None})
    BY <2>2 DEF ActiveInv, Holders
  <2>4. reserved = IF \E t \in Threads : pc[t] = "copying" THEN ask.size ELSE 0
    BY <2>2 DEF ReservedInv
  <2>5. QED
    BY <2>2, <2>3, <2>4, ResidentSum, LeasedSum DEF Accounting
<1>2. QED
  BY <1>1, Invariance, PTL

===============================================================================
