---------------------------- MODULE PrefixKVStore ----------------------------
(***************************************************************************)
(* prefix_cache.py and prefix_generation.py: an LRU store of prefill       *)
(* snapshots shared by generation threads.  A prefill borrows a copy of    *)
(* the longest stored prefix of its prompt, computes the rest outside the  *)
(* store's lock, publishes the whole prompt and keeps its copy charged     *)
(* until it has decoded.  Residents, reservations and borrowed copies      *)
(* share one byte budget: room is made by evicting residents in LRU order, *)
(* and a store that cannot make room is bypassed.                          *)
(*                                                                         *)
(* A snapshot's tensors are named by what they were computed from: a model *)
(* and a sequence of tokens.  Each method runs under the store's lock; the *)
(* evictions of a reservation are steps, so that the lock matters.         *)
(***************************************************************************)
EXTENDS Integers, Sequences, FiniteSetsExt

CONSTANTS
  Threads,      \* generation threads that share the store
  Identities,   \* PrefixIdentity: namespace, model and architecture
  Prompts,      \* token sequences the model's context admits
  TokenBytes,   \* bytes of the keys and values of one token
  LogitBytes,   \* bytes of the logits kept with a resident snapshot
  MaxBytes,     \* max_bytes
  MaxEntries,   \* max_entries
  MaxFailures,  \* bound: copies and forward passes that raise
  None

Key == [identity : Identities, tokens : Prompts]

\* kv is the sequence the tensors were computed from, by the given model.
Snapshot == [model : Identities, kv : Seq(Int), logits : BOOLEAN]
Entry == [key : Key, value : Snapshot]
Lease == [value : Snapshot, size : Nat]

ASSUME StoreAssumption ==
  /\ \A p \in Prompts : p \in Seq(Int) /\ Len(p) > 0
  /\ TokenBytes \in Nat \ {0}
  /\ LogitBytes \in Nat \ {0}
  /\ MaxBytes \in Nat \ {0}
  /\ MaxEntries \in Nat \ {0}
  /\ MaxFailures \in Nat
  /\ IsFiniteSet(Threads)
  /\ None \notin Threads \union Key \union Lease

VARIABLES
  entries,   \* resident snapshots, least recently used first
  resident, reserved, leased, active,   \* the store's counters
  lock,      \* thread inside the store, or None
  pc,        \* "idle", "reserving", "copying", "prefill" or "decoding"
  job,       \* identity and prompt a thread prefills, or None
  ask,       \* the reservation in progress: its bytes and what it is for
  lease,     \* the copy a thread borrowed, or None
  failures

counters == <<resident, reserved, leased, active>>
vars == <<entries, counters, lock, pc, job, ask, lease, failures>>

\* What a reservation is for: a copy of the first length tokens of a resident
\* snapshot, which the evictions spare, or a new resident.
Ask == [size : Nat, source : Key \union {None}, length : Nat]
NoAsk == [size |-> 0, source |-> None, length |-> 0]
Publishing(a) == a.source = None

BytesFor(length, logits) == TokenBytes * length + (IF logits THEN LogitBytes ELSE 0)
EntrySize(e) == BytesFor(Len(e.key.tokens), TRUE)

Init ==
  /\ entries = <<>>
  /\ resident = 0 /\ reserved = 0 /\ leased = 0 /\ active = 0
  /\ lock = None
  /\ pc = [t \in Threads |-> "idle"]
  /\ job = [t \in Threads |-> None]
  /\ ask = NoAsk
  /\ lease = [t \in Threads |-> None]
  /\ failures = 0

Goto(t, stage) == pc' = [pc EXCEPT ![t] = stage]

\* The entries without the one at i; the one at i moved to the recent end.
Without(i) == SubSeq(entries, 1, i - 1) \o SubSeq(entries, i + 1, Len(entries))
MovedToEnd(i) == Append(Without(i), entries[i])
Holding(key) == {i \in DOMAIN entries : entries[i].key = key}

-------------------------------------------------------------------------------
(* Lookup                                                                     *)

SharesPrefix(p, q, n) == n <= Len(p) /\ n <= Len(q) /\ \A i \in 1..n : p[i] = q[i]

\* Variant: a longer prompt's snapshot covers the whole of a shorter prompt.
ReusableInterior(e, key) ==
  {n \in 1..Len(key.tokens) :
     /\ e.key.identity = key.identity
     /\ SharesPrefix(e.key.tokens, key.tokens, n)}

\* Lengths of an entry a prompt can reuse.  Only an exact match has the logits
\* of the last position, so any other leaves one token to compute.
Reusable(e, key) ==
  {n \in 1..Len(key.tokens) :
     /\ e.key.identity = key.identity
     /\ SharesPrefix(e.key.tokens, key.tokens, n)
     /\ n = Len(key.tokens) => e.key.tokens = key.tokens}

\* The first entry with the longest reusable prefix, and its length.
LongestMatch(key) ==
  {m \in (DOMAIN entries) \X (1..Len(key.tokens)) :
     /\ m[2] \in Reusable(entries[m[1]], key)
     /\ \A j \in DOMAIN entries : \A n \in Reusable(entries[j], key) :
          n < m[2] \/ (n = m[2] /\ m[1] <= j)}

\* acquire, up to its reservation.
Acquire(t, key) ==
  /\ pc[t] = "idle" /\ lock = None
  /\ job' = [job EXCEPT ![t] = key]
  /\ \/ /\ LongestMatch(key) = {}
        /\ Goto(t, "prefill")
        /\ UNCHANGED <<lock, ask>>
     \/ \E m \in LongestMatch(key) :
          LET found == entries[m[1]].key IN
          /\ ask' = [size |-> BytesFor(m[2], found.tokens = key.tokens),
                     source |-> found, length |-> m[2]]
          /\ lock' = t
          /\ Goto(t, "reserving")
  /\ UNCHANGED <<entries, counters, lease, failures>>

-------------------------------------------------------------------------------
(* Reservations: _reserve                                                     *)

\* Variant: only residents are held against the budget.
FitsResidents ==
  /\ resident + ask.size <= MaxBytes
  /\ Publishing(ask) => Len(entries) < MaxEntries

Fits ==
  /\ resident + leased + reserved + ask.size <= MaxBytes
  /\ Publishing(ask) => Len(entries) < MaxEntries

\* A reservation that exceeds the whole budget evicts nothing.
Hopeless == ask.size > MaxBytes

\* Variant: the snapshot being copied is not protected.
VictimsUnprotected == DOMAIN entries

Victims == {i \in DOMAIN entries : entries[i].key # ask.source}

Reserving(t) == lock = t /\ pc[t] = "reserving"

Evict(t) ==
  /\ Reserving(t) /\ ~Hopeless /\ ~Fits
  /\ \E i \in Victims :
       /\ \A j \in Victims : i <= j
       /\ entries' = Without(i)
       /\ resident' = resident - EntrySize(entries[i])
  /\ UNCHANGED <<reserved, leased, active, lock, pc, job, ask, lease, failures>>

Reserve(t) ==
  /\ Reserving(t) /\ ~Hopeless /\ Fits
  /\ reserved' = reserved + ask.size
  /\ Goto(t, "copying")
  /\ UNCHANGED <<entries, resident, leased, active, lock, job, ask, lease, failures>>

\* No room: the store is bypassed, and the prefill or the decoding goes on.
Bypass(t) ==
  /\ Reserving(t)
  /\ Hopeless \/ (~Fits /\ Victims = {})
  /\ Goto(t, IF Publishing(ask) THEN "decoding" ELSE "prefill")
  /\ lock' = None
  /\ ask' = NoAsk
  /\ UNCHANGED <<entries, counters, job, lease, failures>>

Copying(t) == lock = t /\ pc[t] = "copying"

\* The isolated copy is charged and handed out; its source becomes recent.
Borrow(t) ==
  /\ Copying(t) /\ ~Publishing(ask)
  /\ \E i \in Holding(ask.source) :
       /\ lease' = [lease EXCEPT ![t] =
            [value |-> [model |-> entries[i].value.model,
                        kv |-> SubSeq(entries[i].value.kv, 1, ask.length),
                        logits |-> entries[i].value.logits /\ ask.source.tokens = job[t].tokens],
             size |-> ask.size]]
       /\ entries' = MovedToEnd(i)
  /\ leased' = leased + ask.size
  /\ active' = active + 1
  /\ reserved' = reserved - ask.size
  /\ Goto(t, "prefill")
  /\ lock' = None
  /\ ask' = NoAsk
  /\ UNCHANGED <<resident, job, failures>>

-------------------------------------------------------------------------------
(* prefix_prefill                                                             *)

Borrowed(t) == IF lease[t] = None THEN <<>> ELSE lease[t].value.kv
Suffix(t) == SubSeq(job[t].tokens, Len(Borrowed(t)) + 1, Len(job[t].tokens))

\* What the forward pass over the suffix has computed from the borrowed copy.
Computed(t) ==
  [model |-> IF lease[t] = None THEN job[t].identity ELSE lease[t].value.model,
   kv |-> Borrowed(t) \o Suffix(t),
   logits |-> TRUE]

\* An exact match has its logits: nothing to compute and nothing to publish.
UseExact(t) ==
  /\ pc[t] = "prefill" /\ Suffix(t) = <<>>
  /\ Goto(t, "decoding")
  /\ UNCHANGED <<entries, counters, lock, job, ask, lease, failures>>

\* publish is entered with the prefill of the job's own model (it raises for
\* any other), and lets no second resident of a key in: it only refreshes it.
Publishable(t) ==
  /\ pc[t] = "prefill" /\ Suffix(t) # <<>> /\ lock = None
  /\ Computed(t).model = job[t].identity

Refresh(t) ==
  /\ Publishable(t)
  /\ BytesFor(Len(job[t].tokens), TRUE) <= MaxBytes
  /\ \E i \in Holding(job[t]) : entries' = MovedToEnd(i)
  /\ Goto(t, "decoding")
  /\ UNCHANGED <<counters, lock, job, ask, lease, failures>>

Publish(t) ==
  /\ Publishable(t)
  /\ Holding(job[t]) = {} \/ BytesFor(Len(job[t].tokens), TRUE) > MaxBytes
  /\ ask' = [size |-> BytesFor(Len(job[t].tokens), TRUE), source |-> None, length |-> 0]
  /\ lock' = t
  /\ Goto(t, "reserving")
  /\ UNCHANGED <<entries, counters, job, lease, failures>>

Store(t) ==
  /\ Copying(t) /\ Publishing(ask)
  /\ entries' = Append(entries, [key |-> job[t], value |-> Computed(t)])
  /\ resident' = resident + ask.size
  /\ reserved' = reserved - ask.size
  /\ Goto(t, "decoding")
  /\ lock' = None
  /\ ask' = NoAsk
  /\ UNCHANGED <<leased, active, job, lease, failures>>

\* The context exits and its copy, if it has one, is no longer charged.
Return(t) ==
  /\ Goto(t, "idle")
  /\ job' = [job EXCEPT ![t] = None]
  /\ lease' = [lease EXCEPT ![t] = None]
  /\ IF lease[t] = None THEN UNCHANGED <<leased, active>>
     ELSE /\ leased' = leased - lease[t].size
          /\ active' = active - 1

Release(t) ==
  /\ pc[t] = "decoding" /\ lock = None
  /\ Return(t)
  /\ UNCHANGED <<entries, resident, reserved, lock, ask, failures>>

\* The copy raises: the reservation is given back and the context exits.
CopyFails(t) ==
  /\ failures < MaxFailures
  /\ Copying(t)
  /\ failures' = failures + 1
  /\ reserved' = reserved - ask.size
  /\ Return(t)
  /\ lock' = None
  /\ ask' = NoAsk
  /\ UNCHANGED <<entries, resident>>

\* The forward pass raises.
ForwardFails(t) ==
  /\ failures < MaxFailures
  /\ pc[t] = "prefill" /\ lock = None
  /\ failures' = failures + 1
  /\ Return(t)
  /\ UNCHANGED <<entries, resident, reserved, lock, ask>>

\* Variant: borrowed copies are forgotten with the residents.
ClearUncharges ==
  /\ lock = None
  /\ entries' = <<>>
  /\ resident' = 0 /\ leased' = 0
  /\ UNCHANGED <<reserved, active, lock, pc, job, ask, lease, failures>>

\* clear, called by a draining service: borrowed copies stay charged.
Clear ==
  /\ lock = None
  /\ entries' = <<>>
  /\ resident' = 0
  /\ UNCHANGED <<reserved, leased, active, lock, pc, job, ask, lease, failures>>

-------------------------------------------------------------------------------
Thread(t) ==
  \/ \E key \in Key : Acquire(t, key)
  \/ Evict(t) \/ Reserve(t) \/ Bypass(t) \/ Borrow(t)
  \/ UseExact(t) \/ Refresh(t) \/ Publish(t) \/ Store(t)
  \/ Release(t) \/ CopyFails(t) \/ ForwardFails(t)

Next == Clear \/ \E t \in Threads : Thread(t)

Spec == Init /\ [][Next]_vars

-------------------------------------------------------------------------------
(* Properties                                                                 *)

\* The type invariant.
TypeOK ==
  /\ entries \in Seq(Entry)
  /\ resident \in Nat /\ reserved \in Nat /\ leased \in Nat /\ active \in Nat
  /\ lock \in Threads \union {None}
  /\ pc \in [Threads -> {"idle", "reserving", "copying", "prefill", "decoding"}]
  /\ job \in [Threads -> Key \union {None}]
  /\ ask \in Ask
  /\ lease \in [Threads -> Lease \union {None}]
  /\ failures \in Nat

\* The counters are what they count: no path of a lookup, a publication, an
\* eviction, a failed copy or a clear charges twice or forgets a charge.
Accounting ==
  /\ resident = MapThenSumSet(LAMBDA i : EntrySize(entries[i]), DOMAIN entries)
  /\ leased = MapThenSumSet(LAMBDA t : IF lease[t] = None THEN 0 ELSE lease[t].size, Threads)
  /\ active = Cardinality({t \in Threads : lease[t] # None})
  /\ reserved = IF \E t \in Threads : pc[t] = "copying" THEN ask.size ELSE 0

\* The byte budget covers residents, reservations and borrowed copies at every
\* step of every thread, and the entry budget holds.
WithinBudget ==
  /\ resident + reserved + leased <= MaxBytes
  /\ Len(entries) <= MaxEntries

\* A resident snapshot was computed by its own model from exactly its own
\* prompt, whatever it was extended from.
EntriesAreTrue ==
  \A i \in DOMAIN entries :
    entries[i].value = [model |-> entries[i].key.identity,
                        kv |-> entries[i].key.tokens, logits |-> TRUE]

\* A borrowed copy is a prefix of the borrower's prompt under its model, and
\* one that leaves nothing to compute brings the logits.
LeasesAreTrue ==
  \A t \in Threads : lease[t] # None =>
    LET v == lease[t].value IN
    /\ v.model = job[t].identity
    /\ v.kv = SubSeq(job[t].tokens, 1, Len(v.kv))
    /\ v.kv = job[t].tokens => v.logits

\* The snapshot a lookup selected is still resident when it is copied: the
\* evictions that make room for the copy spare it.
SourceStays ==
  \A t \in Threads :
    pc[t] \in {"reserving", "copying"} /\ ~Publishing(ask) => Holding(ask.source) # {}

===============================================================================
