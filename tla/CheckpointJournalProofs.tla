------------------------ MODULE CheckpointJournalProofs ------------------------
(***************************************************************************)
(* The checkpoint journal's safety properties for every number of          *)
(* processes, runs, steps, contents, budgets, crashes and failed calls.    *)
(*                                                                         *)
(* IInv is inductive.  Its parts say: a lease excludes (LeaseInv); what a  *)
(* publication read under its lease is still true when it acts on it       *)
(* (JobInv); a version is on disk before the manifest names it (BlobInv);  *)
(* and the files nobody lists are one publication's at most (ResidueInv).  *)
(***************************************************************************)
EXTENDS CheckpointJournal, TLAPS, FiniteSetTheorems, SequenceTheorems, WellFoundedInduction

Busy == Writing \union {"unwind"}
BlobStages == {"blob_temp", "link", "sync_blob"}
Linked == {"sync_blob", "man_temp", "replace"}
Live(p) == (IF manTemp[p] THEN 1 ELSE 0) + (IF blobTemp[p] THEN 1 ELSE 0)

LeaseInv ==
  /\ \A p \in exclusive : exclusive = {p} /\ shared = {}
  /\ \A p \in Procs : pc[p] \in Modifying => p \in exclusive

\* What p read when it was admitted still holds while it holds the lease.
Admitted(p) ==
  IF job[p] = None
    THEN manifest = None
    ELSE /\ manifest # None
         /\ manifest.run = handle[p]
         /\ manifest.entries = seen[p]
         /\ Advances(job[p], seen[p])
         /\ Log!Fits(seen[p], job[p])

JobInv ==
  \A p \in Procs :
    /\ pc[p] # "idle" => handle[p] # None
    /\ pc[p] \in {"idle", "opening", "reading"} => job[p] = None
    /\ pc[p] \in BlobStages \union {"publishing"} => job[p] # None
    /\ pc[p] \in BlobStages \union {"man_temp", "replace"} => Admitted(p)

BlobInv ==
  /\ \A e \in Committed : blob[e] = "intact" \/ e \in damaged
  /\ \A p \in Procs : pc[p] \in Linked /\ job[p] # None =>
       blob[job[p]] = "intact" \/ job[p] \in damaged
  /\ acked \subseteq Committed
  /\ \A p \in Procs : pc[p] = "sync_man" /\ job[p] # None => job[p] \in Committed

ResidueInv ==
  /\ temps <= 2
  /\ \A p \in Procs : pc[p] \in Busy => temps = Live(p)
  /\ \A p \in Procs :
       /\ manTemp[p] => pc[p] \in {"replace", "unwind"}
       /\ pc[p] = "replace" => manTemp[p]
       /\ blobTemp[p] => pc[p] \in Busy \ {"blob_temp"}
  /\ crashes = 0 /\ (\A p \in Procs : pc[p] \notin Busy) => temps = 0

OrphanInv ==
  /\ \A e, f \in Orphans : e = f
  /\ \A p \in Procs : pc[p] \in BlobStages \union {"man_temp", "replace"} =>
       IF job[p] = None THEN Present = {} ELSE Orphans \subseteq {job[p]}

IInv == TypeOK /\ LeaseInv /\ JobInv /\ BlobInv /\ ResidueInv /\ OrphanInv

\* Every action keeps the variables in their types.
LEMMA TypeStep ==
  ASSUME IInv, [Next]_vars
  PROVE  TypeOK'
<1> USE JournalAssumption DEF TypeOK, IInv, Stages, Condition, files, lease, local, history, Goto
<1>1. ASSUME NEW p \in Procs, NEW r \in Runs, OpenCreate(p, r)
      PROVE  TypeOK'
  BY <1>1 DEF OpenCreate, AcquireExclusive, ExclusiveFree
<1>2. ASSUME NEW p \in Procs, NEW r \in Runs, OpenReadOnly(p, r)
      PROVE  TypeOK'
  BY <1>2 DEF OpenReadOnly, AcquireShared, SharedFree
<1>3. ASSUME NEW p \in Procs, NEW e \in Entry, Publish(p, e)
      PROVE  TypeOK'
  BY <1>3 DEF Publish, AcquireExclusive, ExclusiveFree
<1>4. ASSUME NEW p \in Procs, ReadExclusive(p)
      PROVE  TypeOK'
  BY <1>4 DEF ReadExclusive, AcquireExclusive, ExclusiveFree
<1>5. ASSUME NEW p \in Procs, ReadShared(p)
      PROVE  TypeOK'
  BY <1>5 DEF ReadShared, AcquireShared, SharedFree
<1>6. ASSUME NEW p \in Procs, Close(p)
      PROVE  TypeOK'
  BY <1>6 DEF Close
<1>7. ASSUME NEW p \in Procs, Opened(p)
      PROVE  TypeOK'
  BY <1>7 DEF Opened, Return, Release
<1>8. ASSUME NEW p \in Procs, OpenFresh(p)
      PROVE  TypeOK'
  BY <1>8 DEF OpenFresh
<1>9. ASSUME NEW p \in Procs, OpenRefused(p)
      PROVE  TypeOK'
  BY <1>9 DEF OpenRefused, Return, Release
<1>10. ASSUME NEW p \in Procs, PublishAdmitted(p)
      PROVE  TypeOK'
  BY <1>10 DEF PublishAdmitted, ManifestAccepted, Manifest
<1>11. ASSUME NEW p \in Procs, PublishRepeated(p)
      PROVE  TypeOK'
  BY <1>11 DEF PublishRepeated, Return, Release, JobInv, Return, Release
<1>12. ASSUME NEW p \in Procs, PublishRefused(p)
      PROVE  TypeOK'
  BY <1>12 DEF PublishRefused, Return, Release
<1>13. ASSUME NEW p \in Procs, WriteBlob(p)
      PROVE  TypeOK'
  BY <1>13 DEF WriteBlob
<1>14. ASSUME NEW p \in Procs, LinkBlob(p)
      PROVE  TypeOK'
  BY <1>14 DEF LinkBlob
<1>15. ASSUME NEW p \in Procs, LinkRefused(p)
      PROVE  TypeOK'
  BY <1>15 DEF LinkRefused
<1>16. ASSUME NEW p \in Procs, SyncBlob(p)
      PROVE  TypeOK'
  BY <1>16 DEF SyncBlob
<1>17. ASSUME NEW p \in Procs, WriteManifest(p)
      PROVE  TypeOK'
  BY <1>17 DEF WriteManifest
<1>18. ASSUME NEW p \in Procs, ReplaceManifest(p)
      PROVE  TypeOK'
  <2>1. temps' \in Nat
    <3>1. manTemp[p] /\ temps = Live(p)
      BY <1>18 DEF ReplaceManifest, ResidueInv, Busy, Writing
    <3>2. temps > 0
      BY <3>1 DEF Live
    <3>3. QED
      BY <1>18, <3>2 DEF ReplaceManifest
  <2>2. handle[p] \in Runs
    BY <1>18 DEF ReplaceManifest, JobInv
  <2>3. NewEntries(p) \in Seq(Entry)
    BY <1>18 DEF NewEntries
  <2>4. manifest' \in Manifest
    BY <1>18, <2>2, <2>3 DEF ReplaceManifest, Manifest
  <2>5. QED
    BY <1>18, <2>1, <2>4 DEF ReplaceManifest
<1>19. ASSUME NEW p \in Procs, SyncManifest(p)
      PROVE  TypeOK'
  <2>1. temps' \in Nat
    BY <1>19 DEF SyncManifest, ResidueInv, Busy, Writing, Live
  <2>2. acked' \subseteq Entry
    BY <1>19 DEF SyncManifest
  <2>3. QED
    BY <1>19, <2>1, <2>2 DEF SyncManifest, Release
<1>20. ASSUME NEW p \in Procs, Unwind(p)
      PROVE  TypeOK'
  <2>1. temps' \in Nat
    BY <1>20 DEF Unwind, ResidueInv, Busy, Writing, Live
  <2>2. QED
    BY <1>20, <2>1 DEF Unwind, Release
<1>21. ASSUME NEW p \in Procs, ReadDone(p)
      PROVE  TypeOK'
  BY <1>21 DEF ReadDone, Return, Release
<1>22. ASSUME NEW p \in Procs, CallFails(p)
      PROVE  TypeOK'
  BY <1>22 DEF CallFails
<1>23. ASSUME NEW p \in Procs, Crash(p)
      PROVE  TypeOK'
  BY <1>23 DEF Crash, Release
<1>24. ASSUME NEW e \in Entry, Damage(e)
      PROVE  TypeOK'
  BY <1>24 DEF Damage
<1>25. ASSUME RemoveUnknown
      PROVE  TypeOK'
  BY <1>25 DEF RemoveUnknown, ExclusiveFree
<1>26. CASE UNCHANGED vars
  BY <1>26 DEF vars
<1>27. QED
  BY <1>1, <1>2, <1>3, <1>4, <1>5, <1>6, <1>7, <1>8, <1>9, <1>10, <1>11, <1>12, <1>13, <1>14, <1>15, <1>16, <1>17, <1>18, <1>19, <1>20, <1>21, <1>22, <1>23, <1>24, <1>25, <1>26 DEF Next, Call, Continue

\* A lease excludes the other leases.
LEMMA LeaseStep ==
  ASSUME IInv, [Next]_vars
  PROVE  LeaseInv'
<1> USE DEF LeaseInv, IInv, Modifying, Writing, TypeOK, files, lease, local, history, Goto
<1>1. ASSUME NEW p \in Procs, NEW r \in Runs, OpenCreate(p, r)
      PROVE  LeaseInv'
  BY <1>1 DEF OpenCreate, AcquireExclusive, ExclusiveFree
<1>2. ASSUME NEW p \in Procs, NEW r \in Runs, OpenReadOnly(p, r)
      PROVE  LeaseInv'
  BY <1>2 DEF OpenReadOnly, AcquireShared, SharedFree
<1>3. ASSUME NEW p \in Procs, NEW e \in Entry, Publish(p, e)
      PROVE  LeaseInv'
  BY <1>3 DEF Publish, AcquireExclusive, ExclusiveFree
<1>4. ASSUME NEW p \in Procs, ReadExclusive(p)
      PROVE  LeaseInv'
  BY <1>4 DEF ReadExclusive, AcquireExclusive, ExclusiveFree
<1>5. ASSUME NEW p \in Procs, ReadShared(p)
      PROVE  LeaseInv'
  BY <1>5 DEF ReadShared, AcquireShared, SharedFree
<1>6. ASSUME NEW p \in Procs, Close(p)
      PROVE  LeaseInv'
  BY <1>6 DEF Close
<1>7. ASSUME NEW p \in Procs, Opened(p)
      PROVE  LeaseInv'
  BY <1>7 DEF Opened, Return, Release
<1>8. ASSUME NEW p \in Procs, OpenFresh(p)
      PROVE  LeaseInv'
  BY <1>8 DEF OpenFresh
<1>9. ASSUME NEW p \in Procs, OpenRefused(p)
      PROVE  LeaseInv'
  BY <1>9 DEF OpenRefused, Return, Release
<1>10. ASSUME NEW p \in Procs, PublishAdmitted(p)
      PROVE  LeaseInv'
  BY <1>10 DEF PublishAdmitted
<1>11. ASSUME NEW p \in Procs, PublishRepeated(p)
      PROVE  LeaseInv'
  BY <1>11 DEF PublishRepeated, Return, Release
<1>12. ASSUME NEW p \in Procs, PublishRefused(p)
      PROVE  LeaseInv'
  BY <1>12 DEF PublishRefused, Return, Release
<1>13. ASSUME NEW p \in Procs, WriteBlob(p)
      PROVE  LeaseInv'
  BY <1>13 DEF WriteBlob
<1>14. ASSUME NEW p \in Procs, LinkBlob(p)
      PROVE  LeaseInv'
  BY <1>14 DEF LinkBlob
<1>15. ASSUME NEW p \in Procs, LinkRefused(p)
      PROVE  LeaseInv'
  BY <1>15 DEF LinkRefused
<1>16. ASSUME NEW p \in Procs, SyncBlob(p)
      PROVE  LeaseInv'
  BY <1>16 DEF SyncBlob
<1>17. ASSUME NEW p \in Procs, WriteManifest(p)
      PROVE  LeaseInv'
  BY <1>17 DEF WriteManifest
<1>18. ASSUME NEW p \in Procs, ReplaceManifest(p)
      PROVE  LeaseInv'
  BY <1>18 DEF ReplaceManifest
<1>19. ASSUME NEW p \in Procs, SyncManifest(p)
      PROVE  LeaseInv'
  BY <1>19 DEF SyncManifest, Release
<1>20. ASSUME NEW p \in Procs, Unwind(p)
      PROVE  LeaseInv'
  BY <1>20 DEF Unwind, Release
<1>21. ASSUME NEW p \in Procs, ReadDone(p)
      PROVE  LeaseInv'
  BY <1>21 DEF ReadDone, Return, Release
<1>22. ASSUME NEW p \in Procs, CallFails(p)
      PROVE  LeaseInv'
  BY <1>22 DEF CallFails
<1>23. ASSUME NEW p \in Procs, Crash(p)
      PROVE  LeaseInv'
  BY <1>23 DEF Crash, Release
<1>24. ASSUME NEW e \in Entry, Damage(e)
      PROVE  LeaseInv'
  BY <1>24 DEF Damage
<1>25. ASSUME RemoveUnknown
      PROVE  LeaseInv'
  BY <1>25 DEF RemoveUnknown, ExclusiveFree
<1>26. CASE UNCHANGED vars
  BY <1>26 DEF vars
<1>27. QED
  BY <1>1, <1>2, <1>3, <1>4, <1>5, <1>6, <1>7, <1>8, <1>9, <1>10, <1>11, <1>12, <1>13, <1>14, <1>15, <1>16, <1>17, <1>18, <1>19, <1>20, <1>21, <1>22, <1>23, <1>24, <1>25, <1>26 DEF Next, Call, Continue

\* What a publication checked stays true while it holds its lease.
LEMMA JobStep ==
  ASSUME IInv, [Next]_vars
  PROVE  JobInv'
<1> USE JournalAssumption DEF JobInv, Admitted, BlobStages, LeaseInv, IInv, Modifying, Writing, TypeOK, files, lease, local, history, Goto
<1>1. ASSUME NEW p \in Procs, NEW r \in Runs, OpenCreate(p, r)
      PROVE  JobInv'
  BY <1>1 DEF OpenCreate, AcquireExclusive, ExclusiveFree
<1>2. ASSUME NEW p \in Procs, NEW r \in Runs, OpenReadOnly(p, r)
      PROVE  JobInv'
  BY <1>2 DEF OpenReadOnly, AcquireShared, SharedFree
<1>3. ASSUME NEW p \in Procs, NEW e \in Entry, Publish(p, e)
      PROVE  JobInv'
  BY <1>3 DEF Publish, AcquireExclusive, ExclusiveFree, Entry, Log!Entry
<1>4. ASSUME NEW p \in Procs, ReadExclusive(p)
      PROVE  JobInv'
  BY <1>4 DEF ReadExclusive, AcquireExclusive, ExclusiveFree
<1>5. ASSUME NEW p \in Procs, ReadShared(p)
      PROVE  JobInv'
  BY <1>5 DEF ReadShared, AcquireShared, SharedFree
<1>6. ASSUME NEW p \in Procs, Close(p)
      PROVE  JobInv'
  BY <1>6 DEF Close
<1>7. ASSUME NEW p \in Procs, Opened(p)
      PROVE  JobInv'
  BY <1>7 DEF Opened, Return, Release
<1>8. ASSUME NEW p \in Procs, OpenFresh(p)
      PROVE  JobInv'
  BY <1>8 DEF OpenFresh, LeaseInv
<1>9. ASSUME NEW p \in Procs, OpenRefused(p)
      PROVE  JobInv'
  BY <1>9 DEF OpenRefused, Return, Release
<1>10. ASSUME NEW p \in Procs, PublishAdmitted(p)
      PROVE  JobInv'
  BY <1>10 DEF PublishAdmitted, ManifestAccepted, Publishable
<1>11. ASSUME NEW p \in Procs, PublishRepeated(p)
      PROVE  JobInv'
  BY <1>11 DEF PublishRepeated, Return, Release
<1>12. ASSUME NEW p \in Procs, PublishRefused(p)
      PROVE  JobInv'
  BY <1>12 DEF PublishRefused, Return, Release
<1>13. ASSUME NEW p \in Procs, WriteBlob(p)
      PROVE  JobInv'
  BY <1>13 DEF WriteBlob
<1>14. ASSUME NEW p \in Procs, LinkBlob(p)
      PROVE  JobInv'
  BY <1>14 DEF LinkBlob
<1>15. ASSUME NEW p \in Procs, LinkRefused(p)
      PROVE  JobInv'
  BY <1>15 DEF LinkRefused
<1>16. ASSUME NEW p \in Procs, SyncBlob(p)
      PROVE  JobInv'
  BY <1>16 DEF SyncBlob
<1>17. ASSUME NEW p \in Procs, WriteManifest(p)
      PROVE  JobInv'
  BY <1>17 DEF WriteManifest
<1>18. ASSUME NEW p \in Procs, ReplaceManifest(p)
      PROVE  JobInv'
  <2>1. \A q \in Procs : q # p => pc[q] \notin Modifying
    BY <1>18 DEF ReplaceManifest
  <2>2. \A q \in Procs : pc'[q] = IF q = p THEN "sync_man" ELSE pc[q]
    BY <1>18 DEF ReplaceManifest
  <2>3. pc[p] = "replace" /\ UNCHANGED <<handle, job, seen>>
    BY <1>18 DEF ReplaceManifest
  <2>4. QED
    BY <2>1, <2>2, <2>3
<1>19. ASSUME NEW p \in Procs, SyncManifest(p)
      PROVE  JobInv'
  BY <1>19 DEF SyncManifest, Release
<1>20. ASSUME NEW p \in Procs, Unwind(p)
      PROVE  JobInv'
  BY <1>20 DEF Unwind, Release
<1>21. ASSUME NEW p \in Procs, ReadDone(p)
      PROVE  JobInv'
  BY <1>21 DEF ReadDone, Return, Release
<1>22. ASSUME NEW p \in Procs, CallFails(p)
      PROVE  JobInv'
  BY <1>22 DEF CallFails
<1>23. ASSUME NEW p \in Procs, Crash(p)
      PROVE  JobInv'
  BY <1>23 DEF Crash, Release
<1>24. ASSUME NEW e \in Entry, Damage(e)
      PROVE  JobInv'
  BY <1>24 DEF Damage
<1>25. ASSUME RemoveUnknown
      PROVE  JobInv'
  BY <1>25 DEF RemoveUnknown, ExclusiveFree
<1>26. CASE UNCHANGED vars
  BY <1>26 DEF vars
<1>27. QED
  BY <1>1, <1>2, <1>3, <1>4, <1>5, <1>6, <1>7, <1>8, <1>9, <1>10, <1>11, <1>12, <1>13, <1>14, <1>15, <1>16, <1>17, <1>18, <1>19, <1>20, <1>21, <1>22, <1>23, <1>24, <1>25, <1>26 DEF Next, Call, Continue

\* Appending an entry adds that entry to the range of a sequence.
LEMMA RangeOfAppend ==
  ASSUME NEW S, NEW s \in Seq(S), NEW e \in S
  PROVE  SeqRange(Append(s, e)) = SeqRange(s) \union {e}
<1>1. DOMAIN Append(s, e) = 1..(Len(s) + 1) /\ DOMAIN s = 1..Len(s) /\ Len(s) \in Nat
  OBVIOUS
<1>2. \A i \in DOMAIN Append(s, e) :
        Append(s, e)[i] = IF i = Len(s) + 1 THEN e ELSE s[i]
  OBVIOUS
<1>3. QED
  BY <1>1, <1>2 DEF SeqRange

\* Replacing the manifest commits the entry of the publication, and only that;
\* the constructor's first manifest commits nothing.
LEMMA ReplaceCommits ==
  ASSUME IInv, NEW p \in Procs, ReplaceManifest(p)
  PROVE  Committed' = Committed \union (IF job[p] = None THEN {} ELSE {job[p]})
<1> USE JournalAssumption DEF IInv, TypeOK
<1>1. Admitted(p) /\ handle[p] \in Runs
  BY DEF JobInv, ReplaceManifest
<1>2. manifest' # None /\ manifest'.entries = NewEntries(p)
  <2>1. NewEntries(p) \in Seq(Entry)
    BY DEF NewEntries
  <2>2. QED
    BY <1>1, <2>1 DEF ReplaceManifest, Entry, Log!Entry
<1>3. CASE job[p] = None
  BY <1>1, <1>2, <1>3 DEF Admitted, NewEntries, Committed, SeqRange
<1>4. CASE job[p] # None
  <2>1. SeqRange(Append(seen[p], job[p])) = SeqRange(seen[p]) \union {job[p]}
    BY <1>4, RangeOfAppend
  <2>2. QED
    BY <1>1, <1>2, <1>4, <2>1 DEF Admitted, NewEntries, Committed
<1>5. QED
  BY <1>3, <1>4

\* A version is on disk before the manifest names it, and stays committed.
LEMMA BlobStep ==
  ASSUME IInv, [Next]_vars
  PROVE  BlobInv'
<1> USE JournalAssumption DEF BlobInv, Linked, JobInv, BlobStages, IInv, Modifying, Writing, TypeOK, Condition, files, lease, local, history, Goto
<1>1. ASSUME NEW p \in Procs, NEW r \in Runs, OpenCreate(p, r)
      PROVE  BlobInv'
  BY <1>1 DEF OpenCreate, AcquireExclusive, ExclusiveFree, Committed
<1>2. ASSUME NEW p \in Procs, NEW r \in Runs, OpenReadOnly(p, r)
      PROVE  BlobInv'
  BY <1>2 DEF OpenReadOnly, AcquireShared, SharedFree, Committed
<1>3. ASSUME NEW p \in Procs, NEW e \in Entry, Publish(p, e)
      PROVE  BlobInv'
  BY <1>3 DEF Publish, AcquireExclusive, ExclusiveFree, Committed
<1>4. ASSUME NEW p \in Procs, ReadExclusive(p)
      PROVE  BlobInv'
  BY <1>4 DEF ReadExclusive, AcquireExclusive, ExclusiveFree, Committed
<1>5. ASSUME NEW p \in Procs, ReadShared(p)
      PROVE  BlobInv'
  BY <1>5 DEF ReadShared, AcquireShared, SharedFree, Committed
<1>6. ASSUME NEW p \in Procs, Close(p)
      PROVE  BlobInv'
  BY <1>6 DEF Close, Committed
<1>7. ASSUME NEW p \in Procs, Opened(p)
      PROVE  BlobInv'
  BY <1>7 DEF Opened, Return, Release, Committed
<1>8. ASSUME NEW p \in Procs, OpenFresh(p)
      PROVE  BlobInv'
  BY <1>8 DEF OpenFresh, Committed
<1>9. ASSUME NEW p \in Procs, OpenRefused(p)
      PROVE  BlobInv'
  BY <1>9 DEF OpenRefused, Return, Release, Committed
<1>10. ASSUME NEW p \in Procs, PublishAdmitted(p)
      PROVE  BlobInv'
  BY <1>10 DEF PublishAdmitted, Committed
<1>11. ASSUME NEW p \in Procs, PublishRepeated(p)
      PROVE  BlobInv'
  <2>1. manifest # None /\ manifest.entries # <<>> /\ manifest \in Manifest
    BY <1>11 DEF PublishRepeated, ManifestAccepted, AlreadyCommitted
  <2>2. Len(manifest.entries) \in DOMAIN manifest.entries
    BY <2>1 DEF Manifest
  <2>3. job[p] \in Committed
    BY <1>11, <2>1, <2>2 DEF PublishRepeated, AlreadyCommitted, Committed, SeqRange
  <2>4. QED
    BY <1>11, <2>3 DEF PublishRepeated, Return, Release, Committed
<1>12. ASSUME NEW p \in Procs, PublishRefused(p)
      PROVE  BlobInv'
  BY <1>12 DEF PublishRefused, Return, Release, Committed
<1>13. ASSUME NEW p \in Procs, WriteBlob(p)
      PROVE  BlobInv'
  BY <1>13 DEF WriteBlob, Committed
<1>14. ASSUME NEW p \in Procs, LinkBlob(p)
      PROVE  BlobInv'
  BY <1>14 DEF LinkBlob, Committed, LeaseInv
<1>15. ASSUME NEW p \in Procs, LinkRefused(p)
      PROVE  BlobInv'
  BY <1>15 DEF LinkRefused, Committed
<1>16. ASSUME NEW p \in Procs, SyncBlob(p)
      PROVE  BlobInv'
  BY <1>16 DEF SyncBlob, Committed
<1>17. ASSUME NEW p \in Procs, WriteManifest(p)
      PROVE  BlobInv'
  BY <1>17 DEF WriteManifest, Committed
<1>18. ASSUME NEW p \in Procs, ReplaceManifest(p)
      PROVE  BlobInv'
  <2>1. Committed' = Committed \union (IF job[p] = None THEN {} ELSE {job[p]})
    BY <1>18, ReplaceCommits
  <2>2. \A q \in Procs : q # p => pc[q] \notin Modifying
    BY <1>18 DEF ReplaceManifest, LeaseInv
  <2>3. \A q \in Procs : pc'[q] = IF q = p THEN "sync_man" ELSE pc[q]
    BY <1>18 DEF ReplaceManifest
  <2>4. pc[p] = "replace" /\ UNCHANGED <<blob, job, acked, damaged>>
    BY <1>18 DEF ReplaceManifest
  <2>5. QED
    BY <2>1, <2>2, <2>3, <2>4
<1>19. ASSUME NEW p \in Procs, SyncManifest(p)
      PROVE  BlobInv'
  BY <1>19 DEF SyncManifest, Release, Committed
<1>20. ASSUME NEW p \in Procs, Unwind(p)
      PROVE  BlobInv'
  BY <1>20 DEF Unwind, Release, Committed
<1>21. ASSUME NEW p \in Procs, ReadDone(p)
      PROVE  BlobInv'
  BY <1>21 DEF ReadDone, Return, Release, Committed
<1>22. ASSUME NEW p \in Procs, CallFails(p)
      PROVE  BlobInv'
  BY <1>22 DEF CallFails, Committed
<1>23. ASSUME NEW p \in Procs, Crash(p)
      PROVE  BlobInv'
  BY <1>23 DEF Crash, Release, Committed
<1>24. ASSUME NEW e \in Entry, Damage(e)
      PROVE  BlobInv'
  BY <1>24 DEF Damage, Committed
<1>25. ASSUME RemoveUnknown
      PROVE  BlobInv'
  <2>1. \A e \in Committed \intersect Entry : blob'[e] = blob[e]
    BY <1>25 DEF RemoveUnknown, Orphans
  <2>2. Committed \subseteq Entry
    BY DEF Committed, SeqRange, Manifest
  <2>3. \A q \in Procs : pc[q] \notin Modifying
    BY <1>25 DEF RemoveUnknown, ExclusiveFree, LeaseInv
  <2>4. Committed' = Committed /\ UNCHANGED <<pc, job, acked, damaged>>
    BY <1>25 DEF RemoveUnknown, Committed
  <2>5. QED
    BY <2>1, <2>2, <2>3, <2>4
<1>26. CASE UNCHANGED vars
  BY <1>26 DEF vars, Committed
<1>27. QED
  BY <1>1, <1>2, <1>3, <1>4, <1>5, <1>6, <1>7, <1>8, <1>9, <1>10, <1>11, <1>12, <1>13, <1>14, <1>15, <1>16, <1>17, <1>18, <1>19, <1>20, <1>21, <1>22, <1>23, <1>24, <1>25, <1>26 DEF Next, Call, Continue

\* Temporaries are those of the process that writes, plus what kills left behind.
LEMMA ResidueStep ==
  ASSUME IInv, [Next]_vars
  PROVE  ResidueInv'
<1> USE DEF ResidueInv, LeaseInv, Live, Busy, IInv, Modifying, Writing, TypeOK, files, lease, local, history, Goto
<1>1. ASSUME NEW p \in Procs, NEW r \in Runs, OpenCreate(p, r)
      PROVE  ResidueInv'
  BY <1>1 DEF OpenCreate, AcquireExclusive, ExclusiveFree
<1>2. ASSUME NEW p \in Procs, NEW r \in Runs, OpenReadOnly(p, r)
      PROVE  ResidueInv'
  BY <1>2 DEF OpenReadOnly, AcquireShared, SharedFree
<1>3. ASSUME NEW p \in Procs, NEW e \in Entry, Publish(p, e)
      PROVE  ResidueInv'
  BY <1>3 DEF Publish, AcquireExclusive, ExclusiveFree
<1>4. ASSUME NEW p \in Procs, ReadExclusive(p)
      PROVE  ResidueInv'
  BY <1>4 DEF ReadExclusive, AcquireExclusive, ExclusiveFree
<1>5. ASSUME NEW p \in Procs, ReadShared(p)
      PROVE  ResidueInv'
  BY <1>5 DEF ReadShared, AcquireShared, SharedFree
<1>6. ASSUME NEW p \in Procs, Close(p)
      PROVE  ResidueInv'
  BY <1>6 DEF Close
<1>7. ASSUME NEW p \in Procs, Opened(p)
      PROVE  ResidueInv'
  BY <1>7 DEF Opened, Return, Release
<1>8. ASSUME NEW p \in Procs, OpenFresh(p)
      PROVE  ResidueInv'
  <2>1. temps = 0 /\ exclusive = {p} /\ pc[p] = "opening"
    BY <1>8 DEF OpenFresh, EmptyDirectory
  <2>2. \A q \in Procs : q # p => pc[q] \notin Busy
    BY <2>1
  <2>3. ~manTemp[p] /\ ~blobTemp[p]
    BY <2>1
  <2>4. \A q \in Procs : pc'[q] = IF q = p THEN "man_temp" ELSE pc[q]
    BY <1>8 DEF OpenFresh
  <2>5. UNCHANGED <<temps, crashes, manTemp, blobTemp>>
    BY <1>8 DEF OpenFresh
  <2>6. temps = Live(p)
    BY <2>1, <2>3
  <2>7. QED
    BY <2>1, <2>2, <2>3, <2>4, <2>5, <2>6
<1>9. ASSUME NEW p \in Procs, OpenRefused(p)
      PROVE  ResidueInv'
  BY <1>9 DEF OpenRefused, Return, Release
<1>10. ASSUME NEW p \in Procs, PublishAdmitted(p)
      PROVE  ResidueInv'
  BY <1>10 DEF PublishAdmitted, Publishable, NoUnknownFiles
<1>11. ASSUME NEW p \in Procs, PublishRepeated(p)
      PROVE  ResidueInv'
  BY <1>11 DEF PublishRepeated, Return, Release
<1>12. ASSUME NEW p \in Procs, PublishRefused(p)
      PROVE  ResidueInv'
  BY <1>12 DEF PublishRefused, Return, Release
<1>13. ASSUME NEW p \in Procs, WriteBlob(p)
      PROVE  ResidueInv'
  BY <1>13 DEF WriteBlob
<1>14. ASSUME NEW p \in Procs, LinkBlob(p)
      PROVE  ResidueInv'
  BY <1>14 DEF LinkBlob
<1>15. ASSUME NEW p \in Procs, LinkRefused(p)
      PROVE  ResidueInv'
  BY <1>15 DEF LinkRefused
<1>16. ASSUME NEW p \in Procs, SyncBlob(p)
      PROVE  ResidueInv'
  BY <1>16 DEF SyncBlob
<1>17. ASSUME NEW p \in Procs, WriteManifest(p)
      PROVE  ResidueInv'
  <2>1. \A q \in Procs : q # p => pc[q] \notin Modifying
    BY <1>17 DEF WriteManifest
  <2>2. \A q \in Procs : pc'[q] = IF q = p THEN "replace" ELSE pc[q]
    BY <1>17 DEF WriteManifest
  <2>3. \A q \in Procs : /\ manTemp'[q] = IF q = p THEN TRUE ELSE manTemp[q]
                         /\ blobTemp'[q] = blobTemp[q]
    BY <1>17 DEF WriteManifest
  <2>4. temps = Live(p) /\ manTemp[p] = ~ TRUE /\ pc[p] \in Writing \ {"blob_temp"}
    BY <1>17 DEF WriteManifest
  <2>5. temps' = (IF TRUE THEN 1 ELSE 0) + (IF blobTemp[p] THEN 1 ELSE 0)
    BY <1>17, <2>4 DEF WriteManifest
  <2>6. temps' <= 2 /\ temps' = Live(p)'
    <3>1. manTemp'[p] = TRUE /\ blobTemp'[p] = blobTemp[p]
      BY <2>3
    <3>2. CASE blobTemp[p]
      BY <2>5, <3>1, <3>2
    <3>3. CASE ~blobTemp[p]
      BY <2>5, <3>1, <3>3
    <3>4. QED
      BY <3>2, <3>3
  <2>7. \A q \in Procs : q # p => pc'[q] \notin Busy
    BY <2>1, <2>2
  <2>8. pc'[p] \in Busy \ {"blob_temp"}
    BY <2>2
  <2>9. QED
    BY <2>2, <2>3, <2>4, <2>6, <2>7, <2>8
<1>18. ASSUME NEW p \in Procs, ReplaceManifest(p)
      PROVE  ResidueInv'
  <2>1. \A q \in Procs : q # p => pc[q] \notin Modifying
    BY <1>18 DEF ReplaceManifest
  <2>2. \A q \in Procs : pc'[q] = IF q = p THEN "sync_man" ELSE pc[q]
    BY <1>18 DEF ReplaceManifest
  <2>3. \A q \in Procs : /\ manTemp'[q] = IF q = p THEN FALSE ELSE manTemp[q]
                         /\ blobTemp'[q] = blobTemp[q]
    BY <1>18 DEF ReplaceManifest
  <2>4. temps = Live(p) /\ manTemp[p] = ~ FALSE /\ pc[p] \in Writing \ {"blob_temp"}
    BY <1>18 DEF ReplaceManifest
  <2>5. temps' = (IF FALSE THEN 1 ELSE 0) + (IF blobTemp[p] THEN 1 ELSE 0)
    BY <1>18, <2>4 DEF ReplaceManifest
  <2>6. temps' <= 2 /\ temps' = Live(p)'
    <3>1. manTemp'[p] = FALSE /\ blobTemp'[p] = blobTemp[p]
      BY <2>3
    <3>2. CASE blobTemp[p]
      BY <2>5, <3>1, <3>2
    <3>3. CASE ~blobTemp[p]
      BY <2>5, <3>1, <3>3
    <3>4. QED
      BY <3>2, <3>3
  <2>7. \A q \in Procs : q # p => pc'[q] \notin Busy
    BY <2>1, <2>2
  <2>8. pc'[p] \in Busy \ {"blob_temp"}
    BY <2>2
  <2>9. QED
    BY <2>2, <2>3, <2>4, <2>6, <2>7, <2>8
<1>19. ASSUME NEW p \in Procs, SyncManifest(p)
      PROVE  ResidueInv'
  BY <1>19 DEF SyncManifest, Release
<1>20. ASSUME NEW p \in Procs, Unwind(p)
      PROVE  ResidueInv'
  BY <1>20 DEF Unwind, Release
<1>21. ASSUME NEW p \in Procs, ReadDone(p)
      PROVE  ResidueInv'
  BY <1>21 DEF ReadDone, Return, Release
<1>22. ASSUME NEW p \in Procs, CallFails(p)
      PROVE  ResidueInv'
  BY <1>22 DEF CallFails
<1>23. ASSUME NEW p \in Procs, Crash(p)
      PROVE  ResidueInv'
  BY <1>23 DEF Crash, Release
<1>24. ASSUME NEW e \in Entry, Damage(e)
      PROVE  ResidueInv'
  BY <1>24 DEF Damage
<1>25. ASSUME RemoveUnknown
      PROVE  ResidueInv'
  BY <1>25 DEF RemoveUnknown, ExclusiveFree
<1>26. CASE UNCHANGED vars
  BY <1>26 DEF vars
<1>27. QED
  BY <1>1, <1>2, <1>3, <1>4, <1>5, <1>6, <1>7, <1>8, <1>9, <1>10, <1>11, <1>12, <1>13, <1>14, <1>15, <1>16, <1>17, <1>18, <1>19, <1>20, <1>21, <1>22, <1>23, <1>24, <1>25, <1>26 DEF Next, Call, Continue

\* All files that nobody lists belong to one publication.
LEMMA OrphanStep ==
  ASSUME IInv, [Next]_vars
  PROVE  OrphanInv'
<1> USE JournalAssumption DEF OrphanInv, LeaseInv, BlobStages, IInv, Modifying, Writing, TypeOK, Condition, files, lease, local, history, Goto
<1>1. ASSUME NEW p \in Procs, NEW r \in Runs, OpenCreate(p, r)
      PROVE  OrphanInv'
  BY <1>1 DEF OpenCreate, AcquireExclusive, ExclusiveFree, Orphans, Present, Committed
<1>2. ASSUME NEW p \in Procs, NEW r \in Runs, OpenReadOnly(p, r)
      PROVE  OrphanInv'
  BY <1>2 DEF OpenReadOnly, AcquireShared, SharedFree, Orphans, Present, Committed
<1>3. ASSUME NEW p \in Procs, NEW e \in Entry, Publish(p, e)
      PROVE  OrphanInv'
  BY <1>3 DEF Publish, AcquireExclusive, ExclusiveFree, Orphans, Present, Committed
<1>4. ASSUME NEW p \in Procs, ReadExclusive(p)
      PROVE  OrphanInv'
  BY <1>4 DEF ReadExclusive, AcquireExclusive, ExclusiveFree, Orphans, Present, Committed
<1>5. ASSUME NEW p \in Procs, ReadShared(p)
      PROVE  OrphanInv'
  BY <1>5 DEF ReadShared, AcquireShared, SharedFree, Orphans, Present, Committed
<1>6. ASSUME NEW p \in Procs, Close(p)
      PROVE  OrphanInv'
  BY <1>6 DEF Close, Orphans, Present, Committed
<1>7. ASSUME NEW p \in Procs, Opened(p)
      PROVE  OrphanInv'
  BY <1>7 DEF Opened, Return, Release, Orphans, Present, Committed
<1>8. ASSUME NEW p \in Procs, OpenFresh(p)
      PROVE  OrphanInv'
  BY <1>8 DEF OpenFresh, EmptyDirectory, Orphans, Present, Committed
<1>9. ASSUME NEW p \in Procs, OpenRefused(p)
      PROVE  OrphanInv'
  BY <1>9 DEF OpenRefused, Return, Release, Orphans, Present, Committed
<1>10. ASSUME NEW p \in Procs, PublishAdmitted(p)
      PROVE  OrphanInv'
  <2>1. Present \subseteq Committed \union {job[p]}
    BY <1>10 DEF PublishAdmitted, ManifestAccepted, Publishable, NoUnknownFiles, Committed
  <2>2. \A q \in Procs : q # p => pc[q] \notin Modifying
    BY <1>10 DEF PublishAdmitted
  <2>3. \A q \in Procs : pc'[q] = IF q = p THEN "blob_temp" ELSE pc[q]
    BY <1>10 DEF PublishAdmitted
  <2>4. Orphans' = Orphans /\ Present' = Present /\ UNCHANGED job
    BY <1>10 DEF PublishAdmitted, Orphans, Present, Committed
  <2>5. job[p] # None
    BY <1>10 DEF PublishAdmitted, JobInv
  <2>6. Orphans \subseteq {job[p]}
    BY <2>1 DEF Orphans
  <2>7. QED
    BY <2>2, <2>3, <2>4, <2>5, <2>6
<1>11. ASSUME NEW p \in Procs, PublishRepeated(p)
      PROVE  OrphanInv'
  BY <1>11 DEF PublishRepeated, Return, Release, Orphans, Present, Committed
<1>12. ASSUME NEW p \in Procs, PublishRefused(p)
      PROVE  OrphanInv'
  BY <1>12 DEF PublishRefused, Return, Release, Orphans, Present, Committed
<1>13. ASSUME NEW p \in Procs, WriteBlob(p)
      PROVE  OrphanInv'
  BY <1>13 DEF WriteBlob, Orphans, Present, Committed
<1>14. ASSUME NEW p \in Procs, LinkBlob(p)
      PROVE  OrphanInv'
  <2>1. job[p] \in Entry
    BY <1>14 DEF LinkBlob, JobInv
  <2>2. Present' = Present \union {job[p]} /\ Committed' = Committed
    BY <1>14, <2>1 DEF LinkBlob, Present, Committed
  <2>3. Orphans \subseteq {job[p]}
    BY <1>14, <2>1 DEF LinkBlob, JobInv
  <2>4. Orphans' \subseteq {job[p]}
    BY <2>2, <2>3 DEF Orphans
  <2>5. \A q \in Procs : q # p => pc[q] \notin Modifying
    BY <1>14 DEF LinkBlob
  <2>6. \A q \in Procs : pc'[q] = IF q = p THEN "sync_blob" ELSE pc[q]
    BY <1>14 DEF LinkBlob
  <2>7. job[p] # None /\ UNCHANGED job
    BY <1>14 DEF LinkBlob, JobInv
  <2>8. QED
    BY <2>4, <2>5, <2>6, <2>7
<1>15. ASSUME NEW p \in Procs, LinkRefused(p)
      PROVE  OrphanInv'
  BY <1>15 DEF LinkRefused, Orphans, Present, Committed
<1>16. ASSUME NEW p \in Procs, SyncBlob(p)
      PROVE  OrphanInv'
  BY <1>16 DEF SyncBlob, Orphans, Present, Committed
<1>17. ASSUME NEW p \in Procs, WriteManifest(p)
      PROVE  OrphanInv'
  BY <1>17 DEF WriteManifest, Orphans, Present, Committed
<1>18. ASSUME NEW p \in Procs, ReplaceManifest(p)
      PROVE  OrphanInv'
  <2>1. Committed' = Committed \union (IF job[p] = None THEN {} ELSE {job[p]})
    BY <1>18, ReplaceCommits
  <2>2. Present' = Present
    BY <1>18 DEF ReplaceManifest, Present
  <2>3. Orphans' \subseteq Orphans
    BY <2>1, <2>2 DEF Orphans
  <2>4. \A q \in Procs : q # p => pc[q] \notin Modifying
    BY <1>18 DEF ReplaceManifest
  <2>5. \A q \in Procs : pc'[q] = IF q = p THEN "sync_man" ELSE pc[q]
    BY <1>18 DEF ReplaceManifest
  <2>6. QED
    BY <2>3, <2>4, <2>5
<1>19. ASSUME NEW p \in Procs, SyncManifest(p)
      PROVE  OrphanInv'
  BY <1>19 DEF SyncManifest, Release, Orphans, Present, Committed
<1>20. ASSUME NEW p \in Procs, Unwind(p)
      PROVE  OrphanInv'
  BY <1>20 DEF Unwind, Release, Orphans, Present, Committed
<1>21. ASSUME NEW p \in Procs, ReadDone(p)
      PROVE  OrphanInv'
  BY <1>21 DEF ReadDone, Return, Release, Orphans, Present, Committed
<1>22. ASSUME NEW p \in Procs, CallFails(p)
      PROVE  OrphanInv'
  BY <1>22 DEF CallFails, Orphans, Present, Committed
<1>23. ASSUME NEW p \in Procs, Crash(p)
      PROVE  OrphanInv'
  BY <1>23 DEF Crash, Release, Orphans, Present, Committed
<1>24. ASSUME NEW e \in Entry, Damage(e)
      PROVE  OrphanInv'
  <2>1. Present' \subseteq Present /\ Committed' = Committed
    BY <1>24 DEF Damage, Present, Committed
  <2>2. Orphans' \subseteq Orphans
    BY <2>1 DEF Orphans
  <2>3. UNCHANGED <<pc, job>>
    BY <1>24 DEF Damage
  <2>4. QED
    BY <2>1, <2>2, <2>3
<1>25. ASSUME RemoveUnknown
      PROVE  OrphanInv'
  <2>1. Orphans' = {}
    BY <1>25 DEF RemoveUnknown, Orphans, Present, Committed
  <2>2. \A q \in Procs : pc[q] \notin Modifying
    BY <1>25 DEF RemoveUnknown, ExclusiveFree
  <2>3. UNCHANGED pc
    BY <1>25 DEF RemoveUnknown
  <2>4. QED
    BY <2>1, <2>2, <2>3
<1>26. CASE UNCHANGED vars
  BY <1>26 DEF vars, Orphans, Present, Committed
<1>27. QED
  BY <1>1, <1>2, <1>3, <1>4, <1>5, <1>6, <1>7, <1>8, <1>9, <1>10, <1>11, <1>12, <1>13, <1>14, <1>15, <1>16, <1>17, <1>18, <1>19, <1>20, <1>21, <1>22, <1>23, <1>24, <1>25, <1>26 DEF Next, Call, Continue

\* An absent journal satisfies it.
LEMMA InitInv == Init => IInv
<1> SUFFICES ASSUME Init PROVE IInv
  OBVIOUS
<1> USE JournalAssumption DEF Init
<1>1. TypeOK
  <2>1. seen \in [Procs -> Seq(Entry)]
    OBVIOUS
  <2>2. /\ blob \in [Entry -> Condition]
        /\ pc \in [Procs -> Stages]
        /\ job \in [Procs -> Entry \union {None}]
        /\ handle \in [Procs -> Runs \union {None}]
        /\ blobTemp \in [Procs -> BOOLEAN]
        /\ manTemp \in [Procs -> BOOLEAN]
    BY DEF Stages, Condition
  <2>3. QED
    BY <2>1, <2>2 DEF TypeOK
<1>2. Committed = {} /\ Present = {}
  BY DEF Committed, Present
<1>3. LeaseInv /\ JobInv
  BY DEF LeaseInv, JobInv, Modifying, Writing, BlobStages
<1>4. BlobInv /\ ResidueInv /\ OrphanInv
  BY <1>2 DEF BlobInv, ResidueInv, OrphanInv, Orphans, Linked, Busy, BlobStages, Writing
<1>5. QED
  BY <1>1, <1>3, <1>4 DEF IInv

\* Every reachable state satisfies the inductive invariant.
THEOREM Invariance == Spec => []IInv
<1>1. IInv /\ [Next]_vars => IInv'
  <2> SUFFICES ASSUME IInv, [Next]_vars PROVE IInv'
    OBVIOUS
  <2>1. TypeOK' /\ LeaseInv' /\ JobInv'
    BY TypeStep, LeaseStep, JobStep
  <2>2. BlobInv' /\ ResidueInv' /\ OrphanInv'
    BY BlobStep, ResidueStep, OrphanStep
  <2>3. QED
    BY <2>1, <2>2 DEF IInv
<1>2. QED
  BY InitInv, <1>1, PTL DEF Spec

-------------------------------------------------------------------------------
\* The variables keep their types: no temporary is unlinked twice.
THEOREM TypeCorrect == Spec => []TypeOK
<1>1. IInv => TypeOK
  BY DEF IInv
<1>2. QED
  BY <1>1, Invariance, PTL

\* A process that writes holds the only lease, with any number of writers and
\* inspectors.
THEOREM WritersAreAlone == Spec => []WritersAlone
<1>1. IInv => WritersAlone
  BY DEF IInv, LeaseInv, WritersAlone
<1>2. QED
  BY <1>1, Invariance, PTL

\* A committed version's file was complete before the manifest named it.
THEOREM BlobsComeFirst == Spec => []BlobBeforeManifest
<1>1. IInv => BlobBeforeManifest
  BY DEF IInv, BlobInv, BlobBeforeManifest
<1>2. QED
  BY <1>1, Invariance, PTL

\* A publication that returned stays a candidate until its file is damaged.
THEOREM AcknowledgedStays == Spec => []AckedIsCandidate
<1>1. IInv => AckedIsCandidate
  BY DEF IInv, BlobInv, AckedIsCandidate, Candidates
<1>2. QED
  BY <1>1, Invariance, PTL

\* Interrupted publications leave one orphan and two temporaries at most.
THEOREM ResidueIsBounded == Spec => []NothingAccumulates
<1>1. IInv => NothingAccumulates
  <2> SUFFICES ASSUME IInv PROVE NothingAccumulates
    OBVIOUS
  <2>1. temps <= 2
    BY DEF IInv, ResidueInv
  <2>2. CASE Orphans = {}
    BY <2>1, <2>2, FS_EmptySet DEF NothingAccumulates
  <2>3. CASE Orphans # {}
    <3>1. PICK e \in Orphans : Orphans = {e}
      BY <2>3 DEF IInv, OrphanInv
    <3>2. QED
      <4>1. Cardinality(Orphans) = 1
        BY <3>1, FS_Singleton
      <4>2. QED
        BY <2>1, <4>1 DEF NothingAccumulates
  <2>4. QED
    BY <2>2, <2>3
<1>2. QED
  BY <1>1, Invariance, PTL

\* Without a kill, every operation cleans up after itself.
THEOREM FailuresAreCleaned == Spec => []CleanWithoutCrash
<1>1. IInv => CleanWithoutCrash
  BY DEF IInv, ResidueInv, LeaseInv, CleanWithoutCrash, Busy, Modifying
<1>2. QED
  BY <1>1, Invariance, PTL

-------------------------------------------------------------------------------
\* Only the atomic replacement of the manifest moves the log, and it creates
\* the log of the writer's run or appends the version that was checked.
LEMMA ReplaceIsCommit ==
  ASSUME IInv, NEW p \in Procs, ReplaceManifest(p)
  PROVE  Log!LogNext
<1> USE JournalAssumption DEF IInv, TypeOK
<1>1. Admitted(p) /\ handle[p] \in Runs
  BY DEF JobInv, ReplaceManifest
<1>2. manifest' = [run |-> handle[p], entries |-> NewEntries(p)]
  BY DEF ReplaceManifest
<1>3. CASE job[p] = None
  <2>1. Log!Create(handle[p])
    BY <1>1, <1>2, <1>3 DEF Admitted, NewEntries, Log!Create
  <2>2. QED
    BY <1>1, <2>1 DEF Log!LogNext
<1>4. CASE job[p] # None
  <2>1. job[p] \in Entry
    BY <1>4
  <2>2. manifest \in Manifest /\ manifest.run = handle[p] /\ manifest.entries = seen[p]
    BY <1>1, <1>4 DEF Admitted
  <2>3. manifest' = [run |-> manifest.run, entries |-> Append(manifest.entries, job[p])]
    BY <1>2, <1>4, <2>2 DEF NewEntries
  <2>4. Log!Commit(job[p])
    BY <1>1, <1>4, <2>2, <2>3 DEF Admitted, Advances, Log!Commit
  <2>5. QED
    BY <2>1, <2>4 DEF Entry, Log!LogNext
<1>5. QED
  BY <1>3, <1>4

\* Every step is a step of the log or leaves it as it is.
LEMMA StepRefines ==
  ASSUME IInv, [Next]_vars
  PROVE  [Log!LogNext]_manifest
<1> USE DEF files, lease, local, history, Return
<1>1. ASSUME NEW p \in Procs, Call(p)
      PROVE  UNCHANGED manifest
  BY <1>1 DEF Call, OpenCreate, OpenReadOnly, Publish, ReadExclusive, ReadShared, Close
<1>2. ASSUME NEW p \in Procs, Continue(p)
      PROVE  [Log!LogNext]_manifest
  <2>1. CASE ReplaceManifest(p)
    BY <2>1, ReplaceIsCommit
  <2>2. CASE ~ReplaceManifest(p)
    BY <1>2, <2>2 DEF Continue, Opened, OpenFresh, OpenRefused, PublishAdmitted,
       PublishRepeated, PublishRefused, WriteBlob, LinkBlob, LinkRefused, SyncBlob,
       WriteManifest, SyncManifest, Unwind, ReadDone
  <2>3. QED
    BY <2>1, <2>2
<1>3. ASSUME NEW p \in Procs, CallFails(p) \/ Crash(p)
      PROVE  UNCHANGED manifest
  BY <1>3 DEF CallFails, Crash
<1>4. ASSUME NEW e \in Entry, Damage(e)
      PROVE  UNCHANGED manifest
  BY <1>4 DEF Damage
<1>5. CASE RemoveUnknown
  BY <1>5 DEF RemoveUnknown
<1>6. CASE UNCHANGED vars
  BY <1>6 DEF vars
<1>7. QED
  BY <1>1, <1>2, <1>3, <1>4, <1>5, <1>6 DEF Next

\* The journal implements its append-only log: whatever is killed, fails or is
\* damaged, the manifest only ever gains one checked version at a time.
THEOREM JournalImplementsLog == Spec => Implements
<1>1. Init => Log!LogInit
  BY DEF Init, Log!LogInit
<1>2. IInv /\ [Next]_vars => [Log!LogNext]_manifest
  BY StepRefines
<1>3. QED
  BY <1>1, <1>2, Invariance, PTL DEF Spec, Implements, Log!LogSpec

-------------------------------------------------------------------------------
(* The bytes of a log.  TotalBytes folds over the places of the entries: it is *)
(* a function that is chosen by its recursive equation.  A measure of the sets *)
(* of places satisfies the equation, and is what satisfies it; a measure of    *)
(* n places extends to n + 1.                                                  *)

LEMMA LeastExists ==
  ASSUME NEW T \in SUBSET Nat, T # {}
  PROVE  \E t \in T : \A x \in T : t =< x
<1>1. \E t \in T : \A x \in T : <<x, t>> \notin OpToRel(<, Nat)
  BY NatLessThanWellFounded, WFMin
<1>2. PICK t \in T : \A x \in T : <<x, t>> \notin OpToRel(<, Nat)
  BY <1>1
<1>3. \A x \in T : ~(x < t)
  BY <1>2 DEF OpToRel
<1>4. QED
  BY <1>3

Pick(s) == CHOOSE x \in s : TRUE

\* g sums c over the subsets of S, one picked element after the other.
Sums(g, S, c) == g = [s \in SUBSET S |-> IF s = {} THEN 0 ELSE c[Pick(s)] + g[s \ {Pick(s)}]]

MeasureOf(m, S, c) ==
  /\ m \in [SUBSET S -> Nat]
  /\ m[{}] = 0
  /\ \A T \in SUBSET S : \A t \in T : m[T] = m[T \ {t}] + c[t]

LEMMA PickedIsThere == ASSUME NEW s, s # {} PROVE Pick(s) \in s
BY DEF Pick

\* A measure is such a sum.
LEMMA MeasureSums ==
  ASSUME NEW S, NEW c, \A t \in S : c[t] \in Nat, NEW m, MeasureOf(m, S, c)
  PROVE  Sums(m, S, c)
<1>1. ASSUME NEW s \in SUBSET S
      PROVE  m[s] = IF s = {} THEN 0 ELSE c[Pick(s)] + m[s \ {Pick(s)}]
  <2>1. CASE s = {}
    BY <2>1 DEF MeasureOf
  <2>2. CASE s # {}
    <3>1. Pick(s) \in s /\ Pick(s) \in S /\ s \ {Pick(s)} \in SUBSET S
      BY <2>2, PickedIsThere
    <3>2. m[s] = m[s \ {Pick(s)}] + c[Pick(s)]
      BY <3>1 DEF MeasureOf
    <3>3. m[s \ {Pick(s)}] \in Nat /\ c[Pick(s)] \in Nat
      BY <3>1 DEF MeasureOf
    <3>4. QED
      BY <2>2, <3>2, <3>3
  <2>3. QED
    BY <2>1, <2>2
<1>2. m = [s \in SUBSET S |-> m[s]]
  BY DEF MeasureOf
<1>3. QED
  BY <1>1, <1>2 DEF Sums

\* Every such sum is the measure.
LEMMA SumIsMeasure ==
  ASSUME NEW S, IsFiniteSet(S), NEW c, \A t \in S : c[t] \in Nat,
         NEW m, MeasureOf(m, S, c), NEW g, Sums(g, S, c)
  PROVE  g[S] = m[S]
<1> DEFINE Bad == {s \in SUBSET S : g[s] # m[s]}
           T == {Cardinality(s) : s \in Bad}
<1>1. \A s \in SUBSET S : IsFiniteSet(s) /\ Cardinality(s) \in Nat
  BY FS_Subset, FS_CardinalityType
<1>2. SUFFICES ASSUME Bad # {} PROVE FALSE
  OBVIOUS
<1>3. T \in SUBSET Nat /\ T # {}
  BY <1>1, <1>2
<1> HIDE DEF T
<1>4. PICK n \in T : \A x \in T : n =< x
  BY <1>3, LeastExists
<1>5. PICK s \in Bad : Cardinality(s) = n
  BY <1>4 DEF T
<1>6. s \in SUBSET S /\ g[s] # m[s]
  OBVIOUS
<1>7. g[s] = IF s = {} THEN 0 ELSE c[Pick(s)] + g[s \ {Pick(s)}]
  BY <1>6 DEF Sums
<1>8. m[s] = IF s = {} THEN 0 ELSE c[Pick(s)] + m[s \ {Pick(s)}]
  BY <1>6, MeasureSums DEF Sums
<1>9. s # {}
  BY <1>6, <1>7, <1>8
<1> DEFINE r == s \ {Pick(s)}
<1>10. r \in SUBSET S /\ Cardinality(r) = n - 1 /\ n \in Nat
  <2>1. Pick(s) \in s
    BY <1>9, PickedIsThere
  <2>2. Cardinality(r) = Cardinality(s) - 1
    BY <1>1, <1>6, <2>1, FS_RemoveElement
  <2>3. QED
    BY <1>1, <1>5, <1>6, <2>2
<1>11. r \notin Bad
  <2>1. SUFFICES ASSUME r \in Bad PROVE FALSE
    OBVIOUS
  <2>2. n - 1 \in T
    BY <1>10, <2>1 DEF T
  <2>3. QED
    BY <1>4, <1>10, <2>2
<1>12. g[r] = m[r]
  BY <1>10, <1>11
<1> HIDE DEF r
<1>13. QED
  BY <1>6, <1>7, <1>8, <1>9, <1>12 DEF r

\* One place more.
LEMMA MeasureExtends ==
  ASSUME NEW k \in Nat, NEW c, \A t \in 1..(k + 1) : c[t] \in Nat, NEW m, MeasureOf(m, 1..k, c)
  PROVE  \E h : MeasureOf(h, 1..(k + 1), c) /\ h[1..(k + 1)] = m[1..k] + c[k + 1]
<1> DEFINE n == k + 1
           h == [s \in SUBSET (1..n) |-> m[s \ {n}] + (IF n \in s THEN c[n] ELSE 0)]
<1>1. n \in Nat /\ c[n] \in Nat /\ n - 1 = k
  OBVIOUS
<1>2. \A s \in SUBSET (1..n) : s \ {n} \in SUBSET (1..k) /\ m[s \ {n}] \in Nat
  <2>1. \A s \in SUBSET (1..n) : s \ {n} \in SUBSET (1..k)
    BY <1>1
  <2>2. QED
    BY <2>1 DEF MeasureOf
<1>3. h \in [SUBSET (1..n) -> Nat]
  <2>1. ASSUME NEW s \in SUBSET (1..n) PROVE m[s \ {n}] + (IF n \in s THEN c[n] ELSE 0) \in Nat
    <3>1. m[s \ {n}] \in Nat
      BY <1>2
    <3>2. (IF n \in s THEN c[n] ELSE 0) \in Nat
      BY <1>1
    <3>3. QED
      BY <3>1, <3>2
  <2>2. QED
    BY <2>1
<1>4. h[{}] = 0
  BY DEF MeasureOf
<1>5. ASSUME NEW s \in SUBSET (1..n), NEW t \in s PROVE h[s] = h[s \ {t}] + c[t]
  <2>1. h[s] = m[s \ {n}] + (IF n \in s THEN c[n] ELSE 0)
    OBVIOUS
  <2>2. s \ {t} \in SUBSET (1..n) /\ h[s \ {t}] = m[(s \ {t}) \ {n}] + (IF n \in s \ {t} THEN c[n] ELSE 0)
    OBVIOUS
  <2>3. CASE t = n
    <3>1. (s \ {t}) \ {n} = s \ {n} /\ n \notin s \ {t} /\ n \in s
      BY <2>3
    <3>2. h[s] = m[s \ {n}] + c[n] /\ h[s \ {t}] = m[s \ {n}] + 0
      BY <2>1, <2>2, <3>1
    <3>3. m[s \ {n}] \in Nat /\ c[n] \in Nat
      BY <1>1, <1>2
    <3> HIDE DEF h
    <3>4. QED
      BY <2>3, <3>2, <3>3
  <2>4. CASE t # n
    <3>1. (s \ {t}) \ {n} = (s \ {n}) \ {t} /\ (n \in s \ {t} <=> n \in s) /\ t \in s \ {n}
      BY <2>4
    <3>2. m[s \ {n}] = m[(s \ {n}) \ {t}] + c[t]
      BY <1>2, <3>1 DEF MeasureOf
    <3>3. m[s \ {n}] \in Nat /\ m[(s \ {n}) \ {t}] \in Nat /\ c[t] \in Nat
      <4>1. m[(s \ {t}) \ {n}] \in Nat /\ m[s \ {n}] \in Nat
        BY <1>2, <2>2
      <4>2. t \in 1..(k + 1)
        OBVIOUS
      <4>3. m[(s \ {n}) \ {t}] \in Nat
        BY <3>1, <4>1
      <4>4. QED
        BY <4>1, <4>2, <4>3
    <3> DEFINE d == IF n \in s THEN c[n] ELSE 0
    <3>4. h[s] = m[s \ {n}] + d /\ h[s \ {t}] = m[(s \ {n}) \ {t}] + d /\ d \in Nat
      BY <1>1, <2>1, <2>2, <3>1
    <3> HIDE DEF h, d
    <3>5. QED
      BY <3>2, <3>3, <3>4
  <2>5. QED
    BY <2>3, <2>4
<1>6. MeasureOf(h, 1..n, c)
  BY <1>3, <1>4, <1>5 DEF MeasureOf
<1>7. h[1..n] = m[1..k] + c[n]
  <2>1. (1..n) \ {n} = 1..k /\ n \in 1..n
    BY <1>1
  <2>2. QED
    BY <2>1
<1> HIDE DEF h
<1>8. QED
  BY <1>6, <1>7

LEMMA MeasureExists ==
  ASSUME NEW n \in Nat, NEW c, \A t \in 1..n : c[t] \in Nat
  PROVE  \E m : MeasureOf(m, 1..n, c)
<1> DEFINE Measured(k) == \E m : MeasureOf(m, 1..k, c)
           T == {k \in 0..n : ~Measured(k)}
<1>1. Measured(0)
  <2> DEFINE m == [s \in SUBSET (1..0) |-> 0]
  <2>1. 1..0 = {}
    OBVIOUS
  <2>2. MeasureOf(m, 1..0, c)
    BY <2>1 DEF MeasureOf
  <2> HIDE DEF m
  <2>3. QED
    BY <2>2
<1>2. ASSUME NEW k \in 0..(n - 1), Measured(k) PROVE Measured(k + 1)
  <2>1. PICK m : MeasureOf(m, 1..k, c)
    BY <1>2
  <2>2. k \in Nat /\ \A t \in 1..(k + 1) : t \in 1..n
    OBVIOUS
  <2>3. QED
    BY <2>1, <2>2, MeasureExtends
<1> HIDE DEF Measured
<1>3. T = {}
  <2>1. SUFFICES ASSUME T # {} PROVE FALSE
    OBVIOUS
  <2>2. PICK k \in T : \A x \in T : k =< x
    <3>1. T \in SUBSET Nat
      OBVIOUS
    <3> HIDE DEF T
    <3>2. QED
      BY <2>1, <3>1, LeastExists
  <2>3. k \in 0..n /\ ~Measured(k) /\ k # 0
    BY <1>1
  <2>4. k - 1 \in 0..(n - 1) /\ k - 1 \in 0..n /\ ~(k =< k - 1) /\ (k - 1) + 1 = k
    BY <2>3
  <2>5. Measured(k - 1)
    BY <2>2, <2>4
  <2>6. Measured((k - 1) + 1)
    BY <1>2, <2>4, <2>5
  <2>7. QED
    BY <2>3, <2>4, <2>6
<1>4. Measured(n)
  BY <1>3
<1>5. QED
  BY <1>4 DEF Measured

\* The bytes of a log are the measure of its places.
LEMMA TotalIsMeasure ==
  ASSUME NEW s \in Seq(Entry), NEW c, \A i \in 1..Len(s) : c[i] = Size[s[i].digest],
         NEW m, MeasureOf(m, 1..Len(s), c)
  PROVE  Log!TotalBytes(s) = m[1..Len(s)]
<1> DEFINE S == DOMAIN s
           P(g) == g = [u \in SUBSET S |-> IF u = {} THEN 0
                          ELSE Size[s[CHOOSE x \in u : TRUE].digest] + g[u \ {CHOOSE x \in u : TRUE}]]
<1>1. S = 1..Len(s) /\ Len(s) \in Nat /\ IsFiniteSet(S)
  BY FS_Interval
<1>2. \A i \in S : c[i] \in Nat
  <2>1. \A i \in 1..Len(s) : s[i] \in Entry
    OBVIOUS
  <2>2. QED
    BY <1>1, <2>1, JournalAssumption DEF JournalAssumption, Entry, Log!Entry
<1>3. ASSUME NEW g PROVE Sums(g, S, c) <=> P(g)
  <2>1. ASSUME NEW u \in SUBSET S, u # {} PROVE c[Pick(u)] = Size[s[CHOOSE x \in u : TRUE].digest]
    BY <1>1, <2>1, PickedIsThere DEF Pick
  <2>2. [u \in SUBSET S |-> IF u = {} THEN 0 ELSE c[Pick(u)] + g[u \ {Pick(u)}]]
        = [u \in SUBSET S |-> IF u = {} THEN 0
             ELSE Size[s[CHOOSE x \in u : TRUE].digest] + g[u \ {CHOOSE x \in u : TRUE}]]
    BY <2>1 DEF Pick
  <2>3. QED
    BY <2>2 DEF Sums
<1>4. P(m)
  <2>1. MeasureOf(m, S, c)
    BY <1>1
  <2> HIDE DEF S, P
  <2>2. Sums(m, S, c)
    BY <1>1, <1>2, <2>1, MeasureSums
  <2>3. QED
    BY <1>3, <2>2
<1>5. P(CHOOSE g : P(g))
  <2> HIDE DEF P
  <2>1. QED
    BY <1>4, Zenon
<1>6. (CHOOSE g : P(g))[S] = m[S]
  <2> DEFINE chosen == CHOOSE g : P(g)
  <2>1. P(chosen)
    BY <1>5
  <2> HIDE DEF chosen, P
  <2>2. Sums(chosen, S, c)
    BY <1>3, <2>1
  <2>3. MeasureOf(m, S, c)
    BY <1>1
  <2> HIDE DEF S
  <2>4. chosen[S] = m[S]
    BY <1>1, <1>2, <2>2, <2>3, SumIsMeasure
  <2>5. QED
    BY <2>4 DEF chosen
<1>7. Log!TotalBytes(s) = (CHOOSE g : P(g))[S]
  BY Zenon DEF Log!TotalBytes, Log!MapThenSumSet, Log!MapThenFoldSet
<1>8. QED
  BY <1>1, <1>6, <1>7

LEMMA NothingTotal == Log!TotalBytes(<<>>) = 0
<1> DEFINE m == [s \in SUBSET (1..0) |-> 0]
<1>1. 1..0 = {} /\ <<>> \in Seq(Entry) /\ Len(<<>>) = 0
  OBVIOUS
<1>2. MeasureOf(m, 1..Len(<<>>), <<>>) /\ m[1..Len(<<>>)] = 0
  BY <1>1 DEF MeasureOf
<1> HIDE DEF m
<1>3. \A i \in 1..Len(<<>>) : <<>>[i] = Size[<<>>[i].digest]
  BY <1>1
<1>4. QED
  BY <1>1, <1>2, <1>3, TotalIsMeasure

LEMMA AppendedTotal ==
  ASSUME NEW s \in Seq(Entry), NEW e \in Entry
  PROVE  Log!TotalBytes(Append(s, e)) = Log!TotalBytes(s) + Size[e.digest]
<1> DEFINE t == Append(s, e)
           n == Len(s)
           c == [i \in 1..(n + 1) |-> Size[t[i].digest]]
<1>1. /\ n \in Nat /\ t \in Seq(Entry) /\ Len(t) = n + 1 /\ t[n + 1] = e
      /\ \A i \in 1..n : t[i] = s[i]
  OBVIOUS
<1> HIDE DEF t, n
<1>2. \A i \in 1..(n + 1) : c[i] \in Nat
  <2>1. \A i \in 1..(n + 1) : t[i] \in Entry
    BY <1>1
  <2>2. QED
    BY <2>1, JournalAssumption DEF JournalAssumption, Entry, Log!Entry
<1>3. /\ \A i \in 1..n : c[i] = Size[s[i].digest]
      /\ \A i \in 1..(n + 1) : c[i] = Size[t[i].digest]
      /\ c[n + 1] = Size[e.digest]
  BY <1>1
<1> HIDE DEF c
<1>4. PICK m : MeasureOf(m, 1..n, c)
  BY <1>1, <1>2, MeasureExists
<1>5. PICK h : MeasureOf(h, 1..(n + 1), c) /\ h[1..(n + 1)] = m[1..n] + c[n + 1]
  BY <1>1, <1>2, <1>4, MeasureExtends
<1>6. Log!TotalBytes(s) = m[1..n]
  BY <1>3, <1>4, TotalIsMeasure DEF n
<1>7. Log!TotalBytes(t) = h[1..(n + 1)]
  BY <1>1, <1>3, <1>5, TotalIsMeasure
<1>8. QED
  BY <1>3, <1>5, <1>6, <1>7 DEF t

\* A step of the log keeps a manifest readable: this is what publish checks for.
LEMMA ReadableStep ==
  ASSUME TypeOK, ManifestReadable, Log!LogNext
  PROVE  ManifestReadable'
<1> DEFINE After == manifest'.entries
<1>1. CASE \E r \in Runs : Log!Create(r)
  <2>1. After = <<>>
    BY <1>1 DEF Log!Create
  <2>2. Ordered(After) /\ WithinVersions(After) /\ WithinBytes(After)
    BY <2>1, NothingTotal, JournalAssumption
       DEF Ordered, WithinVersions, WithinBytes, JournalAssumption
  <2>3. QED
    BY <2>2 DEF ManifestReadable, Ordered, WithinVersions, WithinBytes
<1>2. ASSUME NEW e \in Entry, Log!Commit(e) PROVE ManifestReadable'
  <2> DEFINE s == manifest.entries
  <2>1. /\ manifest # None /\ s \in Seq(Entry) /\ After = Append(s, e)
        /\ e.step > Log!LastStep(s) /\ Log!Fits(s, e)
    BY <1>2 DEF Log!Commit, TypeOK, Manifest
  <2>2. Ordered(s)
    BY <2>1 DEF ManifestReadable
  <2> HIDE DEF s
  <2>3. /\ Len(s) \in Nat /\ Len(After) = Len(s) + 1 /\ DOMAIN s = 1..Len(s)
        /\ DOMAIN After = 1..(Len(s) + 1) /\ After[Len(s) + 1] = e
        /\ \A i \in 1..Len(s) : After[i] = s[i]
    BY <2>1
  <2>4. WithinVersions(After)
    BY <2>1, <2>3, JournalAssumption DEF WithinVersions, Log!Fits, JournalAssumption
  <2>5. WithinBytes(After)
    BY <2>1, AppendedTotal DEF WithinBytes, Log!Fits
  <2>6. Ordered(After)
    <3>1. SUFFICES ASSUME NEW i \in 1..(Len(s) + 1), i > 1 PROVE After[i - 1].step < After[i].step
      BY <2>3 DEF Ordered
    <3>2. CASE i = Len(s) + 1
      <4>1. s # <<>> /\ Log!LastStep(s) = s[Len(s)].step /\ i - 1 = Len(s) /\ Len(s) \in 1..Len(s)
        BY <2>3, <3>1, <3>2 DEF Log!LastStep
      <4>2. After[i - 1] = s[Len(s)] /\ After[i] = e /\ s[Len(s)] \in Entry
        BY <2>1, <2>3, <3>2, <4>1
      <4>3. s[Len(s)].step \in Nat /\ e.step \in Nat
        BY <4>2, JournalAssumption DEF Entry, Log!Entry, JournalAssumption
      <4>4. QED
        BY <2>1, <4>1, <4>2, <4>3
    <3>3. CASE i # Len(s) + 1
      <4>1. i \in 1..Len(s) /\ i - 1 \in 1..Len(s)
        BY <2>3, <3>1, <3>3
      <4>2. QED
        BY <2>2, <2>3, <3>1, <4>1 DEF Ordered
    <3>4. QED
      BY <3>2, <3>3
  <2>7. QED
    BY <2>4, <2>5, <2>6 DEF ManifestReadable, Ordered, WithinVersions, WithinBytes
<1>3. QED
  BY <1>1, <1>2 DEF Log!LogNext, Entry

\* ManifestReadable: a run can always open its own journal again, for any budgets and
\* sizes of versions, whatever was killed or failed.
THEOREM ManifestStaysReadable == Spec => []ManifestReadable
<1>1. Init => ManifestReadable
  BY DEF Init, ManifestReadable
<1>2. IInv /\ ManifestReadable /\ [Next]_vars => ManifestReadable'
  <2>1. SUFFICES ASSUME IInv, ManifestReadable, [Next]_vars PROVE ManifestReadable'
    OBVIOUS
  <2>2. CASE Log!LogNext
    BY <2>1, <2>2, ReadableStep DEF IInv
  <2>3. CASE manifest' = manifest
    BY <2>1, <2>3 DEF ManifestReadable, Ordered, WithinVersions, WithinBytes
  <2>4. QED
    BY <2>1, <2>2, <2>3, StepRefines
<1>3. QED
  BY <1>1, <1>2, Invariance, PTL DEF Spec
==============================================================================
