--------------------------- MODULE CheckpointJournal ---------------------------
(***************************************************************************)
(* checkpoint_journal.py: a directory of immutable checkpoint versions,    *)
(* one file per version, and a manifest that lists the committed ones.     *)
(* Every operation runs under a non-blocking flock lease on a lock file:   *)
(* exclusive, or shared for an inspection.  A publication is many file     *)
(* system calls; the process can be killed between any two of them (the    *)
(* kernel then drops its lease and its temporaries stay behind), any call  *)
(* can fail (the finally clauses then unlink the process's temporaries),   *)
(* and a file can be lost or corrupted at any time.                        *)
(*                                                                         *)
(* Each action is one file system call, or the check the code makes        *)
(* between two of them while it holds the lease.                           *)
(***************************************************************************)
EXTENDS Integers, Sequences, FiniteSetsExt

CONSTANTS
  Procs,          \* processes that open the journal
  Runs,           \* run contracts: run_sha256 with both budgets
  Steps,          \* optimizer steps a version may carry
  Digests,        \* contents of a checkpoint, named by their SHA-256
  Size,           \* Size[d]: bytes of a checkpoint with contents d
  MaxVersions,    \* max_versions
  MaxTotalBytes,  \* max_total_bytes
  MaxCrashes,     \* bound: processes killed inside an operation
  MaxFailures,    \* bound: file system calls that fail
  MaxDamages,     \* bound: version files lost or corrupted
  None            \* a file, a handle or a job that is not there

ASSUME JournalAssumption ==
  /\ Steps \subseteq Nat
  /\ Size \in [Digests -> Nat]
  /\ MaxVersions \in Nat
  /\ MaxTotalBytes \in Nat
  /\ MaxCrashes \in Nat
  /\ MaxFailures \in Nat
  /\ MaxDamages \in Nat
  /\ None \notin Runs
  /\ None \notin [run : Runs, entries : Seq([step : Steps, digest : Digests])]
  /\ None \notin [step : Steps, digest : Digests]

VARIABLES
  manifest,   \* manifest.json: None, or the run and the committed entries
  blob,       \* blob[e]: the file step-<step>-<digest>.pt
  temps,      \* how many temporaries the directory holds
  lockFile,   \* whether .checkpoint-journal.lock exists
  exclusive,  \* processes that hold the lease exclusively
  shared,     \* processes that hold it shared
  pc,         \* where each process stands in its operation
  handle,     \* run of the CheckpointJournal object a process holds
  job,        \* the entry a process publishes; None while it creates a journal
  seen,       \* entries it read from the manifest under its lease
  blobTemp,   \* whether it owns a temporary for the version
  manTemp,    \* whether it owns a temporary for the manifest
  acked,      \* history: entries whose publication returned
  damaged,    \* history: entries whose file was lost or corrupted
  crashes, failures   \* counters for the bounds

files == <<manifest, blob, temps, lockFile>>
lease == <<exclusive, shared>>
local == <<pc, handle, job, seen, blobTemp, manTemp>>
history == <<acked, damaged, crashes, failures>>
vars == <<files, lease, local, history>>

Log == INSTANCE JournalLog WITH log <- manifest

Entry == Log!Entry
Manifest == [run : Runs, entries : Seq(Entry)]
Condition == {"absent", "intact", "damaged"}
Stages == {"idle", "opening", "publishing", "reading", "blob_temp", "link",
           "sync_blob", "man_temp", "replace", "sync_man", "unwind"}

SeqRange(s) == {s[i] : i \in DOMAIN s}
Committed == IF manifest = None THEN {} ELSE SeqRange(manifest.entries)
Present == {e \in Entry : blob[e] # "absent"}
Orphans == Present \ Committed

Init ==
  /\ manifest = None
  /\ blob = [e \in Entry |-> "absent"]
  /\ temps = 0
  /\ lockFile = FALSE
  /\ exclusive = {}
  /\ shared = {}
  /\ pc = [p \in Procs |-> "idle"]
  /\ handle = [p \in Procs |-> None]
  /\ job = [p \in Procs |-> None]
  /\ seen = [p \in Procs |-> <<>>]
  /\ blobTemp = [p \in Procs |-> FALSE]
  /\ manTemp = [p \in Procs |-> FALSE]
  /\ acked = {}
  /\ damaged = {}
  /\ crashes = 0
  /\ failures = 0

-------------------------------------------------------------------------------
(* Leases: flock(LOCK_EX | LOCK_NB) and flock(LOCK_SH | LOCK_NB).  A refused  *)
(* lease raises "checkpoint journal is busy" and the operation is over, so a  *)
(* process that cannot acquire stays idle.                                    *)

\* Variant: a writer takes the lease without asking.
ExclusiveFreeUnchecked == TRUE

ExclusiveFree == exclusive = {} /\ shared = {}
\* Variant: an inspection does not look at the writer's lease.
SharedFreeIgnoringWriter == TRUE

SharedFree == exclusive = {}

AcquireExclusive(p) ==
  /\ ExclusiveFree
  /\ exclusive' = exclusive \union {p}
  /\ lockFile' = TRUE
  /\ UNCHANGED shared

AcquireShared(p) ==
  /\ lockFile
  /\ SharedFree
  /\ shared' = shared \union {p}
  /\ UNCHANGED <<exclusive, lockFile>>

Release(p) ==
  /\ exclusive' = exclusive \ {p}
  /\ shared' = shared \ {p}

Goto(p, stage) == pc' = [pc EXCEPT ![p] = stage]

\* Back to the caller: the lease is closed and the locals are gone.
Return(p) ==
  /\ Release(p)
  /\ Goto(p, "idle")
  /\ job' = [job EXCEPT ![p] = None]
  /\ seen' = [seen EXCEPT ![p] = <<>>]
  /\ UNCHANGED <<blobTemp, manTemp>>

-------------------------------------------------------------------------------
(* CheckpointJournal(directory, create=...)                                   *)

OpenCreate(p, r) ==
  /\ pc[p] = "idle" /\ handle[p] = None
  /\ AcquireExclusive(p)
  /\ Goto(p, "opening")
  /\ handle' = [handle EXCEPT ![p] = r]
  /\ UNCHANGED <<manifest, blob, temps, job, seen, blobTemp, manTemp, history>>

OpenReadOnly(p, r) ==
  /\ pc[p] = "idle" /\ handle[p] = None
  /\ AcquireShared(p)
  /\ Goto(p, "opening")
  /\ handle' = [handle EXCEPT ![p] = r]
  /\ UNCHANGED <<manifest, blob, temps, job, seen, blobTemp, manTemp, history>>

\* _manifest(): the file is there, belongs to the handle's run and budgets,
\* and its entries are ordered and within both budgets.
Ordered(entries) ==
  \A i \in DOMAIN entries : i > 1 => entries[i - 1].step < entries[i].step
WithinVersions(entries) == Len(entries) <= MaxVersions
WithinBytes(entries) == Log!TotalBytes(entries) <= MaxTotalBytes

ManifestAccepted(r) ==
  /\ manifest # None
  /\ manifest.run = r
  /\ Ordered(manifest.entries)
  /\ WithinVersions(manifest.entries)
  /\ WithinBytes(manifest.entries)

EmptyDirectory == temps = 0 /\ Present = {}

\* The constructor's checks under its lease: adopt the journal that is there,
\* start to write an empty manifest in an empty directory, or raise.
Opened(p) ==
  /\ pc[p] = "opening"
  /\ ManifestAccepted(handle[p])
  /\ Return(p)
  /\ UNCHANGED <<files, handle, history>>

OpenFresh(p) ==
  /\ pc[p] = "opening"
  /\ p \in exclusive
  /\ manifest = None
  /\ EmptyDirectory
  /\ Goto(p, "man_temp")
  /\ UNCHANGED <<files, lease, handle, job, seen, blobTemp, manTemp, history>>

OpenRefused(p) ==
  /\ pc[p] = "opening"
  /\ ~ManifestAccepted(handle[p])
  /\ ~(p \in exclusive /\ manifest = None /\ EmptyDirectory)
  /\ Return(p)
  /\ handle' = [handle EXCEPT ![p] = None]
  /\ UNCHANGED <<files, history>>

-------------------------------------------------------------------------------
(* publish(checkpoint, step=...)                                              *)

Publish(p, e) ==
  /\ pc[p] = "idle" /\ handle[p] # None
  /\ AcquireExclusive(p)
  /\ Goto(p, "publishing")
  /\ job' = [job EXCEPT ![p] = e]
  /\ UNCHANGED <<manifest, blob, temps, handle, seen, blobTemp, manTemp, history>>

\* The entry is the last one already, byte for byte, and its file verifies.
AlreadyCommitted(e, entries) ==
  /\ entries # <<>>
  /\ entries[Len(entries)] = e
  /\ blob[e] = "intact"

\* Variant: the last step may be published again with other bytes.
AdvancesOrRepeats(e, entries) == e.step >= Log!LastStep(entries)

Advances(e, entries) == e.step > Log!LastStep(entries)

\* Variant: only temporaries count as unknown files.
NoUnknownTemporaries(e, entries) == temps = 0

\* No file but the manifest, the lock, committed versions and the entry's own.
NoUnknownFiles(e, entries) ==
  /\ temps = 0
  /\ Present \subseteq SeqRange(entries) \union {e}

\* Variant: the retention budget is not consulted.
PublishableUnbudgeted(e, entries) == Advances(e, entries) /\ NoUnknownFiles(e, entries)

Publishable(e, entries) ==
  /\ Advances(e, entries)
  /\ Log!Fits(entries, e)
  /\ NoUnknownFiles(e, entries)

PublishAdmitted(p) ==
  /\ pc[p] = "publishing"
  /\ ManifestAccepted(handle[p])
  /\ Publishable(job[p], manifest.entries)
  /\ Goto(p, "blob_temp")
  /\ seen' = [seen EXCEPT ![p] = manifest.entries]
  /\ UNCHANGED <<files, lease, handle, job, blobTemp, manTemp, history>>

PublishRepeated(p) ==
  /\ pc[p] = "publishing"
  /\ ManifestAccepted(handle[p])
  /\ AlreadyCommitted(job[p], manifest.entries)
  /\ Return(p)
  /\ acked' = acked \union {job[p]}
  /\ UNCHANGED <<files, handle, damaged, crashes, failures>>

PublishRefused(p) ==
  /\ pc[p] = "publishing"
  /\ ~ /\ ManifestAccepted(handle[p])
       /\ \/ Publishable(job[p], manifest.entries)
          \/ AlreadyCommitted(job[p], manifest.entries)
  /\ Return(p)
  /\ UNCHANGED <<files, handle, history>>

\* Variant: the manifest is replaced before the version is linked.
WriteBlobManifestFirst(p) ==
  /\ pc[p] = "blob_temp"
  /\ temps' = temps + 1
  /\ blobTemp' = [blobTemp EXCEPT ![p] = TRUE]
  /\ Goto(p, "man_temp")
  /\ UNCHANGED <<manifest, blob, lockFile, lease, handle, job, seen, manTemp, history>>

WriteBlob(p) ==
  /\ pc[p] = "blob_temp"
  /\ temps' = temps + 1
  /\ blobTemp' = [blobTemp EXCEPT ![p] = TRUE]
  /\ Goto(p, "link")
  /\ UNCHANGED <<manifest, blob, lockFile, lease, handle, job, seen, manTemp, history>>

\* os.link: a new name for the bytes, or an existing one whose bytes must match.
LinkBlob(p) ==
  /\ pc[p] = "link"
  /\ blob[job[p]] # "damaged"
  /\ blob' = [blob EXCEPT ![job[p]] = "intact"]
  /\ Goto(p, "sync_blob")
  /\ UNCHANGED <<manifest, temps, lockFile, lease, handle, job, seen, blobTemp,
                 manTemp, history>>

\* Variant: a version file with other bytes is waited for instead of refused.
LinkWaits(p) ==
  /\ pc[p] = "link"
  /\ blob[job[p]] = "damaged"
  /\ UNCHANGED vars

LinkRefused(p) ==
  /\ pc[p] = "link"
  /\ blob[job[p]] = "damaged"
  /\ Goto(p, "unwind")
  /\ UNCHANGED <<files, lease, handle, job, seen, blobTemp, manTemp, history>>

SyncBlob(p) ==
  /\ pc[p] = "sync_blob"
  /\ Goto(p, "man_temp")
  /\ UNCHANGED <<files, lease, handle, job, seen, blobTemp, manTemp, history>>

-------------------------------------------------------------------------------
(* _write_manifest(entries), shared by the constructor and publish            *)

\* An entry list of its own for publish, an empty one for the constructor.
NewEntries(p) == IF job[p] = None THEN <<>> ELSE Append(seen[p], job[p])

WriteManifest(p) ==
  /\ pc[p] = "man_temp"
  /\ temps' = temps + 1
  /\ manTemp' = [manTemp EXCEPT ![p] = TRUE]
  /\ Goto(p, "replace")
  /\ UNCHANGED <<manifest, blob, lockFile, lease, handle, job, seen, blobTemp, history>>

ReplaceManifest(p) ==
  /\ pc[p] = "replace"
  /\ manifest' = [run |-> handle[p], entries |-> NewEntries(p)]
  /\ temps' = temps - 1
  /\ manTemp' = [manTemp EXCEPT ![p] = FALSE]
  /\ Goto(p, "sync_man")
  /\ UNCHANGED <<blob, lockFile, lease, handle, job, seen, blobTemp, history>>

\* The directory fsync succeeds: unlink the version's temporary and return.
SyncManifest(p) ==
  /\ pc[p] = "sync_man"
  /\ temps' = IF blobTemp[p] THEN temps - 1 ELSE temps
  /\ blobTemp' = [blobTemp EXCEPT ![p] = FALSE]
  /\ acked' = IF job[p] = None THEN acked ELSE acked \union {job[p]}
  /\ Release(p)
  /\ Goto(p, "idle")
  /\ job' = [job EXCEPT ![p] = None]
  /\ seen' = [seen EXCEPT ![p] = <<>>]
  /\ UNCHANGED <<manifest, blob, lockFile, handle, manTemp, damaged, crashes, failures>>

-------------------------------------------------------------------------------
(* Failure, loss of the process, and repair                                   *)

Writing == {"blob_temp", "link", "sync_blob", "man_temp", "replace", "sync_man"}

\* Any of these calls raises OSError.
CallFails(p) ==
  /\ failures < MaxFailures
  /\ pc[p] \in Writing
  /\ failures' = failures + 1
  /\ Goto(p, "unwind")
  /\ UNCHANGED <<files, lease, handle, job, seen, blobTemp, manTemp, acked, damaged, crashes>>

\* Variant: the finally clause forgets the version's temporary.
UnwindKeepsBlobTemp(p) ==
  /\ pc[p] = "unwind"
  /\ temps' = temps - (IF manTemp[p] THEN 1 ELSE 0)
  /\ manTemp' = [manTemp EXCEPT ![p] = FALSE]
  /\ blobTemp' = [blobTemp EXCEPT ![p] = FALSE]
  /\ handle' = IF job[p] = None THEN [handle EXCEPT ![p] = None] ELSE handle
  /\ Release(p)
  /\ Goto(p, "idle")
  /\ job' = [job EXCEPT ![p] = None]
  /\ seen' = [seen EXCEPT ![p] = <<>>]
  /\ UNCHANGED <<manifest, blob, lockFile, history>>

\* The finally clauses, innermost first: the manifest's temporary, then the
\* version's, then the lease.  A constructor that raised leaves no object.
Unwind(p) ==
  /\ pc[p] = "unwind"
  /\ temps' = temps - (IF manTemp[p] THEN 1 ELSE 0) - (IF blobTemp[p] THEN 1 ELSE 0)
  /\ manTemp' = [manTemp EXCEPT ![p] = FALSE]
  /\ blobTemp' = [blobTemp EXCEPT ![p] = FALSE]
  /\ handle' = IF job[p] = None THEN [handle EXCEPT ![p] = None] ELSE handle
  /\ Release(p)
  /\ Goto(p, "idle")
  /\ job' = [job EXCEPT ![p] = None]
  /\ seen' = [seen EXCEPT ![p] = <<>>]
  /\ UNCHANGED <<manifest, blob, lockFile, history>>

\* SIGKILL, or SIGTERM with Python's default handler: no finally clause runs,
\* the kernel closes the lease, and the temporaries stay in the directory.
Crash(p) ==
  /\ crashes < MaxCrashes
  /\ pc[p] # "idle"
  /\ crashes' = crashes + 1
  /\ Release(p)
  /\ Goto(p, "idle")
  /\ handle' = [handle EXCEPT ![p] = None]
  /\ job' = [job EXCEPT ![p] = None]
  /\ seen' = [seen EXCEPT ![p] = <<>>]
  /\ blobTemp' = [blobTemp EXCEPT ![p] = FALSE]
  /\ manTemp' = [manTemp EXCEPT ![p] = FALSE]
  /\ UNCHANGED <<files, acked, damaged, failures>>

\* A version file disappears or its bytes change.
Damage(e) ==
  /\ Cardinality(damaged) < MaxDamages
  /\ blob[e] = "intact"
  /\ \E c \in {"absent", "damaged"} : blob' = [blob EXCEPT ![e] = c]
  /\ damaged' = damaged \union {e}
  /\ UNCHANGED <<manifest, temps, lockFile, lease, local, acked, crashes, failures>>

\* A person inspects the directory while nobody works in it, and removes what
\* the manifest does not list.
RemoveUnknown ==
  /\ ExclusiveFree
  /\ temps > 0 \/ Orphans # {}
  /\ temps' = 0
  /\ blob' = [e \in Entry |-> IF e \in Orphans THEN "absent" ELSE blob[e]]
  /\ UNCHANGED <<manifest, lockFile, lease, local, history>>

-------------------------------------------------------------------------------
(* Reading: recorded_step and candidates() take the lease exclusively,        *)
(* inspect() shares it.                                                       *)

ReadExclusive(p) ==
  /\ pc[p] = "idle" /\ handle[p] # None
  /\ AcquireExclusive(p)
  /\ Goto(p, "reading")
  /\ UNCHANGED <<manifest, blob, temps, handle, job, seen, blobTemp, manTemp, history>>

ReadShared(p) ==
  /\ pc[p] = "idle" /\ handle[p] # None
  /\ AcquireShared(p)
  /\ Goto(p, "reading")
  /\ UNCHANGED <<manifest, blob, temps, handle, job, seen, blobTemp, manTemp, history>>

ReadDone(p) ==
  /\ pc[p] = "reading"
  /\ Return(p)
  /\ UNCHANGED <<files, handle, history>>

\* The caller drops its CheckpointJournal object.
Close(p) ==
  /\ pc[p] = "idle" /\ handle[p] # None
  /\ handle' = [handle EXCEPT ![p] = None]
  /\ UNCHANGED <<files, lease, pc, job, seen, blobTemp, manTemp, history>>

\* What candidates() enumerates.
Candidates == {e \in Committed : blob[e] = "intact"}

-------------------------------------------------------------------------------
\* What a process does once its operation holds a lease.
Continue(p) ==
  \/ Opened(p) \/ OpenFresh(p) \/ OpenRefused(p)
  \/ PublishAdmitted(p) \/ PublishRepeated(p) \/ PublishRefused(p)
  \/ WriteBlob(p) \/ LinkBlob(p) \/ LinkRefused(p) \/ SyncBlob(p)
  \/ WriteManifest(p) \/ ReplaceManifest(p) \/ SyncManifest(p)
  \/ Unwind(p) \/ ReadDone(p)

Call(p) ==
  \/ \E r \in Runs : OpenCreate(p, r) \/ OpenReadOnly(p, r)
  \/ \E e \in Entry : Publish(p, e)
  \/ ReadExclusive(p) \/ ReadShared(p) \/ Close(p)

Next ==
  \/ \E p \in Procs : Call(p) \/ Continue(p) \/ CallFails(p) \/ Crash(p)
  \/ \E e \in Entry : Damage(e)
  \/ RemoveUnknown

Spec == Init /\ [][Next]_vars

\* A process that holds a lease runs: the operating system schedules it.  No
\* caller has to start an operation.
FairSpec == Spec /\ \A p \in Procs : WF_vars(Continue(p))

-------------------------------------------------------------------------------
(* Properties                                                                 *)

TypeOK ==
  /\ manifest \in Manifest \union {None}
  /\ blob \in [Entry -> Condition]
  /\ temps \in Nat
  /\ lockFile \in BOOLEAN
  /\ exclusive \subseteq Procs
  /\ shared \subseteq Procs
  /\ pc \in [Procs -> Stages]
  /\ handle \in [Procs -> Runs \union {None}]
  /\ job \in [Procs -> Entry \union {None}]
  /\ seen \in [Procs -> Seq(Entry)]
  /\ blobTemp \in [Procs -> BOOLEAN]
  /\ manTemp \in [Procs -> BOOLEAN]
  /\ acked \subseteq Entry
  /\ damaged \subseteq Entry
  /\ crashes \in Nat
  /\ failures \in Nat

\* While a process writes, nobody else holds the lease, not even to inspect
\* (flock in _locked): every check it made at the start of its publication
\* still describes the directory when it replaces the manifest.
Modifying == Writing \union {"publishing", "unwind"}
WritersAlone ==
  \A p \in Procs : pc[p] \in Modifying => exclusive = {p} /\ shared = {}

\* No sequence of publications, crashes and failed calls leaves a manifest its
\* own run cannot open again: what publish checks is what _manifest() demands.
ManifestReadable ==
  manifest # None =>
    /\ Ordered(manifest.entries)
    /\ WithinVersions(manifest.entries)
    /\ WithinBytes(manifest.entries)

\* The manifest never names a version whose complete file was not there first:
\* a committed file is missing or wrong only where it was lost or corrupted.
BlobBeforeManifest == \A e \in Committed : blob[e] = "intact" \/ e \in damaged

\* A publication that returned stays restorable: candidates() lists it until
\* its file is damaged, whatever crashes or fails afterwards.
AckedIsCandidate == acked \ damaged \subseteq Candidates

\* Interrupted publications do not pile up: the refusal to publish beside
\* unknown files leaves at most one orphaned version and two temporaries.
NothingAccumulates ==
  /\ temps <= 2
  /\ Cardinality(Orphans) <= 1

\* Temporaries outlive an operation only if a process was killed: a failed call
\* is always cleaned up by the finally clauses.
CleanWithoutCrash == crashes = 0 /\ exclusive = {} => temps = 0

\* The manifest is an append-only log of one run.
Implements == Log!LogSpec

\* An exclusive lease is given back: no failed call leaves the journal busy.
LeaseIsReleased == exclusive # {} ~> exclusive = {}
=============================================================================
