------------------------------ MODULE JournalLog ------------------------------
(***************************************************************************)
(* What a checkpoint journal promises, without files, leases or crashes:   *)
(* a log that belongs to one run once it exists, to which versions of      *)
(* strictly increasing step are appended, within two durable budgets, and  *)
(* from which nothing is ever removed or rewritten.                        *)
(*                                                                         *)
(* CheckpointJournal implements this with its manifest as the log.         *)
(***************************************************************************)
EXTENDS Integers, Sequences, FiniteSetsExt

CONSTANTS
  Runs,           \* run contracts: identity and budgets a journal is bound to
  Steps,          \* optimizer steps a version may carry
  Digests,        \* contents of a checkpoint
  Size,           \* Size[d]: bytes of a checkpoint with contents d
  MaxVersions,    \* max_versions of the journal
  MaxTotalBytes,  \* max_total_bytes of the journal
  None            \* no journal yet

Entry == [step : Steps, digest : Digests]

\* Bytes the versions of a log reserve, whatever became of their files.
TotalBytes(entries) == MapThenSumSet(LAMBDA i : Size[entries[i].digest], DOMAIN entries)

\* The highest step of a log; -1 stands for the code's "no entry".
LastStep(entries) == IF entries = <<>> THEN -1 ELSE entries[Len(entries)].step

Fits(entries, e) ==
  /\ Len(entries) < MaxVersions
  /\ TotalBytes(entries) + Size[e.digest] <= MaxTotalBytes

VARIABLE log

LogInit == log = None

Create(r) ==
  /\ log = None
  /\ log' = [run |-> r, entries |-> <<>>]

Commit(e) ==
  /\ log # None
  /\ e.step > LastStep(log.entries)
  /\ Fits(log.entries, e)
  /\ log' = [run |-> log.run, entries |-> Append(log.entries, e)]

LogNext ==
  \/ \E r \in Runs : Create(r)
  \/ \E e \in Entry : Commit(e)

LogSpec == LogInit /\ [][LogNext]_log
=============================================================================
