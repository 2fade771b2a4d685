# A TLA+ verification project for ai-journey

The repository is a course project that grew a small training and serving
system: data-parallel training over several supervised processes, durable and
versioned checkpoints, and a generation service with a shared prefix cache,
beside a large body of single-process numerics (models, tokenizers, experiments,
reports). This project models the parts in which processes, threads, files and
failures interact, checks them with TLC on small instances and proves what
matters most with TLAPS. Paths below are relative to `src/src/ai_journey/`.

## 1. Inventory

### The supervised training system

**Checkpoint journal** (`checkpoint_journal.py`). State: a directory that holds
`manifest.json` (run identity, budgets, the committed entries), one immutable
file per version, a lock file, and temporaries. Operations: opening (which
creates the manifest), `publish`, `inspect`, `candidates`, `recorded_step`,
`admit_schedule`. Everything runs under a non-blocking `flock`: exclusive, or
shared for read-only access. Hard: a publication is a dozen system calls and the
process can be killed between any two; any call can fail; checks are made at the
start and must still hold at the end; both budgets can be met exactly.
Correct when: the manifest is an append-only log of one run with increasing
steps and within the budgets; no listed version lacks its file; an acknowledged
version stays restorable; interrupted publications do not pile up; nobody else
is inside while a process writes; leases are given back.

**Supervised run** (`ddp_launch.py`, `ddp_worker.py`, `ddp_checkpoint.py`,
`ddp_runtime.py`). State: the leases of the supervisor, one process per rank, the
process group, the journal, the latest checkpoint, each replica's optimizer step.
Operations: launch, watch, terminate and reap; join the group; admit a fresh run
or recover from the candidates; validate the schedule; admit the versions to
come; train; validate and publish; write the output. Ranks agree by collectives
(`require_all_ranks`): each brings a vote, and one failure fails all. Hard: lost
workers at any point, branches that desynchronise collectives, versions that do
not restore on one rank, deadlines, supervisors that die first. Correct when:
runs end; ranks save together; success means saved; what was admitted is never
refused later; a resume continues from the newest version that restores; one run
at a time touches the artifacts.

**Data and updates** (`ddp_data.py`, `ddp_training.py`). Shards of a byte source,
the batch plan, epochs that are shuffled anew, gradient accumulation with a
rollback of the update if any rank fails. Correct when: each record is visited once
per epoch whatever the number of ranks and wherever a run was resumed; a failed
update leaves the replica as it was.

**Replicated experts** (`moe_ddp_*.py`). A second supervised lab: a launcher, one
process per rank, and a session per rank whose `step` is guarded by votes: on the
call, on every forward pass, on the gradients, on the update. State: the
communicator, each session's parameters, its reducer (which a rejected forward pass
can leave waiting), whether the session is poisoned; a checkpoint with the
rank-local random state. Hard: anything can fail on one rank only, and whether a
session may be used again is decided by each rank for itself. Correct when: sessions
that may be used again agree; success means saved; no rank hangs in a call.

**Project 1 operator** (`project1_*.py`). A run directory with a hash-chained event
journal, rewritten atomically on each append; the run's state is a reduction of its
events; the files are sealed by an index. Commands: initialize, execute, finalize,
verify. Nothing takes a lock. Hard: a command cut short between two files; a
verification that never compares what the journal names with what lies beside it;
two operators at once. Correct when: what verifies is the work of one execution,
and stays so.

**GPT-2 training** (`gpt2_training.py`, `gpt2_training_cli.py`). A batch cursor,
updates of several micro-batches that are undone as a whole, segments of several
updates, and checkpoints that bind model, optimizer, cursor and random state.
Hard: failures in the middle of an update or a segment, retries, epochs that end
inside an update, two processes over one file. Correct when: every file holds what
an uninterrupted run has there, and data is learned from once and in order.

**Pipeline schedules** (`pipeline_schedule.py`). GPipe and 1F1B orders of forward and
backward steps per stage, the loop that executes them under their dependencies, and
their validation. Correct when: the stages never wait for one another in a cycle, and
the activations a stage holds stay within the promised bound.

### The serving system

**Generation service** (`ddp_service.py`, `ddp_generation.py`). State: admission
tickets (queued, running), the inference lock, the response cache (LRU by
request id), the token bucket, the draining flag. Operations: `generate` and
`drain`. Hard: threads that are cancelled or late anywhere, callbacks that raise,
retries of an id, a drain that times out while a request still runs. Correct
when: tickets and the lock are always given back; a remembered answer is whole
and never generated again; the rate holds; a drain is final; a hung model does
not keep timed requests waiting.

**Prefix KV store** (`prefix_cache.py`, `prefix_generation.py`). State: LRU
entries (prefill snapshots keyed by model and prompt) and four counters under
one lock, and copies lent to threads. Operations: `acquire`, `publish`, `clear`.
Hard: room is made by evicting while a copy is being made; copies outlive their
entries; several threads compute the same prompt. Correct when: every byte is
charged and the budget holds at each step; a thread is only ever given state of a
prefix of its own prompt under its own model.

**HTTP front end** (`ddp_http.py`, `ddp_operations.py`). State: connection slots, one
thread per connection with its receive deadline, the answer begun or not, the
listener, and the timer that stops it. Operations: accept, the routes, streaming,
start, serve and stop. Hard: a failure after the first tokens were streamed; a deadline
that fires while an answer is made; drain, timer, accept loop and threads that wait for
one another; a timer that runs before the code that cancels it is reached. Correct when:
a connection is answered once; slots come back, once; the server ends though a call
hangs. **Metrics** (`serving_metrics.py`): counters under a
lock.

**Event streams** (`http_stream.py`, `http_measurements.py`). The decoder of streamed
answers and the client that measures one. Hard: chunks end anywhere; a client may
stop inside a chunk; deadlines overrule. Correct when: the same bytes give the same
measurement, and what completed was whole.

**Decoder cache** (`transformer_cache.py`). Keys and values of a batch of rows.
Operations: prefill, decode, reorder, migrate, save, restore. Hard: a full window
moves every token to another position; weights change under caches and snapshots.
Correct when: what a cache holds is what its model computes over the window.

**Tokenizers** (`bpe.py`, `bpe_fast.py`, `token_stream.py`, `token_encoder_stream.py`).
A trainer learns ranked byte-pair merges; a reference encoder rescans the text for its
lowest rank, a second one works on linked tokens and a heap of pairs it has seen; two
streams turn tokens into text and chunks into tokens, and go on from snapshots. Hard:
heap entries outlive their pairs; tokens end inside characters; a call is refused
between two others. Correct when: both encoders and the trainer agree on every text, and
a stream returns what it was fed, whole.

**Experiments** (`moe_experiment_restart.py`, `moe_experiment_artifacts.py`,
`decoder_variant_report_io.py`). A comparison trains one trial per seed and links each
into a progress directory, where an interrupted or a second run finds it; a trained arm
is published into a claimed directory, its index last. Hard: kills between links,
writers that race, files that are gone or damaged, readers at any time. Correct when: a
report holds the published trials of one work, what is wrong with a directory is found
before training, and an index means the whole artifact.

**Inference scheduling** (`inference_batching.py`). A simulator of continuous
batching: arrivals, admission under a token budget and a batch size, decode ticks.
Correct when: budgets hold, nobody is lost, and no tick leaves out who fits. Beside it
page tables and speculative acceptance (`inference_paging.py`,
`inference_speculative.py`): closed arithmetic.

### The rest

The tokenizers' files and measurements, the data pipeline, models and from-scratch lessons, experiment
harnesses with plans, replays and sealed reports (experts, decoder variants,
grouped queries, LoRA, SFT, preferences, scaling, evaluation), and analytical
planners (resources, roofline, ZeRO, FSDP, hybrid parallelism, capacity). They
run in one process, mostly in one pass. `PROJECT.json` lists each group with its
files and the reason it is not modelled, and names those that hold a candidate
for a pure model.

### How the parts interact

    supervisor (ddp_launch) --spawns, polls, kills--> ranks (ddp_worker)
        |  flock on the artifacts                        |  collectives (ddp_runtime)
        v                                                v
    latest checkpoint <--os.replace-- rank 0 (ddp_checkpoint) --publish--> checkpoint journal

    HTTP threads (ddp_http) --generate--> generation service --prefill--> prefix KV store
        ^        ^                            drain ----------clear---------^
        |        +--timer, interrupt-- operations (ddp_operations)
    clients (http_measurements, http_stream) <--event stream-- HTTP threads

    launcher (moe_ddp_launch) --> ranks (moe_ddp_worker) --votes--> sessions (moe_ddp_training)
                                                 +--publish--> checkpoint (moe_ddp_checkpoint)

    operators (project1_cli) --> gpt2_training_cli --> gpt2_training --> checkpoint file
                            +--> journal.json, artifact index

## 2. Modules

| module | models | lines up with |
| --- | --- | --- |
| `JournalLog` | what the journal promises: an append-only log of one run within two budgets | no files, no processes |
| `CheckpointJournal` | `checkpoint_journal.py`, one action per system call | `Publish` … `SyncManifest` follow `publish` and `_write_manifest` line by line; `CallFails` and `Unwind` are its exceptions and `finally` clauses |
| `CheckpointJournalProofs` | theorems about it | |
| `DdpRun` | the supervised run | `pc` names the stretch of `ddp_worker.main` a rank is in; a collective is `Enter` with a vote and a `Leave…` |
| `DdpRunProofs` | theorems about it | |
| `PrefixKVStore` | `prefix_cache.py` and `prefix_generation.py` | one action per critical section, and one per eviction inside it |
| `PrefixKVStoreProofs` | theorems about it | |
| `GenerationService` | `ddp_service.py` and the loop of `ddp_generation.py` | `pc` names the `with` block a call is in; `LeaveSlot` and `Exit` are the two `finally` clauses |
| `GenerationServiceProofs` | theorems about it | |
| `HttpServer` | `ddp_http.py`, and start, serve and stop of `ddp_operations.py` | `pc` names where a connection's thread is in `Handler`; `Listen`, `FailStart`, `Fire`, `Shutdown`, `Drained`, `Exit` are `run_operation` from the timer's start on |
| `HttpServerProofs` | theorems about it | |
| `MoeDdpRun` | the replicated experts | a collective is `Join` with a vote; `Forward` … `Update` are the stretches of `step` between two of them |
| `MoeDdpRunProofs` | theorems about it | |
| `Gpt2Training` | `gpt2_training.py` and its CLI | `MicroBatch`, `Update`, `Accept`, `Restore` are `train_optimizer_step`; `Save` and `Resume` the checkpoint |
| `Project1Run` | the operator's commands | one action per file that a command reads or replaces |
| `ReplicatedData` | `ddp_data.py` and the updates over it | `Shard` and `Taken` are `shard_indices` and `byte_batches` |
| `PipelineSchedule` | `pipeline_schedule.py` | one action per slot of the event loop |
| `ContinuousBatching` | `inference_batching.py` | one action per tick |
| `TransformerCache` | `transformer_cache.py` | one action per function; `Extend` is the loop of `decode` |
| `EventStream` | `http_stream.py`, `http_measurements.py` | `Piece`, `Line`, `Event` follow `iter_events` and `_consume`; one action per chunk |
| `BytePairs` | `bpe.py`, `bpe_fast.py` | `Learn` is a round of `_train_segments`, `Reference` is `_encode_bytes`, `Pop` an iteration of `_encode_piece`'s loop over `encoder` |
| `TokenStreams` | `token_stream.py`, `token_encoder_stream.py` | `held` is a stream's buffer and flag; `given`, `fed` are the history a snapshot belongs to |
| `CompletedSeeds` | `moe_experiment_restart.py`, `decoder_variant_report_io.py` | `progress` is the directory, one file per seed; an action per look, link, comparison and flush |
| `TrainedArtifact` | `moe_experiment_artifacts.py` | `destination` is the claimed directory; an action per link of a publisher and per file a reader opens |
| `MC…` | values for TLC; `MCPlans` runs one machine at a time of `ReplicatedData`, `ContinuousBatching`, `TransformerCache`, `EventStream`, `BytePairs` and `TokenStreams`; `MCTrainingFiles` one of `Gpt2Training`, `CompletedSeeds`, `TrainedArtifact`, `Project1Run` and `PipelineSchedule` | |
| `TrainingFilesProofs` | theorems about `MCTrainingFiles`: the four machines whose files it runs, and the pipeline's schedules | |
| `PlansProofs` | theorems about `MCPlans`: the data, the batches, the key-value cache, the streams and the encodings | |

**Composition.** `CheckpointJournal` implements `JournalLog` with the manifest as
the log (`Implements`). `DdpRun` uses the journal as atomic operations: what
`CheckpointJournal` shows of an interrupted publication (the version committed, with or
without temporaries, or an orphan, or temporaries, or both, that refuse the next one) is
the state `DdpRun` keeps of it. `GenerationService` keeps of the prefix store whether it
holds anything; `PrefixKVStore` has the rest and lets `clear` come at any point.
`HttpServer` sees the service from outside: a call is admitted or not, returns,
raises or hangs, which is what `GenerationService` lets a caller see. `Project1Run`
sees of a training run the two files it leaves, in their order (`Gpt2Training` has
the rest). `EventStream` reads what `HttpServer` writes: tokens, then one terminal,
cut off anywhere.

### Abstractions

* Checkpoint contents are named by their digest, so two payloads of one step are
  two members of `Digests`. A damaged file is `"damaged"`, whether lost or changed.
* The unlink in a `finally` clause is taken to succeed.
* A directory flush can fail after its rename; what a power failure may undo
  below the file system is not modelled: a kill here is a kill of the process.
* `DdpRun` counts versions, not bytes; the byte budget is in `CheckpointJournal`. An
  opening of the journal that fails leaves the directory as it was: an empty journal that
  it had created already is what the next opening makes of none.
* A collective is a barrier: a rank leaves when all have entered, or raises when
  one that has not is gone. The two votes inside `load_checkpoint` (format, then
  replica) are one barrier; ranks that loaded different bytes are found out by
  the comparison of replicas (`SameStart`).
* Replicas are the step they have completed; gradients and random state are left
  out. A nonfinite gradient is a vote of FALSE on any rank.
* In `PrefixKVStore` tensors are named by the model and the tokens they were
  computed from, which is what reuse must not confuse.
* In `GenerationService` the answer is a function of the input, since the cache
  is keyed by the input's fingerprint and sampling is seeded; a refused admission
  changes nothing and is no step. The admission clock is `now`, in whole seconds.
* `MoeDdpRun` takes the communicator to be broken on every rank once one has failed
  in a transport (`cut`): Gloo gives no way back. A reducer left unfinished is
  `armed`. Rejections after the backward pass can be retried, the confirmation's too: it
  is voted down where replicas differ, and an update of which no fingerprint can be
  made (which would be fatal) is rejected before, as not finite. What workers do after their launcher was killed is the subject of
  `DdpRun`, where the leases are.
* `HttpServer` keeps of an answer its class (`200`, `408`, `4xx`, `5xx`); HTTP/0.9 and
  a kernel that blocks in `accept` are left out.
* `Gpt2Training` names parameters by the batches they have learned from, in order.
* `Project1Run` names files by the execution that wrote them. The operator takes no
  lock, so its properties are about commands that came one after the other
  (`overlap` remembers two that did not); commands may still be cut short anywhere.
  The two reads of `append_event` are one.
* `ReplicatedData` resumes within the epoch it is in: an earlier one brings back the
  state that was looked at there. Orders are arbitrary permutations.
* `TransformerCache` names a state by the computation it comes from: model, position,
  token and the states attended to. A prompt is begun only where the cache at hand
  cannot be continued (a bound).
* In `EventStream` an event line and its data are one byte each, and the text of an
  error is one character of two bytes, so that chunks can end inside a line and
  inside a character. The outcome of a whole answer is `completed`, also where the code
  repeats its `finish_reason`, cancelled or deadline. Responses other than 200 and unstreamed ones are not streams.
* `BytePairs` has as many byte values as its constant says; a heap entry is a rank and
  two positions (the rank names the pair), and equal entries are one, as the first
  that is used makes the others stale. Byte budgets of the vocabulary are left out.
* In `TokenStreams` a character is a sequence of byte classes, none the beginning of
  another, and a document stands for the tokens `BytePairs` makes of it. Snapshots are
  those the stream wrote.
* In `CompletedSeeds` a trial measures one of two things: the code compares what two
  writers measured and does not trust them to agree. Temporary files have random names
  and are never read. A run that looks at the paths one by one while another publishes
  can take the other's progress for a hole and be refused (`disturbed`); it can be begun
  again.
* History variables (`linked`, `disturbed`, `acked`, `damaged`, `refusal`, `mixed`, `spent`, `work`,
  `called`, `decoded`) are
  only read by properties.

## 3. Runs

| run | question | bound | states |
| --- | --- | --- | --- |
| `journal` | Is the journal a log whatever is killed or fails, and are acknowledged versions restorable? | 2 processes, 2 run contracts, 3 steps, 2 contents of sizes 1 and 2, budgets of 2 versions and 3 bytes, 1 kill, 1 failing call, 1 damage | 0.3 M |
| `ddp_run` | Over three launches, do admission, order of saves, lockstep and recovery hold? | 2 ranks, 3 optimizer steps, 2 versions, intervals none, 1 and 2, 1 fault, 1 damage, 1 supervisor killed | 5.0 M |
| `ddp_ends` | Does a run end without its deadline, whatever fails? | the same, two launches, supervisors survive | — |
| `ddp_killed` | Do the leases cover the workers when a supervisor is killed? **No** | 2 supervisors, 2 launches | violation |
| `prefix_store` | Is every byte charged, the budget kept and no prompt answered from foreign state? | 2 threads, 2 models, 4 overlapping prompts, room for one or two snapshots, 1 failure | 0.13 M |
| `service` | Are tickets, answers, rate and drain right under retries, cancellation, deadlines and exceptions? | 2 callers, 2 ids, a cache of 1, a queue of 2, a bucket of 3 refilled by 2, 2 seconds | 1.6 M |
| `service_queue` | Do timed requests leave the queue although the model hangs? | 1 id, 1 token | 0.1 M |
| `moe_ddp` | Whatever fails on some ranks only, do reusable sessions agree, is success saved, does every call return? | 3 ranks, 2 updates, 3 launches, 2 calls, 2 faults | 0.2 M |
| `http` | Is a connection answered once, does its slot come back once, does a server that serves end? | 3 connections, 2 slots, 1 call in the service, 1 token | 1.3 M |
| `http_start` | Does every server that was started close at its lifetime? **No** | 1 connection | violation |
| `training_files` | Are the files that several training runs write exact, whole and of one run's data, under failures, retries, resumption and kills; and is a run directory that verifies the work of one execution, and stays so? Does every pipeline schedule end, validate and keep few activations? | GPT-2: 2 processes over one file, 3 updates of 2 micro-batches, epochs of 3, 3 runs, 2 faults; 3 comparisons of 2 seeds by 2 runners, 1 interruption, 1 file removed or damaged; 3 publications by 2 publishers, 3 loads by 2 readers; 2 operators, 2 steps, 3 executions, 2 interruptions; up to 5 stages × 6 microbatches | 2.3 M |
| `plans` | Are the machines that run alone right on every small input? | 3 requests; 3 to 5 samples on 1 to 3 ranks; 2 rows of up to 4 tokens over a window of 2; 3 frames in any chunks; 3 merges of 2 byte values over 5 bytes; streams of 5 bytes | 0.5 M |

**Why these bounds are enough to be interesting.** With two versions and three
steps a journal is filled, refuses, is replayed and is refused by order; the
byte budget binds before the version budget for some contents and after it for
others. Three launches give: a run that fails in a publication, one that
resumes from an older version because the newest is damaged and replays, and one
that resumes over both. Four prompts of lengths 1 to 3 extend, repeat and
diverge; a budget of 7 units holds one long or two short snapshots, and a copy
beside them only sometimes. A response cache of one answer is forced to forget;
one input costs two of the bucket's three tokens, another can never be admitted.
Three ranks of experts let one fail, one see it and one have gone on. Two slots for
three connections refuse one; one call in the service makes the others wait. Epochs
of three micro-batches end inside an update of two. Five stages and six microbatches
have warm-ups shorter than, equal to and longer than the number of microbatches. A
window of two is cropped, and its states then depend on what was cropped. Three
frames hold a whole answer, an answer with something after it, and every kind of
broken order; both byte budgets bind inside them.

Every table of three merges over two byte values has merges of merges, of a token with
itself, and pairs that are taken apart by a neighbour's; five bytes let a pair overlap
itself twice.

What the bounds of `plans` miss: with at most five samples no shard is longer than
its whole updates on two ranks or more. `SharedExactly` proves that for all numbers.

**Deadlock.** Checked in `journal`, `prefix_store`, `training_files` and `plans` (where machines
that are done may stay so). `DdpRun` stops when the
bound on launches is used up, and a drained `GenerationService` whose clock is
at its bound serves nobody: there it is off, and for `DdpRun` the liveness run
takes its place. The same holds of the last launch of `MoeDdpRun` (`StepReturns`
takes its place), and of a server that has exited (`ServerStops`).

**Fairness.** `journal`: a process inside an operation is scheduled; nobody has to
start one. `ddp_ends`: ranks run, a collective whose peer is gone raises (the
behaviour of the process group), the supervisor polls and reaps; its deadline is
*not* fair, so a run that would need it to end is a counterexample.
`service_queue`: time passes and queued threads poll; *nothing* is assumed of the
thread that runs the model. `moe_ddp`: a rank inside a call goes on, and a broken
connection is noticed; no supervisor is assumed. `http`: the announcement ends, in
service or in a failure, the timer fires and its thread runs; *nothing* is assumed of the
service or of connections.

### Findings

`ddp_killed`: the leases of `_owned_run` are descriptors of the supervisor alone.
If it is killed they drop while its workers train and publish on, and the next
launch acquires the same artifacts beside them. The docstring of `_owned_run`
promises the lease "until every child is reaped and log closed", and
`docs/distributed-cpu-lab.md` "for the entire run, including child cleanup". The
promise holds whenever the supervisor's `finally` clause runs.

`http_start`: `run_operation` starts the timer and prints the announcement before the
`try` whose `finally` clause cancels the timer. If the print raises, or an interrupt comes
in between, the timer fires all the same; its thread, which is no daemon, calls
`server.shutdown()` and waits for a loop that was never entered, and the process
never ends. `docs/distributed-cpu-lab.md` says that the server "prints its loopback URL
and model fingerprint, then closes at its declared lifetime". `ServerStops` is therefore
about servers that were entered: those end, though a call hangs.

## 4. Proofs

`CheckpointJournalProofs` holds for any number of processes, runs, steps, contents
and budgets, and any number of kills, failures and damages, from
`JournalAssumption` alone: steps, sizes, budgets and bounds are naturals, and
`None` is not a run, an entry or a manifest.

| theorem | states |
| --- | --- |
| `JournalImplementsLog` | `Spec => Log!LogSpec`: every step appends an advancing, fitting entry, creates the log, or stutters |
| `AcknowledgedStays` | an acknowledged, undamaged version is a candidate |
| `BlobsComeFirst` | a listed version had its complete file first |
| `WritersAreAlone` | a writer is the only holder of the lease |
| `ResidueIsBounded` | at most one orphan and two temporaries |
| `FailuresAreCleaned` | without a kill no temporary outlives its operation |
| `ManifestStaysReadable` | a manifest advances and fits the budgets of versions and bytes |
| `TypeCorrect` | the type invariant |

**The argument.** None of the invariants is inductive alone: that an append keeps
the manifest a log depends on what a process read at the start of its
publication. `IInv` adds to the type invariant

* `LeaseInv`: an exclusive lease excludes, and a process in a modifying stage has one;
* `JobInv`: until it replaces the manifest, a publishing process has seen the
  manifest as it still is, and its version advances it and fits (`Admitted`);
* `BlobInv`: from the link on the version's file is complete, and stays so unless damaged;
* `ResidueInv`: while a process writes, the temporaries are exactly its own; else
  at most the two that one kill left, since creation and publication refuse to
  start beside unknown files;
* `OrphanInv`: one unlisted version at most, the one being published if any.

There is one lemma per part of `IInv`, and in it one step per action.
`JournalImplementsLog` then needs two steps only: `ReplaceManifest` is an append
or a creation by `JobInv`, and no other action changes the manifest.
`ManifestStaysReadable` follows from those steps (`ReadableStep`), given what an append
adds to the bytes of a log. These are a fold, a function chosen by its recursive equation,
so that nothing is known of it before something is shown to satisfy the equation. An
additive measure of the sets of places does (`MeasureSums`), whatever satisfies it is
that measure (`SumIsMeasure`, by a least counterexample among the cardinalities), and a
measure of `n` places extends to `n + 1` (`MeasureExtends`). `AppendedTotal` is then one
addition.

`GenerationServiceProofs` holds for any number of callers, ids and inputs, any
costs, queue, cache, rate and burst, from `ServiceAssumption` (costs, sizes and
rates are positive, `None` is no client).

| theorem | states |
| --- | --- |
| `TicketsReturn` | the lock is held by the call that is inside it and by no other, the tickets by exactly the calls that are inside |
| `RetriesReplay` | what is remembered was generated once since it was last forgotten |
| `OnlyWholeAnswers` | only answers of full length are remembered |
| `ChargesAreBounded` | charges never exceed the burst and the refills of the time passed |
| `DrainsAreFinal` | a drain leaves nobody inside and no prefill, or leaves it to the last call out |
| `TypeCorrect` | the type invariant |

`IInv` says where the lock and the tickets are at each stage of a call, and that a call
which has left holds none of them
(`HolderInv`, without which two calls could finish the same id), that a call that
generates has no answer remembered and lacks a token or is whole (`CallInv`,
`CacheInv`), that `spent + tokens <= BucketCapacity + Rate * updated` (`BucketInv`:
`RateBounded` alone says nothing of the tokens still in the bucket), and who is
left to clear the prefix store (`DrainInv`). The hardest step is `Finish`: an
answer is appended, the cache may be cut at its old end, and every id must be
accounted for (`FinishWhole`).

`PrefixKVStoreProofs` holds for any number of threads, models and prompts and any
budgets, from `StoreAssumption` (prompts are nonempty, sizes positive, threads finitely
many).

| theorem | states |
| --- | --- |
| `BudgetHolds` | residents, reservation and copies fit both budgets at every step |
| `ResidentsAreTrue` | a resident is the prefill of its own prompt under its own model |
| `CopiesAreTrue` | a copy is a prefix of the borrower's prompt under its model |
| `SourcesAreSpared` | evictions spare the source of the copy they make room for |
| `AccountsBalance` | the counters are the sums of what is resident, reserved and on loan |
| `TypeCorrect` | the type invariant: no counter goes below zero |

That the budget holds over a `clear` needs `resident >= 0`, and that needs the
counter to be the sum of what it counts. In the invariant the sum is not the fold of
`Accounting`, which no step can be followed through, but *witnessed*: `ResidentInv` says there
are partial sums along the LRU order that end in `resident`, `LeasedInv` that there
is an additive measure of the sets of threads that gives `leased` for all of them.
Each action says how the witness changes (`SumWithout`, `SumAppended`, `SumMoved`;
`MeasureGrows`, `MeasureShrinks`). `AccountsBalance` comes last: a witness satisfies the
equation of the fold and is therefore the fold (`SumIsMeasure`; partial sums become a
measure in `PartialSumsMeasured`). This is the one place where it matters that threads
are finitely many: sums over an infinite set are no sums. Truth of entries and copies is proved together,
since each is computed from the other (`ComputedIsTrue`, `BorrowShape`), and
`AskInv` carries what a lookup established until the copy is made.

`HttpServerProofs` holds for any number of connections, slots and calls, from
`HttpAssumption`.

| theorem | states |
| --- | --- |
| `SlotsComeBack` | the slots in use are those of the connections that are served |
| `AnswersOnce` | no connection is answered twice, nor over a stream already begun |
| `TypeCorrect` | the type invariant |

`IInv` says of each stage whether the connection holds a slot (`SlotInv`: the counter
is the cardinality of a set of connections, so that each action adds or removes one)
and what has been written by then (`ConnectionInv`: an answer may begin only where
none has).

`PlansProofs` holds for any number of samples, ranks, micro-batches and
accumulations, every order and every resumption; for any alphabet, weights, block
size, batch and chunk (nothing is supposed of the bounds `MaxRows`, `MaxChunk` and `MaxText`);
for any frames, chunks and budgets of a stream (`StreamAssumption`), and any characters and
vocabulary (`TokensAssumption`: there is a character and none is empty); for any requests
and limits (`BatchingAssumption`: there is a request, and sizes and limits are positive, as
the code demands); and for any number of byte values, merges and corpora (`PairsAssumption`: there is a byte value, and
corpora are segments of bytes).

| theorem | states |
| --- | --- |
| `SharedExactly` | each update learns from exactly the next global batch of the order, of full size |
| `BatchesStaySound` | the same of the machine as the run `plans` has it; and of a batch of requests no tick is wasted, and each request waits, is decoded or has got its tokens, none twice |
| `CachesComputed` | a cache, and every logit made with it, is what a full pass over the window computes |
| `CachesStayExact` | the same of the machine as the run `plans` has it |
| `StreamsDecoded` | a client sees what the bytes say, however they are cut; a completed answer is whole |
| `StreamsKept` | a tokenizer stream loses no byte, cuts no character, and is restored where it was |
| `StreamsStayFaithful` | both, of the machines as the run `plans` has them |
| `EncodingsStayExact` | the heap encoder spells the text throughout and ends as the reference encoding; the trainer's segments are reference encodings |

`SharedExactly` is arithmetic: rank `r` takes the positions congruent to `r`, in runs of
`micro × accumulation`, and over all ranks these are the positions of one interval
(`RanksCoverBatch`), whose image under an injective order has its size (`BatchSize`).
That every shard is long enough is `ShardsAreEqual`.

The two about caches are about folds. `Forward` and `Extended` fold a sequence from the left; the
library's fold is a function chosen by its equation, so it is shown that there is one, that
it is unique, and that the fold of a longer sequence is one step more (`FoldAppend`). Then
cropping at every token is cropping at the end (`CroppedAppend`), a token leaves a row
exact whether the window slid or not (`ExtendRow`), and so does a chunk (`FoldRow`, by a
least counterexample). `CacheInv` says that the cache, and a snapshot of one, is the
cache of some texts (`Holds`), and how many logits of each row the last call returned.
Without the part about the snapshot it is not inductive: a restored row is its own window.

The streams are folds too. A scan of bytes has read whole characters and the start of one
(`ScanReads`), so what was given and what is held are what was fed (`TokenInv`). For the
client of `/stream` a piece cut in two is the piece (`PieceSplits`), hence a decoder fed in
chunks is *alike* to one fed byte for byte (`FeedSame`): what they hold of an unfinished
line differs, what they tell their caller does not. `SingleFollows` says what that second
decoder has told while it is open: the frames heard so far, which determine the answer
(`WholeAnswer`). Between them stands `StreamInv`.

For batches of requests the history `decoded` counts the tokens each request was given.
That none is lost (`NoRequestLost`) rests on two facts: at the start everyone is queued
(`EveryoneQueued`, `QueueIsWhole`), and what a batch is given is what it spends (`decoded`
is `Spent`), so that a request which leaves the batch has all its tokens. `Admitting` says what the loop over the waiting requests has done by some
request: whoever it left out has not come, or found the batch full, or does not fit, and what
it reserved is the sum over its rows. Sums over sets are measures, as in the prefix store
(`MeasureExists`, `SumIsTotal`). The bound on the ticks is one on what was spent
(`Spent`): a tick gives somebody a token (`TickSpends`, `TotalAscends`), or the batch is
empty and somebody is still to arrive.

The two encoders of byte pairs join in different orders: the reference joins every
occurrence of the lowest rank in one pass, the heap encoder one occurrence at a time, among
positions it remembered. `Reference` is a recursive function over all sequences, so it
comes first that its recursion ends: a pass over a rank that occurs shortens the text
(`AfterShorter`), hence functions for texts up to any length exist and agree
(`EncodesExists`, `EncodesUnique`) and the equation of `_encode_bytes` holds
(`ReferenceIs`). What tokens spell is defined likewise, by the order of tokens
(`SpellingIs`). Then one join does no harm: it is at the first place of the lowest rank that
occurs (`JoinLowest`), where the reference's pass would join too (`MergeFirst`), and the
new token has a higher number than any pair of a lower rank may contain, so the text leads
where it led (`ReferenceJoined`) and spells what it spelled (`ExpandJoined`). The invariant
(`PairsInv`, `EncoderInv`) adds what makes the top of the heap that place: the lists link
the surviving positions in order (`Links`; a join keeps it by `ListsJoined`), and each
pair of neighbours with a rank has an entry (`HeapComplete`). A stale entry is no pair's
entry (`StaleKeeps`), and a join makes at most two new pairs, which it offers
(`JoinHeap`). Without `HeapComplete` the property is not inductive: an empty heap would
not mean that no rank occurs. For the trainer, one more merge is one more pass over what
the reference made of a segment before (`ReferenceLonger`), because a segment already
encoded has no pair with a rank.

`DdpRunProofs` holds for any number of runs, ranks, steps, versions, faults, kills and
damages, from `RunAssumption`. The last three theorems suppose `OneWriter` as well: no
supervisor is killed, or there is only one slot for runs.

| theorem | states |
| --- | --- |
| `ReplicasStayTogether` | live ranks have completed exactly the step that rank 0 publishes |
| `LatestStaysBehind` | when every run journals, the latest checkpoint is not ahead of the journal |
| `TypesHold` | the type invariant |
| `AdmissionHolds` | the journal refuses no publication of an admitted run for order or room |
| `SuccessStaysDurable` | a rank that exits with 0 leaves a run whose last step is saved |
| `ResumeKeepsProgress` | without faults a resumed run goes on from the newest version that restores |

A step of a rank is an arrival at a collective, a departure from it or an end; what each
preserves is shown once (`ArrivalControl`, `DepartureControl`, `StopControl`, and
`ArrivalLock`, `DepartureLock`, `StopLock`) and every action is an instance. `ControlInv`
ties the phase of a rank to the collectives it has left, its command line and what it
restored: without it not even the types are inductive (the maximum of no candidates, a
step beyond the schedule). `LockInv` compares ranks two by two. A rank that has left as
many collectives as another is in its phase, at its step (`Alike`); one that has left one
more is what the other will be when it leaves (`Follows`, by `NextPhase`, `NextStep` and
`NextLeft`, which say where a rank goes from its own state and the verdict alone). That
`Alike` ranks are alike after leaving (`SameNext`) is where a branch that one rank takes
and another does not would show. `LatestInv` adds that what a run recorded is in the
journal, and that rank 0 asks for the latest checkpoint only after the journal has the
step or has had it before.

`OneWriter` is needed because the lease ends with the supervisor that holds it: workers
that outlive a killed supervisor write beside the next run, which the run
`ddp_killed` shows, and then nothing that one run was promised of the artifacts can be
kept. Under it `WriterInv` says that whoever is alive is alone. From there each theorem
adds one invariant. `AdmissionInv` follows rank 0 from its vote on the capacity to its
last publication: the slots that `Required` counts from the step it has reached are
still free (`Slots`, with `NextDiv` and `DivGrows` for the multiples of the interval),
and what the journal's order allows is known from what was recorded when the run
started. `SavedInv` says what the verdict on a publication means once rank 0 has voted,
wherever the other ranks are: `Verdict` names the collective, `SpanInv` that no verdict
is known before its rank is there. `ReadInv` follows the candidates: what is left of them
holds every version that restores, and a load is voted down only for a version that is
damaged (`LoadVetoed`), also when the verdict is one or two collectives ahead of the
rank that will hear it (`VetoesKnown`).

`TrainingFilesProofs` holds for any number of processes, any schedule, accumulation
and length of an epoch, from `Gpt2Assumption`, and for any number of seeds, comparisons,
publishers and readers, from `SeedsAssumption` (there is a seed, and no file is what no
file looks like) and `ArtifactAssumption`, and for any number of operators, executions
and updates, from `Project1Assumption` (a schedule has a step, and a journal is not
what is read of a missing file); and for any stages and microbatches
(`PipelineAssumption`: there is one of each).

| theorem | states |
| --- | --- |
| `FilesStayExact` | a checkpoint or report holds a model trained on the schedule up to its step |
| `DataStaysConsumedOnce` | it learned from each micro-batch up to its step once, in order |
| `TypesHold` | the type invariant |
| `ExperimentsStayWhole` | a report counts each seed of its work once, as published; what is loaded is of one arm |
| `BundlesStayConsistent` | a directory that verifies is the work of one execution |
| `VerifiedBundlesStay` | a command that is alone leaves a directory verified that was |
| `SchedulesStaySound` | pipeline schedules end, validate and keep few activations |

Neither of the first two properties is inductive. A segment that raises and is called again counts its
updates from zero while its model keeps the earlier ones, so count and model part, and
later rates are wrong. `Sound` says what is still true then: the data of every update is
the next of the order, the model is at least as long as the count, and its rates are the
schedule's where the lengths agree; a save compares the lengths, so that only those
models reach a file. Within an update the cursor is ahead of the model by the
micro-batches taken (`Taking`). That a cursor which turns at the end of an epoch is
at the position of the next micro-batch is division (`CursorTurns`, `CursorIsPosition`).

`ExperimentsStayWhole` needs an invariant for each of two machines. An artifact is whole
because its files are linked model first and index last (`Whole`) by the only one that
can have claimed the directory (`PublisherInv`); a reader that has seen the index
therefore finds the other two, of the arm it has seen (`ReaderInv`). Of comparisons over
one progress directory, `LinkedInv` says that everything published is still there or is
counted as tampered with, which bounds how often a seed can be published again, and
`TrialsInv` that a run has only trials that were published and are of its work. That a
comparison is never refused after it has trained needs `ViewInv`: what a run that nobody
disturbed knows of the directory, namely that the seeds it is past are there and that
behind the first one it trained there is nothing. Its cases follow the scan, the reuse,
and the loss of a race for a link, after which the run counts as disturbed.

`finalize` and `verify` never compare the digests in the journal with the files beside
it, so `BundlesStayConsistent` rests on the order in which an execution works. While it
replaces the checkpoint and the report the journal has one event (`OperatorInv`), and one
with more is never executed again: this is all that ties the two. `NamesFiles` says what
a journal says of the files as soon as it has the event, also when the execution was cut
short behind it. `AloneMoves` reduces each step to the operator that takes it, since the
others are idle as long as commands have not overlapped; no more is claimed once they have.

A pipeline schedule is followed by computing, from the plan alone, the slot an operation
is due in (`Moment`). What it needs is due earlier (`MomentDepends`), no stage is due twice
in a slot (`MomentDistinct`), no slot is idle (`MomentTaken`), and the order 1F1B fixes for a stage ascends
in it (`OrderAscends`). The invariant is then short: the slots so far are what was due
in them, and a stage has run its order up to there (`PipelineInv`). That nothing is ever
stuck follows, since what is due next has all it needs (`HeadsRan`), and so do the validation and
the count of activations (`FewInFlight`).

`MoeDdpRunProofs` holds for any number of ranks, updates, launches, calls and faults,
from `MoeRunAssumption`. Two of its theorems suppose that there are two ranks to compare
(`Replicated`): a launch may have `world_size` 1, and then an update with other numbers
meets no other replica to be compared with.

| theorem | states |
| --- | --- |
| `SessionsAgree` | sessions that may be used again agree, are sound, and wait for no backward pass |
| `SuccessSaved` | a worker that exits normally has its replica in the checkpoint, at the end of its launch |
| `TypeCorrect` | the type invariant, for one rank too |

Collectives are numbered, and where a rank stands is the number of those it has left
(`Passed`). Ranks with the same number are before or inside the same collective with the
same replica to go back to (`Alike`); one that is a number ahead stands where the other
will when it leaves, by the verdict both see (`Follows`, `NextPlace`); none is two ahead.
A retry makes this harder than in `DdpRun`: a session between two calls has a *place*, the
collective its next call or its save will enter, and a rank whose update was rejected may
have been restored while another still holds the trial (`Settled` is the replica either
comes back to). A rank whose transport broke before its forward pass has no place in the
order any more; `CutInv` says that the others, who need it, get no further than the next
forward pass with the replica it has. That a confirmed update is sound needs that two
ranks do not err alike (`Skews`, `ConfirmInv`), and that the checkpoint is everyone's
replica holds from rank 0's good vote on, whoever is killed after it (`PublishedInv`).
Each action enters a collective, leaves it, moves between calls, breaks a transport or
ends a rank, and what each of the five preserves is shown once.

Every invariant and action property of a passing run is proved. Only model-checked is
liveness, which is out of the prover's reach: `LeaseIsReleased`, `RunEnds`,
`TimedRequestsLeaveQueue`, `StepReturns`, `ServerStops`.

## 5. Not modelled

Everything in `PROJECT.json` with status `not_modelled`, with its reason. In
modelled components: wording and formatting of records, logs and metrics; symlink
and path checks (they refuse before any state changes); the byte-level format of
checkpoints; the observation files of a recovery.

The largest files of the repository (lessons, certification scripts, experiments,
evaluation, reports) are numerics and formats in one pass of one process: their
correctness is a matter of floating point and of wording, and there is no order,
failure or shared state in them for a model to explore.

## 6. Plan

What is left: **Experts**, the admission of tokens (`moe_capacity.py`), as pure operators with
conservation laws. A module to be proved about declares no recursive operator, names its
assumptions, and has one action per operation.
