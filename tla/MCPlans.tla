--------------------------------- MODULE MCPlans ---------------------------------
(* The planners and decoders that run alone, for TLC: one of them runs, the     *)
(* others stay unset.                                                           *)
EXTENDS ContinuousBatching, ReplicatedData, TransformerCache, EventStream,
        BytePairs, TokenStreams

\* Corpora of one segment, and of two.
MCCorpora == {<<s>> : s \in [1..6 -> 0..1]} \cup [1..2 -> UNION {[1..n -> 0..1] : n \in 2..4}]

\* Characters of one, two and three bytes, and tokens that end inside them.
MCCharacters == {<<"a">>, <<"l", "c">>, <<"L", "c", "c">>}
MCVocabulary == {<<"a">>, <<"l">>, <<"L">>, <<"c">>, <<"c", "c">>, <<"c", "L">>}

\* Weights and their half precision.
MCConversions == {<<"full", "half">>}

VARIABLE planner

vars == <<planner, batchingVars, dataVars, cacheVars, streamVars,
          pairVars, tokenVars>>

NoBatching == request = 0 /\ limits = 0 /\ waiting = 0 /\ active = 0 /\ tick = 0 /\ last = 0 /\ decoded = 0
NoData == run = 0 /\ order = 0 /\ step = 0 /\ learned = 0
NoRows == weights = 0 /\ text = 0 /\ cache = 0 /\ outputs = 0 /\ snapshot = 0
NoStream == wire = 0 /\ received = 0 /\ cancelAfter = 0 /\ decoder = 0 /\ outcome = 0
NoPairs == merges = 0 /\ learner = 0 /\ payload = 0 /\ encoder = 0
NoTokens == stream = 0 /\ held = 0 /\ given = 0 /\ fed = 0 /\ saved = 0

Init ==
  /\ planner \in {"batching", "data", "cache", "stream", "pairs", "tokens"}
  /\ IF planner = "batching" THEN BatchingInit ELSE NoBatching
  /\ IF planner = "data" THEN DataInit ELSE NoData
  /\ IF planner = "cache" THEN CacheInit ELSE NoRows
  /\ IF planner = "stream" THEN StreamInit ELSE NoStream
  /\ IF planner = "pairs" THEN PairsInit ELSE NoPairs
  /\ IF planner = "tokens" THEN TokensInit ELSE NoTokens

\* One that has nothing left to do stops for good.
Done ==
  /\ \/ planner = "batching" /\ Served
     \/ planner = "data" /\ step = MaxStep
     \/ planner = "stream" /\ outcome = "deadline"
     \/ planner = "pairs" /\ payload # <<>> /\ encoder.heap = {}
  /\ UNCHANGED vars

Next ==
  \/ /\ planner = "batching" /\ Tick
     /\ UNCHANGED <<planner, dataVars, cacheVars, streamVars, pairVars, tokenVars>>
  \/ /\ planner = "data" /\ DataNext
     /\ UNCHANGED <<planner, batchingVars, cacheVars, streamVars, pairVars, tokenVars>>
  \/ /\ planner = "cache" /\ CacheNext
     /\ UNCHANGED <<planner, batchingVars, dataVars, streamVars, pairVars, tokenVars>>
  \/ /\ planner = "stream" /\ StreamNext
     /\ UNCHANGED <<planner, batchingVars, dataVars, cacheVars, pairVars, tokenVars>>
  \/ /\ planner = "pairs" /\ PairsNext
     /\ UNCHANGED <<planner, batchingVars, dataVars, cacheVars, streamVars, tokenVars>>
  \/ /\ planner = "tokens" /\ TokensNext
     /\ UNCHANGED <<planner, batchingVars, dataVars, cacheVars, streamVars, pairVars>>
  \/ Done

Spec == Init /\ [][Next]_vars

\* What is taken in batches: requests keep the limits of theirs, no tick is wasted while one
\* waits that fits, and each waits, is being decoded or has decoded all it asked for
\* (inference_batching.py); and ranks share the order of an epoch, global batch after
\* global batch, without loss or repetition (ddp_data.py).
BatchesAreSound ==
  /\ planner = "batching" => NoTickWasted /\ NoRequestLost
  /\ planner = "data" => EachSampleOnce

\* Cached decoding is the full computation (transformer_cache.py).
CachesAreExact == planner = "cache" => CacheIsExact

\* What is cut into chunks is decoded by its bytes, and whole: a streamed answer
\* (http_stream.py), and the tokenizer streams (token_stream.py, token_encoder_stream.py).
StreamsAreFaithful ==
  /\ planner = "stream" => ChunksDoNotMatter /\ CompletedIsWhole
  /\ planner = "tokens" => StreamsLoseNothing

\* The heap encoder and the trainer agree with the reference encoder (bpe_fast.py, bpe.py).
EncodingsAreExact == planner = "pairs" => EncodersAgree

==================================================================================
