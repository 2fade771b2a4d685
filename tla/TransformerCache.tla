---------------------------- MODULE TransformerCache ----------------------------
(***************************************************************************)
(* transformer_cache.py: a batch of token rows, and for each of them the   *)
(* keys and values a decoder has computed for the tokens of its window.    *)
(* Rows are extended, cropped, reordered, saved, restored and moved to a   *)
(* converted model, while the weights of the process may change.           *)
(*                                                                         *)
(* Numbers are abstracted to what they were computed from: the state of a  *)
(* position is the model, the position, the token and the states attended  *)
(* to.  Two states are equal exactly if the same computation made them.    *)
(***************************************************************************)
EXTENDS Integers, Sequences, FiniteSets, SequencesExt

CONSTANTS
  Weights,       \* digests of models of one configuration
  Conversions,   \* pairs of them: the second is the first in another dtype
  Alphabet,      \* tokens
  BlockSize,
  MaxRows, MaxChunk,   \* bounds of a batch
  MaxText        \* bound: tokens of a row

ASSUME CacheAssumption ==
  /\ BlockSize \in Nat \ {0}
  /\ Conversions \subseteq Weights \X Weights
  /\ "none" \notin Weights

VARIABLES
  weights,    \* of the model in memory
  text,       \* history: the tokens of each row since its first prefill or restoration
  cache,      \* DecoderCache, or NoCache
  outputs,    \* for each row, the states its last logits were made of
  snapshot    \* the saved cache, or NoCache

cacheVars == <<weights, text, cache, outputs, snapshot>>

NoCache == [model |-> "none", tokens |-> <<>>, states |-> <<>>]
Present(c) == c.tokens # <<>>

Window(tokens) == SubSeq(tokens, Len(tokens) - BlockSize + 1, Len(tokens))
Cropped(tokens) == IF Len(tokens) <= BlockSize THEN tokens ELSE Window(tokens)

\* Batches: the rows have one length.
BatchesOf(rows, sizes) == UNION {[1..rows -> [1..n -> Alphabet]] : n \in sizes}

-------------------------------------------------------------------------------
\* The states of tokens that follow those of a prefix (_forward_chunk).
Forward(model, prefix, tokens) ==
  FoldLeft(LAMBDA states, token :
             Append(states, [model |-> model, position |-> Len(states) + 1,
                             token |-> token, attends |-> states]),
           prefix, tokens)

Full(model, tokens) == Forward(model, <<>>, tokens)

\* A cache of rows that was computed from nothing.
Prefilled(model, rows) ==
  [model |-> model, tokens |-> rows, states |-> [r \in DOMAIN rows |-> Full(model, rows[r])]]

\* Variant: a full window drops its oldest key instead of being computed again.
ExtendSliding(model, row, token) ==
  LET longer == Append(row.tokens, token)
      states == Forward(model, row.states, <<token>>)
  IN [tokens |-> Cropped(longer), states |-> Cropped(states),
      outputs |-> Append(row.outputs, Last(states))]

\* One more token for a row: computed from its cache, or, since every retained
\* token changes position, from the cropped window alone.
Extend(model, row, token) ==
  LET longer == Append(row.tokens, token)
      states == IF Len(longer) <= BlockSize
                THEN Forward(model, row.states, <<token>>)
                ELSE Full(model, Cropped(longer))
  IN [tokens |-> Cropped(longer), states |-> states,
      outputs |-> Append(row.outputs, Last(states))]

\* A chunk of tokens for one row of the cache.
Extended(model, r, chunk) ==
  FoldLeft(LAMBDA row, token : Extend(model, row, token),
           [tokens |-> cache.tokens[r], states |-> cache.states[r], outputs |-> <<>>], chunk)

Bound == Present(cache) /\ cache.model = weights
Rows == DOMAIN cache.tokens

-------------------------------------------------------------------------------
CacheInit ==
  /\ weights \in Weights
  /\ text = <<>>
  /\ cache = NoCache /\ snapshot = NoCache
  /\ outputs = <<>>

\* prefill, of a prompt that generate_cached has cropped; it samples from the
\* logits of the last position.  (Bound: a cache that can be continued is.)
Prefill(rows) ==
  /\ ~Bound
  /\ text' = rows
  /\ cache' = Prefilled(weights, [r \in DOMAIN rows |-> Cropped(rows[r])])
  /\ outputs' = [r \in DOMAIN rows |-> <<Last(cache'.states[r])>>]
  /\ UNCHANGED <<weights, snapshot>>

Decode(chunks) ==
  /\ Bound
  /\ Len(text[1]) + Len(chunks[1]) <= MaxText
  /\ LET done == [r \in Rows |-> Extended(weights, r, chunks[r])]
     IN /\ cache' = [cache EXCEPT !.tokens = [r \in Rows |-> done[r].tokens],
                                  !.states = [r \in Rows |-> done[r].states]]
        /\ outputs' = [r \in Rows |-> done[r].outputs]
  /\ text' = [r \in Rows |-> text[r] \o chunks[r]]
  /\ UNCHANGED <<weights, snapshot>>

\* Rows are selected, reordered or repeated.
Reorder(indexes) ==
  /\ Present(cache) /\ \A i \in DOMAIN indexes : indexes[i] \in Rows
  /\ cache' = [cache EXCEPT !.tokens = [i \in DOMAIN indexes |-> @[indexes[i]]],
                            !.states = [i \in DOMAIN indexes |-> @[indexes[i]]]]
  /\ text' = [i \in DOMAIN indexes |-> text[indexes[i]]]
  /\ outputs' = [i \in DOMAIN indexes |-> <<>>]
  /\ UNCHANGED <<weights, snapshot>>

\* Only the tokens move to a converted model.
Migrate(target) ==
  /\ Bound /\ <<weights, target>> \in Conversions
  /\ weights' = target
  /\ cache' = Prefilled(target, cache.tokens)
  /\ outputs' = [r \in Rows |-> <<>>]
  /\ UNCHANGED <<text, snapshot>>

\* The weights are trained further or replaced; caches made with them stay around.
Modify(model) ==
  /\ weights' = model
  /\ UNCHANGED <<text, cache, outputs, snapshot>>

Save ==
  /\ Present(cache)
  /\ snapshot' = cache
  /\ UNCHANGED <<weights, text, cache, outputs>>

\* A snapshot must name these weights and hold what they compute.
Restore ==
  /\ Present(snapshot) /\ snapshot.model = weights
  /\ snapshot = Prefilled(weights, snapshot.tokens)
  /\ cache' = Prefilled(weights, snapshot.tokens)
  /\ text' = snapshot.tokens
  /\ outputs' = [r \in DOMAIN snapshot.tokens |-> <<>>]
  /\ UNCHANGED <<weights, snapshot>>

CacheNext ==
  \/ \E n \in 1..MaxRows : \E rows \in BatchesOf(n, 1..(BlockSize + 1)) : Prefill(rows)
  \/ Present(cache) /\ \E chunks \in BatchesOf(Len(cache.tokens), 1..MaxChunk) : Decode(chunks)
  \/ \E n \in 1..MaxRows : \E indexes \in [1..n -> 1..MaxRows] : Reorder(indexes)
  \/ \E model \in Weights : Migrate(model) \/ Modify(model)
  \/ Save \/ Restore

CacheSpec == CacheInit /\ [][CacheNext]_cacheVars

-------------------------------------------------------------------------------
(* Properties                                                                 *)

\* However a cache came about, it holds what a pass of its own model over the last
\* BlockSize tokens of each row computes, and so did every logit that was returned:
\* no state of another position, window, row or model is ever attended to.
CacheIsExact ==
  Present(cache) => \A r \in Rows :
    /\ cache.tokens[r] = Cropped(text[r])
    /\ cache.states[r] = Full(cache.model, cache.tokens[r])
    /\ \A j \in DOMAIN outputs[r] :
         LET behind == Len(outputs[r]) - j
             seen == SubSeq(text[r], 1, Len(text[r]) - behind)
         IN outputs[r][j] = Last(Full(cache.model, Cropped(seen)))

================================================================================
