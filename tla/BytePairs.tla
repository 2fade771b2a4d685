------------------------------- MODULE BytePairs -------------------------------
(***************************************************************************)
(* bpe.py and bpe_fast.py: byte-pair merges are learned from a corpus, or  *)
(* loaded, and a text is encoded by them twice: by the reference encoder,  *)
(* which rescans the text for its lowest rank, and by the heap encoder,    *)
(* which links the surviving tokens and remembers pairs it has seen.       *)
(*                                                                         *)
(* Byte values are 0 .. ByteValues - 1; merge number r makes the token     *)
(* ByteValues + r - 1.  Positions start at 1, and 0 is no position.        *)
(***************************************************************************)
EXTENDS Integers, Sequences, FiniteSets, SequencesExt

CONSTANTS
  ByteValues,      \* 256 in the code
  MaxMerges,       \* vocab_size - 256
  MaxPayload,      \* bound: bytes encoded
  Corpora          \* sequences of segments to learn from

ASSUME PairsAssumption ==
  /\ ByteValues \in Nat \ {0} /\ MaxMerges \in Nat /\ MaxPayload \in Nat
  /\ Corpora \subseteq Seq(Seq(0..(ByteValues - 1)))

MinFrequency == 2

VARIABLES
  merges,    \* pairs, by rank
  learner,   \* segments, and what the merges so far make of them; none when loaded
  payload,   \* what the heap encoder works on
  encoder    \* its lists and its heap

pairVars == <<merges, learner, payload, encoder>>

-------------------------------------------------------------------------------
(* The reference: pair counts, merges and expansion                           *)

Token(rank) == ByteValues + rank - 1
PairAt(s, i) == <<s[i], s[i + 1]>>
PairsOf(s) == {PairAt(s, i) : i \in 1..(Len(s) - 1)}

\* Matches that do not overlap, from the left; the new token is in neither side.
MergePair(s, pair, token) ==
  FoldLeft(LAMBDA out, v : IF out # <<>> /\ <<Last(out), v>> = pair
                           THEN Append(Front(out), token) ELSE Append(out, v),
           <<>>, s)

Available(s) == {r \in DOMAIN merges : merges[r] \in PairsOf(s)}

\* ByteTokenizer._encode_bytes: the lowest rank that occurs, everywhere, until none does.
Reference(s) ==
  LET encode[v \in Seq(Nat)] ==
        IF Available(v) = {} THEN v
        ELSE LET r == CHOOSE r \in Available(v) : \A other \in Available(v) : r <= other
             IN encode[MergePair(v, merges[r], Token(r))]
  IN encode[s]

\* decode_bytes
Expand(s) ==
  LET bytes[v \in 0..Token(Len(merges))] ==
        IF v < ByteValues THEN <<v>>
        ELSE LET pair == merges[v - ByteValues + 1] IN bytes[pair[1]] \o bytes[pair[2]]
  IN FlattenSeq([i \in DOMAIN s |-> bytes[s[i]]])

\* What the constructor accepts: unique pairs of tokens that exist before them.
Tables ==
  {table \in UNION {[1..n -> (0..Token(n)) \X (0..Token(n))] : n \in 0..MaxMerges} :
     /\ IsInjective(table)
     /\ \A r \in DOMAIN table : table[r][1] < Token(r) /\ table[r][2] < Token(r)}

-------------------------------------------------------------------------------
(* _train_segments                                                            *)

Occurrences(pair) ==
  LET In(s) == Cardinality({i \in 1..(Len(s) - 1) : PairAt(s, i) = pair})
  IN FoldLeft(LAMBDA n, s : n + In(s), 0, learner.streams)

NotAfter(a, b) == a[1] < b[1] \/ (a[1] = b[1] /\ a[2] <= b[2])
Seen == UNION {PairsOf(learner.streams[i]) : i \in DOMAIN learner.streams}

\* The most frequent pair, the smallest of those as frequent.
Best(pair) ==
  \A other \in Seen :
    \/ Occurrences(pair) > Occurrences(other)
    \/ Occurrences(pair) = Occurrences(other) /\ NotAfter(pair, other)

Learnable(pair) ==
  pair \in Seen /\ Best(pair) /\ Occurrences(pair) >= MinFrequency

Learning == learner.corpus # <<>> /\ payload = <<>>

Learn ==
  /\ Learning /\ Len(merges) < MaxMerges
  /\ \E pair \in Seen :
       /\ Learnable(pair)
       /\ learner' = [learner EXCEPT !.streams =
            [i \in DOMAIN @ |-> MergePair(@[i], pair, Token(Len(merges) + 1))]]
       /\ merges' = Append(merges, pair)
  /\ UNCHANGED <<payload, encoder>>

Learned == Len(merges) = MaxMerges \/ ~\E pair \in Seen : Learnable(pair)

-------------------------------------------------------------------------------
(* _encode_piece: heap entries are <<rank, left, right>>                      *)

\* The pair that starts at a surviving token, if it has a rank.
Offer(e, left) ==
  IF left = 0 \/ ~e.alive[left] \/ e.following[left] = 0 THEN {}
  ELSE {<<r, left, e.following[left]>> :
          r \in {r \in DOMAIN merges :
                   merges[r] = <<e.values[left], e.values[e.following[left]]>>}}

Idle == [values |-> <<>>, alive |-> <<>>, previous |-> <<>>, following |-> <<>>, heap |-> {}]

Linked(s) ==
  LET n == Len(s)
      e == [values |-> s, alive |-> [i \in 1..n |-> TRUE],
            previous |-> [i \in 1..n |-> i - 1],
            following |-> [i \in 1..n |-> IF i = n THEN 0 ELSE i + 1], heap |-> {}]
  IN [e EXCEPT !.heap = UNION {Offer(e, i) : i \in 1..(n - 1)}]

\* Variant: an entry is stale only when one of its tokens is gone or moved away.
StaleByPosition(e, entry) ==
  \/ ~e.alive[entry[2]] \/ ~e.alive[entry[3]]
  \/ e.following[entry[2]] # entry[3]

\* A remembered pair is no longer there.
Stale(e, entry) ==
  \/ ~e.alive[entry[2]] \/ ~e.alive[entry[3]]
  \/ e.following[entry[2]] # entry[3]
  \/ <<e.values[entry[2]], e.values[entry[3]]>> # merges[entry[1]]

Joined(e, rank, left, right) ==
  LET next == e.following[right]
      joined == [e EXCEPT !.values[left] = Token(rank), !.alive[right] = FALSE,
                          !.following[left] = next,
                          !.previous = IF next = 0 THEN @ ELSE [@ EXCEPT ![next] = left]]
  IN [joined EXCEPT !.heap = @ \cup Offer(joined, joined.previous[left]) \cup Offer(joined, left)]

\* heappop: by rank, then by position.
Top(heap) ==
  CHOOSE entry \in heap : \A other \in heap :
    \/ entry[1] < other[1]
    \/ entry[1] = other[1] /\ NotAfter(Tail(entry), Tail(other))

Pop ==
  /\ encoder.heap # {}
  /\ LET entry == Top(encoder.heap)
         popped == [encoder EXCEPT !.heap = @ \ {entry}]
     IN encoder' = IF Stale(encoder, entry) THEN popped
                   ELSE Joined(popped, entry[1], entry[2], entry[3])
  /\ UNCHANGED <<merges, learner, payload>>

\* The merges just learned encode one of the segments they were learned from.
Encode(i) ==
  /\ Learning /\ Learned
  /\ payload' = learner.corpus[i]
  /\ encoder' = Linked(learner.corpus[i])
  /\ UNCHANGED <<merges, learner>>

PairsInit ==
  \/ /\ merges \in Tables
     /\ payload \in UNION {[1..n -> 0..(ByteValues - 1)] : n \in 1..MaxPayload}
     /\ learner = [corpus |-> <<>>, streams |-> <<>>]
     /\ encoder = Linked(payload)
  \/ /\ merges = <<>> /\ payload = <<>> /\ encoder = Idle
     /\ learner \in {[corpus |-> corpus, streams |-> corpus] : corpus \in Corpora}

PairsNext ==
  \/ Learn
  \/ \E i \in DOMAIN learner.corpus : Encode(i)
  \/ Pop

PairsSpec == PairsInit /\ [][PairsNext]_pairVars

-------------------------------------------------------------------------------
(* Properties                                                                 *)

Result == FoldLeft(LAMBDA out, i : IF encoder.alive[i] THEN Append(out, encoder.values[i]) ELSE out,
                   <<>>, [i \in DOMAIN encoder.values |-> i])

\* The heap encoder is the reference encoder: at every step its tokens still spell
\* the text and still lead to the reference's encoding, which they are when the heap
\* is empty; and a trainer's segments are what the merges it learned make of them.
EncodersAgree ==
  /\ Expand(Result) = payload
  /\ Reference(Result) = Reference(payload)
  /\ encoder.heap = {} => Result = Reference(payload)
  /\ Learning /\ Learned =>
       \A i \in DOMAIN learner.corpus : learner.streams[i] = Reference(learner.corpus[i])

================================================================================
