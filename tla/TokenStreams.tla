------------------------------ MODULE TokenStreams ------------------------------
(***************************************************************************)
(* token_stream.py and token_encoder_stream.py: the two tokenizer streams. *)
(* A text stream turns tokens into text as they are generated, and a token *)
(* may end inside a character; a document stream turns chunks of bytes     *)
(* into tokens and encodes at the end of a document only.  Both hold a     *)
(* buffer, are finalized once, refuse a call that does not fit, and go on  *)
(* from a snapshot, which may be older than what followed it.              *)
(*                                                                         *)
(* A document's tokens are those of BytePairs: here, the document itself.  *)
(***************************************************************************)
EXTENDS Integers, Sequences, FiniteSets, SequencesExt

CONSTANTS
  Characters,      \* byte sequences of which none is a prefix of another
  Vocabulary,      \* byte sequences of tokens
  MaxDocument,     \* max_document_bytes
  MaxFed           \* bound: bytes and ends of documents fed

\* A character has bytes; a document may be empty.
ASSUME TokensAssumption ==
  /\ Characters # {} /\ <<>> \notin Characters
  /\ \A c \in Characters \cup Vocabulary : c \in Seq(ToSet(c))
  /\ MaxDocument \in Nat

VARIABLES
  stream,      \* "text" or "documents"
  held,        \* [buffer, closed]
  given,       \* what the calls returned: characters, or documents
  fed,         \* what the accepted calls were given
  saved        \* a snapshot, and the history it belongs to

tokenVars == <<stream, held, given, fed, saved>>

End == "end"
Alphabetical == UNION {ToSet(c) : c \in Characters}
Unfinished == UNION {{SubSeq(c, 1, n) : n \in 0..(Len(c) - 1)} : c \in Characters}

-------------------------------------------------------------------------------
(* codecs' incremental decoder, strict                                        *)

ScanByte(d, b) ==
  LET rest == Append(d.rest, b)
  IN IF d.error THEN d
     ELSE IF rest \in Characters THEN [d EXCEPT !.whole = Append(@, rest), !.rest = <<>>]
     ELSE IF rest \in Unfinished THEN [d EXCEPT !.rest = rest]
     ELSE [d EXCEPT !.error = TRUE]

\* Whole characters, the unfinished rest, and whether there was an error.
Scan(bytes) ==
  FoldLeft(LAMBDA d, b : ScanByte(d, b), [whole |-> <<>>, rest |-> <<>>, error |-> FALSE], bytes)

-------------------------------------------------------------------------------
(* TokenTextStream                                                            *)

Payloads == {FlattenSeq(tokens) : tokens \in UNION {[1..n -> Vocabulary] : n \in 0..2}}

\* Variant: after an error the decoder starts afresh.
DecodedAfresh(bytes, final) ==
  LET d == Scan(held.buffer \o bytes)
      bad == d.error \/ (final /\ d.rest # <<>>)
  IN IF bad THEN held' = [held EXCEPT !.buffer = <<>>] /\ UNCHANGED <<given, fed>>
     ELSE /\ held' = [buffer |-> d.rest, closed |-> final]
          /\ given' = given \o d.whole
          /\ fed' = fed \o bytes

\* An error is raised with the decoder set back to what it held.
Decoded(bytes, final) ==
  LET d == Scan(held.buffer \o bytes)
      bad == d.error \/ (final /\ d.rest # <<>>)
  IN IF bad THEN UNCHANGED <<held, given, fed>>
     ELSE /\ held' = [buffer |-> d.rest, closed |-> final]
          /\ given' = given \o d.whole
          /\ fed' = fed \o bytes

FeedTokens(bytes, final) ==
  /\ stream = "text" /\ ~held.closed
  /\ Len(fed) + Len(bytes) <= MaxFed
  /\ Decoded(bytes, final)
  /\ UNCHANGED <<stream, saved>>

-------------------------------------------------------------------------------
(* DocumentEncodingStream                                                     *)

\* A chunk beyond the budget is refused as a whole.
FeedChunk(bytes, documentEnd, final) ==
  LET buffer == held.buffer \o bytes
      ends == documentEnd \/ final
  IN /\ stream = "documents" /\ ~held.closed
     /\ Len(buffer) <= MaxDocument
     /\ Len(fed) + Len(bytes) + 1 <= MaxFed
     /\ held' = IF ends THEN [buffer |-> <<>>, closed |-> final]
                ELSE [held EXCEPT !.buffer = buffer]
     /\ given' = IF ends THEN Append(given, buffer) ELSE given
     /\ fed' = fed \o bytes \o (IF ends THEN <<End>> ELSE <<>>)
     /\ UNCHANGED <<stream, saved>>

-------------------------------------------------------------------------------
(* Snapshots                                                                  *)

Now == [held |-> held, given |-> given, fed |-> fed]

Snapshot ==
  /\ saved' = Now
  /\ UNCHANGED <<stream, held, given, fed>>

\* What restore accepts, in a stream of its kind.
Restorable(state) ==
  /\ state.closed => state.buffer = <<>>
  /\ IF stream = "text" THEN state.buffer \in Unfinished
     ELSE Len(state.buffer) <= MaxDocument

\* Into the same stream or another one of the same tokenizer.
RestoreSaved ==
  /\ Restorable(saved.held)
  /\ held' = saved.held /\ given' = saved.given /\ fed' = saved.fed
  /\ UNCHANGED <<stream, saved>>

TokensInit ==
  /\ stream \in {"text", "documents"}
  /\ held = [buffer |-> <<>>, closed |-> FALSE]
  /\ given = <<>> /\ fed = <<>>
  /\ saved = Now

TokensNext ==
  \/ \E bytes \in Payloads, final \in BOOLEAN : FeedTokens(bytes, final)
  \/ \E bytes \in SeqOf(Alphabetical, 2), documentEnd, final \in BOOLEAN :
       FeedChunk(bytes, documentEnd, final)
  \/ Snapshot
  \/ RestoreSaved

TokensSpec == TokensInit /\ [][TokensNext]_tokenVars

-------------------------------------------------------------------------------
(* Properties                                                                 *)

\* However text is cut into tokens and chunks, refused, and taken up again from a
\* snapshot: what a stream returned, with what it holds back, is what it was fed; text
\* is returned in whole characters and nothing but the start of one is held back; a
\* document is encoded as a whole and alone; a finalized stream holds nothing back;
\* and a snapshot is never refused by the stream that wrote it.
StreamsLoseNothing ==
  /\ stream = "text" => /\ FlattenSeq(given) \o held.buffer = fed
                      /\ ToSet(given) \subseteq Characters
                      /\ held.buffer \in Unfinished
  /\ stream = "documents" =>
       FlattenSeq([i \in DOMAIN given |-> Append(given[i], End)]) \o held.buffer = fed
  /\ held.closed => held.buffer = <<>>
  /\ Restorable(saved.held)

================================================================================
