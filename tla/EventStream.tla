------------------------------ MODULE EventStream ------------------------------
(***************************************************************************)
(* http_stream.py and the client around it (http_measurements.py): the     *)
(* answer of /stream arrives in chunks cut anywhere, also inside a line or *)
(* a character, is decoded as it comes, and may be cancelled, cut off or   *)
(* overtaken by the deadline.                                              *)
(*                                                                         *)
(* A byte is [kind, value]: the event line and the data of a frame are one *)
(* byte each, but the text of an error is a character of two bytes.  The   *)
(* token with index i is i; the output of a done frame is its number of    *)
(* tokens.                                                                 *)
(***************************************************************************)
EXTENDS Integers, Sequences, SequencesExt

CONSTANTS
  MaxTokens,       \* of the request
  MaxBytes, MaxEventBytes,
  MaxFrames        \* bound: frames the server writes

ASSUME StreamAssumption ==
  MaxTokens \in Nat \ {0} /\ MaxBytes \in Nat /\ MaxEventBytes \in Nat /\ MaxFrames \in Nat

VARIABLES
  wire,       \* bytes the server writes
  received,   \* how many of them have been read
  cancelAfter,\* tokens after which the client closes the stream, 0 for never
  decoder,
  outcome     \* of the measurement

streamVars == <<wire, received, cancelAfter, decoder, outcome>>

-------------------------------------------------------------------------------
(* The wire                                                                   *)

Byte(kind, value) == [kind |-> kind, value |-> value]
Newline == Byte("newline", 0)
Return == Byte("return", 0)

TokenFrame(i, eol) == <<Byte("token", 0)>> \o eol \o <<Byte("data", i)>> \o eol \o eol
DoneFrame(n) == <<Byte("done", 0), Newline, Byte("data", n), Newline, Newline>>
ErrorFrame ==
  <<Byte("error", 0), Newline, Byte("lead", 0), Byte("tail", 0), Newline, Newline>>

\* What a server may write: tokens in order or not, with either line ending,
\* terminals, blank lines, and an event without data.
Frames ==
  {TokenFrame(i, <<Newline>>) : i \in 0..(MaxTokens - 1)}
    \cup {TokenFrame(0, <<Return, Newline>>), ErrorFrame, <<Newline>>,
          <<Byte("token", 0), Newline, Newline>>}
    \cup {DoneFrame(n) : n \in 0..MaxTokens}

Wires == {FlattenSeq(frames) : frames \in UNION {[1..n -> Frames] : n \in 0..MaxFrames}}

-------------------------------------------------------------------------------
(* GenerationEventDecoder                                                     *)

Fresh == [text |-> <<>>, lines |-> <<>>, eventBytes |-> 0, total |-> 0, tokens |-> <<>>,
          output |-> -1, error |-> FALSE, status |-> "open"]

Fail(d) == [d EXCEPT !.status = "protocol_error"]
Terminated(d) == d.output # -1 \/ d.error

\* A lead byte may still wait for its tail.
ValidUtf8(text) ==
  \A i \in DOMAIN text :
    /\ text[i].kind = "tail" => i > 1 /\ text[i - 1].kind = "lead"
    /\ text[i].kind = "lead" /\ i < Len(text) => text[i + 1].kind = "tail"

\* An event and its data; the consumer counts the tokens it is given and may stop.
Event(d) ==
  LET name == d.lines[1][1].kind
      data == d.lines[2][1]
      next == [d EXCEPT !.lines = <<>>, !.eventBytes = 0]
  IN CASE name = "token" ->
            IF /\ data.kind = "data" /\ data.value = Len(d.tokens)
               /\ Len(d.tokens) < MaxTokens
            THEN [next EXCEPT !.tokens = Append(@, data.value),
                              !.status = IF Len(d.tokens) + 1 = cancelAfter
                                         THEN "cancelled" ELSE "open"]
            ELSE Fail(next)
       [] name = "done" ->
            IF data.kind = "data" /\ data.value = Len(d.tokens)
            THEN [next EXCEPT !.output = data.value] ELSE Fail(next)
       [] name = "error" ->
            IF data.kind = "lead" THEN [next EXCEPT !.error = TRUE] ELSE Fail(next)

WellFormed(lines) ==
  /\ Len(lines) = 2
  /\ lines[1][1].kind \in {"token", "done", "error"}
  /\ lines[2][1].kind \in {"data", "lead"}

\* A complete line, without its newline and the return before it.
Line(d, ended) ==
  LET line == IF ended # <<>> /\ Last(ended) = Return THEN Front(ended) ELSE ended
      counted == [d EXCEPT !.text = <<>>, !.eventBytes = @ + Len(line) + 1]
  IN IF Contains(line, Return) \/ (line # <<>> /\ Terminated(d)) THEN Fail(counted)
     ELSE IF line # <<>> THEN [counted EXCEPT !.lines = Append(@, line)]
     ELSE IF d.lines = <<>> THEN counted
     ELSE IF WellFormed(d.lines) THEN Event(counted) ELSE Fail(counted)

\* Bytes up to a newline, or to the end of what was received.
Piece(d, piece) ==
  LET text == d.text \o piece
      counted == [d EXCEPT !.total = @ + Len(piece)]
  IN IF d.status # "open" THEN d
     ELSE IF \/ counted.total > MaxBytes
             \/ d.eventBytes + Len(text) > MaxEventBytes
             \/ ~ValidUtf8(text) THEN Fail(counted)
     ELSE IF Last(text) = Newline THEN Line(counted, Front(text))
     ELSE [counted EXCEPT !.text = text]

\* The pieces of a chunk.
Cut(pieces, byte) ==
  IF pieces = <<>> \/ Last(Last(pieces)) = Newline
  THEN Append(pieces, <<byte>>)
  ELSE Append(Front(pieces), Append(Last(pieces), byte))

Pieces(chunk) == FoldLeft(LAMBDA pieces, byte : Cut(pieces, byte), <<>>, chunk)

\* Variant: a chunk is decoded as a whole before its events are handed over.
FeedEagerly(d, chunk) ==
  LET all == FoldLeft(Piece, d, Pieces(chunk))
  IN IF all.status = "protocol_error" THEN Fail(d) ELSE all

\* iter_events: each event is handed over before the next bytes are looked at.
Feed(d, chunk) == FoldLeft(LAMBDA e, piece : Piece(e, piece), d, Pieces(chunk))

-------------------------------------------------------------------------------
(* measure_http_generation                                                    *)

StreamInit ==
  /\ wire \in Wires
  /\ received = 0
  /\ cancelAfter \in 0..(MaxTokens - 1)
  /\ decoder = Fresh
  /\ outcome = "none"

Receiving == outcome = "none" /\ decoder.status = "open"

Receive(n) ==
  /\ Receiving /\ received + n <= Len(wire)
  /\ decoder' = Feed(decoder, SubSeq(wire, received + 1, received + n))
  /\ received' = received + n
  /\ UNCHANGED <<wire, cancelAfter, outcome>>

\* The stream ends, wherever it was cut.  A whole answer may also give its
\* finish_reason, cancelled or deadline, as its outcome: "completed" is all three.
EndOfStream ==
  /\ Receiving
  /\ outcome' = IF /\ decoder.text = <<>> /\ decoder.lines = <<>>
                   /\ decoder.output # -1
                THEN "completed" ELSE "protocol_error"
  /\ UNCHANGED <<wire, received, cancelAfter, decoder>>

\* The client leaves the loop, by an event or an exception.
Stop ==
  /\ outcome = "none" /\ decoder.status # "open"
  /\ outcome' = decoder.status
  /\ UNCHANGED <<wire, received, cancelAfter, decoder>>

Reset ==
  /\ Receiving
  /\ outcome' = "transport_error"
  /\ UNCHANGED <<wire, received, cancelAfter, decoder>>

\* The watchdog, or the clock at the end, overrules whatever came before.
Deadline ==
  /\ outcome # "deadline"
  /\ outcome' = "deadline"
  /\ UNCHANGED <<wire, received, cancelAfter, decoder>>

StreamNext ==
  \/ \E n \in 1..Len(wire) : Receive(n)
  \/ EndOfStream \/ Stop \/ Reset \/ Deadline

StreamSpec == StreamInit /\ [][StreamNext]_streamVars

-------------------------------------------------------------------------------
(* Properties                                                                 *)

\* What the client has seen.
View(d) == <<d.tokens, d.output, d.error, d.status>>

\* Byte for byte.
FeedByte(d, byte) == Feed(d, <<byte>>)
Single(bytes) == FoldLeft(LAMBDA d, byte : FeedByte(d, byte), Fresh, bytes)

\* What was written, without the ends of lines.
Say(said, byte) == IF byte \in {Newline, Return} THEN said ELSE Append(said, byte)
Spoken(bytes) == FoldLeft(LAMBDA said, byte : Say(said, byte), <<>>, bytes)

\* What the client has seen is a matter of the bytes it received, not of how they
\* were cut into chunks: byte for byte they give the same tokens, the same terminal
\* and the same verdict.
ChunksDoNotMatter == View(decoder) = View(Single(SubSeq(wire, 1, received)))

\* A measurement that completed has received whole answers only: every token in
\* order, then the output that repeats them, and nothing else but ends of lines.
CompletedIsWhole ==
  outcome = "completed" =>
    LET said == Spoken(SubSeq(wire, 1, received))
        n == Len(decoder.tokens)
    IN /\ \A k \in 1..n : said[2 * k - 1].kind = "token" /\ said[2 * k] = Byte("data", k - 1)
       /\ SubSeq(said, 2 * n + 1, Len(said)) = <<Byte("done", 0), Byte("data", n)>>

================================================================================
