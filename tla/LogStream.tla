------------------------------ MODULE LogStream ------------------------------
(***************************************************************************)
(* StatsService.StreamLogsAsync and DrainLines: a container's output,      *)
(* which arrives in chunks of any size, is decoded chunk by chunk, glued   *)
(* to what is pending, cut at line feeds and handed to the hub line by     *)
(* line.                                                                   *)
(*                                                                         *)
(* The output is a sequence of bytes, each tagged with the stream (stdout  *)
(* or stderr) the container wrote it to; a chunk comes from one stream.    *)
(* Bytes are abstracted to what the code distinguishes: "LF", "CR", an     *)
(* ordinary character "x", and the two halves of a character that UTF-8    *)
(* encodes in two bytes.                                                   *)
(***************************************************************************)
EXTENDS Naturals, Sequences, FiniteSets, SequencesExt

CONSTANTS
    Alphabet,   \* the bytes that occur, a subset of Bytes
    Streams,    \* the streams the container writes to
    MaxBytes,   \* bound: the length of the output
    BufferSize  \* LogBufferSize; 8192 in the code

Bytes == {"x", "LF", "CR", "lead", "trail"}

ASSUME LogAssumption ==
    /\ Alphabet \subseteq Bytes
    /\ BufferSize \in Nat \ {0}
    /\ MaxBytes \in Nat

VARIABLES
    output,     \* what the container writes
    consumed,   \* how many bytes of it were read
    pending,    \* decoded text without a line feed yet (StringBuilder)
    ready,      \* lines DrainLines has cut and the hub has not pulled
    lines,      \* lines the hub has pulled
    pc,         \* "reading" (the loop's head), "awaiting" (a read is under way),
                \* "yielding", "flushed", "ended"
    cancelled   \* the cancellation token

vars == <<output, consumed, pending, ready, lines, pc, cancelled>>

\* A decoded character remembers the stream it came from.
Chars == [ch : {"x", "LF", "CR", "wide", "?"}, from : Streams]
Texts == Seq(Chars)

TypeOK ==
    /\ output \in Seq([byte : Alphabet, from : Streams])
    /\ consumed \in 0..Len(output)
    /\ pending \in Texts
    /\ ready \in Seq(Texts)
    /\ lines \in Seq(Texts)
    /\ pc \in {"reading", "awaiting", "yielding", "flushed", "ended"}
    /\ cancelled \in BOOLEAN

\* Output is UTF-8: in each stream every lead byte is followed by its trail.
OfStream(out, s) == SelectSeq(out, LAMBDA b : b.from = s)

WellEncoded(out) ==
    \A s \in Streams :
        LET own == OfStream(out, s)
        IN  /\ \A i \in 1..Len(own) :
                  own[i].byte = "trail" => i > 1 /\ own[i - 1].byte = "lead"
            /\ \A i \in 1..Len(own) :
                  own[i].byte = "lead" => i < Len(own) /\ own[i + 1].byte = "trail"

Init ==
    /\ output \in {out \in BoundedSeq([byte : Alphabet, from : Streams], MaxBytes) :
                      WellEncoded(out)}
    /\ consumed = 0
    /\ pending = <<>>
    /\ ready = <<>>
    /\ lines = <<>>
    /\ pc = "reading"
    /\ cancelled = FALSE

-----------------------------------------------------------------------------

(***************************************************************************)
(* Encoding.UTF8.GetString: a lead byte with its trail byte is one         *)
(* character, a half on its own is the replacement character.              *)
(***************************************************************************)
Pair(bytes, i) ==
    bytes[i].byte = "lead" /\ i < Len(bytes) /\ bytes[i + 1].byte = "trail"

Char(bytes, i) ==
    [ch   |-> IF Pair(bytes, i) THEN "wide"
              ELSE IF bytes[i].byte \in {"lead", "trail"} THEN "?"
              ELSE bytes[i].byte,
     from |-> bytes[i].from]

Decode(bytes, text, i) ==
    IF i > 1 /\ Pair(bytes, i - 1) THEN text ELSE Append(text, Char(bytes, i))

GetString(bytes) ==
    LET upTo[n \in 0..Len(bytes)] == IF n = 0 THEN <<>> ELSE Decode(bytes, upTo[n - 1], n)
    IN  upTo[Len(bytes)]

IsLF(c) == c.ch = "LF"

\* line.TrimEnd('\r')
TrimEnd(text) ==
    SubSeq(text, 1, SelectLastInSeq(text, LAMBDA c : c.ch # "CR"))

\* complete.Split('\n'): one piece more than there are line feeds.
Cut(pieces, c) ==
    IF IsLF(c) THEN Append(pieces, <<>>)
    ELSE [pieces EXCEPT ![Len(pieces)] = Append(@, c)]

Split(text) ==
    LET upTo[n \in 0..Len(text)] == IF n = 0 THEN << <<>> >> ELSE Cut(upTo[n - 1], text[n])
    IN  upTo[Len(text)]

\* DrainLines: what is before the last line feed is cut into lines, what is
\* after it stays pending.
Drained(text) ==
    LET last == SelectLastInSeq(text, IsLF)
    IN  IF last = 0
        THEN [lines |-> <<>>, rest |-> text]
        ELSE [lines |-> LET pieces == Split(SubSeq(text, 1, last - 1))
                        IN  [k \in DOMAIN pieces |-> TrimEnd(pieces[k])],
              rest  |-> SubSeq(text, last + 1, Len(text))]

-----------------------------------------------------------------------------

\* ReadOutputAsync returns a chunk of one stream, at most a buffer long.
Chunk(n) == SubSeq(output, consumed + 1, consumed + n)

\* The head of the loop looks at the token; the read is given it, but what was
\* read may still be returned after the token is cancelled.
Await ==
    /\ pc = "reading"
    /\ ~cancelled
    /\ pc' = "awaiting"
    /\ UNCHANGED <<output, consumed, pending, ready, lines, cancelled>>

\* Mutant of ReadChunk: only the new chunk is drained.
ReadChunkAlone ==
    /\ pc = "awaiting"
    /\ \E n \in 1..BufferSize :
          /\ consumed + n <= Len(output)
          /\ Cardinality({Chunk(n)[i].from : i \in 1..n}) = 1
          /\ consumed' = consumed + n
          /\ LET drained == Drained(GetString(Chunk(n)))
             IN  /\ pending' = pending \o drained.rest
                 /\ ready' = drained.lines
                 /\ pc' = IF drained.lines = <<>> THEN "reading" ELSE "yielding"
    /\ UNCHANGED <<output, lines, cancelled>>

ReadChunk ==
    /\ pc = "awaiting"
    /\ \E n \in 1..BufferSize :
          /\ consumed + n <= Len(output)
          /\ Cardinality({Chunk(n)[i].from : i \in 1..n}) = 1
          /\ consumed' = consumed + n
          /\ LET drained == Drained(pending \o GetString(Chunk(n)))
             IN  /\ pending' = drained.rest
                 /\ ready' = drained.lines
                 /\ pc' = IF drained.lines = <<>> THEN "reading" ELSE "yielding"
    /\ UNCHANGED <<output, lines, cancelled>>

\* Mutant of YieldLine: the last line cut is held back.
YieldAllButLast ==
    /\ pc = "yielding"
    /\ Len(ready) > 1
    /\ lines' = Append(lines, Head(ready))
    /\ ready' = Tail(ready)
    /\ UNCHANGED <<output, consumed, pending, pc, cancelled>>

\* yield return line: the hub pulls the next line.
YieldLine ==
    /\ pc = "yielding"
    /\ lines' = Append(lines, Head(ready))
    /\ ready' = Tail(ready)
    /\ pc' = IF Len(ready) = 1 THEN "reading" ELSE "yielding"
    /\ UNCHANGED <<output, consumed, pending, cancelled>>

\* The token is found cancelled between two reads, or a read finds the end of
\* the output.
LoopEnds ==
    \/ pc = "reading" /\ cancelled
    \/ pc = "awaiting" /\ consumed = Len(output)

\* Mutant of Flush: an unfinished last line is lost.
FlushNothing ==
    /\ LoopEnds
    /\ pc' = "flushed"
    /\ UNCHANGED <<output, consumed, pending, ready, lines, cancelled>>

\* Whichever way the loop ends, the rest is handed out.
Flush ==
    /\ LoopEnds
    /\ pc' = "flushed"
    /\ lines' = IF pending # <<>> THEN Append(lines, pending) ELSE lines
    /\ UNCHANGED <<output, consumed, pending, ready, cancelled>>

\* Mutant of ReadFails: the read is not given the token.
ReadFailsUncancelled ==
    /\ pc = "awaiting"
    /\ ~cancelled
    /\ pc' = "ended"
    /\ UNCHANGED <<output, consumed, pending, ready, lines, cancelled>>

\* A read that is cancelled, or fails, leaves the method with an exception.
ReadFails ==
    /\ pc = "awaiting"
    /\ pc' = "ended"
    /\ UNCHANGED <<output, consumed, pending, ready, lines, cancelled>>

Finish ==
    /\ pc = "flushed"
    /\ pc' = "ended"
    /\ UNCHANGED <<output, consumed, pending, ready, lines, cancelled>>

Cancel ==
    /\ ~cancelled
    /\ pc # "ended"
    /\ cancelled' = TRUE
    /\ UNCHANGED <<output, consumed, pending, ready, lines, pc>>

Next == Await \/ ReadChunk \/ YieldLine \/ Flush \/ ReadFails \/ Finish \/ Cancel

\* The hub keeps pulling, and the method runs on between two awaits.  A read may
\* take for ever while the container writes nothing, until its token is
\* cancelled: then it returns a chunk, or throws.
Fairness ==
    WF_vars(Await \/ YieldLine \/ Finish \/ (cancelled /\ (Flush \/ ReadFails)))

Spec == Init /\ [][Next]_vars /\ Fairness

-----------------------------------------------------------------------------
(***************************************************************************)
(* The reference: cut the whole output at once.                            *)
(***************************************************************************)

\* What has been read, decoded as if it had come in one piece.
SoFar == GetString(SubSeq(output, 1, consumed))

\* The lines that are complete in a text, and the text after them.
CompleteLines(text) == Drained(text).lines
Unfinished(text) == Drained(text).rest

\* However the output is cut into chunks, the lines handed out or ready are
\* exactly the complete lines of what was read, in order, none lost, none
\* repeated, none joined, and the pending text is what follows them.
ChunksInvisible ==
    pc \in {"reading", "awaiting", "yielding"} =>
        /\ lines \o ready = CompleteLines(SoFar)
        /\ pending = Unfinished(SoFar)

\* When the stream has run to its end the hub has all the complete lines and,
\* as a last line, whatever followed the last line feed.
EndDeliversAll ==
    pc = "flushed" =>
        lines = CompleteLines(SoFar) \o
                (IF Unfinished(SoFar) = <<>> THEN <<>> ELSE <<Unfinished(SoFar)>>)

\* A cancelled stream ends.
CancelEnds == cancelled ~> pc = "ended"

\* Lines that were cut all reach the hub; with ChunksInvisible, every complete
\* line of what was read does, without waiting for more output.
LinesArrive == ready # <<>> ~> ready = <<>>

-----------------------------------------------------------------------------
(***************************************************************************)
(* What comments say, and the code does not do                             *)
(***************************************************************************)

\* "Streams log lines for a container": the lines are made of the characters
\* the container wrote.
CharactersSurvive ==
    \A k \in DOMAIN lines : \A i \in DOMAIN lines[k] : lines[k][i].ch # "?"
=============================================================================
