--------------------------- MODULE ResponseReader ---------------------------
(* How a synthesis answer is put on the wire (qwen3-tts-server,               *)
(* src/multipart.rs, src/wav.rs) and how the load client reads it back        *)
(* (qwen3-tts-http-bench, src/http.rs, src/multipart.rs, src/wav.rs and the   *)
(* response half of src/runner.rs).                                           *)
(*                                                                            *)
(* The wire is a sequence of atoms: CR and LF, and one atom for each line     *)
(* content, JSON document, sample byte or RIFF field.  An atom that has been  *)
(* received also carries the time it arrived, counted in atoms received.      *)
EXTENDS Integers, Sequences, FiniteSetsExt, SequencesExt

CONSTANTS
  MaxFraming,   \* MAX_HEADER_BYTES, MAX_CHUNK_LINE_BYTES and MAX_PART_HEADER_BYTES,
                \* in atoms
  MaxPayload    \* MAX_PART_PAYLOAD_BYTES, in atoms

ASSUME ReaderAssumption == MaxFraming \in Nat /\ MaxPayload \in Nat

Atom(is, v) == [is |-> is, v |-> v]
CrLf == <<Atom("cr", 0), Atom("lf", 0)>>
Kinds(atoms) == [i \in DOMAIN atoms |-> atoms[i].is]
Take(s, n) == SubSeq(s, 1, n)
From(s, n) == SubSeq(s, n, Len(s))

-----------------------------------------------------------------------------
(* Encoding. *)

\* A response head: status, framing, content type, request id, finish reason
\* and sample rate travel in one line here.
HeadWire(head) == <<Atom("fields", head)>> \o CrLf \o CrLf

PcmWire(bytes) == [i \in 1..bytes |-> Atom("pcm", 0)]
Payload(part) == IF part.kind = "audio" THEN PcmWire(part.bytes) ELSE <<Atom("json", 0)>>

\* multipart::part
PartWire(part, close) ==
  <<Atom("boundary", 0)>> \o CrLf \o <<Atom("describe", part)>> \o CrLf
  \o <<Atom("length", Len(Payload(part)))>> \o CrLf \o CrLf
  \o Payload(part) \o CrLf
  \o (IF close THEN <<Atom("closing", 0)>> \o CrLf ELSE <<>>)

\* Chunked framing, one chunk for each frame of the body stream.
Chunk(bytes) == <<Atom("size", Len(bytes))>> \o CrLf \o bytes \o CrLf
LastChunk == <<Atom("size", 0)>> \o CrLf \o CrLf

\* wav::encode_pcm16_mono: a RIFF field counts the atoms after it, a chunk
\* header those of its payload.
RiffChunk(id, bytes) == <<Atom(id, Len(bytes))>> \o bytes
WavWire(bytes) ==
  LET chunks == RiffChunk("fmt", <<Atom("format", 0), Atom("rate", 0)>>) \o RiffChunk("data", PcmWire(bytes))
  IN <<Atom("riff", Len(chunks))>> \o chunks

-----------------------------------------------------------------------------
(* TimedBuffer. *)

\* One byte of the scan of find: how much of the needle has matched.
Matched(needle, matched, kind) ==
  IF kind = needle[matched + 1] THEN matched + 1
  ELSE IF kind = needle[1] THEN 1 ELSE 0

\* TimedBuffer::find: the index of the last atom of the needle, 0 if absent.
Find(buffer, needle) ==
  LET scan[n \in 0..Len(buffer)] ==   \* <<matched, index of the first match's end>>
        IF n = 0 THEN <<0, 0>>
        ELSE LET before == scan[n - 1]
                 m == Matched(needle, before[1], buffer[n].is)
             IN IF before[2] > 0 THEN before
                ELSE <<m, IF m = Len(needle) THEN n ELSE 0>>
  IN scan[Len(buffer)][2]

Line == <<"cr", "lf">>
Blank == <<"cr", "lf", "cr", "lf">>
Ready(buffer, needle) == Find(buffer, needle) > 0

\* The atoms before the delimiter, and those after it.
Before(buffer, needle) == Take(buffer, Find(buffer, needle) - Len(needle))
After(buffer, needle) == From(buffer, Find(buffer, needle) + 1)

\* read_raw_line and read_until: too much stands before the delimiter, be it in
\* the buffer or still to come.
Exceeds(buffer, needle) ==
  IF Ready(buffer, needle) THEN Len(Before(buffer, needle)) > MaxFraming
  ELSE Len(buffer) > MaxFraming

\* TimedBuffer::pop_segment: how many of the first atoms arrived together,
\* at most "most".
SegmentLength(buffer, most) ==
  LET together == {n \in 1..Min({Len(buffer), most}) :
                     \A i \in 1..n : buffer[i].at = buffer[1].at}
  IN Max(together)

-----------------------------------------------------------------------------
(* HttpBody: transfer is [mode, left], the chunk state being part of mode. *)

\* select_transfer
Transfer(head) ==
  CASE head.chunked /\ head.length >= 0 -> [mode |-> "ambiguous", left |-> 0]
    [] head.chunked /\ head.length < 0 -> [mode |-> "size", left |-> 0]
    [] ~head.chunked /\ head.length >= 0 -> [mode |-> "length", left |-> head.length]
    [] OTHER -> [mode |-> "close", left |-> 0]

\* Does next_segment have to read from the socket before it can go on?
NeedsRead(transfer, raw) ==
  CASE transfer.mode \in {"size", "trailers"} -> ~Ready(raw, Line)
    [] transfer.mode \in {"length", "data"} -> transfer.left > 0 /\ raw = <<>>
    [] transfer.mode = "crlf" -> Len(raw) < 2
    [] transfer.mode = "close" -> raw = <<>>
    [] OTHER -> FALSE

\* One round of next_segment: the new transfer state and raw buffer, with the
\* segment it yields, "none" when the loop goes on, "end" or an error.
Round(mode, left, raw, yields, segment) ==
  [transfer |-> [mode |-> mode, left |-> left], raw |-> raw,
   yields |-> yields, segment |-> segment]
Broken(transfer, raw) == Round(transfer.mode, transfer.left, raw, "error", <<>>)

PopSegment(mode, left, raw) ==
  LET n == SegmentLength(raw, left)
  IN Round(mode, left - n, From(raw, n + 1), "segment", Take(raw, n))

\* A CRLF-terminated framing line in hand; a size may have extensions.
SizeLine(transfer, raw) ==
  LET line == Before(raw, Line) rest == After(raw, Line)
  IN IF line = <<>> \/ (\E i \in DOMAIN line : (line[i].is = "size") # (i = 1)) THEN Broken(transfer, raw)
     ELSE IF line[1].v = 0 THEN Round("trailers", 0, rest, "none", <<>>)
     ELSE Round("data", line[1].v, rest, "none", <<>>)
TrailerLine(transfer, raw) ==
  LET line == Before(raw, Line) rest == After(raw, Line)
  IN IF line = <<>> THEN Round("end", 0, rest, "none", <<>>)
     ELSE IF Kinds(line) = <<"trailer">> THEN Round("trailers", 0, rest, "none", <<>>)
     ELSE Broken(transfer, raw)

\* DataCrlf
AfterData(transfer, raw) ==
  IF Kinds(Take(raw, 2)) = Line THEN Round("size", 0, From(raw, 3), "none", <<>>)
  ELSE Broken(transfer, raw)

\* The bytes after the declared end of the message are refused.
NothingFollows(raw) == raw = <<>>
Ended(transfer, raw) ==
  IF NothingFollows(raw) THEN Round(transfer.mode, 0, raw, "end", <<>>)
  ELSE Broken(transfer, raw)

NextRound(transfer, raw) ==
  CASE transfer.mode = "size" -> SizeLine(transfer, raw)
    [] transfer.mode = "data" /\ transfer.left = 0 -> Round("crlf", 0, raw, "none", <<>>)
    [] transfer.mode = "data" /\ transfer.left > 0 -> PopSegment("data", transfer.left, raw)
    [] transfer.mode = "crlf" -> AfterData(transfer, raw)
    [] transfer.mode = "trailers" -> TrailerLine(transfer, raw)
    [] transfer.mode = "end" -> Ended(transfer, raw)
    [] transfer.mode = "length" /\ transfer.left > 0 -> PopSegment("length", transfer.left, raw)
    [] transfer.mode = "length" /\ transfer.left = 0 -> Ended(transfer, raw)
    [] OTHER -> [PopSegment("close", Len(raw), raw) EXCEPT !.transfer.left = 0]

\* What next_segment makes of the end of the connection.
AtEof(transfer) == IF transfer.mode = "close" THEN "end" ELSE "error"

-----------------------------------------------------------------------------
(* NativeStreamState: events and audio parts in order. *)

NoStream == [started |-> FALSE, ended |-> FALSE, final |-> FALSE,
             sequence |-> 0, frame |-> 0, sample |-> 0, first |-> 0]

StartAllowed(s) == ~s.started /\ s.sequence = 0 /\ ~s.ended
EndAllowed(s) == s.started /\ s.sequence > 0 /\ ~s.ended

\* validate_end_metrics
MetricsAgree(s, part) == part.packets = s.sequence /\ part.samples = s.sample

AudioAllowed_AfterFinal(s) == s.started /\ ~s.ended
AudioAllowed(s) == s.started /\ ~s.ended /\ ~s.final
Continues(s, part) ==
  /\ part.sequence = s.sequence
  /\ part.first_sample = s.sample
  /\ part.first_frame = s.frame
  /\ part.sample_count > 0 /\ part.frames > 0

\* handle_json_event and handle_audio_part: is the part accepted after s, under
\* the request id of the response head?
PartAccepted(s, part, id, bytes) ==
  CASE part.kind = "start" -> part.id = id /\ StartAllowed(s) /\ part.rate = "24k"
    [] part.kind = "end" -> /\ part.id = id /\ EndAllowed(s)
                            /\ part.reason \in {"stop", "length"} /\ MetricsAgree(s, part)
    [] part.kind = "audio" -> /\ AudioAllowed(s) /\ part.rate = "24k" /\ Continues(s, part)
                              /\ bytes = 2 * part.sample_count /\ bytes > 0
    [] OTHER -> FALSE

FirstAudio_Latest(s, at) == at
\* first_audio_at.get_or_insert(arrival)
FirstAudio(s, at) == IF s.first = 0 THEN at ELSE s.first

PartRead(s, part, at) ==
  CASE part.kind = "start" -> [s EXCEPT !.started = TRUE]
    [] part.kind = "end" -> [s EXCEPT !.ended = TRUE]
    [] OTHER -> [s EXCEPT !.sequence = @ + 1, !.sample = @ + part.sample_count,
                          !.frame = @ + part.frames, !.final = part.final,
                          !.first = FirstAudio(s, at)]

\* validate_complete
StreamComplete(s) == s.started /\ s.ended /\ s.final /\ s.first > 0

-----------------------------------------------------------------------------
(* validate_wav. *)

\* The index after the chunk that starts at i, its padding included.
ChunkEnd(wav, i) == i + 1 + wav[i].v + (wav[i].v % 2)

\* Where the chunks of a RIFF file start, following the sizes from the first.
ChunkStarts(wav) ==
  LET reach[n \in Nat] ==
        IF n = 0 THEN {2}
        ELSE reach[n - 1] \cup
               {ChunkEnd(wav, i) : i \in {j \in reach[n - 1] : j <= Len(wav)
                                            /\ wav[j].is \in {"fmt", "data", "other"}}}
  IN reach[4]

OneChunk(wav, starts, id) == Quantify(starts, LAMBDA i : i <= Len(wav) /\ wav[i].is = id) = 1

WavOk(wav) ==
  /\ wav # <<>> /\ wav[1].is = "riff" /\ wav[1].v = Len(wav) - 1
  /\ LET starts == ChunkStarts(wav)
     IN /\ Max(starts) = Len(wav) + 1
        /\ \A i \in starts : i <= Len(wav) => wav[i].is \in {"fmt", "data", "other"}
        /\ OneChunk(wav, starts, "fmt") /\ OneChunk(wav, starts, "data")
        /\ \A i \in starts : i <= Len(wav) =>
             /\ wav[i].is = "fmt" => wav[i].v = 2 /\ wav[i + 1].is = "format"
             /\ wav[i].is = "data" => wav[i].v > 0 /\ wav[i].v % 2 = 0

DataAt(wav) == CHOOSE i \in ChunkStarts(wav) : i <= Len(wav) /\ wav[i].is = "data"
=============================================================================
