------------------------------ MODULE Exchange ------------------------------
(* One synthesis exchange from end to end: the server process validates its   *)
(* configuration and warms up (qwen3-tts-server, src/main.rs, src/engine.rs), *)
(* one request enters through the load client, another HTTP client, the       *)
(* compatibility alias or the C ABI, passes the checks of RequestPath, is     *)
(* spoken packet by packet (src/server.rs) and answered; the load client      *)
(* reads the answer in pieces of any size (ResponseReader).                   *)
(*                                                                            *)
(* Scheduling, cancellation and time-outs are Scheduler's and HttpService's:  *)
(* here the request is alone and nothing but a fault of the backend, the      *)
(* network or another server goes wrong.  The answer is complete on the wire  *)
(* before the client reads: it is the sizes of the reads that vary.           *)
EXTENDS RequestPath, ResponseReader

CONSTANTS Cases,        \* [config, request]: a server's configuration and what
                        \* a client asks of it, a record with the door it uses
          Prompts,      \* (instruction, assistant) token sequences
          WarmupPrompt, \* tokens of the warm-up prompt before its first frame
          MaxPackets,   \* packets of an answer
          PerFrame,     \* samples of a codec frame
          Damages,      \* what another server gets wrong in its answer
          ReadSize,     \* atoms a read of the client's socket returns at most
          MaxShort      \* reads that return less although more has been sent

ASSUME ExchangeAssumption ==
  /\ PerFrame \in Nat \ {0} /\ MaxPackets \in Nat \ {0} /\ ReadSize \in Nat \ {0} /\ MaxShort \in Nat
  /\ WarmupPrompt \in Nat

VARIABLES
  server,   \* [config, life]: the process
  phase,    \* where the request is
  request,  \* the request, as that place sees it
  speech,   \* PacketContinuity and the packets it accepted
  answer,   \* [kind, status, damage]: how the request was answered
  wire,     \* atoms sent and not yet received
  cut,      \* the connection was closed before all was sent
  reader,   \* the load client's reader
  result    \* what the client made of it: "none" until it knows

vars == <<server, phase, request, speech, answer, wire, cut, reader, result>>

NoSpeech == [sequence |-> 0, frame |-> 0, sample |-> 0, final |-> FALSE,
             packets |-> <<>>, reason |-> "none", fault |-> "none"]
NoAnswer == [kind |-> "none", status |-> 0, damage |-> "none"]
NewReader ==
  [stage |-> "head", raw |-> <<>>, received |-> 0, short |-> 0, head |-> NoAnswer,
   transfer |-> [mode |-> "close", left |-> 0], buffer |-> <<>>, part |-> NoAnswer,
   left |-> 0, got |-> 0, at |-> 0, seen |-> NoStream, heard |-> 0]

Init ==
  /\ \E case \in Cases :
       /\ server = [config |-> case.config, life |-> "configured", fault |-> "none"]
       /\ request = case.request
  /\ phase = "start"
  /\ speech = NoSpeech
  /\ answer = NoAnswer
  /\ wire = <<>>
  /\ cut = FALSE
  /\ reader = NewReader
  /\ result = "none"

-----------------------------------------------------------------------------
(* The process. *)

\* main: the default duration is brought inside the configured one, the
\* configuration checked, then the model loaded.
Clamped(c) == [c EXCEPT !.defaultDuration = Min({@, c.maxDuration})]
Configure ==
  /\ server.life = "configured"
  /\ \E loaded \in BOOLEAN :
       server' = [config |-> Clamped(server.config),
                  life |-> IF ServerConfigOk(Clamped(server.config)) /\ loaded
                             THEN "warming" ELSE "exited",
                  fault |-> IF loaded THEN "none" ELSE "load"]
  /\ UNCHANGED <<phase, request, speech, answer, wire, cut, reader, result>>

WarmupFrames(c) == DurationToFrames(c.maxDuration)

\* NativeRuntimeEngine::warm_up: a request as long as the configuration allows
\* must prefill, deliver one valid packet and retire.
WarmUp ==
  /\ server.life = "warming"
  /\ \E fault \in {"none", "timeout", "error", "invalid_packet", "not_retired"} :
       server' = [server EXCEPT
         !.life = IF fault = "none" /\ Capacity(WarmupPrompt, WarmupFrames(server.config)) > 0
                    THEN "ready" ELSE "exited",
         !.fault = fault]
  /\ UNCHANGED <<phase, request, speech, answer, wire, cut, reader, result>>

Serving == server.life = "ready"
EngineLimits == [textBytes |-> server.config.textBytes, voiceBytes |-> server.config.voiceBytes]

-----------------------------------------------------------------------------
(* The request on its way to the talker. *)

Answer(kind, status) ==
  /\ answer' = [kind |-> kind, status |-> status, damage |-> "none"]
  /\ phase' = "answered"

Go(to, as) ==
  /\ phase' = to
  /\ request' = as
  /\ UNCHANGED answer

\* What was asked no longer matters once it has been refused or spoken.
Forget == request' = [output |-> "forgotten"]
Refuse(status) == Answer("refusal", status) /\ Forget

Keep == UNCHANGED <<server, wire, cut, reader>>

\* The doors: an entry of the load client for this server or for the one it is
\* compared with, any JSON body, the alias's body, a C caller's structure.
Enter ==
  /\ Serving /\ phase = "start"
  /\ LET r == request
     IN \/ /\ r.door = "entry" /\ EntryCheck(r.entry) = "ok"
           /\ Go("body", [body |-> NativeBody(r.entry), origin |-> r])
           /\ UNCHANGED result
        \/ /\ r.door = "entry" /\ EntryCheck(r.entry) # "ok"
           /\ phase' = "done" /\ result' = "workload_error" /\ Forget /\ UNCHANGED answer
        \/ /\ r.door = "json"
           /\ Go("body", [body |-> r.body, origin |-> r])
           /\ UNCHANGED result
        \/ /\ r.door = "openai" /\ OpenAiCheck(r.openai) = "ok"
           /\ Go("body", [body |-> OpenAiBody(r.openai), origin |-> r])
           /\ UNCHANGED result
        \/ /\ r.door = "openai" /\ OpenAiCheck(r.openai) # "ok"
           /\ Refuse(422) /\ UNCHANGED result
        \/ /\ r.door = "sglang" /\ EntryCheck(r.entry) = "ok" /\ CommonContract(r.entry)
           /\ Answer("raw", 200) /\ Forget /\ UNCHANGED result
        \/ /\ r.door = "sglang" /\ (EntryCheck(r.entry) # "ok" \/ ~CommonContract(r.entry))
           /\ phase' = "done" /\ result' = "workload_error" /\ Forget /\ UNCHANGED answer
        \/ /\ r.door = "c" /\ CopyCheck(r.input, EngineLimits) = "ok"
           /\ Go("generation", [text |-> r.input.text, voice |-> r.input.voice,
                                language |-> r.input.language,
                                generation |-> r.input.generation,
                                output |-> "handle", origin |-> r])
           /\ UNCHANGED result
        \/ /\ r.door = "c" /\ CopyCheck(r.input, EngineLimits) # "ok"
           /\ phase' = "done" /\ result' = "status" /\ Forget /\ UNCHANGED answer
  /\ Keep /\ UNCHANGED speech

\* speech and openai_speech: SpeechRequestBody::prepare
Prepare ==
  /\ phase = "body"
  /\ LET b == request.body c == server.config
     IN IF PrepareCheck(b, c) = "ok"
          THEN Go("generation", [text |-> b.text, voice |-> b.voice, language |-> b.language,
                                 generation |-> Generation(b, c, Defaults),
                                 output |-> OutputMode(b), origin |-> request.origin])
          ELSE Refuse(422)
  /\ Keep /\ UNCHANGED <<speech, result>>

\* Scheduler::start
Validate ==
  /\ phase = "generation"
  /\ IF ValidateCheck(request.text, request.voice, request.generation, EngineLimits) = "ok"
       THEN Go("admitted", request) /\ UNCHANGED result
     ELSE IF request.output = "handle"
       THEN phase' = "done" /\ result' = "status" /\ Forget /\ UNCHANGED answer
     ELSE Refuse(422) /\ UNCHANGED result
  /\ Keep /\ UNCHANGED speech

TextMode == "streaming"
\* The tokenizer: only a text of white space may vanish into the template.
PromptsOf(text) == {prompt \in Prompts : Len(prompt.ids) > 8 \/ text.blank}
Planned(prompt) == Plan(prompt.instruct, prompt.ids, request.language, TextMode)
Fits(prompt) ==
  Capacity(Len(Planned(prompt).prefill), request.generation.frames) > 0

\* The backend's prefill: the worker fails a request whose prompt and frames
\* exceed the sequence limit, with a status the server calls internal, and one
\* whose plan panics.
Prefill ==
  /\ phase = "admitted"
  /\ \E prompt \in PromptsOf(request.text) :
       LET g == request.generation
           ok == NativeSamplingOk(g) /\ PlanOk(prompt.ids) /\ Sliceable(prompt.ids) /\ Fits(prompt)
       IN /\ Go("speaking", [output |-> request.output])
          /\ speech' = [speech EXCEPT !.fault = IF ok THEN "none" ELSE "length"]
  /\ Keep /\ UNCHANGED result

-----------------------------------------------------------------------------
(* The answer is spoken. *)

\* Packets of the native runtime, and what a faulty one could hand out.
GoodPackets ==
  {[sequence |-> speech.sequence, first_frame |-> speech.frame, first_sample |-> speech.sample,
    frames |-> n, sample_count |-> n * PerFrame, bytes |-> 2 * n * PerFrame, final |-> final] :
     n \in 1..2, final \in BOOLEAN}
Faulty(p) ==
  {[p EXCEPT !.sequence = @ + 1], [p EXCEPT !.first_frame = @ + 1],
   [p EXCEPT !.first_sample = @ + 1], [p EXCEPT !.sample_count = @ + 1],
   [p EXCEPT !.bytes = @ - 1],
   [p EXCEPT !.frames = 5, !.sample_count = 5 * PerFrame, !.bytes = 10 * PerFrame]}
Offered == GoodPackets \cup UNION {Faulty(p) : p \in GoodPackets}

\* validate_packet and PacketContinuity::accept
PacketAccepted(p) ==
  /\ p.frames \in 1..4 /\ p.sample_count = p.frames * PerFrame /\ p.bytes = 2 * p.sample_count
  /\ ~speech.final
  /\ p.sequence = speech.sequence
  /\ p.first_frame = speech.frame
  /\ p.first_sample = speech.sample

\* The buffered worker bounds the PCM it collects.
Overflows(p) ==
  /\ request.output = "buffered"
  /\ 2 * speech.sample + p.bytes > MaxBufferedPcm(server.config, PerFrame)

Spoken(p) ==
  [speech EXCEPT !.sequence = @ + 1, !.frame = @ + p.frames, !.sample = @ + p.sample_count,
                 !.final = p.final, !.packets = Append(@, p)]

\* A failure after the head has been sent is an error part, before it a status.
AnswerFailure ==
  IF request.output = "stream" THEN Answer("stream", 200) ELSE Answer("refusal", 500)

Packet ==
  /\ phase = "speaking" /\ speech.fault = "none" /\ Len(speech.packets) < MaxPackets
  /\ \E p \in Offered :
       IF PacketAccepted(p) /\ ~Overflows(p)
         THEN speech' = Spoken(p) /\ UNCHANGED phase
         ELSE speech' = [speech EXCEPT !.fault = "packet"] /\ UNCHANGED phase
  /\ Keep /\ UNCHANGED <<request, answer, result>>

\* The backend fails while speaking.
BackendFails ==
  /\ phase = "speaking" /\ speech.fault = "none"
  /\ speech' = [speech EXCEPT !.fault = "backend"]
  /\ Keep /\ UNCHANGED <<phase, request, answer, result>>

Finished_NotFinal == Len(speech.packets) > 0
\* PacketContinuity::finish
Finished == Len(speech.packets) > 0 /\ speech.final

EndOfStream ==
  /\ phase = "speaking" /\ speech.fault = "none"
  /\ \E reason \in {"stop", "length"} :
       speech' = [speech EXCEPT !.reason = reason, !.fault = IF Finished THEN "done" ELSE "packet"]
  /\ Keep /\ UNCHANGED <<phase, request, answer, result>>

\* The worker of the request answers once it knows how the speech ended; a C
\* caller has been given its handle and statuses instead.
Reply ==
  /\ phase = "speaking" /\ speech.fault # "none"
  /\ \/ /\ request.output = "handle"
        /\ phase' = "done" /\ result' = speech.fault /\ UNCHANGED answer
     \/ /\ request.output # "handle" /\ speech.fault = "done"
        /\ Answer(request.output, 200) /\ UNCHANGED result
     \/ /\ request.output # "handle" /\ speech.fault # "done"
        /\ AnswerFailure /\ UNCHANGED result
  /\ Keep /\ UNCHANGED <<request, speech>>

-----------------------------------------------------------------------------
(* The answer on the wire, as this server or a defective one sends it. *)

Parts ==
  <<[kind |-> "start", id |-> "id", rate |-> "24k"]>>
  \o [i \in DOMAIN speech.packets |->
        [kind |-> "audio", rate |-> "24k"] @@ speech.packets[i]]
  \o <<IF speech.fault = "done"
         THEN [kind |-> "end", id |-> "id", reason |-> speech.reason,
               packets |-> Len(speech.packets), samples |-> speech.sample]
         ELSE [kind |-> "error"]>>

\* Parts a server could get wrong.
DamagedParts(parts, d) ==
  LET n == Len(parts)
  IN CASE d = "no_start" -> Tail(parts)
       [] d = "two_starts" -> <<parts[1]>> \o parts
       [] d = "no_end" -> Front(parts)
       [] d = "two_ends" -> parts \o <<parts[n]>>
       [] d = "early_end" -> <<parts[1], parts[n]>> \o SubSeq(parts, 2, n - 1)
       [] d = "late_audio" ->
            Front(parts) \o <<[parts[n - 1] EXCEPT !.sequence = @ + 1,
                                 !.first_frame = speech.frame, !.first_sample = speech.sample]>>
                        \o <<[parts[n] EXCEPT !.packets = @ + 1,
                                 !.samples = @ + parts[n - 1].sample_count]>>
       [] d = "gap" -> [parts EXCEPT ![2].sequence = @ + 1]
       [] d = "shift" -> [parts EXCEPT ![2].first_sample = @ + 1]
       [] d = "frame" -> [parts EXCEPT ![2].first_frame = @ + 1]
       [] d = "empty" -> [parts EXCEPT ![2].bytes = 0]
       [] d = "rate" -> [parts EXCEPT ![2].rate = "48k"]
       [] d = "not_final" -> [parts EXCEPT ![n - 1].final = FALSE]
       [] d = "metrics" -> [parts EXCEPT ![n].packets = @ + 1]
       [] d = "reason" -> [parts EXCEPT ![n].reason = "abort"]
       [] d = "other_id" -> [parts EXCEPT ![n].id = "other"]
       [] OTHER -> parts

Endless == [i \in 1..MaxFraming |-> Atom("more", 0)]

\* Frames of the body: a part's atoms, with what may be wrong in them.
Frame(part, last, d) ==
  LET atoms == PartWire(part, last)
      at(kind) == CHOOSE i \in DOMAIN atoms : atoms[i].is = kind
  IN CASE d = "short_length" -> [atoms EXCEPT ![at("length")].v = @ - 1]
       [] d = "long_length" -> [atoms EXCEPT ![at("length")].v = @ + 1]
       [] d = "boundary" -> [atoms EXCEPT ![1].is = "json"]
       [] d = "stray_cr" -> <<atoms[1]>> \o CrLf \o <<atoms[4], Atom("cr", 0)>> \o From(atoms, 5)
       [] d = "epilogue" /\ last -> atoms \o <<Atom("json", 0)>>
       [] d = "endless_part" -> SubSeq(atoms, 1, 4) \o Endless \o From(atoms, 5)
       [] d = "huge_part" -> [atoms EXCEPT ![at("length")].v = MaxPayload + 1]
       [] OTHER -> atoms

ChunkedBody(frames, d) ==
  LET chunk(i) == CASE d = "no_crlf" /\ i = 1 -> SubSeq(Chunk(frames[i]), 1, Len(frames[i]) + 3)
                    [] d = "extension" /\ i = 1 ->
                         <<Atom("size", Len(frames[i])), Atom("more", 0)>> \o Tail(Chunk(frames[i]))
                    [] d = "endless_size" /\ i = 1 ->
                         <<Atom("size", Len(frames[i]))>> \o Endless \o Tail(Chunk(frames[i]))
                    [] d = "long_chunk" /\ i = 1 -> [Chunk(frames[i]) EXCEPT ![1].v = @ + 1]
                    [] OTHER -> Chunk(frames[i])
  IN FlattenSeq([i \in DOMAIN frames |-> chunk(i)])
     \o (CASE d = "trailer" -> <<Atom("size", 0)>> \o CrLf \o <<Atom("trailer", 0)>> \o CrLf \o CrLf
           [] d = "bad_trailer" -> <<Atom("size", 0)>> \o CrLf \o <<Atom("json", 0)>> \o CrLf \o CrLf
           [] d = "after_end" -> LastChunk \o <<Atom("json", 0)>>
           [] OTHER -> LastChunk)

StreamWire(d) ==
  LET parts == DamagedParts(Parts, d) n == Len(parts)
  IN ChunkedBody([i \in 1..n |-> Frame(parts[i], i = n, d)], d)

DamagedWav(d) ==
  LET wav == WavWire(2 * speech.sample)
      with(chunks) == <<Atom("riff", Len(chunks))>> \o chunks
      data == RiffChunk("data", PcmWire(2 * speech.sample))
  IN CASE d = "riff" -> [wav EXCEPT ![1].v = @ + 1]
       [] d = "no_format" -> with(data)
       [] d = "two_data" -> with(Tail(wav) \o data)
       [] d = "odd_data" -> with(SubSeq(wav, 2, 4) \o RiffChunk("data", PcmWire(1)) \o PcmWire(1))
       [] d = "overrun" -> [wav EXCEPT ![5].v = @ + 2]
       [] d = "padded" -> with(RiffChunk("other", <<Atom("json", 0)>>) \o <<Atom("pad", 0)>> \o Tail(wav))
       [] OTHER -> wav

HeadOf(kind, length, d) ==
  [status |-> answer.status,
   chunked |-> kind = "stream" \/ (kind = "raw" /\ d = "chunked") \/ d = "ambiguous",
   length |-> CASE kind \in {"refusal", "buffered"} ->
                     length + (CASE d = "short_body" -> -1 [] d = "long_body" -> 1 [] OTHER -> 0)
                [] d = "ambiguous" -> length
                [] OTHER -> Absent,
   type |-> IF d = "type" THEN "text" ELSE kind,
   id |-> IF d = "no_id" THEN "none" ELSE "id",
   reason |-> IF d = "reason" THEN "abort" ELSE speech.reason,
   rate |-> IF d = "rate" THEN 0 ELSE 24000]

\* A head line may be too long, or end in a stray carriage return.
HeadLines(head, d) ==
  CASE d = "endless" -> <<Atom("fields", head)>> \o Endless \o CrLf \o CrLf
    [] d = "head_cr" -> <<Atom("fields", head), Atom("cr", 0)>> \o CrLf \o CrLf
    [] OTHER -> HeadWire(head)

Wire(d) ==
  LET body == CASE answer.kind = "stream" -> StreamWire(d)
                [] answer.kind = "buffered" -> DamagedWav(d)
                [] answer.kind = "raw" /\ d = "chunked" ->
                     ChunkedBody(<<PcmWire(2), PcmWire(4)>>, "none")
                [] answer.kind = "raw" /\ d # "chunked" ->
                     PcmWire(CASE d = "odd" -> 3 [] d = "empty" -> 0 [] OTHER -> 4)
                [] OTHER -> <<Atom("json", 0)>>
  IN HeadLines(HeadOf(answer.kind, Len(body), d), d) \o body

\* Damages that leave an answer as good as it was.
Benign == {"none", "stray_cr", "head_cr", "trailer", "padded", "chunked", "extension"}
Applicable(d) ==
  \/ d = "none"
  \/ answer.kind = "raw" /\ d \in {"chunked", "odd", "empty", "rate", "type", "endless"}
  \/ /\ speech.fault = "done"
     /\ answer.kind = "buffered" =>
          d \in {"riff", "no_format", "two_data", "odd_data", "overrun", "padded", "short_body",
                "long_body", "reason", "type", "no_id", "head_cr"}
     /\ answer.kind = "stream" =>
          d \notin {"riff", "no_format", "two_data", "odd_data", "overrun", "padded", "short_body",
                   "long_body", "chunked", "odd"}
     /\ answer.kind \in {"stream", "buffered"}

Send ==
  /\ phase = "answered" /\ phase' = "reading"
  /\ \E d \in Damages : Applicable(d) /\ wire' = Wire(d) /\ answer' = [answer EXCEPT !.damage = d]
  /\ UNCHANGED <<server, request, speech, cut, reader, result>>

\* The connection is closed before the rest of the answer was sent.
Cut ==
  /\ phase = "reading" /\ wire # <<>> /\ ~cut
  /\ cut' = TRUE /\ wire' = <<>>
  /\ UNCHANGED <<server, phase, request, speech, answer, reader, result>>

-----------------------------------------------------------------------------
(* The load client reads. *)

Frozen == UNCHANGED <<server, request, speech, answer, cut>>

\* Does the parser need another segment of the body before it can go on?
WantsBody ==
  CASE reader.stage \in {"opening", "boundary"} -> ~Ready(reader.buffer, Line)
    [] reader.stage = "describe" -> ~Ready(reader.buffer, Blank)
    [] reader.stage = "payload" /\ reader.left > 0 -> reader.buffer = <<>>
    [] reader.stage = "payload" /\ reader.left = 0 -> Len(reader.buffer) < 2
    [] OTHER -> reader.stage # "head"
WantsRead ==
  \/ reader.stage = "head" /\ ~Ready(reader.raw, Blank)
  \/ reader.stage # "head" /\ WantsBody /\ NeedsRead(reader.transfer, reader.raw)

\* A header or framing line longer than the client accepts, where it is looked
\* for: only the response head may be long if it has arrived as a whole.
TooLong ==
  \/ reader.stage = "head" /\ ~Ready(reader.raw, Blank) /\ Len(reader.raw) >= MaxFraming
  \/ /\ reader.stage # "head" /\ WantsBody
     /\ reader.transfer.mode \in {"size", "trailers"} /\ Exceeds(reader.raw, Line)
  \/ reader.stage \in {"opening", "boundary"} /\ Exceeds(reader.buffer, Line)
  \/ reader.stage = "describe" /\ Exceeds(reader.buffer, Blank)

Reading == phase = "reading" /\ ~TooLong

Finish(outcome, seen) ==
  /\ result' = outcome
  /\ phase' = "done"
  /\ reader' = [NewReader EXCEPT !.seen = seen, !.heard = reader.heard]
  /\ wire' = <<>>
Fail == Finish("request_error", NoStream)
Read(r) == reader' = r /\ UNCHANGED <<phase, result, wire>>

\* read_into: some of what has been sent arrives.
Arrive ==
  /\ Reading /\ WantsRead /\ wire # <<>>
  /\ \E n \in 1..Min({ReadSize, Len(wire)}) :
       LET now == reader.received + n
           short == IF n < Min({ReadSize, Len(wire)}) THEN 1 ELSE 0
           new == [i \in 1..n |-> [is |-> wire[i].is, v |-> wire[i].v, at |-> now]]
       IN /\ reader.short + short <= MaxShort
          /\ reader' = [reader EXCEPT
               !.raw = @ \o new, !.received = now, !.short = @ + short,
               !.heard = IF @ = 0 /\ \E i \in 1..n : wire[i].is = "pcm" THEN now ELSE @]
          /\ wire' = From(wire, n + 1)
  /\ Frozen /\ UNCHANGED <<phase, result>>

ReadTooLong == phase = "reading" /\ TooLong /\ Fail /\ Frozen

\* The application-level end of the body in each stage.
WholeBody ==
  LET body == reader.buffer kind == answer.kind
  IN \/ /\ kind = "refusal"
        /\ Finish("http_status", NoStream)
     \/ /\ kind = "buffered"
        /\ IF WavOk(body) /\ reader.head.reason \in {"stop", "length"}
             THEN LET data == DataAt(body)
                  IN Finish("ok", [NoStream EXCEPT !.sample = body[data].v \div 2,
                                                   !.first = body[data + 1].at])
             ELSE Fail
     \/ /\ kind = "raw"
        /\ IF body # <<>> /\ Len(body) % 2 = 0
             THEN Finish("ok", [NoStream EXCEPT !.sample = Len(body) \div 2, !.first = body[1].at])
             ELSE Fail

\* The last part has been read and so has the rest of the message.
LastPart ==
  /\ IF /\ PartAccepted(reader.seen, reader.part, reader.head.id, reader.got)
        /\ StreamComplete(PartRead(reader.seen, reader.part, reader.at))
       THEN Finish("ok", PartRead(reader.seen, reader.part, reader.at))
       ELSE Fail

BodyEnds ==
  \/ reader.stage = "collect" /\ WholeBody
  \/ reader.stage = "epilogue" /\ LastPart
  \/ reader.stage \notin {"collect", "epilogue"} /\ Fail

\* The connection ends where the client wanted more.
EndOfConnection ==
  /\ Reading /\ WantsRead /\ wire = <<>>
  /\ IF reader.stage # "head" /\ AtEof(reader.transfer) = "end" THEN BodyEnds ELSE Fail
  /\ Frozen

\* A round of next_segment on behalf of the parser.
NextSegment ==
  /\ Reading /\ reader.stage # "head" /\ WantsBody /\ ~WantsRead
  /\ LET r == NextRound(reader.transfer, reader.raw)
     IN \/ r.yields = "none" /\ Read([reader EXCEPT !.transfer = r.transfer, !.raw = r.raw])
        \/ /\ r.yields = "segment" /\ reader.stage # "epilogue"
           /\ Read([reader EXCEPT !.transfer = r.transfer, !.raw = r.raw, !.buffer = @ \o r.segment])
        \/ r.yields = "segment" /\ reader.stage = "epilogue" /\ Fail
        \/ r.yields = "end" /\ BodyEnds
        \/ r.yields = "error" /\ Fail
  /\ Frozen

\* read_head, and how the rest will be read: execute_connected, parse_native,
\* parse_sglang_raw.
HeadAcceptable(head) ==
  /\ Transfer(head).mode # "ambiguous"
  /\ answer.kind = "refusal" \/ head.type = answer.kind
  /\ answer.kind \in {"stream", "buffered"} => head.id # "none"
  /\ answer.kind = "raw" => head.rate > 0
ReadHead ==
  /\ Reading /\ reader.stage = "head" /\ Ready(reader.raw, Blank)
  /\ LET head == reader.raw[1].v
     IN IF HeadAcceptable(head) /\ \A i \in DOMAIN Before(reader.raw, Blank) : reader.raw[i].is \in {"fields", "cr", "more"}
          THEN Read([reader EXCEPT !.head = head, !.transfer = Transfer(head),
                                   !.raw = After(reader.raw, Blank),
                                   !.stage = IF answer.kind = "stream" THEN "opening" ELSE "collect"])
          ELSE Fail
  /\ Frozen

\* MultipartReader::next_part: the opening boundary of the first part, ...
Opening ==
  /\ Reading /\ reader.stage = "opening" /\ ~WantsBody
  /\ IF Kinds(Before(reader.buffer, Line)) = <<"boundary">>
       THEN Read([reader EXCEPT !.buffer = After(reader.buffer, Line), !.stage = "describe"])
       ELSE Fail
  /\ Frozen

\* ... the part's headers, ...
Describe ==
  /\ Reading /\ reader.stage = "describe" /\ ~WantsBody
  /\ LET lines == Before(reader.buffer, Blank)
         field(kind) == {i \in DOMAIN lines : lines[i].is = kind}
     IN IF Quantify(DOMAIN lines, LAMBDA i : lines[i].is = "describe") = 1 /\ field("length") # {}
          /\ \A i \in field("length") : lines[i].v <= MaxPayload
          THEN Read([reader EXCEPT !.buffer = After(reader.buffer, Blank), !.stage = "payload",
                                   !.part = lines[Min(field("describe"))].v,
                                   !.left = lines[Min(field("length"))].v, !.got = 0, !.at = 0])
          ELSE Fail
  /\ Frozen

\* ... the payload, stamped with the arrival of its first segment, ...
PayloadAt(segment) == IF reader.got = 0 THEN segment[1].at ELSE reader.at
Payloads ==
  /\ Reading /\ reader.stage = "payload" /\ reader.left > 0 /\ ~WantsBody
  /\ LET n == SegmentLength(reader.buffer, reader.left)
     IN Read([reader EXCEPT !.buffer = From(@, n + 1), !.left = @ - n, !.got = @ + n,
                            !.at = PayloadAt(Take(reader.buffer, n))])
  /\ Frozen

Suffix ==
  /\ Reading /\ reader.stage = "payload" /\ reader.left = 0 /\ ~WantsBody
  /\ IF Kinds(Take(reader.buffer, 2)) = Line
       THEN Read([reader EXCEPT !.buffer = From(@, 3), !.stage = "boundary"])
       ELSE Fail
  /\ Frozen

\* ... and the boundary after it: the part is handed on, unless it was the last.
Boundary ==
  /\ Reading /\ reader.stage = "boundary" /\ ~WantsBody
  /\ LET line == Kinds(Before(reader.buffer, Line)) rest == After(reader.buffer, Line)
         accepted == PartAccepted(reader.seen, reader.part, reader.head.id, reader.got)
     IN \/ /\ line = <<"boundary">> /\ accepted
           /\ Read([reader EXCEPT !.buffer = rest, !.stage = "describe", !.part = NoAnswer,
                                  !.seen = PartRead(@, reader.part, reader.at)])
        \/ /\ line = <<"closing">> /\ rest = <<>>
           /\ Read([reader EXCEPT !.buffer = rest, !.stage = "epilogue"])
        \/ /\ ~(line = <<"boundary">> /\ accepted) /\ ~(line = <<"closing">> /\ rest = <<>>)
           /\ Fail
  /\ Frozen

Over == phase = "done" \/ server.life = "exited"

Next ==
  \/ Configure \/ WarmUp
  \/ Enter \/ Prepare \/ Validate \/ Prefill
  \/ Packet \/ BackendFails \/ EndOfStream \/ Reply
  \/ Send \/ Cut
  \/ Arrive \/ ReadTooLong \/ EndOfConnection \/ NextSegment
  \/ ReadHead \/ Opening \/ Describe \/ Payloads \/ Suffix \/ Boundary
  \/ (Over /\ UNCHANGED vars)

Spec == Init /\ [][Next]_vars

-----------------------------------------------------------------------------
(* Properties. *)

\* The load client never counts a defective or truncated answer as a success:
\* whatever the sizes of the reads, framing, boundaries, event order, packet
\* positions, totals and RIFF sizes are checked against each other.  Raw PCM
\* delimited by the end of the connection cannot be told from a truncated one,
\* what follows the message is noticed only if it has arrived already, and a head
\* beyond the limit only if its end has not.
OnlyIntactSucceeds ==
  result = "ok" /\ phase = "done" /\ answer.kind # "none" =>
    \/ answer.damage \in Benign /\ ~cut
    \/ answer.damage \in {"after_end", "endless"}
    \/ answer.kind = "raw" /\ answer.damage # "chunked" /\ cut

\* What the server made of a request is what the client reports: a spoken answer
\* is read whole, with the packets and samples spoken, a refusal as a status, a
\* failure after the head was sent as an error; and a buffered answer stays
\* within the configured duration.
EndToEnd ==
  phase = "done" /\ answer.kind \in {"refusal", "stream", "buffered"}
    /\ answer.damage \in Benign /\ ~cut =>
      IF answer.kind = "refusal" THEN result = "http_status"
      ELSE IF speech.fault # "done" THEN result = "request_error"
      ELSE /\ result = "ok"
           /\ reader.seen.sample = speech.sample
           /\ answer.kind = "stream" => reader.seen.sequence = Len(speech.packets)
           /\ answer.kind = "buffered" =>
                2 * speech.sample <= MaxBufferedPcm(server.config, PerFrame)

\* The time to first audio of a success is the arrival of the read that brought
\* the first sample, however the bytes were cut and buffered.
StampIsArrival ==
  result = "ok" /\ phase = "done" /\ answer.kind # "none" => reader.seen.first = reader.heard

FirstOccurrence(buffer, needle) ==
  LET ends == {i \in Len(needle)..Len(buffer) :
                 Kinds(SubSeq(buffer, i - Len(needle) + 1, i)) = needle}
  IN IF ends = {} THEN 0 ELSE Min(ends)
\* A delimiter is found at its first occurrence, wherever the reads cut it.
FindIsFirst ==
  \A needle \in {Line, Blank} :
    /\ Find(reader.raw, needle) = FirstOccurrence(reader.raw, needle)
    /\ Find(reader.buffer, needle) = FirstOccurrence(reader.buffer, needle)

\* TimedBuffer loses neither a delimiter nor the time a byte arrived.
FirstAudioStamp == StampIsArrival /\ FindIsFirst

\* Sampling as it acts: the values of a greedy stage do nothing.
Effective(g) ==
  [g EXCEPT !.temperature = IF g.doSample THEN @ ELSE 0,
            !.topP = IF g.doSample THEN @ ELSE 0,
            !.topK = IF g.doSample THEN @ ELSE 0,
            !.predictorTemperature = IF g.predictorDoSample THEN @ ELSE 0,
            !.predictorTopP = IF g.predictorDoSample THEN @ ELSE 0,
            !.predictorTopK = IF g.predictorDoSample THEN @ ELSE 0]
OtherDefaults == [temperature |-> 500, topP |-> 700, topK |-> 7, penalty |-> 1200]

\* A workload entry that the report calls parity qualifying leaves nothing to
\* the server's defaults, and both servers give it the same number of frames.
QualifyingIsExplicit ==
  phase = "generation" /\ request.origin.door = "entry" =>
    LET e == request.origin.entry c == server.config
    IN Qualifying(e) =>
         /\ Effective(Generation(NativeBody(e), c, Defaults))
              = Effective(Generation(NativeBody(e), c, OtherDefaults))
         /\ Given(e.duration) => CommonFrames(e) = request.generation.frames

TextOf(plan) == [i \in DOMAIN plan.prefill |-> plan.prefill[i].text] \o plan.trailing
Pads == {TtsPad, TtsBos}

\* Every layer's limits lie inside the next one's: what the server prepared the
\* scheduler accepts, what the scheduler accepts the talker's sampling accepts,
\* and the plan of a prompt feeds every token once, in order, and the end.  A
\* session has room for the prompt and all frames.  What is left to fail late is
\* a prompt and duration that do not fit the sequence limit together and, from
\* the C ABI, a text of nothing but line breaks.
LimitsNest ==
  /\ phase = "generation" /\ request.output # "handle" =>
       ValidateCheck(request.text, request.voice, request.generation, EngineLimits) = "ok"
  /\ phase = "admitted" =>
       /\ NativeSamplingOk(request.generation)
       /\ \A prompt \in PromptsOf(request.text) : request.output # "handle" => Sliceable(prompt.ids)
       /\ \A prompt \in {p \in Prompts : Sliceable(p.ids)} : \A mode \in {"streaming", "whole"} :
            LET plan == Plan(prompt.instruct, prompt.ids, request.language, mode)
                room == Capacity(Len(plan.prefill), request.generation.frames)
                need == Len(plan.prefill) + request.generation.frames
            IN /\ SelectSeq(TextOf(plan), LAMBDA t : t \notin Pads)
                    = prompt.instruct \o Take(prompt.ids, Len(prompt.ids) - 5) \o <<TtsEos>>
               /\ plan.prefill[Len(plan.prefill)].codec = "bos"
               /\ room = 0 <=> need > SequenceLimit
               /\ room > 0 => /\ need <= room /\ room <= SequenceLimit
                              /\ room % Block = 0 \/ room = SequenceLimit

\* A server with a valid configuration whose model loads and speaks comes up,
\* unless its longest request leaves the warm-up prompt no room.
ValidServerComesUp ==
  server.life = "exited" /\ server.fault = "none" =>
    \/ ~ServerConfigOk(server.config)
    \/ WarmupFrames(server.config) + WarmupPrompt > SequenceLimit

\* The layers between a request and the talker agree on limits, on defaults and
\* on what the talker's session has room for.
LayersAgree == LimitsNest /\ QualifyingIsExplicit /\ ValidServerComesUp
=============================================================================
