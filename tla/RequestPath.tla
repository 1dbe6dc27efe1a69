---------------------------- MODULE RequestPath ----------------------------
(* What a synthesis request goes through before the first frame: the load     *)
(* client's workload entry (qwen3-tts-http-bench, src/model.rs), the JSON     *)
(* body and its preparation in the server (src/api.rs, src/config.rs), the C  *)
(* ABI's copy of a request (src/ffi_support.rs), the scheduler's validation   *)
(* (src/scheduler.rs, src/types.rs) and the talker's prompt plan and session  *)
(* capacity (src/prompt.rs, src/native_talker.rs).  Each layer is an operator *)
(* from the request it receives to the request it hands on, with the list of  *)
(* the checks it makes in their order.                                        *)
(*                                                                            *)
(* Durations are milliseconds, sampling values thousandths.  A text is its    *)
(* length in bytes and what the checks look at; a prompt is a sequence of     *)
(* token ids.                                                                 *)
EXTENDS Integers, Sequences, FiniteSetsExt, SequencesExt

Absent == -1             \* Option::None
NotFinite == 1000000     \* NaN or an infinity
Given(x) == x # Absent

MaxCodecFrames == 8192
MaxTextBytes == 1048576
MaxInstructBytes == 262144
MaxSafeInteger == 1000   \* stands for 2^53 - 1

Languages == {"auto", "chinese", "english", "german"}   \* of the eleven

\* The code of the first check that fails, or "ok".
FirstFailure(checks) ==
  LET failing == {i \in DOMAIN checks : checks[i].fails}
  IN IF failing = {} THEN "ok" ELSE checks[Min(failing)].code
Check(fails, code) == [fails |-> fails, code |-> code]

-----------------------------------------------------------------------------
(* The load client's workload entry. *)

StageBad(s) ==
  \/ s.strategy = "greedy" /\ (Given(s.temperature) \/ Given(s.topP) \/ Given(s.topK))
  \/ Given(s.temperature) /\ (s.temperature = NotFinite \/ s.temperature <= 0)
  \/ Given(s.topP) /\ ~(s.topP \in 1..1000)
  \/ s.topK = 0

\* WorkloadEntry::validate
EntryCheck(e) ==
  FirstFailure(<<
    Check(e.text.blank, "text"),
    Check(e.voice.blank, "voice_description"),
    Check(Given(e.duration) /\ (e.duration = NotFinite \/ e.duration <= 0), "max_duration_seconds"),
    Check(e.sampled /\ StageBad(e.talker), "sampling"),
    Check(e.sampled /\ Given(e.penalty)
                    /\ (e.penalty = NotFinite \/ e.penalty <= 0), "sampling"),
    Check(e.sampled /\ e.predicted /\ StageBad(e.predictor), "sampling.predictor")>>)

\* WorkloadEntry::native_request_body: sampling is re-serialised, so a stage
\* whose strategy the entry left out is sent with the client's default.
Resent(s) == [s EXCEPT !.strategy = IF @ = "unset" THEN "sample" ELSE @]
NativeBody(e) ==
  [text |-> e.text, voice |-> e.voice, language |-> e.language, seed |-> e.seed,
   duration |-> e.duration, sampled |-> e.sampled, talker |-> Resent(e.talker),
   penalty |-> e.penalty, predicted |-> e.predicted, predictor |-> Resent(e.predictor),
   stream |-> IF e.stream THEN "true" ELSE "false",
   format |-> IF e.stream THEN "pcm_s16le" ELSE "wav"]

\* WorkloadEntry::sampling_audit: is every value the two servers could choose
\* for themselves given by the entry?
StageExplicit(s) == s.strategy # "greedy" => Given(s.temperature) /\ Given(s.topP) /\ Given(s.topK)
Qualifying(e) ==
  /\ Given(e.seed)
  /\ e.sampled
  /\ StageExplicit(e.talker)
  /\ Given(e.penalty)
  /\ e.predicted
  /\ StageExplicit(e.predictor)

\* (seconds * 12.5).ceil() in binary floating point, 12.5 codec frames a second.
\* A time of exactly n frames, n in [2^k, 2^(k+1)), comes out as n + 1 if its f64
\* is too large by more than half a place of the product: by more than 8/25 of
\* its own last place, which is then 2^(k-55) seconds.
RoundsAbove(n) ==
  \E k \in 0..13 : /\ n \in 2^k..(2^(k + 1) - 1) /\ 16 * n >= 25 * 2^k
                   /\ (2^((56 - k) % 20) * n) % 25 \in 13..16
CeilFrames(ms) ==
  (ms * 125 + 9999) \div 10000 + IF ms % 80 = 0 /\ RoundsAbove(ms \div 80) THEN 1 ELSE 0

\* WorkloadEntry::sglang_max_new_tokens
CommonFrames(e) == CeilFrames(e.duration)

\* What the other server can do too: stream, for a given duration, sampling its
\* talker and its predictor as stock.
CommonContract(e) ==
  /\ e.stream
  /\ Given(e.duration) /\ CommonFrames(e) \in 1..MaxCodecFrames
  /\ e.sampled => /\ e.talker.strategy # "greedy"
                  /\ e.predicted => /\ e.predictor.strategy # "greedy"
                                    /\ e.predictor.temperature \in {Absent, 900}
                                    /\ e.predictor.topP \in {Absent, 1000}
                                    /\ e.predictor.topK \in {Absent, 50}

-----------------------------------------------------------------------------
(* The server. *)

DurationToFrames_Floor(ms) == (ms * 125) \div 10000

DurationToFrames(ms) == CeilFrames(ms)

\* ServerConfig::validate (its numeric part)
ServerConfigOk(c) ==
  /\ c.textBytes \in 1..MaxTextBytes
  /\ c.voiceBytes \in 1..MaxInstructBytes
  /\ c.maxDuration \in 80..655360
  /\ c.defaultDuration \in 80..c.maxDuration
  /\ DurationToFrames(c.maxDuration) \in 1..MaxCodecFrames

\* ServerConfig::max_buffered_pcm_bytes
MaxBufferedPcm(c, perFrame) == DurationToFrames(c.maxDuration) * perFrame * 2

\* OpenAiSpeechRequestBody::into_native
OpenAiCheck(o) ==
  FirstFailure(<<
    Check(o.model # "voice-design", "unsupported_model"),
    Check(o.speed # 1000, "unsupported_speed"),
    Check(o.stream \/ o.response # "wav", "unsupported_response_format")>>)

NoStage == [strategy |-> "unset", temperature |-> Absent, topP |-> Absent, topK |-> Absent]
OpenAiBody(o) ==
  [text |-> o.input, voice |-> o.voice, language |-> "auto", seed |-> Absent,
   duration |-> Absent, sampled |-> FALSE, talker |-> NoStage, penalty |-> Absent,
   predicted |-> FALSE, predictor |-> NoStage, stream |-> "false", format |-> "wav"]

TextBad(t, limit) == t.blank \/ t.bytes > limit \/ t.nul

\* normalize_output
OutputMode(b) ==
  CASE b.stream \in {"unset", "true"} /\ b.format \in {"unset", "pcm_s16le"} -> "stream"
    [] b.stream \in {"unset", "false"} /\ b.format = "wav" -> "buffered"
    [] b.stream = "false" /\ b.format = "unset" -> "buffered"
    [] OTHER -> "unsupported"

Or(x, default) == IF Given(x) THEN x ELSE default
Outside(x, low, high) == x = NotFinite \/ x < low \/ x > high
Greedy(s) == s.strategy = "greedy" /\ (Given(s.temperature) \/ Given(s.topP) \/ Given(s.topK))

Duration(b, c) == Or(b.duration, c.defaultDuration)

\* The strategy of the predictor: its own, or the talker's.
Talker(b) == [b.talker EXCEPT !.strategy = IF @ = "unset" THEN "sample" ELSE @]
Predictor(b) ==
  [b.predictor EXCEPT !.strategy = IF @ = "unset" THEN Talker(b).strategy ELSE @]

\* prepare_sampling: what the runtime is asked for; "defaults" are those of
\* GenerationConfig.
Generation(b, c, defaults) ==
  LET t == Talker(b) p == Predictor(b)
  IN [frames |-> DurationToFrames(Duration(b, c)),
      seed |-> b.seed,
      doSample |-> t.strategy = "sample",
      temperature |-> Or(t.temperature, defaults.temperature),
      topP |-> Or(t.topP, defaults.topP),
      topK |-> Or(t.topK, defaults.topK),
      penalty |-> Or(b.penalty, defaults.penalty),
      predictorDoSample |-> p.strategy = "sample",
      predictorTemperature |-> Or(p.temperature, defaults.temperature),
      predictorTopP |-> Or(p.topP, defaults.topP),
      predictorTopK |-> Or(p.topK, defaults.topK)]

Defaults == [temperature |-> 900, topP |-> 1000, topK |-> 50, penalty |-> 1050]

\* The checks of prepare_sampling, in their order.
SamplingChecks(b, g) ==
  <<Check(Greedy(Talker(b)), "invalid_sampling"),
    Check(Outside(g.temperature, 10, 2000), "invalid_sampling"),
    Check(Outside(g.topP, 1, 1000), "invalid_sampling"),
    Check(Outside(g.penalty, 100, 2000), "invalid_sampling"),
    Check(g.topK > 3072, "invalid_sampling"),
    Check(Greedy(Predictor(b)), "invalid_sampling"),
    Check(Outside(g.predictorTemperature, 10, 2000), "invalid_sampling"),
    Check(Outside(g.predictorTopP, 1, 1000), "invalid_sampling"),
    Check(g.predictorTopK > 2048, "invalid_sampling")>>

\* SpeechRequestBody::prepare
PrepareCheck(b, c) ==
  FirstFailure(
    <<Check(TextBad(b.text, c.textBytes), "invalid_text"),
      Check(TextBad(b.voice, c.voiceBytes), "invalid_voice_description"),
      Check(b.language \notin Languages, "unsupported_language"),
      Check(Outside(Duration(b, c), 80, c.maxDuration), "invalid_max_duration"),
      Check(b.seed > MaxSafeInteger, "invalid_seed"),
      Check(OutputMode(b) = "unsupported", "unsupported_response_format")>>
    \o SamplingChecks(b, Generation(b, c, Defaults)))

-----------------------------------------------------------------------------
(* The C ABI. *)

\* copy_request_input: r is a RequestInputV1 in the caller's memory.
CopyCheck(r, e) ==
  FirstFailure(<<
    Check(r.pointer \in {"null", "misaligned"}, "invalid_argument"),
    Check(r.size # "v1", "invalid_argument"),
    Check(r.generationSize # "v1", "invalid_argument"),
    Check(r.text.bytes > e.textBytes, "invalid_argument"),
    Check(r.voice.bytes > e.voiceBytes, "invalid_argument"),
    Check(r.language \notin Languages, "unsupported_language"),
    Check(r.text.bytes > 0 /\ r.text.memory = "null", "invalid_argument"),
    Check(r.text.bytes > 0 /\ r.text.memory = "not_utf8", "invalid_utf8"),
    Check(r.text.bytes = 0, "invalid_argument"),
    Check(r.voice.bytes > 0 /\ r.voice.memory = "null", "invalid_argument"),
    Check(r.voice.bytes > 0 /\ r.voice.memory = "not_utf8", "invalid_utf8")>>)

-----------------------------------------------------------------------------
(* The scheduler: RequestInput::validate, then validate_generation. *)

NotPositive(x) == x = NotFinite \/ x <= 0
ValidateCheck(text, voice, g, e) ==
  FirstFailure(<<
    Check(text.bytes = 0 \/ text.bytes > e.textBytes \/ voice.bytes > e.voiceBytes,
          "invalid_input"),
    Check(g.frames = 0 \/ g.frames > MaxCodecFrames, "max_codec_frames"),
    Check(NotPositive(g.temperature) \/ NotPositive(g.predictorTemperature), "temperature"),
    Check(Outside(g.topP, 1, 1000) \/ Outside(g.predictorTopP, 1, 1000), "top_p"),
    Check(NotPositive(g.penalty), "repetition_penalty"),
    Check(g.topK > 3072 \/ g.predictorTopK > 2048, "top_k")>>)

-----------------------------------------------------------------------------
(* The talker. *)

\* SamplingConfig::native, for the talker and for the predictor (whose
\* penalty voice_request fixes at one)
NativeSamplingOk(g) ==
  /\ g.topP \in 1..1000 /\ g.temperature > 0 /\ g.penalty > 0
  /\ g.predictorTopP \in 1..1000 /\ g.predictorTemperature > 0

\* VoiceDesignPrompt::from_token_ids.  A step feeds a text token, a codec token
\* or both; ids are the instruction's and the assistant's tokens.
TtsPad == -1   \* TextSource; a token id is positive
TtsBos == -2
TtsEos == -3
Step(text, codec) == [text |-> text, codec |-> codec]
TextOnly(ids) == [i \in DOMAIN ids |-> Step(ids[i], "none")]
CodecPrefix(language) ==
  (IF language = "auto" THEN <<"nothink", "think_bos", "think_eos">>
                        ELSE <<"think", "think_bos", language, "think_eos">>)
  \o <<"pad", "bos">>

\* The steps that pair the codec prefix, but for its last entry, with pads.
PrefixSteps(prefix) ==
  [i \in 1..Len(prefix) - 1 |->
     Step(IF i = Len(prefix) - 1 THEN TtsBos ELSE TtsPad, prefix[i])]

SpokenFrom == 4                       \* assistant tokens before the text: 3
SpokenTo(ids) == Len(ids) - 5         \* and after it: 5

\* TextMode::Streaming: the first text token rides on the last prefix entry and
\* the others follow one per frame.
TrailingText(ids) == SubSeq(ids, SpokenFrom + 1, SpokenTo(ids)) \o <<TtsEos>>

Plan(instruct, ids, language, mode) ==
  LET prefix == CodecPrefix(language)
      opening == TextOnly(instruct) \o TextOnly(SubSeq(ids, 1, 3)) \o PrefixSteps(prefix)
      spoken == SubSeq(ids, SpokenFrom, SpokenTo(ids))
  IN IF mode = "streaming"
       THEN [prefill |-> opening \o <<Step(ids[SpokenFrom], Last(prefix))>>,
             trailing |-> TrailingText(ids)]
       ELSE [prefill |-> opening \o [i \in DOMAIN spoken |-> Step(spoken[i], "pad")]
                                 \o <<Step(TtsEos, "pad"), Step(TtsPad, "bos")>>,
             trailing |-> <<TtsPad>>]

\* The explicit check of the assistant prompt, and what slicing [4..len - 5]
\* takes for granted: with eight tokens the streaming plan panics.
PlanOk(ids) == Len(ids) >= 8
Sliceable(ids) == Len(ids) >= 9

\* session_capacity: positions for the prompt and the frames, in blocks of 32,
\* at least 16, at most the sequence limit; 0 when they do not fit.
SequenceLimit == MaxCodecFrames       \* voice_request
Block == 32
Capacity(prompt, frames) ==
  LET required == prompt + frames
  IN IF required > SequenceLimit
       THEN 0
       ELSE Min({((Max({required, 16}) + Block - 1) \div Block) * Block, SequenceLimit})
=============================================================================
