----------------------------- MODULE MCExchange -----------------------------
(* The configurations, requests, prompts and defects Exchange is checked with. *)
(* Each request varies one group of a plain request's fields; the sampling    *)
(* fields, whose checks interact, are varied together.                        *)
EXTENDS Exchange

Config(max, default) ==
  [textBytes |-> 100, voiceBytes |-> 50, maxDuration |-> max, defaultDuration |-> default]
MCPrompts ==
  {[instruct |-> [i \in 1..n |-> i], ids |-> [i \in 1..t |-> 1000 + i]] :
     n \in {0, 2}, t \in {8, 9, 11}}

Text(bytes) == [bytes |-> bytes, blank |-> bytes = 0, nul |-> FALSE, memory |-> "utf8"]
Texts == {Text(10), Text(0), Text(1000), [Text(10) EXCEPT !.blank = TRUE],
          [Text(10) EXCEPT !.nul = TRUE], [Text(10) EXCEPT !.memory = "null"],
          [Text(10) EXCEPT !.memory = "not_utf8"]}
Durations == {Absent, 0, 79, 80, 81, 560, 60000, 120000, 120001, 655360, NotFinite}

Stage(strategy, temperature, topP, topK) ==
  [strategy |-> strategy, temperature |-> temperature, topP |-> topP, topK |-> topK]
Stages ==
  {Stage(s, t, p, k) : s \in {"unset", "sample", "greedy"}, t \in {Absent, 0, 900, 2001},
                       p \in {Absent, 1000}, k \in {Absent, 50, 2049, 3073}}
Explicit == Stage("sample", 900, 1000, 50)
Penalties == {Absent, 0, 100, 1050}

Plain ==
  [text |-> Text(10), voice |-> Text(5), language |-> "german", seed |-> 7,
   duration |-> 60000, sampled |-> TRUE, talker |-> Explicit, penalty |-> 1050,
   predicted |-> TRUE, predictor |-> Explicit, stream |-> "true", format |-> "unset"]
Sampled(plain) ==
  {[plain EXCEPT !.sampled = FALSE, !.talker = NoStage, !.penalty = Absent,
                 !.predicted = FALSE, !.predictor = NoStage]}
  \cup {[plain EXCEPT !.talker = s, !.predicted = FALSE, !.predictor = NoStage] : s \in Stages}
  \cup {[plain EXCEPT !.talker = [Explicit EXCEPT !.strategy = s], !.predictor = p, !.penalty = q] :
          s \in {"unset", "sample"}, p \in Stages, q \in Penalties}
  \cup {[plain EXCEPT !.talker = Stage("greedy", Absent, Absent, Absent), !.predictor = p] : p \in Stages}
Varied(plain) ==
  {[plain EXCEPT !.text = t] : t \in Texts} \cup {[plain EXCEPT !.voice = t] : t \in Texts}
  \cup {[plain EXCEPT !.duration = d] : d \in Durations}
  \cup {[plain EXCEPT !.language = l] : l \in Languages \cup {"klingon"}}
  \cup {[plain EXCEPT !.seed = n] : n \in {Absent, 0, MaxSafeInteger + 1}}
  \cup Sampled(plain)

Bodies == Varied(Plain) \cup
  {[Plain EXCEPT !.stream = s, !.format = f] :
     s \in {"unset", "true", "false"}, f \in {"unset", "pcm_s16le", "wav", "mp3"}}
Entries == {[e EXCEPT !.stream = b] : e \in Varied([Plain EXCEPT !.stream = TRUE]), b \in BOOLEAN}

Aliases ==
  {[input |-> t, voice |-> Text(5), model |-> m, speed |-> v, stream |-> b, response |-> f] :
     t \in {Text(10), Text(1000)}, m \in {"voice-design", "other"}, v \in {1000, 1500},
     b \in BOOLEAN, f \in {"wav", "pcm"}}

Asked(frames) ==
  [Generation(Plain, Config(120000, 60000), Defaults) EXCEPT !.frames = frames]
CInput ==
  [pointer |-> "aligned", size |-> "v1", generationSize |-> "v1", text |-> Text(10),
   voice |-> Text(5), language |-> "german", generation |-> Asked(50)]
CInputs ==
  {[CInput EXCEPT !.pointer = p] : p \in {"aligned", "null", "misaligned"}}
  \cup {[CInput EXCEPT !.size = "short"], [CInput EXCEPT !.generationSize = "short"]}
  \cup {[CInput EXCEPT !.text = t] : t \in Texts} \cup {[CInput EXCEPT !.voice = t] : t \in Texts}
  \cup {[CInput EXCEPT !.language = "klingon"]}
  \cup {[CInput EXCEPT !.generation = Asked(n)] : n \in {0, 1, MaxCodecFrames - 40, MaxCodecFrames,
                                                        MaxCodecFrames + 1}}
  \cup {[CInput EXCEPT !.generation.temperature = v] : v \in {0, NotFinite}}
  \cup {[CInput EXCEPT !.generation.predictorTopP = 1001], [CInput EXCEPT !.generation.penalty = 0],
        [CInput EXCEPT !.generation.topK = 3073], [CInput EXCEPT !.generation.predictorTopK = 2049]}

MCRequests ==
  {[door |-> "entry", entry |-> e] : e \in Entries}
  \cup {[door |-> "sglang", entry |-> e] : e \in Entries}
  \cup {[door |-> "json", body |-> b] : b \in Bodies}
  \cup {[door |-> "openai", openai |-> o] : o \in Aliases}
  \cup {[door |-> "c", input |-> c] : c \in CInputs}

\* The narrow server speaks one frame at most, the widest cannot warm up, the
\* last is refused; one default exceeds its maximum.
MCCases ==
  {[config |-> Config(120000, 60000), request |-> r] : r \in MCRequests}
  \cup {[config |-> Config(80, 80), request |-> [door |-> "json", body |-> b]] :
          b \in {[Plain EXCEPT !.duration = d, !.stream = "false"] : d \in {Absent, 80, 81}}}
  \cup {[config |-> c, request |-> [door |-> "json", body |-> [Plain EXCEPT !.stream = "false"]]] :
          c \in {Config(650000, 60000), Config(655360, 60000), Config(60000, 120000),
                   Config(79, 79)}}

MCDamages ==
  {"none", "no_start", "two_starts", "no_end", "two_ends", "early_end", "late_audio", "gap",
   "shift", "frame", "empty", "rate", "not_final", "metrics", "reason", "other_id",
   "short_length", "long_length", "boundary", "stray_cr", "epilogue", "no_crlf", "long_chunk",
   "trailer", "bad_trailer", "after_end", "riff", "no_format", "two_data", "odd_data", "overrun",
   "padded", "short_body", "long_body", "ambiguous", "type", "no_id", "endless", "head_cr",
   "chunked", "odd", "endless_part", "huge_part",
   "extension", "endless_size"}
=============================================================================
