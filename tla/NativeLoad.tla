----------------------------- MODULE NativeLoad -----------------------------
(* What NativeBackend::load builds inside qwen3_tts_engine_create_v1          *)
(* (native_backend.rs, native_talker.rs, the codec's ffi.rs) out of two       *)
(* libraries that were built separately, and in which order it is taken apart *)
(* again: when a step fails, and when the worker that owns it ends.           *)
EXTENDS Naturals, Sequences

\* The pairs of libraries that may be installed: of the talker its ABI version
\* and the symbols it exports, of the codec whether the shared-model symbols
\* are complete, the reported version of the device-packet ABI (0: the symbol
\* is missing) and the symbols of its begin and finish.
CONSTANT Builds

VARIABLES
  build,   \* the pair that is loaded
  loading, \* the step NativeBackend::load is at
  held,    \* native resources that exist
  orphan   \* those of them that no Rust value owns

native == <<build, loading, held, orphan>>

\* A resource and those it calls into.
Needs(resource) ==
  CASE resource = "pump" -> {"talkerModel", "talkerLibrary"}
    [] resource = "talkerModel" -> {"talkerLibrary"}
    [] resource = "codecModel" -> {"codecLibrary"}
    [] OTHER -> {}

\* Does the talker hand out device frames, and does it run batches?
DeviceFrames(talker) == talker.abi >= 2
BatchFrames(talker) == talker.abi >= 3

\* validate_device_packet_symbol_set: all of the symbols or none.
DevicePackets(codec) ==
  CASE codec.version = 0 /\ ~codec.begin /\ ~codec.finish -> "absent"
    [] codec.version = 2 /\ codec.begin /\ codec.finish -> "present"
    [] OTHER -> "broken"

\* The packet path of the two libraries is the same.
Handoff(talker, codec) == DeviceFrames(talker) <=> DevicePackets(codec) = "present"

NativeInit ==
  /\ build \in Builds
  /\ loading = "unloaded" /\ held = {} /\ orphan = {}

\* One step of the load: what it needs of the libraries, what exists after it.
Step(from, to, possible, new) ==
  /\ loading = from
  /\ \/ /\ possible /\ loading' = to /\ held' = held \cup new
        /\ UNCHANGED <<build, orphan>>
     \/ /\ loading' = "unwinding"
        /\ UNCHANGED <<build, held, orphan>>

\* NativeTalkerModel::load
OpenTalker == Step("unloaded", "symbols", TRUE, {"talkerLibrary"})
TalkerSymbols ==
  Step("symbols", "model", build.talker.abi >= 1 /\ (DeviceFrames(build.talker) => build.talker.frames), {})
CreateTalker == Step("model", "pump", TRUE, {"talkerModel"})

\* The batch symbol is looked up between the creation of the native model and
\* that of the value that would destroy it.
StartPump ==
  /\ loading = "pump"
  /\ IF BatchFrames(build.talker) /\ ~build.talker.batch
       THEN loading' = "unwinding" /\ orphan' = {"talkerModel"} /\ UNCHANGED held
       ELSE /\ loading' = "upload" /\ UNCHANGED orphan
            /\ held' = held \cup (IF BatchFrames(build.talker) THEN {"pump"} ELSE {})
  /\ UNCHANGED build
UploadTalker == Step("upload", "codec", TRUE, {})

\* Api::load, DecoderWeights::open and load_shared_model
OpenCodec == Step("codec", "weights", DevicePackets(build.codec) # "broken", {"codecLibrary"})
OpenWeights == Step("weights", "shared", TRUE, {})
CreateCodec == Step("shared", "decoder", build.codec.shared, {"codecModel"})
UploadCodec == Step("decoder", "handoff", TRUE, {})

\* The end of NativeBackend::load, then Scheduler::new.
AgreeOnHandoff ==
  Step("handoff", "scheduler", Handoff(build.talker, build.codec),
       IF DeviceFrames(build.talker) THEN {"cuda"} ELSE {})
StartScheduler == Step("scheduler", "loaded", TRUE, {})

\* The order of destruction: of the locals of load, of the fields of a backend.
UnwindOrder == <<"cuda", "codecModel", "codecLibrary", "pump", "talkerModel", "talkerLibrary">>
DropOrder == <<"pump", "talkerModel", "talkerLibrary", "codecModel", "codecLibrary", "cuda">>

\* The next resource in the order is destroyed.
Destroy(order) ==
  \E i \in DOMAIN order :
    /\ order[i] \in held \ orphan
    /\ \A j \in 1..i - 1 : order[j] \notin held \ orphan
    /\ held' = held \ {order[i]}

Unwind ==
  /\ loading = "unwinding"
  /\ \/ Destroy(UnwindOrder) /\ UNCHANGED loading
     \/ held \subseteq orphan /\ loading' = "failed" /\ UNCHANGED held
  /\ UNCHANGED <<build, orphan>>

Load ==
  \/ OpenTalker \/ TalkerSymbols \/ CreateTalker \/ StartPump \/ UploadTalker
  \/ OpenCodec \/ OpenWeights \/ CreateCodec \/ UploadCodec
  \/ AgreeOnHandoff \/ StartScheduler \/ Unwind

\* The backend is dropped by the thread that owns it.
DropBackend ==
  /\ Destroy(DropOrder)
  /\ UNCHANGED <<build, loading, orphan>>

-----------------------------------------------------------------------------
\* Everything a backend of these libraries needs, with one idea of the packets
\* that pass from the talker to the codec.
Complete ==
  /\ {"talkerModel", "talkerLibrary", "codecModel", "codecLibrary"} \subseteq held
  /\ "pump" \in held <=> BatchFrames(build.talker)
  /\ "cuda" \in held <=> DeviceFrames(build.talker) /\ DevicePackets(build.codec) = "present"
  /\ DeviceFrames(build.talker) <=> DevicePackets(build.codec) = "present"

\* No code is unloaded under a resource that still needs it.  (The orphan of a
\* failed StartPump is left without its library.)
LibrariesLast == \A resource \in held \ orphan : Needs(resource) \subseteq held

\* A failed load leaves nothing, but for that orphan.
FailureIsClean == loading = "failed" => held = orphan
=============================================================================
