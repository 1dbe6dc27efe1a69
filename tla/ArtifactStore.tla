---------------------------- MODULE ArtifactStore ----------------------------
(* Packing and opening of a model artifact (qwen3-tts-native, src/artifact.rs *)
(* and src/loader.rs).  A packer process copies the material files and the    *)
(* voice weights of a snapshot into a staging directory named after its       *)
(* process, writes the decoder weights, converted or as they are, and a       *)
(* manifest of sizes and hashes, and publishes the directory by a rename.  A  *)
(* loader checks a published directory against its manifest, file by file in  *)
(* full mode and by size only in contracts mode, and maps the weights.        *)
(*                                                                            *)
(* Packers fail at any call, their clean-up too, are killed and are started   *)
(* again under the same process number; the machine loses power; a file of    *)
(* the published artifact or its manifest decays on disk.  A hash determines  *)
(* what it was made of.  The snapshot is immutable, as the packer requires,   *)
(* and so is the artifact while it is being opened, as the loader's mapping   *)
(* requires.                                                                  *)
EXTENDS Integers, Sequences, FiniteSets

CONSTANTS Packers,    \* process numbers
          Lost, Kept, \* a converted weight keeps one of Kept patterns, each
                      \* for Lost of the source: 2^16 both in the code
          Snapshots,  \* the decoder weights a snapshot may have
          MaxFaults,  \* kills, reruns, power losses and decays
          Absent      \* what is not there; also a hash that no file has

\* The files of a directory in the order they are written; "codec" lies in a
\* subdirectory.
Order == <<"config", "voice", "codec">>
Files == {"config", "voice", "codec"}
Weights == {"voice", "codec"}
Nested == {"codec"}

\* CodecWeightDtype, and the size of a file: converted weights take half the
\* space of those of the source.
Dtypes == {"bf16", "f32"}
Size(f, dtype) == IF f = "codec" /\ dtype = "f32" THEN 4 ELSE 2

\* A file is a value and a size, its record a hash and a size.
Content == [value : Nat, bytes : Nat]
FileRecord == [hash : Content \cup {Absent}, bytes : Nat]

\* A directory has some files and a manifest that names the weights' type and
\* lists the records.
ListingOf(S) == UNION {[some -> S] : some \in SUBSET Files}
Manifest == [dtype : Dtypes, files : ListingOf(FileRecord)]
Directory == [files : ListingOf(Content), manifest : Manifest \cup {Absent}]

ASSUME ArtifactAssumption ==
  /\ Lost \in Nat \ {0} /\ Lost % 2 = 0 /\ Kept \in Nat
  /\ Snapshots \subseteq 0..(Lost * Kept - 1)   \* non-negative patterns
  /\ MaxFaults \in Nat
  /\ Absent \notin Directory /\ Absent \notin Manifest /\ Absent \notin Content
  /\ Absent \notin Packers

VARIABLES
  weight,     \* the decoder weight of the snapshot, its bit pattern
  staging,    \* staging[p]: the staging directory of process p, or Absent
  output,     \* the published directory, or Absent
  unsynced,   \* the packer whose rename may not be on disk yet, or Absent
  packer,     \* packer[p]: [pc, dtype, done, records]
  loader,     \* [pc, mode, left]: the process that opens the artifact
  faults,     \* kills, reruns, power losses and decays so far
  damaged     \* what the disk lost or changed of the published directory

vars == <<weight, staging, output, unsynced, packer, loader, faults, damaged>>

\* f32_bytes_to_bf16: add half of the lost range, less one when the kept part
\* is even, in the width of the source, and drop the low bits.  A finite
\* pattern may round up to the first pattern that is not.
ToBf16(bits) ==
  LET odd == (bits \div Lost) % 2
  IN ((bits + Lost \div 2 - 1 + odd) % (Lost * Kept)) \div Lost

\* f32::is_finite, of non-negative patterns.
Finite(bits) == bits < Lost * Kept - Lost

\* What the packer writes: write_decoder_checkpoint borrows F32 weights as they
\* are and converts those for BF16.
Written(f, dtype) ==
  [value |-> CASE f # "codec" -> 0
               [] f = "codec" /\ dtype = "bf16" -> ToBf16(weight)
               [] f = "codec" /\ dtype = "f32" -> weight,
   bytes |-> Size(f, dtype)]

\* copy_regular_file and hash_regular_file record what they wrote or read.
Record(content) == [hash |-> content, bytes |-> content.bytes]

Packing == {"check", "mkdir", "write", "manifest", "rename", "parent"}

Step(p, pc) == packer' = [packer EXCEPT ![p].pc = pc]

\* PackOptions: a packer of the given type that has done nothing yet.
Fresh(dtype) == [pc |-> "check", dtype |-> dtype, done |-> 0, records |-> <<>>]

Init ==
  /\ weight \in Snapshots
  /\ staging = [p \in Packers |-> Absent]
  /\ output = Absent /\ unsynced = Absent
  /\ packer \in [Packers -> {Fresh(dtype) : dtype \in Dtypes}]
  /\ loader = [pc |-> "idle", mode |-> "full", left |-> {}]
  /\ faults = 0
  /\ damaged = {}

-----------------------------------------------------------------------------
(* pack_artifact *)

\* validate_decoder_finite where the weights are converted, then the first
\* line of StagingDirectory::create, which refuses an existing output.
Check(p) ==
  /\ packer[p].pc = "check"
  /\ Step(p, IF (packer[p].dtype = "bf16" => Finite(weight)) /\ output = Absent
             THEN "mkdir" ELSE "failed")
  /\ UNCHANGED <<weight, staging, output, unsynced, loader, faults, damaged>>

\* create_dir refuses a directory left by an earlier process.
MkdirFails(p) == staging[p] # Absent

Mkdir(p) ==
  /\ packer[p].pc = "mkdir"
  /\ IF MkdirFails(p)
     THEN Step(p, "failed") /\ UNCHANGED staging
     ELSE /\ Step(p, "write")
          /\ staging' = [staging EXCEPT ![p] = [files |-> <<>>, manifest |-> Absent]]
  /\ UNCHANGED <<weight, output, unsynced, loader, faults, damaged>>

\* copy_regular_file, or write_decoder_checkpoint and hash_regular_file: the
\* file is created anew, written, synced and recorded.
Write(p) ==
  LET f == Order[packer[p].done + 1]
      new == Written(f, packer[p].dtype)
  IN /\ packer[p].pc = "write"
     /\ staging' = [staging EXCEPT ![p].files =
                      [g \in DOMAIN @ \cup {f} |-> IF g = f THEN new ELSE @[g]]]
     /\ packer' = [packer EXCEPT
          ![p].pc = IF packer[p].done + 1 = Len(Order) THEN "manifest" ELSE "write",
          ![p].done = @ + 1,
          ![p].records = [g \in DOMAIN @ \cup {f} |-> IF g = f THEN Record(new) ELSE @[g]]]
     /\ UNCHANGED <<weight, output, unsynced, loader, faults, damaged>>

\* build_manifest and write_json_file.
WriteManifest(p) ==
  /\ packer[p].pc = "manifest"
  /\ staging' = [staging EXCEPT ![p].manifest =
                   [dtype |-> packer[p].dtype, files |-> packer[p].records]]
  /\ Step(p, "rename")
  /\ UNCHANGED <<weight, output, unsynced, loader, faults, damaged>>

RenameFails_Never == FALSE

\* rename(2) does not replace a directory that has entries.
RenameFails == output # Absent

\* StagingDirectory::commit.
Rename(p) ==
  /\ packer[p].pc = "rename" /\ ~RenameFails
  /\ output' = staging[p] /\ unsynced' = p
  /\ staging' = [staging EXCEPT ![p] = Absent]
  /\ Step(p, "parent")
  /\ UNCHANGED <<weight, loader, faults, damaged>>

\* The parent is synced, and with it the rename.
Published(p) ==
  /\ packer[p].pc = "parent"
  /\ unsynced' = Absent
  /\ Step(p, "published")
  /\ UNCHANGED <<weight, staging, output, loader, faults, damaged>>

\* What is left of a directory: nothing, some of it or all.  Nobody reads
\* what is left, so a bare directory stands for every part.
Remains(dir) ==
  IF dir = Absent THEN {Absent} ELSE {Absent, dir, [files |-> <<>>, manifest |-> Absent]}

\* Drop for StagingDirectory removes what was not committed and ignores a
\* remove_dir_all that fails on the way.  After the rename there is nothing
\* under the name.
Removed(p) == \E dir \in Remains(staging[p]) : staging' = [staging EXCEPT ![p] = dir]

\* Any call fails; a rename has to when the output exists.  Before create_dir
\* has succeeded there is nothing to drop.
Fail(p) ==
  /\ packer[p].pc \in Packing
  /\ IF packer[p].pc \in {"check", "mkdir"} THEN UNCHANGED staging ELSE Removed(p)
  /\ Step(p, "failed")
  /\ UNCHANGED <<weight, output, unsynced, loader, faults, damaged>>

\* The process is killed; nothing is dropped.
Kill(p) ==
  /\ faults < MaxFaults /\ faults' = faults + 1
  /\ packer[p].pc \in Packing
  /\ Step(p, "killed")
  /\ UNCHANGED <<weight, staging, output, unsynced, loader, damaged>>

\* The command is run again, under a process number used before.
Rerun(p, dtype) ==
  /\ packer[p].pc \in {"killed", "failed"}
  /\ faults < MaxFaults /\ faults' = faults + 1
  /\ packer' = [packer EXCEPT ![p] = Fresh(dtype)]
  /\ UNCHANGED <<weight, staging, output, unsynced, loader, damaged>>

Lose(dir, gone) ==
  IF dir = Absent THEN Absent
  ELSE [dir EXCEPT !.files = [f \in DOMAIN dir.files \ gone |-> dir.files[f]]]

\* The machine stops: every process with it.  commit syncs the staging
\* directory and, after the rename, its parent, but no subdirectory: entries
\* there may be gone, and a rename whose parent was never synced undone,
\* whatever has become of the packer since.
PowerLoss ==
  /\ faults < MaxFaults /\ faults' = faults + 1
  /\ packer' = [p \in Packers |->
       IF packer[p].pc \in Packing THEN [packer[p] EXCEPT !.pc = "killed"] ELSE packer[p]]
  /\ \E gone \in SUBSET Nested, undone \in SUBSET ({unsynced} \ {Absent}) :
       /\ output' = IF undone # {} THEN Absent ELSE Lose(output, gone)
       /\ staging' = [p \in Packers |-> Lose(IF p \in undone THEN output ELSE staging[p], gone)]
       /\ damaged' = IF undone # {} THEN {}
                      ELSE IF output # Absent /\ gone \cap DOMAIN output.files # {}
                      THEN damaged \cup {"files"} ELSE damaged
  /\ unsynced' = Absent
  /\ loader' = [loader EXCEPT !.pc = "idle"]
  /\ UNCHANGED weight

\* The published artifact changes on disk, while nobody has it open.
Decay ==
  /\ faults < MaxFaults /\ faults' = faults + 1
  /\ output # Absent /\ loader.pc \in {"idle", "rejected"}
  /\ UNCHANGED <<weight, staging, unsynced, packer, loader>>

\* A file changes in value or in size.
DecayFile(f) ==
  /\ Decay
  /\ f \in DOMAIN output.files
  /\ \/ \E v \in {0, 1} : output' = [output EXCEPT !.files[f].value = v]
     \/ output' = [output EXCEPT !.files[f].bytes = 1]
  /\ damaged' = damaged \cup {"files"}

\* The manifest changes: into one the loader refuses, as when it is no JSON
\* any more or a name, the type or another checked field differs, or in a
\* hash or a size that it still parses.
DecayManifest ==
  /\ Decay
  /\ output.manifest # Absent
  /\ \/ output' = [output EXCEPT !.manifest = Absent]
     \/ \E f \in DOMAIN output.manifest.files :
          \/ output' = [output EXCEPT !.manifest.files[f].hash = Absent]
          \/ output' = [output EXCEPT !.manifest.files[f].bytes = 1]
  /\ damaged' = damaged \cup {"manifest"}

-----------------------------------------------------------------------------
(* NativeArtifact::open *)

\* The root must exist; the manifest parses and lists the files to check,
\* the weights among them.
Open(mode) ==
  /\ loader.pc \in {"idle", "rejected"}
  /\ LET readable == /\ output # Absent /\ output.manifest # Absent
                     /\ Weights \subseteq DOMAIN output.manifest.files
     IN loader' = IF readable
                  THEN [pc |-> "verify", mode |-> mode, left |-> DOMAIN output.manifest.files]
                  ELSE [loader EXCEPT !.pc = "rejected"]
  /\ loader' # loader
  /\ UNCHANGED <<weight, staging, output, unsynced, packer, faults, damaged>>

Sound_SizeOnly(f) ==
  /\ f \in DOMAIN output.files
  /\ output.files[f].bytes = output.manifest.files[f].bytes

\* verify_manifest_files for one file: it exists, has its size, and in full
\* mode its hash.
Sound(f) ==
  /\ f \in DOMAIN output.files
  /\ output.files[f].bytes = output.manifest.files[f].bytes
  /\ loader.mode = "full" => Record(output.files[f]).hash = output.manifest.files[f].hash

\* The files are checked in the order of their paths, which is Order.
Verify(f) ==
  /\ loader.pc = "verify" /\ f \in loader.left
  /\ \A i, j \in DOMAIN Order : j < i /\ Order[i] = f => Order[j] \notin loader.left
  /\ loader' = IF Sound(f) THEN [loader EXCEPT !.left = @ \ {f}]
               ELSE [loader EXCEPT !.pc = "rejected"]
  /\ UNCHANGED <<weight, staging, output, unsynced, packer, faults, damaged>>

\* Every listed file is sound: MappedCheckpoint::open maps the weights that
\* have the sizes of the contracts.
Fits == \A f \in Weights : output.files[f].bytes = Size(f, output.manifest.dtype)

Map ==
  /\ loader.pc = "verify" /\ loader.left = {}
  /\ loader' = [loader EXCEPT !.pc = IF Fits THEN "mapped" ELSE "rejected"]
  /\ UNCHANGED <<weight, staging, output, unsynced, packer, faults, damaged>>

Close ==
  /\ loader.pc = "mapped"
  /\ loader' = [loader EXCEPT !.pc = "idle"]
  /\ UNCHANGED <<weight, staging, output, unsynced, packer, faults, damaged>>

Next ==
  \/ \E p \in Packers :
       \/ Check(p) \/ Mkdir(p) \/ Write(p) \/ WriteManifest(p) \/ Rename(p)
       \/ Published(p) \/ Fail(p) \/ Kill(p)
       \/ \E dtype \in Dtypes : Rerun(p, dtype)
  \/ PowerLoss
  \/ \E f \in Files : DecayFile(f)
  \/ DecayManifest
  \/ \E mode \in {"full", "contracts"} : Open(mode)
  \/ \E f \in Files : Verify(f)
  \/ Map \/ Close

Spec == Init /\ [][Next]_vars

-----------------------------------------------------------------------------
(* Properties *)

\* How far a source pattern is from the one that a kept pattern stands for.
Distance(bits, kept) == LET d == bits - kept * Lost IN IF d < 0 THEN -d ELSE d

\* Round to nearest, ties to even, over the values a kept pattern can have.
Nearest(bits, kept) ==
  \A other \in 0..(Kept - 1) :
    \/ Distance(bits, kept) < Distance(bits, other)
    \/ Distance(bits, kept) = Distance(bits, other) /\ (other = kept \/ kept % 2 = 0)

\* What the packer was given, in the type it was asked for.
Genuine(f, content, dtype) ==
  /\ content.bytes = Size(f, dtype)
  /\ IF f # "codec" THEN content.value = 0
     ELSE IF dtype = "f32" THEN content.value = weight
     ELSE Nearest(weight, content.value)

Whole(dir) ==
  /\ dir.manifest # Absent
  /\ DOMAIN dir.files = Files /\ DOMAIN dir.manifest.files = Files
  /\ \A f \in Files : /\ Genuine(f, dir.files[f], dir.manifest.dtype)
                       /\ dir.manifest.files[f] = Record(dir.files[f])

\* However packers fail, are killed, are started again or race for one
\* output, a directory under the output name is complete, correctly rounded
\* and matches its manifest until the disk itself loses something
\* (README.md:16 "by atomic rename").
PublishedIsWhole == output # Absent /\ damaged = {} => Whole(output)

\* What a packer has reported as published survives a power loss.
PublishedIsDurable == (\E p \in Packers : packer[p].pc = "published") => output # Absent

\* What the loader maps in full mode is what the packer was given, even after
\* power loss or decay of a file or of the manifest; in contracts mode the
\* weights at least have their sizes, and every file has as long as the
\* manifest is as it was written.
AcceptedIsGenuine ==
  loader.pc = "mapped" =>
    /\ DOMAIN output.files = Files /\ output.manifest # Absent
    /\ \A f \in Files :
         IF loader.mode = "full" THEN Genuine(f, output.files[f], output.manifest.dtype)
         ELSE f \in Weights \/ "manifest" \notin damaged =>
                output.files[f].bytes = Size(f, output.manifest.dtype)

\* A packer works in a directory that holds exactly what it has written
\* itself, although an earlier process of its number left one behind, and one
\* that succeeded leaves none.
StagingIsOwn ==
  \A p \in Packers :
    /\ packer[p].pc \in {"write", "manifest", "rename"} =>
         /\ staging[p] # Absent
         /\ DOMAIN staging[p].files = {Order[i] : i \in 1..packer[p].done}
    /\ packer[p].pc = "published" => staging[p] = Absent

\* Short of a crash or decay, what is published stays as it is: no second
\* packer replaces it (README.md:17 "refuses to overwrite").
NeverReplaced ==
  [][output # Absent /\ faults' = faults => output' = output]_vars

\* Packers publish at most one artifact, whole and for good, each from a
\* directory of its own.
PublishedForGood ==
  []PublishedIsWhole /\ []PublishedIsDurable /\ []StagingIsOwn /\ NeverReplaced
=============================================================================
