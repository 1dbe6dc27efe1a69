------------------------ MODULE ArtifactStoreProofs ------------------------
(* What is published under the output name and what a loader maps, for every  *)
(* set of packers, every number of faults and every width of the weights.     *)
EXTENDS ArtifactStore, TLAPS

-----------------------------------------------------------------------------
(* Rounding *)

\* A quotient leaves a remainder below the divisor.
LEMMA Divided ==
  ASSUME NEW a \in Nat, NEW b \in Nat, b > 0
  PROVE  /\ a \div b \in Nat
         /\ a - b * (a \div b) \in 0 .. b - 1
  BY SMTT(20)

\* A quotient and a remainder determine what they come from.
LEMMA Quotient ==
  ASSUME NEW a \in Nat, NEW b \in Nat, b > 0,
         NEW q \in Nat, NEW r \in 0 .. b - 1, a = b * q + r
  PROVE  a \div b = q
  BY SMTT(20)

\* A sum below the width of the source does not wrap.
LEMMA Small ==
  ASSUME NEW a \in Nat, NEW b \in Nat, a < b
  PROVE  a % b = a
  BY SMTT(20)

\* Whole multiples are a step of b apart.
LEMMA Steps ==
  ASSUME NEW b \in Nat, NEW m \in Int, NEW k \in Int, m < k
  PROVE  b * m + b <= b * k
  BY SMTT(20)

\* f32_bytes_to_bf16 keeps the pattern below or the one above, whichever the
\* lost part is closer to, and at half way the even one; it does not wrap.
LEMMA Rounds ==
  ASSUME NEW bits \in 0 .. (Lost * Kept - Lost - 1)
  PROVE  \E q \in Nat, r \in 0 .. Lost - 1, odd \in {0, 1} :
           /\ bits = Lost * q + r /\ odd = q % 2
           /\ ToBf16(bits) = IF r + odd <= Lost \div 2 THEN q ELSE q + 1
PROOF
<1> DEFINE q == bits \div Lost
           r == bits - Lost * q
           odd == q % 2
           half == Lost \div 2
           wide == Lost * Kept
           sum == bits + half - 1 + odd
<1>1. /\ Lost \in Nat /\ Lost > 0 /\ half \in Nat /\ half > 0 /\ Lost = 2 * half
      /\ wide \in Nat
  BY ArtifactAssumption
<1>2. bits \in Nat /\ bits <= wide - Lost - 1
  BY <1>1
<1>3. q \in Nat /\ r \in 0 .. Lost - 1
  BY <1>1, <1>2, Divided
<1>4. odd \in {0, 1}
  BY <1>3
<1>5. Lost * q \in Int
  BY <1>1, <1>3
<1>6. bits = Lost * q + r
  BY <1>2, <1>5
<1>7. sum \in Nat /\ sum < wide
  BY <1>1, <1>2, <1>4
<1>8. sum % wide = sum
  BY <1>1, <1>7, Small
<1>9. ToBf16(bits) = sum \div Lost
  BY <1>8 DEF ToBf16
<1>10. sum = Lost * q + (r + half - 1 + odd)
  BY <1>1, <1>2, <1>4, <1>5, <1>6
<1>11. CASE r + odd <= half
  <2>1. r + half - 1 + odd \in 0 .. Lost - 1
    BY <1>1, <1>3, <1>4, <1>11
  <2>2. sum \div Lost = q
    BY <1>1, <1>3, <1>7, <1>10, <2>1, Quotient
  <2> QED
    BY <1>3, <1>4, <1>6, <1>9, <1>11, <2>2
<1>12. CASE ~ (r + odd <= half)
  <2>1. r - half - 1 + odd \in 0 .. Lost - 1
    BY <1>1, <1>3, <1>4, <1>12
  <2>2. Lost * (q + 1) = Lost * q + Lost
    BY <1>1, <1>3
  <2>3. sum = Lost * (q + 1) + (r - half - 1 + odd)
    BY <1>1, <1>3, <1>4, <1>5, <1>10, <2>2
  <2>4. sum \div Lost = q + 1
    BY <1>1, <1>3, <1>7, <2>1, <2>3, Quotient
  <2> QED
    BY <1>3, <1>4, <1>6, <1>9, <1>12, <2>4
<1> QED
  BY <1>11, <1>12

\* The converted weight is the nearest pattern, ties to even, whatever the
\* weight of the snapshot and the number of bits it loses.
THEOREM RoundsToNearest ==
  ASSUME NEW bits \in 0 .. (Lost * Kept - Lost - 1)
  PROVE  ToBf16(bits) \in Nat /\ Nearest(bits, ToBf16(bits))
PROOF
<1>1. PICK q \in Nat, r \in 0 .. Lost - 1, odd \in {0, 1} :
        /\ bits = Lost * q + r /\ odd = q % 2
        /\ ToBf16(bits) = IF r + odd <= Lost \div 2 THEN q ELSE q + 1
  BY Rounds
<1> DEFINE kept == ToBf16(bits)
           half == Lost \div 2
<1>2. /\ Lost \in Nat /\ half \in Nat /\ half > 0 /\ Lost = 2 * half
  BY ArtifactAssumption
<1>3. kept \in Nat
  BY <1>1, <1>2
<1> SUFFICES ASSUME NEW other \in 0 .. (Kept - 1)
             PROVE  \/ Distance(bits, kept) < Distance(bits, other)
                    \/ /\ Distance(bits, kept) = Distance(bits, other)
                       /\ other = kept \/ kept % 2 = 0
  BY <1>3 DEF Nearest
<1>4. other \in Int
  BY ArtifactAssumption
<1> DEFINE base == Lost * q
           far  == other * Lost
<1>5. base \in Int /\ far \in Int /\ far = Lost * other
  BY <1>2, <1>4
<1>6. bits = base + r
  BY <1>1
<1>7. Distance(bits, other) = IF base + r - far < 0 THEN far - base - r ELSE base + r - far
  BY <1>1, <1>2, <1>5, <1>6 DEF Distance
<1>8. \/ other = q /\ far = base
      \/ other < q /\ far + Lost <= base
      \/ other = q + 1 /\ far = base + Lost
      \/ other > q + 1 /\ far >= base + 2 * Lost
  <2>1. CASE other < q
    BY <1>1, <1>2, <1>4, <1>5, <2>1, Steps
  <2>2. CASE other = q
    BY <1>5, <2>2
  <2>3. Lost * (q + 1) = base + Lost
    BY <1>1, <1>2
  <2>4. CASE other = q + 1
    BY <1>5, <2>3, <2>4
  <2>5. CASE other > q + 1
    <3>1. Lost * (q + 1) + Lost <= Lost * other
      BY <1>1, <1>2, <1>4, <2>5, Steps
    <3> QED
      BY <1>2, <1>5, <2>3, <2>5, <3>1
  <2> QED
    BY <1>1, <1>4, <2>1, <2>2, <2>4, <2>5
<1>9. CASE r + odd <= half
  <2>1. kept = q
    BY <1>1, <1>9
  <2>2. Distance(bits, kept) = r
    <3>1. q * Lost = base
      BY <1>1, <1>2
    <3> HIDE DEF base
    <3>2. bits - kept * Lost = r
      BY <1>1, <1>2, <1>5, <1>6, <2>1, <3>1
    <3> QED
      BY <1>1, <1>2, <3>2 DEF Distance
  <2> HIDE DEF kept, base, far, half
  <2>3. other = q => Distance(bits, other) = r
    BY <1>1, <1>2, <1>5, <1>7, <1>8
  <2>4. other # q => Distance(bits, other) > r \/ (Distance(bits, other) = r /\ odd = 0)
    BY <1>1, <1>2, <1>4, <1>5, <1>7, <1>8, <1>9
  <2> QED
    BY <1>1, <2>1, <2>2, <2>3, <2>4
<1>10. CASE ~ (r + odd <= half)
  <2>1. kept = q + 1
    BY <1>1, <1>10
  <2>2. Distance(bits, kept) = Lost - r
    <3>1. (q + 1) * Lost = base + Lost
      BY <1>1, <1>2
    <3> HIDE DEF base
    <3>2. bits - kept * Lost = r - Lost /\ r - Lost < 0
      BY <1>1, <1>2, <1>5, <1>6, <2>1, <3>1
    <3> QED
      BY <1>1, <1>2, <3>2 DEF Distance
  <2> HIDE DEF kept, base, far, half
  <2>3. other = q + 1 => Distance(bits, other) = Lost - r
    BY <1>1, <1>2, <1>5, <1>7, <1>8
  <2>4. other # q + 1 =>
          Distance(bits, other) > Lost - r \/ (Distance(bits, other) = Lost - r /\ odd = 1)
    BY <1>1, <1>2, <1>4, <1>5, <1>7, <1>8, <1>10
  <2>5. odd = 1 => (q + 1) % 2 = 0
    BY <1>1
  <2> QED
    BY <1>1, <1>2, <2>1, <2>2, <2>3, <2>4, <2>5
<1> QED
  BY <1>1, <1>2, <1>9, <1>10

-----------------------------------------------------------------------------
(* Directories *)

\* The files a packer has written after n steps.
Have(n) == {Order[i] : i \in 1 .. n}

\* Each write adds the next of the three files.
LEMMA OrderIsFiles ==
  /\ Len(Order) = 3
  /\ Have(0) = {} /\ Have(3) = Files
  /\ \A n \in 0 .. 2 : Order[n + 1] \in Files /\ Have(n + 1) = Have(n) \cup {Order[n + 1]}
PROOF
<1>1. Len(Order) = 3 /\ Order[1] = "config" /\ Order[2] = "voice" /\ Order[3] = "codec"
  BY DEF Order
<1>2. Have(0) = {} /\ Have(1) = {Order[1]} /\ Have(2) = {Order[1], Order[2]}
      /\ Have(3) = {Order[1], Order[2], Order[3]}
  BY DEF Have
<1> QED
  BY <1>1, <1>2 DEF Files

\* A listing is any function from some of the files to what is listed.
LEMMA ListingIs ==
  ASSUME NEW S, NEW list
  PROVE  list \in ListingOf(S) <=>
           /\ list = [f \in DOMAIN list |-> list[f]]
           /\ DOMAIN list \subseteq Files
           /\ \A f \in DOMAIN list : list[f] \in S
PROOF
<1>1. ASSUME list \in ListingOf(S)
      PROVE  /\ list = [f \in DOMAIN list |-> list[f]]
             /\ DOMAIN list \subseteq Files
             /\ \A f \in DOMAIN list : list[f] \in S
  <2>1. PICK some \in SUBSET Files : list \in [some -> S]
    BY <1>1 DEF ListingOf
  <2> QED
    BY <2>1
<1>2. ASSUME list = [f \in DOMAIN list |-> list[f]], DOMAIN list \subseteq Files,
             \A f \in DOMAIN list : list[f] \in S
      PROVE  list \in ListingOf(S)
  <2>1. list \in [DOMAIN list -> S]
    BY <1>2
  <2> QED
    BY <1>2, <2>1 DEF ListingOf
<1> QED
  BY <1>1, <1>2

\* create_dir leaves a directory without files.
LEMMA EmptyListing == ASSUME NEW S PROVE <<>> \in ListingOf(S) /\ DOMAIN <<>> = {}
PROOF
<1>1. <<>> \in [{} -> S] /\ {} \in SUBSET Files
  OBVIOUS
<1> QED
  BY <1>1 DEF ListingOf

\* A file is added to a listing, or takes the place of the one of its name.
LEMMA PutInListing ==
  ASSUME NEW S, NEW list \in ListingOf(S), NEW f \in Files, NEW new \in S, NEW put,
         put = [g \in DOMAIN put |-> put[g]], DOMAIN put = DOMAIN list \cup {f},
         \A g \in DOMAIN put : put[g] = IF g = f THEN new ELSE list[g]
  PROVE  put \in ListingOf(S)
PROOF
<1>1. DOMAIN list \subseteq Files /\ \A g \in DOMAIN list : list[g] \in S
  BY ListingIs
<1>2. DOMAIN put \subseteq Files /\ \A g \in DOMAIN put : put[g] \in S
  BY <1>1
<1> QED
  BY <1>2, ListingIs

\* One entry of a listing changes.
LEMMA ChangeListing ==
  ASSUME NEW S, NEW list \in ListingOf(S), NEW f \in DOMAIN list, NEW new \in S
  PROVE  /\ [list EXCEPT ![f] = new] \in ListingOf(S)
         /\ DOMAIN [list EXCEPT ![f] = new] = DOMAIN list
         /\ \A g \in DOMAIN list :
              [list EXCEPT ![f] = new][g] = IF g = f THEN new ELSE list[g]
PROOF
<1>1. DOMAIN list \subseteq Files /\ \A g \in DOMAIN list : list[g] \in S
  BY ListingIs
<1> DEFINE put == [list EXCEPT ![f] = new]
<1>2. /\ put = [g \in DOMAIN put |-> put[g]]
      /\ DOMAIN put = DOMAIN list
      /\ \A g \in DOMAIN list : put[g] = IF g = f THEN new ELSE list[g]
  BY <1>1
<1> HIDE DEF put
<1>3. put \in ListingOf(S)
  BY <1>1, <1>2, ListingIs
<1> QED
  BY <1>2, <1>3 DEF put

\* Files that are gone leave a listing of the others.
LEMMA CutListing ==
  ASSUME NEW S, NEW list \in ListingOf(S), NEW gone
  PROVE  [g \in DOMAIN list \ gone |-> list[g]] \in ListingOf(S)
PROOF
<1> DEFINE cut == [g \in DOMAIN list \ gone |-> list[g]]
<1>1. DOMAIN list \subseteq Files /\ \A g \in DOMAIN list : list[g] \in S
  BY ListingIs
<1>2. /\ cut = [g \in DOMAIN cut |-> cut[g]]
      /\ DOMAIN cut \subseteq Files
      /\ \A g \in DOMAIN cut : cut[g] \in S
  BY <1>1
<1> HIDE DEF cut
<1>3. cut \in ListingOf(S)
  BY <1>2, ListingIs
<1> QED
  BY <1>3 DEF cut

\* A directory is told from none by what it has, and so is a manifest.
LEMMA DirectoryIs ==
  /\ \A dir \in Directory :
       /\ dir # Absent /\ dir.files \in ListingOf(Content)
       /\ dir.manifest \in Manifest \cup {Absent}
  /\ \A m \in Manifest : m # Absent /\ m.dtype \in Dtypes /\ m.files \in ListingOf(FileRecord)
  BY ArtifactAssumption DEF Directory, Manifest

\* A directory of nothing, as after create_dir.
LEMMA BareDirectory ==
  /\ [files |-> <<>>, manifest |-> Absent] \in Directory
  /\ [files |-> <<>>, manifest |-> Absent].files = <<>>
  BY EmptyListing DEF Directory

\* A directory that gets other files or another manifest.
LEMMA Rewritten ==
  ASSUME NEW dir \in Directory
  PROVE  /\ \A files \in ListingOf(Content) :
              /\ [dir EXCEPT !.files = files] \in Directory
              /\ [dir EXCEPT !.files = files].files = files
              /\ [dir EXCEPT !.files = files].manifest = dir.manifest
         /\ \A m \in Manifest \cup {Absent} :
              /\ [dir EXCEPT !.manifest = m] \in Directory
              /\ [dir EXCEPT !.manifest = m].files = dir.files
              /\ [dir EXCEPT !.manifest = m].manifest = m
  BY DEF Directory

\* A power loss leaves a directory a directory and its manifest as it was.
LEMMA LoseKeeps ==
  ASSUME NEW dir \in Directory \cup {Absent}, NEW gone
  PROVE  /\ Lose(dir, gone) \in Directory \cup {Absent}
         /\ Lose(dir, gone) = Absent <=> dir = Absent
         /\ dir # Absent =>
              /\ Lose(dir, gone).manifest = dir.manifest
              /\ Lose(dir, gone).files = [f \in DOMAIN dir.files \ gone |-> dir.files[f]]
PROOF
<1>1. CASE dir = Absent
  BY <1>1 DEF Lose
<1>2. CASE dir \in Directory
  <2> DEFINE cut == [f \in DOMAIN dir.files \ gone |-> dir.files[f]]
  <2>1. dir # Absent /\ dir.files \in ListingOf(Content) /\ cut \in ListingOf(Content)
    BY <1>2, DirectoryIs, CutListing
  <2> HIDE DEF cut
  <2>2. /\ [dir EXCEPT !.files = cut] \in Directory
        /\ [dir EXCEPT !.files = cut].files = cut
        /\ [dir EXCEPT !.files = cut].manifest = dir.manifest
    BY <1>2, <2>1, Rewritten
  <2>3. Lose(dir, gone) = [dir EXCEPT !.files = cut]
    BY <2>1 DEF Lose, cut
  <2> QED
    BY <2>1, <2>2, <2>3, DirectoryIs DEF cut
<1> QED
  BY <1>1, <1>2

-----------------------------------------------------------------------------
(* The inductive invariant *)

PackerPcs == Packing \cup {"published", "failed", "killed"}
PackerStates ==
  [pc : PackerPcs, dtype : Dtypes, done : 0 .. 3, records : ListingOf(FileRecord)]
LoaderStates ==
  [pc : {"idle", "verify", "mapped", "rejected"}, mode : {"full", "contracts"},
   left : SUBSET Files]

\* The values the state takes.
TypeOK ==
  /\ weight \in Snapshots
  /\ staging \in [Packers -> Directory \cup {Absent}]
  /\ output \in Directory \cup {Absent}
  /\ unsynced \in Packers \cup {Absent}
  /\ packer \in [Packers -> PackerStates]
  /\ loader \in LoaderStates
  /\ faults \in Nat /\ damaged \in SUBSET {"files", "manifest"}

\* A packer that writes has its staging directory to itself: it holds the
\* files recorded so far, each of them genuine.
WritingInv(p) ==
  /\ staging[p] # Absent
  /\ DOMAIN staging[p].files = Have(packer[p].done)
  /\ DOMAIN packer[p].records = Have(packer[p].done)
  /\ \A f \in Have(packer[p].done) :
       /\ Genuine(f, staging[p].files[f], packer[p].dtype)
       /\ packer[p].records[f] = Record(staging[p].files[f])
  /\ packer[p].done = 3 <=> packer[p].pc # "write"

\* A rename that is not on disk yet has emptied the staging name, and it stays
\* empty: no other packer starts while the output is there.
RenamedInv(p) ==
  /\ packer[p].pc \in {"mkdir", "write", "manifest", "rename"} => unsynced # p
  /\ packer[p].pc \in {"parent", "published"} => staging[p] = Absent
  /\ packer[p].pc = "parent" => unsynced = p
  /\ packer[p].pc = "published" => unsynced = Absent /\ output # Absent
  /\ unsynced = p => output # Absent

PackerInv(p) ==
  /\ packer[p].pc \in {"check", "mkdir"} => packer[p].done = 0 /\ packer[p].records = <<>>
  /\ packer[p].pc \in {"mkdir", "write", "manifest", "rename"} /\ packer[p].dtype = "bf16" =>
       Finite(weight)
  /\ packer[p].pc \in {"write", "manifest", "rename"} => WritingInv(p)
  /\ packer[p].pc = "rename" =>
       staging[p].manifest = [dtype |-> packer[p].dtype, files |-> packer[p].records]

\* A hash in the manifest is genuine or matches nothing, even when the files
\* and the sizes no longer are.
ManifestInv(m) ==
  /\ DOMAIN m.files = Files
  /\ \A f \in Files : m.files[f].hash # Absent => Genuine(f, m.files[f].hash, m.dtype)
  /\ "manifest" \notin damaged => \A f \in Files : m.files[f].bytes = Size(f, m.dtype)

OutputInv ==
  output # Absent =>
    /\ output.manifest # Absent => ManifestInv(output.manifest)
    /\ damaged = {} => Whole(output)

\* What the loader has checked is still what it checked.
LoaderInv ==
  loader.pc \in {"verify", "mapped"} =>
    /\ output # Absent /\ output.manifest # Absent
    /\ loader.pc = "mapped" => loader.left = {} /\ Fits
    /\ \A f \in Files \ loader.left : Sound(f)

IInv ==
  /\ TypeOK
  /\ \A p \in Packers : PackerInv(p) /\ RenamedInv(p)
  /\ OutputInv /\ LoaderInv

\* What write_decoder_checkpoint and copy_regular_file write is genuine.
LEMMA WrittenIsGenuine ==
  ASSUME TypeOK, NEW f \in Files, NEW dtype \in Dtypes, dtype = "bf16" => Finite(weight)
  PROVE  Written(f, dtype) \in Content /\ Genuine(f, Written(f, dtype), dtype)
PROOF
<1> DEFINE file == Written(f, dtype)
<1>1. weight \in Nat /\ Lost * Kept \in Nat /\ Lost \in Nat /\ weight <= Lost * Kept - 1
  BY ArtifactAssumption DEF TypeOK
<1>2. Size(f, dtype) \in Nat
  BY DEF Size
<1>3. CASE f # "codec"
  <2>1. file = [value |-> 0, bytes |-> Size(f, dtype)]
    BY <1>3 DEF Written
  <2> QED
    BY <1>2, <1>3, <2>1 DEF Content, Genuine
<1>4. CASE f = "codec" /\ dtype = "f32"
  <2>1. file = [value |-> weight, bytes |-> Size(f, dtype)]
    BY <1>4 DEF Written
  <2> QED
    BY <1>1, <1>2, <1>4, <2>1 DEF Content, Genuine
<1>5. CASE f = "codec" /\ dtype = "bf16"
  <2>1. file = [value |-> ToBf16(weight), bytes |-> Size(f, dtype)]
    BY <1>5 DEF Written
  <2>2. weight \in 0 .. (Lost * Kept - Lost - 1)
    BY <1>1, <1>5 DEF Finite
  <2>3. ToBf16(weight) \in Nat /\ Nearest(weight, ToBf16(weight))
    BY <2>2, RoundsToNearest
  <2> QED
    BY <1>2, <1>5, <2>1, <2>3 DEF Content, Genuine
<1> QED
  BY <1>3, <1>4, <1>5 DEF Dtypes

\* The snapshot is there; no directory is.
LEMMA Start == Init => IInv
PROOF
<1> SUFFICES ASSUME Init
             PROVE  IInv
  OBVIOUS
<1>1. \A dtype \in Dtypes : Fresh(dtype) \in PackerStates
  BY EmptyListing DEF Fresh, PackerStates, PackerPcs, Packing
<1>2. TypeOK
  <2>1. /\ weight \in Snapshots /\ unsynced \in Packers \cup {Absent}
        /\ faults \in Nat /\ damaged \in SUBSET {"files", "manifest"}
    BY DEF Init
  <2>2. staging \in [Packers -> Directory \cup {Absent}] /\ output \in Directory \cup {Absent}
    BY DEF Init
  <2>3. packer \in [Packers -> PackerStates]
    BY <1>1 DEF Init
  <2>4. loader \in LoaderStates
    BY DEF Init, LoaderStates
  <2> QED
    BY <2>1, <2>2, <2>3, <2>4 DEF TypeOK
<1>3. ASSUME NEW p \in Packers
      PROVE  PackerInv(p) /\ RenamedInv(p)
  <2>1. packer[p].pc = "check" /\ packer[p].done = 0 /\ packer[p].records = <<>>
    BY DEF Init, Fresh
  <2>2. unsynced # p
    BY ArtifactAssumption DEF Init
  <2> QED
    BY <2>1, <2>2 DEF PackerInv, RenamedInv
<1>4. OutputInv /\ LoaderInv
  BY DEF Init, OutputInv, LoaderInv
<1> QED
  BY <1>2, <1>3, <1>4 DEF IInv

-----------------------------------------------------------------------------
(* The steps of a packer *)

\* What a move of the program counter leaves as it was.
LEMMA StepIs ==
  ASSUME IInv, NEW p \in Packers, NEW pc \in PackerPcs, Step(p, pc)
  PROVE  /\ packer' \in [Packers -> PackerStates]
         /\ \A q \in Packers \ {p} : packer'[q] = packer[q]
         /\ packer'[p].pc = pc /\ packer'[p].dtype = packer[p].dtype
         /\ packer'[p].done = packer[p].done /\ packer'[p].records = packer[p].records
  BY DEF IInv, TypeOK, Step, PackerStates

\* A packer disturbs neither the others, whose staging directories are their
\* own, nor what is published, nor the loader.
LEMMA OwnSteps ==
  ASSUME IInv, NEW p \in Packers,
         packer' \in [Packers -> PackerStates],
         staging' \in [Packers -> Directory \cup {Absent}],
         \A q \in Packers \ {p} : packer'[q] = packer[q] /\ staging'[q] = staging[q],
         UNCHANGED <<weight, output, loader, damaged>>, faults' \in Nat,
         unsynced' = unsynced \/ (unsynced = p /\ unsynced' = Absent),
         PackerInv(p)', RenamedInv(p)'
  PROVE  IInv'
PROOF
<1>1. TypeOK'
  BY DEF IInv, TypeOK
<1>2. ASSUME NEW q \in Packers
      PROVE  PackerInv(q)' /\ RenamedInv(q)'
  <2>1. CASE q = p
    BY <2>1
  <2>2. CASE q # p
    <3>1. /\ packer'[q] = packer[q] /\ staging'[q] = staging[q]
          /\ weight' = weight /\ output' = output
          /\ PackerInv(q) /\ RenamedInv(q)
      BY <2>2 DEF IInv
    <3>2. PackerInv(q)'
      BY <3>1 DEF PackerInv, WritingInv, Genuine
    <3>3. RenamedInv(q)'
      BY <2>2, <3>1, ArtifactAssumption DEF RenamedInv
    <3> QED
      BY <3>2, <3>3
  <2> QED
    BY <2>1, <2>2
<1>3. OutputInv'
  BY DEF IInv, OutputInv, ManifestInv, Whole, Genuine
<1>4. LoaderInv'
  BY DEF IInv, LoaderInv, Sound, Fits
<1> QED
  BY <1>1, <1>2, <1>3, <1>4 DEF IInv

\* Of a packer that has stopped nothing is claimed but what it has renamed.
LEMMA Stopped ==
  ASSUME NEW p \in Packers, RenamedInv(p), UNCHANGED <<output, unsynced>>,
         packer'[p].pc \in {"failed", "killed"}
  PROVE  PackerInv(p)' /\ RenamedInv(p)'
  BY DEF PackerInv, RenamedInv

\* The checks move the packer on and touch nothing.
LEMMA CheckStep ==
  ASSUME IInv, NEW p \in Packers, Check(p)
  PROVE  IInv'
PROOF
<1> DEFINE pc == IF (packer[p].dtype = "bf16" => Finite(weight)) /\ output = Absent
                 THEN "mkdir" ELSE "failed"
<1>1. /\ Step(p, pc) /\ pc \in PackerPcs /\ pc \in {"mkdir", "failed"}
      /\ pc = "mkdir" => (packer[p].dtype = "bf16" => Finite(weight)) /\ output = Absent
  BY DEF Check, PackerPcs, Packing
<1>2. UNCHANGED <<weight, staging, output, unsynced, loader, faults, damaged>>
  BY DEF Check
<1>3. packer[p].done = 0 /\ packer[p].records = <<>> /\ RenamedInv(p)
  BY DEF IInv, PackerInv, Check
<1> HIDE DEF pc
<1>4. /\ packer'[p].pc = pc /\ packer'[p].dtype = packer[p].dtype
      /\ packer'[p].done = 0 /\ packer'[p].records = <<>>
  BY <1>1, <1>3, StepIs
<1>5. PackerInv(p)'
  BY <1>1, <1>2, <1>4 DEF PackerInv, Finite
<1>6. RenamedInv(p)'
  BY <1>1, <1>2, <1>3, <1>4 DEF RenamedInv
<1> QED
  BY <1>1, <1>2, <1>5, <1>6, StepIs, OwnSteps DEF IInv, TypeOK

\* A directory left behind stops the packer, so it starts from an empty one.
LEMMA MkdirStep ==
  ASSUME IInv, NEW p \in Packers, Mkdir(p)
  PROVE  IInv'
PROOF
<1>1. /\ UNCHANGED <<weight, output, unsynced, loader, faults, damaged>> /\ faults' \in Nat
      /\ packer[p].pc = "mkdir" /\ packer[p].done = 0 /\ packer[p].records = <<>>
      /\ packer[p].dtype = "bf16" => Finite(weight)
      /\ RenamedInv(p) /\ unsynced # p
      /\ staging \in [Packers -> Directory \cup {Absent}]
  BY DEF Mkdir, IInv, TypeOK, PackerInv, RenamedInv
<1>2. CASE MkdirFails(p)
  <2>1. Step(p, "failed") /\ staging' = staging /\ "failed" \in PackerPcs
    BY <1>2 DEF Mkdir, PackerPcs
  <2>2. packer'[p].pc = "failed"
    BY <2>1, StepIs
  <2>3. PackerInv(p)' /\ RenamedInv(p)'
    BY <1>1, <2>2, Stopped
  <2> QED
    BY <1>1, <2>1, <2>3, StepIs, OwnSteps
<1>3. CASE ~ MkdirFails(p)
  <2> DEFINE new == [files |-> <<>>, manifest |-> Absent]
  <2>1. Step(p, "write") /\ "write" \in PackerPcs
    BY <1>3 DEF Mkdir, PackerPcs, Packing
  <2>2. new \in Directory /\ new.files = <<>>
    BY BareDirectory
  <2>3. staging' = [staging EXCEPT ![p] = new]
    BY <1>3 DEF Mkdir
  <2> HIDE DEF new
  <2>4. /\ staging' \in [Packers -> Directory \cup {Absent}]
        /\ \A q \in Packers \ {p} : staging'[q] = staging[q]
        /\ staging'[p] = new
    BY <1>1, <2>2, <2>3
  <2>5. /\ packer'[p].pc = "write" /\ packer'[p].dtype = packer[p].dtype
        /\ packer'[p].done = 0 /\ packer'[p].records = <<>>
    BY <1>1, <2>1, StepIs
  <2>6. staging'[p] # Absent /\ staging'[p].files = <<>>
    BY <2>2, <2>4, DirectoryIs
  <2>7. DOMAIN <<>> = {} /\ Have(0) = {}
    BY EmptyListing, OrderIsFiles
  <2>8. WritingInv(p)'
    BY <2>5, <2>6, <2>7 DEF WritingInv
  <2>9. PackerInv(p)' /\ RenamedInv(p)'
    BY <1>1, <2>5, <2>8 DEF PackerInv, RenamedInv, Finite
  <2> QED
    BY <1>1, <2>1, <2>4, <2>9, StepIs, OwnSteps
<1> QED
  BY <1>2, <1>3

\* A file and its record are written together, and the file is genuine.
LEMMA WriteStep ==
  ASSUME IInv, NEW p \in Packers, Write(p)
  PROVE  IInv'
PROOF
<1> DEFINE n == packer[p].done
           dtype == packer[p].dtype
           f == Order[n + 1]
           new == Written(f, dtype)
           hadFiles == staging[p].files
           hadRecords == packer[p].records
           hasFiles == [g \in DOMAIN hadFiles \cup {f} |-> IF g = f THEN new ELSE hadFiles[g]]
           hasRecords == [g \in DOMAIN hadRecords \cup {f} |->
                            IF g = f THEN Record(new) ELSE hadRecords[g]]
           dir == [staging[p] EXCEPT !.files = hasFiles]
           next == [pc |-> IF n + 1 = 3 THEN "manifest" ELSE "write", dtype |-> dtype,
                    done |-> n + 1, records |-> hasRecords]
<1>1. /\ UNCHANGED <<weight, output, unsynced, loader, faults, damaged>> /\ faults' \in Nat
      /\ packer[p].pc = "write"
      /\ packer[p] \in PackerStates
      /\ staging \in [Packers -> Directory \cup {Absent}]
      /\ packer \in [Packers -> PackerStates]
      /\ dtype = "bf16" => Finite(weight)
      /\ WritingInv(p) /\ RenamedInv(p) /\ unsynced # p /\ TypeOK
  BY DEF Write, IInv, TypeOK, PackerInv, RenamedInv
<1>2. /\ n \in 0 .. 2 /\ dtype \in Dtypes
      /\ hadRecords \in ListingOf(FileRecord) /\ DOMAIN hadRecords = Have(n)
      /\ staging[p] \in Directory /\ DOMAIN hadFiles = Have(n)
      /\ \A g \in Have(n) : /\ Genuine(g, hadFiles[g], dtype)
                            /\ hadRecords[g] = Record(hadFiles[g])
  BY <1>1 DEF WritingInv, PackerStates
<1>3. f \in Files /\ Have(n + 1) = Have(n) \cup {f} /\ hadFiles \in ListingOf(Content)
  BY <1>2, OrderIsFiles, DirectoryIs
<1>4. new \in Content /\ Genuine(f, new, dtype)
  BY <1>1, <1>2, <1>3, WrittenIsGenuine
<1>5. Record(new) \in FileRecord
  BY <1>4 DEF Record, Content, FileRecord
<1>6. staging' = [staging EXCEPT ![p] = dir]
  BY <1>1, <1>2 DEF Write
<1>7. packer' = [packer EXCEPT ![p] = next]
  BY <1>1, OrderIsFiles DEF Write, PackerStates
<1> HIDE DEF new, f, hasFiles, hasRecords
<1>8. /\ hasFiles \in ListingOf(Content) /\ DOMAIN hasFiles = Have(n + 1)
      /\ \A g \in Have(n + 1) : hasFiles[g] = IF g = f THEN new ELSE hadFiles[g]
  <2>1. /\ hasFiles = [g \in DOMAIN hasFiles |-> hasFiles[g]]
        /\ DOMAIN hasFiles = DOMAIN hadFiles \cup {f}
        /\ \A g \in DOMAIN hasFiles : hasFiles[g] = IF g = f THEN new ELSE hadFiles[g]
    BY DEF hasFiles
  <2> HIDE DEF hadFiles
  <2>2. hasFiles \in ListingOf(Content)
    BY <1>3, <1>4, <2>1, PutInListing
  <2> QED
    BY <1>2, <1>3, <2>1, <2>2
<1>9. /\ hasRecords \in ListingOf(FileRecord) /\ DOMAIN hasRecords = Have(n + 1)
      /\ \A g \in Have(n + 1) :
           hasRecords[g] = IF g = f THEN Record(new) ELSE hadRecords[g]
  <2>1. /\ hasRecords = [g \in DOMAIN hasRecords |-> hasRecords[g]]
        /\ DOMAIN hasRecords = DOMAIN hadRecords \cup {f}
        /\ \A g \in DOMAIN hasRecords :
             hasRecords[g] = IF g = f THEN Record(new) ELSE hadRecords[g]
    BY DEF hasRecords
  <2> HIDE DEF hadRecords
  <2>2. hasRecords \in ListingOf(FileRecord)
    BY <1>2, <1>3, <1>5, <2>1, PutInListing
  <2> QED
    BY <1>2, <1>3, <2>1, <2>2
<1>10. dir \in Directory /\ dir.files = hasFiles
  BY <1>2, <1>8, Rewritten
<1> HIDE DEF dir
<1>11. ASSUME NEW g \in Have(n + 1)
       PROVE  Genuine(g, hasFiles[g], dtype) /\ hasRecords[g] = Record(hasFiles[g])
  <2>1. CASE g = f
    BY <1>4, <1>8, <1>9, <1>11, <2>1
  <2>2. CASE g # f
    BY <1>2, <1>3, <1>8, <1>9, <1>11, <2>2
  <2> QED
    BY <2>1, <2>2
<1>12. next \in PackerStates
  BY <1>2, <1>9 DEF PackerStates, PackerPcs, Packing
<1>13. /\ packer' \in [Packers -> PackerStates]
       /\ staging' \in [Packers -> Directory \cup {Absent}]
       /\ \A q \in Packers \ {p} : packer'[q] = packer[q] /\ staging'[q] = staging[q]
       /\ packer'[p] = next /\ staging'[p] = dir
  BY <1>1, <1>6, <1>7, <1>10, <1>12
<1>14. /\ packer'[p].pc = IF n + 1 = 3 THEN "manifest" ELSE "write"
       /\ packer'[p].dtype = dtype /\ packer'[p].done = n + 1
       /\ packer'[p].records = hasRecords
       /\ staging'[p] # Absent /\ staging'[p].files = hasFiles
  BY <1>10, <1>13, DirectoryIs
<1>15. WritingInv(p)'
  <2>1. ASSUME NEW g \in Have(n + 1)
        PROVE  /\ Genuine(g, staging[p].files[g], packer[p].dtype)'
               /\ (packer[p].records[g] = Record(staging[p].files[g]))'
    BY <1>1, <1>11, <1>14 DEF Genuine
  <2> QED
    BY <1>2, <1>8, <1>9, <1>14, <2>1 DEF WritingInv
<1>16. PackerInv(p)' /\ RenamedInv(p)'
  BY <1>1, <1>14, <1>15 DEF PackerInv, RenamedInv, Finite
<1> QED
  BY <1>1, <1>13, <1>16, OwnSteps

\* The manifest is the list of the records, and the files are all there.
LEMMA WriteManifestStep ==
  ASSUME IInv, NEW p \in Packers, WriteManifest(p)
  PROVE  IInv'
PROOF
<1> DEFINE m == [dtype |-> packer[p].dtype, files |-> packer[p].records]
           dir == [staging[p] EXCEPT !.manifest = m]
<1>1. /\ UNCHANGED <<weight, output, unsynced, loader, faults, damaged>> /\ faults' \in Nat
      /\ Step(p, "rename") /\ "rename" \in PackerPcs
      /\ staging \in [Packers -> Directory \cup {Absent}]
      /\ packer[p].dtype = "bf16" => Finite(weight)
      /\ WritingInv(p) /\ RenamedInv(p) /\ unsynced # p /\ packer[p].pc = "manifest"
  BY DEF WriteManifest, IInv, TypeOK, PackerPcs, Packing, PackerInv, RenamedInv
<1>2. staging[p] \in Directory /\ m \in Manifest
  BY <1>1 DEF IInv, TypeOK, PackerStates, Manifest, WritingInv
<1>3. staging' = [staging EXCEPT ![p] = dir]
  BY DEF WriteManifest
<1>4. dir \in Directory /\ dir.files = staging[p].files /\ dir.manifest = m
  <2> HIDE DEF m
  <2> QED
    BY <1>2, Rewritten
<1> HIDE DEF dir
<1>5. /\ staging' \in [Packers -> Directory \cup {Absent}]
      /\ \A q \in Packers \ {p} : staging'[q] = staging[q]
      /\ staging'[p] = dir
  BY <1>1, <1>3, <1>4
<1>6. /\ packer'[p].pc = "rename" /\ packer'[p].dtype = packer[p].dtype
      /\ packer'[p].done = packer[p].done /\ packer'[p].records = packer[p].records
  BY <1>1, StepIs
<1>7. staging'[p] # Absent /\ staging'[p].files = staging[p].files /\ staging'[p].manifest = m
  BY <1>4, <1>5, DirectoryIs
<1>8. WritingInv(p)'
  BY <1>1, <1>6, <1>7 DEF WritingInv, Genuine
<1>9. PackerInv(p)' /\ RenamedInv(p)'
  BY <1>1, <1>6, <1>7, <1>8 DEF PackerInv, RenamedInv, Finite
<1> QED
  BY <1>1, <1>5, <1>9, StepIs, OwnSteps

\* The rename took the staging directory away already; now it is on disk.
LEMMA PublishedStep ==
  ASSUME IInv, NEW p \in Packers, Published(p)
  PROVE  IInv'
PROOF
<1>1. /\ UNCHANGED <<weight, staging, output, loader, faults, damaged>> /\ faults' \in Nat
      /\ unsynced' = Absent /\ unsynced = p
      /\ Step(p, "published") /\ "published" \in PackerPcs
      /\ staging \in [Packers -> Directory \cup {Absent}] /\ staging[p] = Absent
      /\ output # Absent
  BY DEF Published, IInv, TypeOK, RenamedInv, PackerPcs
<1>2. packer'[p].pc = "published"
  BY <1>1, StepIs
<1>3. PackerInv(p)' /\ RenamedInv(p)'
  BY <1>1, <1>2, ArtifactAssumption DEF PackerInv, RenamedInv
<1> QED
  BY <1>1, <1>3, StepIs, OwnSteps

\* Drop may leave what it likes: create_dir refuses to work in it.
LEMMA FailStep ==
  ASSUME IInv, NEW p \in Packers, Fail(p)
  PROVE  IInv'
PROOF
<1>1. /\ UNCHANGED <<weight, output, unsynced, loader, faults, damaged>> /\ faults' \in Nat
      /\ Step(p, "failed") /\ "failed" \in PackerPcs
      /\ staging \in [Packers -> Directory \cup {Absent}] /\ RenamedInv(p)
  BY DEF Fail, IInv, TypeOK, PackerPcs
<1>2. packer'[p].pc = "failed"
  BY <1>1, StepIs
<1>3. PackerInv(p)' /\ RenamedInv(p)'
  BY <1>1, <1>2, Stopped
<1>4. /\ staging' \in [Packers -> Directory \cup {Absent}]
      /\ \A q \in Packers \ {p} : staging'[q] = staging[q]
  <2>1. CASE packer[p].pc \in {"check", "mkdir"}
    BY <1>1, <2>1 DEF Fail
  <2>2. CASE packer[p].pc \notin {"check", "mkdir"}
    <3>1. PICK dir \in Remains(staging[p]) : staging' = [staging EXCEPT ![p] = dir]
      BY <2>2 DEF Fail, Removed
    <3>2. dir \in Directory \cup {Absent}
      BY <1>1, <3>1, BareDirectory DEF Remains
    <3> QED
      BY <1>1, <3>1, <3>2
  <2> QED
    BY <2>1, <2>2
<1> QED
  BY <1>1, <1>3, <1>4, StepIs, OwnSteps

\* A killed packer leaves its directory, of which nothing is claimed.
LEMMA KillStep ==
  ASSUME IInv, NEW p \in Packers, Kill(p)
  PROVE  IInv'
PROOF
<1>1. /\ UNCHANGED <<weight, staging, output, unsynced, loader, damaged>> /\ faults' \in Nat
      /\ Step(p, "killed") /\ "killed" \in PackerPcs
      /\ staging \in [Packers -> Directory \cup {Absent}] /\ RenamedInv(p)
  BY DEF Kill, IInv, TypeOK, PackerPcs
<1>2. packer'[p].pc = "killed"
  BY <1>1, StepIs
<1>3. PackerInv(p)' /\ RenamedInv(p)'
  BY <1>1, <1>2, Stopped
<1> QED
  BY <1>1, <1>3, StepIs, OwnSteps

\* The command run again has written nothing yet.
LEMMA RerunStep ==
  ASSUME IInv, NEW p \in Packers, NEW dtype \in Dtypes, Rerun(p, dtype)
  PROVE  IInv'
PROOF
<1> DEFINE next == Fresh(dtype)
<1>1. /\ UNCHANGED <<weight, staging, output, unsynced, loader, damaged>> /\ faults' \in Nat
      /\ staging \in [Packers -> Directory \cup {Absent}]
      /\ packer \in [Packers -> PackerStates]
      /\ packer' = [packer EXCEPT ![p] = next] /\ RenamedInv(p)
  BY DEF Rerun, IInv, TypeOK
<1>2. /\ next \in PackerStates
      /\ next.pc = "check" /\ next.done = 0 /\ next.records = <<>>
  BY EmptyListing DEF Fresh, PackerStates, PackerPcs, Packing
<1> HIDE DEF next
<1>3. /\ packer' \in [Packers -> PackerStates]
      /\ \A q \in Packers \ {p} : packer'[q] = packer[q]
      /\ packer'[p] = next
  BY <1>1, <1>2
<1>4. PackerInv(p)' /\ RenamedInv(p)'
  BY <1>1, <1>2, <1>3 DEF PackerInv, RenamedInv
<1> QED
  BY <1>1, <1>3, <1>4, OwnSteps

\* The name is free, so no loader has it open and no packer has published; a
\* whole directory takes it.
LEMMA RenameStep ==
  ASSUME IInv, NEW p \in Packers, Rename(p)
  PROVE  IInv'
PROOF
<1>1. /\ UNCHANGED <<weight, loader, faults, damaged>>
      /\ output = Absent /\ output' = staging[p] /\ unsynced' = p
      /\ staging' = [staging EXCEPT ![p] = Absent]
      /\ Step(p, "parent") /\ "parent" \in PackerPcs
      /\ staging \in [Packers -> Directory \cup {Absent}]
      /\ packer[p].pc = "rename" /\ PackerInv(p) /\ packer[p] \in PackerStates
  BY DEF Rename, RenameFails, IInv, TypeOK, PackerPcs, Packing
<1>2. /\ staging[p] \in Directory /\ staging[p] # Absent
      /\ staging[p].manifest = [dtype |-> packer[p].dtype, files |-> packer[p].records]
      /\ DOMAIN staging[p].files = Files /\ DOMAIN packer[p].records = Files
      /\ \A f \in Files : /\ Genuine(f, staging[p].files[f], packer[p].dtype)
                          /\ packer[p].records[f] = Record(staging[p].files[f])
  BY <1>1, OrderIsFiles DEF PackerInv, WritingInv
<1>3. packer'[p].pc = "parent" /\ \A q \in Packers \ {p} : packer'[q] = packer[q]
  BY <1>1, StepIs
<1>4. /\ staging' \in [Packers -> Directory \cup {Absent}] /\ staging'[p] = Absent
      /\ \A q \in Packers \ {p} : staging'[q] = staging[q]
  BY <1>1
<1>5. TypeOK'
  BY <1>1, <1>2, <1>4, StepIs DEF IInv, TypeOK
<1>6. ASSUME NEW q \in Packers
      PROVE  PackerInv(q)' /\ RenamedInv(q)'
  <2>1. CASE q = p
    BY <1>1, <1>2, <1>3, <1>4, <2>1 DEF PackerInv, RenamedInv
  <2>2. CASE q # p
    <3>1. /\ packer'[q] = packer[q] /\ staging'[q] = staging[q]
          /\ PackerInv(q) /\ RenamedInv(q)
      BY <1>3, <1>4, <2>2 DEF IInv
    <3>2. PackerInv(q)'
      BY <1>1, <3>1 DEF PackerInv, WritingInv, Genuine
    <3>3. RenamedInv(q)'
      BY <1>1, <2>2, <3>1 DEF RenamedInv
    <3> QED
      BY <3>2, <3>3
  <2> QED
    BY <2>1, <2>2
<1>7. OutputInv'
  <2>1. output'.manifest # Absent
    BY <1>1, <1>2, DirectoryIs DEF Manifest, PackerStates
  <2>2. Whole(output)'
    BY <1>1, <1>2, <2>1 DEF Whole, Genuine
  <2>3. ManifestInv(output.manifest)'
    <3>1. /\ output'.manifest.files = packer[p].records
          /\ output'.manifest.dtype = packer[p].dtype /\ weight' = weight
      BY <1>1, <1>2
    <3>2. ASSUME NEW f \in Files
          PROVE  /\ Genuine(f, packer[p].records[f].hash, packer[p].dtype)
                 /\ packer[p].records[f].bytes = Size(f, packer[p].dtype)
      <4>1. /\ Genuine(f, staging[p].files[f], packer[p].dtype)
            /\ packer[p].records[f] = Record(staging[p].files[f])
        BY <1>2
      <4>2. /\ packer[p].records[f].hash = staging[p].files[f]
            /\ packer[p].records[f].bytes = staging[p].files[f].bytes
        BY <4>1 DEF Record
      <4>3. staging[p].files[f].bytes = Size(f, packer[p].dtype)
        BY <4>1 DEF Genuine
      <4> QED
        BY <4>1, <4>2, <4>3
    <3> QED
      BY <1>2, <3>1, <3>2 DEF ManifestInv, Genuine
  <2> QED
    BY <2>2, <2>3 DEF OutputInv
<1>8. LoaderInv'
  BY <1>1 DEF IInv, LoaderInv
<1> QED
  BY <1>5, <1>6, <1>7, <1>8 DEF IInv

-----------------------------------------------------------------------------
(* The machine and the disk *)

\* No process is left that relies on what is lost; the manifest is not, and
\* what was reported as published is not undone.
LEMMA PowerLossStep ==
  ASSUME IInv, PowerLoss
  PROVE  IInv'
PROOF
<1>1. PICK gone \in SUBSET Nested, undone \in SUBSET ({unsynced} \ {Absent}) :
        /\ output' = IF undone # {} THEN Absent ELSE Lose(output, gone)
        /\ staging' = [p \in Packers |-> Lose(IF p \in undone THEN output ELSE staging[p], gone)]
        /\ damaged' = IF undone # {} THEN {}
                       ELSE IF output # Absent /\ gone \cap DOMAIN output.files # {}
                       THEN damaged \cup {"files"} ELSE damaged
  BY DEF PowerLoss
<1>2. /\ packer' = [p \in Packers |->
           IF packer[p].pc \in Packing THEN [packer[p] EXCEPT !.pc = "killed"] ELSE packer[p]]
      /\ loader' = [loader EXCEPT !.pc = "idle"]
      /\ weight' = weight /\ faults' = faults + 1 /\ unsynced' = Absent
  BY DEF PowerLoss
<1>3. /\ TypeOK /\ output \in Directory \cup {Absent}
      /\ \A p \in Packers : staging[p] \in Directory \cup {Absent} /\ packer[p] \in PackerStates
  BY DEF IInv, TypeOK
<1>4. ASSUME NEW p \in Packers
      PROVE  /\ packer'[p] \in PackerStates
             /\ packer'[p].pc \in {"published", "failed", "killed"}
             /\ packer'[p].pc = "published" => packer[p].pc = "published"
  <2>1. CASE packer[p].pc \in Packing
    <3>1. packer'[p] = [packer[p] EXCEPT !.pc = "killed"]
      BY <1>2, <2>1
    <3> QED
      BY <1>3, <3>1 DEF PackerStates, PackerPcs
  <2>2. CASE packer[p].pc \notin Packing
    BY <1>2, <1>3, <2>2 DEF PackerStates, PackerPcs
  <2> QED
    BY <2>1, <2>2
<1>5. ASSUME NEW p \in Packers
      PROVE  staging'[p] \in Directory \cup {Absent}
  <2> DEFINE was == IF p \in undone THEN output ELSE staging[p]
  <2>1. was \in Directory \cup {Absent} /\ staging'[p] = Lose(was, gone)
    BY <1>1, <1>3
  <2> HIDE DEF was
  <2>2. Lose(was, gone) \in Directory \cup {Absent}
    BY <2>1, LoseKeeps
  <2> QED
    BY <2>1, <2>2
<1>6. TypeOK'
  <2>1. packer' \in [Packers -> PackerStates]
    BY <1>2, <1>4
  <2>2. staging' \in [Packers -> Directory \cup {Absent}]
    BY <1>1, <1>5
  <2>3. output' \in Directory \cup {Absent}
    BY <1>1, <1>3, LoseKeeps
  <2>4. loader' \in LoaderStates
    BY <1>2, <1>3 DEF TypeOK, LoaderStates
  <2>5. damaged' \in SUBSET {"files", "manifest"}
    BY <1>1, <1>3 DEF TypeOK
  <2>6. weight' \in Snapshots /\ faults' \in Nat /\ unsynced' \in Packers \cup {Absent}
    BY <1>2, <1>3 DEF TypeOK
  <2> QED
    BY <2>1, <2>2, <2>3, <2>4, <2>5, <2>6 DEF TypeOK
<1>7. ASSUME NEW p \in Packers
      PROVE  PackerInv(p)' /\ RenamedInv(p)'
  <2>1. PackerInv(p)'
    BY <1>4 DEF PackerInv
  <2>2. unsynced' # p /\ unsynced' = Absent
    BY <1>2, ArtifactAssumption
  <2>3. ASSUME packer'[p].pc = "published"
        PROVE  staging'[p] = Absent /\ output' # Absent
    <3>1. staging[p] = Absent /\ unsynced = Absent /\ output # Absent
      BY <1>4, <2>3 DEF IInv, RenamedInv
    <3>2. undone = {}
      BY <1>1, <3>1
    <3>3. staging'[p] = Lose(staging[p], gone) /\ output' = Lose(output, gone)
      BY <1>1, <3>2
    <3> QED
      BY <1>3, <3>1, <3>3, LoseKeeps
  <2> QED
    BY <1>4, <2>1, <2>2, <2>3 DEF RenamedInv
<1>8. OutputInv'
  <2>1. SUFFICES ASSUME output' # Absent
                 PROVE  /\ output'.manifest # Absent => ManifestInv(output.manifest)'
                        /\ damaged' = {} => Whole(output)'
    BY DEF OutputInv
  <2>2. undone = {} /\ output' = Lose(output, gone) /\ damaged \subseteq damaged'
    BY <1>1, <2>1
  <2>3. /\ output # Absent /\ output'.manifest = output.manifest
        /\ output'.files = [f \in DOMAIN output.files \ gone |-> output.files[f]]
    BY <1>3, <2>1, <2>2, LoseKeeps
  <2>4. /\ output.manifest # Absent => ManifestInv(output.manifest)
        /\ damaged = {} => Whole(output)
    BY <2>3 DEF IInv, OutputInv
  <2>5. output'.manifest # Absent => ManifestInv(output.manifest)'
    BY <1>2, <2>2, <2>3, <2>4 DEF ManifestInv, Genuine
  <2>6. ASSUME damaged' = {}
        PROVE  Whole(output)'
    <3>1. damaged = {} /\ gone \cap DOMAIN output.files = {} /\ Whole(output)
      BY <1>1, <2>2, <2>3, <2>4, <2>6
    <3>2. DOMAIN output'.files = DOMAIN output.files
          /\ \A f \in DOMAIN output.files : output'.files[f] = output.files[f]
      BY <2>3, <3>1
    <3> QED
      BY <1>2, <2>3, <3>1, <3>2 DEF Whole, Genuine
  <2> QED
    BY <2>5, <2>6
<1>9. LoaderInv'
  BY <1>2, <1>3 DEF TypeOK, LoaderStates, LoaderInv
<1> QED
  BY <1>6, <1>7, <1>8, <1>9 DEF IInv

\* The disk changes a directory that nobody has open, and says so.
LEMMA Decayed ==
  ASSUME IInv, Decay, output' \in Directory, damaged' \in SUBSET {"files", "manifest"},
         damaged' # {},
         output'.manifest # Absent => ManifestInv(output.manifest)'
  PROVE  IInv'
PROOF
<1>1. /\ UNCHANGED <<weight, staging, unsynced, packer, loader>> /\ faults' = faults + 1
      /\ output # Absent /\ loader.pc \in {"idle", "rejected"} /\ output' # Absent
  BY DirectoryIs DEF Decay
<1>2. TypeOK'
  BY <1>1 DEF IInv, TypeOK
<1>3. \A p \in Packers : PackerInv(p)'
  BY <1>1 DEF IInv, PackerInv, WritingInv, Genuine, Finite
<1>4. \A p \in Packers : RenamedInv(p)'
  BY <1>1 DEF IInv, RenamedInv
<1>5. OutputInv'
  BY DEF OutputInv
<1>6. LoaderInv'
  BY <1>1 DEF LoaderInv
<1> QED
  BY <1>2, <1>3, <1>4, <1>5, <1>6 DEF IInv

\* The manifest still says what the file was.
LEMMA DecayFileStep ==
  ASSUME IInv, NEW f \in Files, DecayFile(f)
  PROVE  IInv'
PROOF
<1>1. /\ output \in Directory /\ output.files \in ListingOf(Content)
      /\ f \in DOMAIN output.files /\ Decay
      /\ damaged' = damaged \cup {"files"} /\ damaged \in SUBSET {"files", "manifest"}
      /\ weight' = weight
      /\ output.manifest # Absent => ManifestInv(output.manifest)
  BY DirectoryIs DEF DecayFile, Decay, IInv, TypeOK, OutputInv
<1>2. PICK new \in Content : output' = [output EXCEPT !.files = [output.files EXCEPT ![f] = new]]
  <2>1. output.files[f] \in Content
    BY <1>1, ListingIs
  <2>2. CASE \E v \in {0, 1} : output' = [output EXCEPT !.files[f].value = v]
    <3>1. PICK v \in {0, 1} : output' = [output EXCEPT !.files[f].value = v]
      BY <2>2
    <3>2. /\ [output.files[f] EXCEPT !.value = v] \in Content
          /\ output' = [output EXCEPT !.files =
                         [output.files EXCEPT ![f] = [output.files[f] EXCEPT !.value = v]]]
      BY <1>1, <2>1, <3>1 DEF Content
    <3> QED
      BY <3>2
  <2>3. CASE output' = [output EXCEPT !.files[f].bytes = 1]
    <3>1. /\ [output.files[f] EXCEPT !.bytes = 1] \in Content
          /\ output' = [output EXCEPT !.files =
                         [output.files EXCEPT ![f] = [output.files[f] EXCEPT !.bytes = 1]]]
      BY <1>1, <2>1, <2>3 DEF Content
    <3> QED
      BY <3>1
  <2> QED
    BY <2>2, <2>3 DEF DecayFile
<1> DEFINE files == [output.files EXCEPT ![f] = new]
<1>3. files \in ListingOf(Content)
  BY <1>1, ChangeListing
<1> HIDE DEF files
<1>4. output' \in Directory /\ output'.manifest = output.manifest
  BY <1>1, <1>2, <1>3, Rewritten DEF files
<1>5. output'.manifest # Absent => ManifestInv(output.manifest)'
  BY <1>1, <1>4 DEF ManifestInv, Genuine
<1> QED
  BY <1>1, <1>4, <1>5, Decayed

\* A hash in the manifest is what it was or matches nothing.
LEMMA DecayManifestStep ==
  ASSUME IInv, DecayManifest
  PROVE  IInv'
PROOF
<1> DEFINE m == output.manifest
<1>1. /\ output \in Directory /\ m # Absent /\ m \in Manifest
      /\ m.files \in ListingOf(FileRecord) /\ Decay
      /\ damaged' = damaged \cup {"manifest"} /\ damaged \in SUBSET {"files", "manifest"}
      /\ weight' = weight /\ ManifestInv(m)
  BY DirectoryIs DEF DecayManifest, Decay, IInv, TypeOK, OutputInv
<1>2. CASE output' = [output EXCEPT !.manifest = Absent]
  <2>1. output' \in Directory /\ output'.manifest = Absent
    BY <1>1, <1>2, Rewritten
  <2> QED
    BY <1>1, <2>1, Decayed
<1>3. ASSUME NEW f \in DOMAIN m.files,
             \/ output' = [output EXCEPT !.manifest.files[f].hash = Absent]
             \/ output' = [output EXCEPT !.manifest.files[f].bytes = 1]
      PROVE  IInv'
  <2>1. m.files[f] \in FileRecord /\ f \in Files
    BY <1>1, <1>3, ListingIs
  <2>2. PICK new \in FileRecord :
          /\ new.hash \in {m.files[f].hash, Absent}
          /\ output' = [output EXCEPT !.manifest =
                         [m EXCEPT !.files = [m.files EXCEPT ![f] = new]]]
    <3>1. CASE output' = [output EXCEPT !.manifest.files[f].hash = Absent]
      <4> DEFINE new == [m.files[f] EXCEPT !.hash = Absent]
      <4>1. new \in FileRecord /\ new.hash = Absent
        BY <2>1 DEF FileRecord
      <4>2. output' = [output EXCEPT !.manifest =
                         [m EXCEPT !.files = [m.files EXCEPT ![f] = new]]]
        BY <3>1
      <4> QED
        BY <4>1, <4>2
    <3>2. CASE output' = [output EXCEPT !.manifest.files[f].bytes = 1]
      <4> DEFINE new == [m.files[f] EXCEPT !.bytes = 1]
      <4>1. new \in FileRecord /\ new.hash = m.files[f].hash
        BY <2>1 DEF FileRecord
      <4>2. output' = [output EXCEPT !.manifest =
                         [m EXCEPT !.files = [m.files EXCEPT ![f] = new]]]
        BY <3>2
      <4> QED
        BY <4>1, <4>2
    <3> QED
      BY <1>3, <3>1, <3>2
  <2> DEFINE files == [m.files EXCEPT ![f] = new]
             next == [m EXCEPT !.files = files]
  <2>3. /\ files \in ListingOf(FileRecord) /\ DOMAIN files = DOMAIN m.files
        /\ \A g \in DOMAIN m.files : files[g] = IF g = f THEN new ELSE m.files[g]
    BY <1>1, ChangeListing
  <2> HIDE DEF files
  <2>4. next \in Manifest /\ next.files = files /\ next.dtype = m.dtype
    BY <1>1, <2>3 DEF Manifest
  <2>5. output' = [output EXCEPT !.manifest = next]
    BY <2>2 DEF files
  <2> HIDE DEF next
  <2>6. output' \in Directory /\ output'.manifest = next
    BY <1>1, <2>4, <2>5, Rewritten
  <2>7. ManifestInv(output.manifest)'
    <3>1. DOMAIN next.files = Files
      BY <1>1, <2>3, <2>4 DEF ManifestInv
    <3>2. ASSUME NEW g \in Files, next.files[g].hash # Absent
          PROVE  Genuine(g, next.files[g].hash, next.dtype)
      BY <1>1, <2>2, <2>3, <2>4, <3>2 DEF ManifestInv
    <3> QED
      BY <1>1, <2>6, <3>1, <3>2 DEF ManifestInv, Genuine
  <2> QED
    BY <1>1, <2>6, <2>7, Decayed
<1> QED
  BY <1>2, <1>3 DEF DecayManifest

-----------------------------------------------------------------------------
(* The steps of the loader *)

\* The loader only reads.
LEMMA LoaderSteps ==
  ASSUME IInv, UNCHANGED <<weight, staging, output, unsynced, packer, faults, damaged>>,
         loader' \in LoaderStates, LoaderInv'
  PROVE  IInv'
PROOF
<1>1. TypeOK'
  BY DEF IInv, TypeOK
<1>2. \A p \in Packers : PackerInv(p)'
  BY DEF IInv, PackerInv, WritingInv, Genuine, Finite
<1>3. \A p \in Packers : RenamedInv(p)'
  BY DEF IInv, RenamedInv
<1>4. OutputInv'
  BY DEF IInv, OutputInv, ManifestInv, Whole, Genuine
<1> QED
  BY <1>1, <1>2, <1>3, <1>4 DEF IInv

\* No file has been checked yet.
LEMMA OpenStep ==
  ASSUME IInv, NEW mode \in {"full", "contracts"}, Open(mode)
  PROVE  IInv'
PROOF
<1>1. UNCHANGED <<weight, staging, output, unsynced, packer, faults, damaged>> /\ TypeOK
  BY DEF Open, IInv
<1>2. CASE loader' = [loader EXCEPT !.pc = "rejected"]
  <2>1. loader' \in LoaderStates /\ loader'.pc = "rejected"
    BY <1>1, <1>2 DEF TypeOK, LoaderStates
  <2> QED
    BY <1>1, <2>1, LoaderSteps DEF LoaderInv
<1>3. CASE /\ output # Absent /\ output.manifest # Absent
           /\ loader' = [pc |-> "verify", mode |-> mode, left |-> DOMAIN output.manifest.files]
  <2>1. DOMAIN output.manifest.files = Files
    BY <1>3 DEF IInv, OutputInv, ManifestInv
  <2>2. loader' \in LoaderStates /\ loader'.pc = "verify" /\ loader'.left = Files
    BY <1>3, <2>1 DEF LoaderStates
  <2>3. LoaderInv'
    BY <1>1, <1>3, <2>2 DEF LoaderInv
  <2> QED
    BY <1>1, <2>2, <2>3, LoaderSteps
<1> QED
  BY <1>2, <1>3 DEF Open

\* One more file is sound, or the loader gives up.
LEMMA VerifyStep ==
  ASSUME IInv, NEW f \in Files, Verify(f)
  PROVE  IInv'
PROOF
<1>1. /\ UNCHANGED <<weight, staging, output, unsynced, packer, faults, damaged>> /\ TypeOK
      /\ loader.pc = "verify" /\ output # Absent /\ output.manifest # Absent
      /\ \A g \in Files \ loader.left : Sound(g)
  BY DEF Verify, IInv, LoaderInv
<1>2. CASE Sound(f)
  <2>1. loader' = [loader EXCEPT !.left = @ \ {f}]
    BY <1>2 DEF Verify
  <2>2. /\ loader' \in LoaderStates
        /\ loader'.pc = "verify" /\ loader'.mode = loader.mode
        /\ loader'.left = loader.left \ {f}
    BY <1>1, <2>1 DEF TypeOK, LoaderStates
  <2>3. LoaderInv'
    BY <1>1, <1>2, <2>2 DEF LoaderInv, Sound
  <2> QED
    BY <1>1, <2>2, <2>3, LoaderSteps
<1>3. CASE ~ Sound(f)
  <2>1. loader' = [loader EXCEPT !.pc = "rejected"]
    BY <1>3 DEF Verify
  <2>2. loader' \in LoaderStates /\ loader'.pc = "rejected"
    BY <1>1, <2>1 DEF TypeOK, LoaderStates
  <2> QED
    BY <1>1, <2>2, LoaderSteps DEF LoaderInv
<1> QED
  BY <1>2, <1>3

\* Every file has been checked.
LEMMA MapStep ==
  ASSUME IInv, Map
  PROVE  IInv'
PROOF
<1> DEFINE pc == IF Fits THEN "mapped" ELSE "rejected"
<1>1. /\ UNCHANGED <<weight, staging, output, unsynced, packer, faults, damaged>> /\ TypeOK
      /\ loader.left = {} /\ output # Absent /\ output.manifest # Absent
      /\ \A g \in Files \ loader.left : Sound(g)
      /\ loader' = [loader EXCEPT !.pc = pc] /\ pc \in {"mapped", "rejected"}
      /\ pc = "mapped" => Fits
  BY DEF Map, IInv, LoaderInv
<1> HIDE DEF pc
<1>2. /\ loader' \in LoaderStates /\ loader'.pc = pc
      /\ loader'.mode = loader.mode /\ loader'.left = loader.left
  BY <1>1 DEF TypeOK, LoaderStates
<1>3. LoaderInv'
  BY <1>1, <1>2 DEF LoaderInv, Sound, Fits
<1> QED
  BY <1>1, <1>2, <1>3, LoaderSteps

\* Nothing is claimed of a loader that is idle.
LEMMA CloseStep ==
  ASSUME IInv, Close
  PROVE  IInv'
PROOF
<1>1. /\ UNCHANGED <<weight, staging, output, unsynced, packer, faults, damaged>> /\ TypeOK
      /\ loader' = [loader EXCEPT !.pc = "idle"]
  BY DEF Close, IInv
<1>2. loader' \in LoaderStates /\ loader'.pc = "idle"
  BY <1>1 DEF TypeOK, LoaderStates
<1> QED
  BY <1>1, <1>2, LoaderSteps DEF LoaderInv

-----------------------------------------------------------------------------
(* The theorems *)

\* Every step keeps the invariant.
LEMMA Inductive == IInv /\ [Next]_vars => IInv'
PROOF
<1> SUFFICES ASSUME IInv, [Next]_vars
             PROVE  IInv'
  OBVIOUS
<1>1. ASSUME NEW p \in Packers,
             \/ Check(p) \/ Mkdir(p) \/ Write(p) \/ WriteManifest(p) \/ Rename(p)
             \/ Published(p) \/ Fail(p) \/ Kill(p)
             \/ \E dtype \in Dtypes : Rerun(p, dtype)
      PROVE  IInv'
  BY <1>1, CheckStep, MkdirStep, WriteStep, WriteManifestStep, RenameStep, PublishedStep,
     FailStep, KillStep, RerunStep
<1>2. ASSUME NEW f \in Files, DecayFile(f)
      PROVE  IInv'
  BY <1>2, DecayFileStep
<1>3. ASSUME NEW mode \in {"full", "contracts"}, Open(mode)
      PROVE  IInv'
  BY <1>3, OpenStep
<1>4. ASSUME NEW f \in Files, Verify(f)
      PROVE  IInv'
  BY <1>4, VerifyStep
<1>5. CASE UNCHANGED vars
  <2>1. loader' \in LoaderStates /\ LoaderInv'
    BY <1>5 DEF vars, IInv, TypeOK, LoaderInv, Sound, Fits
  <2> QED
    BY <1>5, <2>1, LoaderSteps DEF vars
<1> QED
  BY <1>1, <1>2, <1>3, <1>4, <1>5, PowerLossStep, DecayManifestStep, MapStep, CloseStep
  DEF Next

\* The invariant holds throughout.
LEMMA Always == Spec => []IInv
PROOF
<1>1. Init => IInv
  BY Start
<1>2. IInv /\ [Next]_vars => IInv'
  BY Inductive
<1> QED
  BY <1>1, <1>2, PTL DEF Spec

\* What NativeArtifact::open maps in full mode is what pack_artifact was
\* given, whatever failed, was killed, lost its power or decayed between, the
\* manifest included; in contracts mode the weights have their sizes.
THEOREM AcceptedWeightsAreGenuine == Spec => []AcceptedIsGenuine
PROOF
<1>1. IInv => AcceptedIsGenuine
  <2> SUFFICES ASSUME IInv, loader.pc = "mapped"
               PROVE  AcceptedIsGenuine
    BY DEF AcceptedIsGenuine
  <2>1. /\ output \in Directory /\ output.manifest # Absent /\ Fits
        /\ \A f \in Files : Sound(f)
        /\ ManifestInv(output.manifest)
    BY DEF IInv, TypeOK, LoaderInv, OutputInv
  <2>2. /\ DOMAIN output.files \subseteq Files
        /\ \A f \in DOMAIN output.files : output.files[f] \in Content
    BY <2>1, DirectoryIs, ListingIs
  <2>3. DOMAIN output.files = Files
    BY <2>1, <2>2 DEF Sound
  <2>4. ASSUME NEW f \in Files
        PROVE  IF loader.mode = "full" THEN Genuine(f, output.files[f], output.manifest.dtype)
               ELSE f \in Weights \/ "manifest" \notin damaged =>
                      output.files[f].bytes = Size(f, output.manifest.dtype)
    <3>1. CASE loader.mode = "full"
      <4>1. output.files[f] = output.manifest.files[f].hash
        BY <2>1, <3>1 DEF Sound, Record
      <4>2. output.files[f] # Absent
        BY <2>2, <2>3, ArtifactAssumption
      <4> QED
        BY <2>1, <3>1, <4>1, <4>2 DEF ManifestInv
    <3>2. CASE loader.mode # "full"
      <4>1. output.files[f].bytes = output.manifest.files[f].bytes
        BY <2>1 DEF Sound
      <4> QED
        BY <2>1, <3>2, <4>1 DEF ManifestInv, Fits
    <3> QED
      BY <3>1, <3>2
  <2> QED
    BY <2>1, <2>3, <2>4 DEF AcceptedIsGenuine
<1> QED
  BY <1>1, Always, PTL

\* Packers that race, fail, are killed and are started again publish at most
\* one artifact, whole and not replaced, and what one of them has reported as
\* published survives a power loss.
THEOREM PublishingIsForGood == Spec => PublishedForGood
PROOF
<1>1. IInv => PublishedIsWhole
  BY DEF IInv, OutputInv, PublishedIsWhole
<1>2. IInv => PublishedIsDurable
  BY DEF IInv, RenamedInv, PublishedIsDurable
<1>3. IInv => StagingIsOwn
  BY DEF IInv, PackerInv, WritingInv, RenamedInv, StagingIsOwn, Have
<1>4. IInv /\ [Next]_vars => [output # Absent /\ faults' = faults => output' = output]_vars
  <2> SUFFICES ASSUME IInv, Next, output # Absent, faults' = faults
               PROVE  output' = output
    OBVIOUS
  <2>1. faults' # faults + 1
    BY DEF IInv, TypeOK
  <2>2. ASSUME NEW p \in Packers,
               \/ Check(p) \/ Mkdir(p) \/ Write(p) \/ WriteManifest(p) \/ Rename(p)
               \/ Published(p) \/ Fail(p) \/ Kill(p)
               \/ \E dtype \in Dtypes : Rerun(p, dtype)
        PROVE  output' = output
    BY <2>2 DEF Check, Mkdir, Write, WriteManifest, Rename, RenameFails, Published, Fail,
                Kill, Rerun
  <2>3. ~ PowerLoss /\ ~ DecayManifest
    BY <2>1 DEF PowerLoss, DecayManifest, Decay
  <2>4. ASSUME NEW f \in Files, DecayFile(f)
        PROVE  FALSE
    BY <2>1, <2>4 DEF DecayFile, Decay
  <2>5. ASSUME NEW mode \in {"full", "contracts"}, Open(mode)
        PROVE  output' = output
    BY <2>5 DEF Open
  <2>6. ASSUME NEW f \in Files, Verify(f)
        PROVE  output' = output
    BY <2>6 DEF Verify
  <2>7. Map \/ Close => output' = output
    BY DEF Map, Close
  <2> QED
    BY <2>2, <2>3, <2>4, <2>5, <2>6, <2>7 DEF Next
<1> QED
  BY <1>1, <1>2, <1>3, <1>4, Always, PTL DEF Spec, PublishedForGood, NeverReplaced
=============================================================================
