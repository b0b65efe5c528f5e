------------------------------ MODULE BuildCache ------------------------------
(***************************************************************************)
(* How the build script of mnn-runtime-sys obtains MNN: builders, which    *)
(* may share a download directory (MNN_PREBUILT_CACHE_DIR) but each own an *)
(* OUT_DIR, download a pinned archive, verify it, install it by a rename   *)
(* and unpack it.  A build may be killed between any two of its effects on *)
(* the disk and run again in the same OUT_DIR.                             *)
(*                                                                         *)
(* An archive is "absent", "corrupt" (anything but the pinned content) or  *)
(* "pinned"; an unpacked tree is the set of its pieces that are on disk,   *)
(* where "marker" is the one file whose presence the code tests.           *)
(***************************************************************************)
EXTENDS Naturals, FiniteSets

CONSTANTS
  Builders,    \* runs of the build script, one OUT_DIR each
  Artifacts,   \* the pinned archives
  Sources,     \* those that are MNN's source, not a prebuilt
  Wants,       \* the artifacts the environment may select for a builder
  Files,       \* where archives are stored
  FileOf,      \* the file a builder stores an artifact in: shared, or in OUT_DIR
  AtStart,     \* what those files may hold before the first build
  NoArtifact

ASSUME BuildCacheAssumption ==
  /\ Sources \subseteq Artifacts
  /\ Wants \in [Builders -> SUBSET Artifacts]
  /\ FileOf \in [Builders -> [Artifacts -> Files]]
  /\ AtStart \subseteq {"absent", "corrupt", "pinned"}
  /\ NoArtifact \notin Artifacts
  /\ \A b, o \in Builders, a, other \in Artifacts :  \* a file's name holds its tag
       FileOf[b][a] = FileOf[o][other] => a = other

VARIABLES
  archive, \* the content of each file
  tree,    \* the pieces of each artifact unpacked in an OUT_DIR
  stamp,   \* the artifact archive.sha256 names
  phase,   \* where the build script is
  target,  \* the artifact the build has selected
  handle,  \* what the file it has opened holds
  cause    \* why the last build failed: download, cache or killed

vars == <<archive, tree, stamp, phase, target, handle, cause>>

Pieces == {"marker", "rest"}
Stopped == {"idle", "used", "failed"}
Reading == {"hashing", "unpacking"}
Phases == Stopped \cup Reading \cup
  {"testing", "opening", "clearing", "removing", "fetching", "installing",
   "downloaded", "wiping", "unpackOpening", "stamping"}

Init ==
  /\ archive \in [Files -> AtStart]
  /\ tree = [b \in Builders |-> [a \in Artifacts |-> {}]]
  /\ stamp = [b \in Builders |-> NoArtifact]
  /\ phase = [b \in Builders |-> "idle"]
  /\ target = [b \in Builders |-> NoArtifact]
  /\ handle = [b \in Builders |-> "absent"]
  /\ cause = [b \in Builders |-> "none"]

File(b) == FileOf[b][target[b]]
FromSource(b) == target[b] \in Sources
Unpacked(b) == tree[b][target[b]]
GoTo(b, p) == phase' = [phase EXCEPT ![b] = p]

\* A panic of the build script; what it has put on disk stays.
Panic(b, why) ==
  /\ GoTo(b, "failed")
  /\ cause' = [cause EXCEPT ![b] = why]
  /\ handle' = [handle EXCEPT ![b] = "absent"]

-----------------------------------------------------------------------------

\* Cargo runs the script; acquire_source first looks for the tree itself.
Begin(b) ==
  /\ phase[b] \in Stopped
  /\ \E a \in Wants[b] : target' = [target EXCEPT ![b] = a]
  /\ GoTo(b, IF target'[b] \in Sources /\ "marker" \in tree[b][target'[b]]
             THEN "used" ELSE "testing")
  /\ cause' = [cause EXCEPT ![b] = "none"]
  /\ UNCHANGED <<archive, tree, stamp, handle>>

\* destination.is_file()
TestFile(b) ==
  /\ phase[b] = "testing"
  /\ GoTo(b, IF archive[File(b)] = "absent" THEN "clearing" ELSE "opening")
  /\ UNCHANGED <<archive, tree, stamp, target, handle, cause>>

\* checksum opens the file again: it may have gone since.
OpenToHash(b) ==
  /\ phase[b] = "opening"
  /\ \/ /\ archive[File(b)] = "absent"
        /\ Panic(b, "cache")
     \/ /\ archive[File(b)] # "absent"
        /\ GoTo(b, "hashing")
        /\ handle' = [handle EXCEPT ![b] = archive[File(b)]]
        /\ UNCHANGED cause
  /\ UNCHANGED <<archive, tree, stamp, target>>

\* Bug: a file that is there is taken for the archive.
CompareTrusting(b) ==
  /\ phase[b] = "hashing"
  /\ GoTo(b, "downloaded")
  /\ handle' = [handle EXCEPT ![b] = "absent"]
  /\ UNCHANGED <<archive, tree, stamp, target, cause>>

\* The digest is compared with the pinned one.
Compare(b) ==
  /\ phase[b] = "hashing"
  /\ GoTo(b, IF handle[b] = "pinned" THEN "downloaded" ELSE "clearing")
  /\ handle' = [handle EXCEPT ![b] = "absent"]
  /\ UNCHANGED <<archive, tree, stamp, target, cause>>

\* destination.exists()
TestStale(b) ==
  /\ phase[b] = "clearing"
  /\ GoTo(b, IF archive[File(b)] = "absent" THEN "fetching" ELSE "removing")
  /\ UNCHANGED <<archive, tree, stamp, target, handle, cause>>

\* remove_file(destination), which must still be there.
RemoveStale(b) ==
  /\ phase[b] = "removing"
  /\ \/ /\ archive[File(b)] = "absent"
        /\ Panic(b, "cache")
        /\ UNCHANGED archive
     \/ /\ archive[File(b)] # "absent"
        /\ archive' = [archive EXCEPT ![File(b)] = "absent"]
        /\ GoTo(b, "fetching")
        /\ UNCHANGED <<handle, cause>>
  /\ UNCHANGED <<tree, stamp, target>>

\* Bug: the archive is downloaded over the destination and verified there.
FetchInPlace(b) ==
  /\ phase[b] = "fetching"
  /\ \E content \in {"corrupt", "pinned"} :
       /\ archive' = [archive EXCEPT ![File(b)] = content]
       /\ IF content = "pinned"
          THEN GoTo(b, "downloaded") /\ UNCHANGED <<handle, cause>>
          ELSE Panic(b, "download")
  /\ UNCHANGED <<tree, stamp, target>>

\* The download goes to a file of this process and is verified there: a failed
\* transfer or a wrong digest is a panic, and nothing else has changed.
Fetch(b) ==
  /\ phase[b] = "fetching"
  /\ \/ GoTo(b, "installing") /\ UNCHANGED <<handle, cause>>
     \/ Panic(b, "download")
  /\ UNCHANGED <<archive, tree, stamp, target>>

\* Whether another process has the file open.
InUse(b) == \E o \in Builders \ {b} : phase[o] \in Reading /\ File(o) = File(b)

\* rename(temporary, destination).  Replacing a file somebody reads fails on
\* Windows; then what is there is accepted when its digest is the pinned one.
Install(b) ==
  /\ phase[b] = "installing"
  /\ \/ /\ archive' = [archive EXCEPT ![File(b)] = "pinned"]
        /\ GoTo(b, "downloaded")
        /\ UNCHANGED <<handle, cause>>
     \/ /\ InUse(b)
        /\ archive[File(b)] = "pinned"
        /\ GoTo(b, "downloaded")
        /\ UNCHANGED <<archive, handle, cause>>
     \/ /\ InUse(b)
        /\ archive[File(b)] # "pinned"
        /\ Panic(b, "cache")
        /\ UNCHANGED archive
  /\ UNCHANGED <<tree, stamp, target>>

-----------------------------------------------------------------------------

\* A prebuilt tree is reused if its header is there and the stamp names it.
Reusable(b) == "marker" \in Unpacked(b) /\ stamp[b] = target[b]

\* Nothing is left of extraction, the directory of all the prebuilt trees.
ExtractionEmpty(b) ==
  /\ stamp[b] = NoArtifact
  /\ \A a \in Artifacts \ Sources : tree[b][a] = {}

TestTree(b) ==
  /\ phase[b] = "downloaded"
  /\ \/ FromSource(b) /\ GoTo(b, "unpackOpening")
     \/ ~FromSource(b) /\ Reusable(b) /\ GoTo(b, "used")
     \/ ~FromSource(b) /\ ~Reusable(b) /\ GoTo(b, "wiping")
  /\ UNCHANGED <<archive, tree, stamp, target, handle, cause>>

\* remove_dir_all removes one entry after another, in no particular order.
Wipe(b) ==
  /\ phase[b] = "wiping"
  /\ \/ /\ stamp[b] # NoArtifact
        /\ stamp' = [stamp EXCEPT ![b] = NoArtifact]
        /\ UNCHANGED <<tree, phase>>
     \/ /\ \E a \in Artifacts \ Sources : \E piece \in tree[b][a] :
             tree' = [tree EXCEPT ![b][a] = @ \ {piece}]
        /\ UNCHANGED <<stamp, phase>>
     \/ ExtractionEmpty(b) /\ GoTo(b, "unpackOpening") /\ UNCHANGED <<tree, stamp>>
  /\ UNCHANGED <<archive, target, handle, cause>>

\* extract_tar_gz and extract_zip open the archive by name once more.
OpenToUnpack(b) ==
  /\ phase[b] = "unpackOpening"
  /\ \/ /\ archive[File(b)] = "absent"
        /\ Panic(b, "cache")
     \/ /\ archive[File(b)] # "absent"
        /\ GoTo(b, "unpacking")
        /\ handle' = [handle EXCEPT ![b] = archive[File(b)]]
        /\ UNCHANGED cause
  /\ UNCHANGED <<archive, tree, stamp, target>>

\* Bug: the tree is stamped before it is unpacked.
UnpackStamped(b) ==
  /\ phase[b] = "unpacking"
  /\ stamp' = [stamp EXCEPT ![b] = IF FromSource(b) THEN @ ELSE target[b]]
  /\ \/ /\ \E piece \in Pieces \ Unpacked(b) :
             tree' = [tree EXCEPT ![b][target[b]] = @ \cup {piece}]
        /\ UNCHANGED <<phase, handle>>
     \/ /\ Unpacked(b) = Pieces
        /\ GoTo(b, "used")
        /\ handle' = [handle EXCEPT ![b] = "absent"]
        /\ UNCHANGED tree
  /\ UNCHANGED <<archive, target, cause>>

\* The entries of the archive, over what a killed build may have left.
Unpack(b) ==
  /\ phase[b] = "unpacking"
  /\ \/ /\ \E piece \in Pieces \ Unpacked(b) :
             tree' = [tree EXCEPT ![b][target[b]] = @ \cup {piece}]
        /\ UNCHANGED <<phase, handle>>
     \/ /\ Unpacked(b) = Pieces
        /\ GoTo(b, IF FromSource(b) THEN "used" ELSE "stamping")
        /\ handle' = [handle EXCEPT ![b] = "absent"]
        /\ UNCHANGED tree
  /\ UNCHANGED <<archive, stamp, target, cause>>

WriteStamp(b) ==
  /\ phase[b] = "stamping"
  /\ stamp' = [stamp EXCEPT ![b] = target[b]]
  /\ GoTo(b, "used")
  /\ UNCHANGED <<archive, tree, target, handle, cause>>

\* The build is interrupted, or a write fails, between two effects.
Killed(b) ==
  /\ phase[b] \notin Stopped
  /\ Panic(b, "killed")
  /\ UNCHANGED <<archive, tree, stamp, target>>

BuilderStep(b) ==
  \/ Begin(b) \/ TestFile(b) \/ OpenToHash(b) \/ Compare(b) \/ TestStale(b)
  \/ RemoveStale(b) \/ Fetch(b) \/ Install(b) \/ TestTree(b) \/ Wipe(b)
  \/ OpenToUnpack(b) \/ Unpack(b) \/ WriteStamp(b) \/ Killed(b)

Next == \E b \in Builders : BuilderStep(b)

Spec == Init /\ [][Next]_vars

-----------------------------------------------------------------------------

\* Types, with the stamp naming only a prebuilt: acquire_source writes none.
TypeOK ==
  /\ archive \in [Files -> {"absent", "corrupt", "pinned"}]
  /\ tree \in [Builders -> [Artifacts -> SUBSET Pieces]]
  /\ phase \in [Builders -> Phases]
  /\ stamp \in [Builders -> (Artifacts \ Sources) \cup {NoArtifact}]
  /\ target \in [Builders -> Artifacts \cup {NoArtifact}]
  /\ handle \in [Builders -> {"absent", "corrupt", "pinned"}]
  /\ cause \in [Builders -> {"none", "download", "cache", "killed"}]

\* What is unpacked was verified by somebody: between the digest of the file
\* and its second opening, other builders may only swap in a verified one.
UnpacksVerified == \A b \in Builders : phase[b] = "unpacking" => handle[b] = "pinned"

\* A prebuilt the build goes on with is whole, although builds were killed while
\* they unpacked: the stamp is written after the last piece, and trusted only with
\* the header.  (Both may outlive a part of the tree when a build that was removing
\* it for another release is killed.)
PrebuiltComplete ==
  \A b \in Builders :
    phase[b] = "used" /\ ~FromSource(b) => Unpacked(b) = Pieces

\* Builders that share a download directory never fail each other: a build
\* fails only because of the transfer or because it is killed.  ("a shared
\* download cache", README, Native configuration.)
SharingHarmless == \A b \in Builders : cause[b] # "cache"

\* "fall back to the checksum-pinned source commit" (README): a source tree
\* the build goes on with holds all of the verified archive.
SourceComplete ==
  \A b \in Builders : phase[b] = "used" /\ FromSource(b) => Unpacked(b) = Pieces

\* A file that holds the pinned archive is never replaced by anything else; it
\* may only be removed by a builder that judged its predecessor.
ArchiveNeverSpoiled ==
  [][\A f \in Files : archive[f] = "pinned" => archive'[f] # "corrupt"]_vars
=============================================================================
