-------------------------- MODULE BuildCache_proofs --------------------------
(***************************************************************************)
(* For any number of builders, files and artifacts: what a builder unpacks *)
(* was verified, although it opens the archive by name a second time and   *)
(* other builders may have removed or replaced it since; and the tree a    *)
(* build goes on with is whole, unless a build was interrupted while it    *)
(* removed the tree of another release.                                    *)
(***************************************************************************)
EXTENDS BuildCache, TLAPS

\* A build that has begun has selected an artifact; only prebuilts are stamped.
Selected ==
  \A b \in Builders :
    /\ phase[b] # "idle" => target[b] \in Wants[b] /\ target[b] \in Artifacts
    /\ phase[b] \in {"wiping", "stamping"} => target[b] \notin Sources

\* The digest of ensure_download outlives its moment: once the pinned archive
\* has been opened, the file is the pinned one, or gone.
VerifiedOrGone ==
  \A b \in Builders :
    /\ phase[b] \in {"downloaded", "wiping", "unpackOpening"} => archive[File(b)] # "corrupt"
    /\ phase[b] = "hashing" /\ handle[b] = "pinned" => archive[File(b)] # "corrupt"
    /\ phase[b] = "unpacking" => handle[b] = "pinned"

Verified == TypeOK /\ Selected /\ VerifiedOrGone

LEMMA VerifiedInit == Init => Verified
<1> SUFFICES ASSUME Init PROVE Verified
  OBVIOUS
<1> USE BuildCacheAssumption DEF BuildCacheAssumption, Init
<1>1. archive \in [Files -> {"absent", "corrupt", "pinned"}]
  OBVIOUS
<1>2. tree \in [Builders -> [Artifacts -> SUBSET Pieces]]
  BY DEF Pieces
<1>3. /\ phase \in [Builders -> Phases]
      /\ stamp \in [Builders -> (Artifacts \ Sources) \cup {NoArtifact}]
      /\ target \in [Builders -> Artifacts \cup {NoArtifact}]
      /\ handle \in [Builders -> {"absent", "corrupt", "pinned"}]
      /\ cause \in [Builders -> {"none", "download", "cache", "killed"}]
  BY DEF Phases, Stopped
<1>4. \A b \in Builders : phase[b] = "idle"
  OBVIOUS
<1> QED BY <1>1, <1>2, <1>3, <1>4 DEF Verified, TypeOK, Selected, VerifiedOrGone

\* No step puts anything but the pinned archive in a file.
LEMMA OnlyPinnedInstalled ==
  ASSUME Verified, [Next]_vars
  PROVE  \A f \in Files : archive'[f] \in {archive[f], "absent", "pinned"}
<1> USE BuildCacheAssumption DEF BuildCacheAssumption
<1>1. CASE UNCHANGED vars
  BY <1>1 DEF vars
<1>2. ASSUME NEW b \in Builders, BuilderStep(b)
      PROVE  \A f \in Files : archive'[f] \in {archive[f], "absent", "pinned"}
  <2> USE DEF Verified, TypeOK
  <2>1. CASE RemoveStale(b)
    BY <2>1 DEF RemoveStale
  <2>2. CASE Install(b)
    BY <2>2 DEF Install
  <2>3. CASE UNCHANGED archive
    BY <2>3
  <2> QED
    BY <1>2, <2>1, <2>2, <2>3 DEF BuilderStep, Begin, TestFile, OpenToHash, Compare, TestStale,
       Fetch, TestTree, Wipe, OpenToUnpack, Unpack, WriteStamp, Killed
<1> QED BY <1>1, <1>2 DEF Next

LEMMA TypeStep ==
  ASSUME TypeOK, Selected, NEW b \in Builders, BuilderStep(b)
  PROVE  TypeOK'
<1> USE BuildCacheAssumption DEF BuildCacheAssumption, TypeOK, Phases, Stopped, Reading,
    GoTo, Panic
<1>0. phase[b] # "idle" => File(b) \in Files
  BY DEF Selected, File
<1>1. CASE Begin(b)
  <2>1. PICK a \in Wants[b] : target' = [target EXCEPT ![b] = a]
    BY <1>1 DEF Begin
  <2>2. a \in Artifacts /\ target'[b] = a
    BY <2>1
  <2>3. phase' \in [Builders -> Phases]
    BY <1>1 DEF Begin
  <2> QED BY <1>1, <2>1, <2>2, <2>3 DEF Begin
<1>2. CASE TestFile(b) BY <1>2 DEF TestFile
<1>3. CASE OpenToHash(b)
  <2>1. archive[File(b)] \in {"absent", "corrupt", "pinned"}
    BY <1>3, <1>0 DEF OpenToHash
  <2>2. handle' \in [Builders -> {"absent", "corrupt", "pinned"}]
    BY <1>3, <2>1 DEF OpenToHash
  <2> QED BY <1>3, <2>2 DEF OpenToHash
<1>4. CASE Compare(b) BY <1>4 DEF Compare
<1>5. CASE TestStale(b) BY <1>5 DEF TestStale
<1>6. CASE RemoveStale(b) BY <1>6 DEF RemoveStale
<1>7. CASE Fetch(b) BY <1>7 DEF Fetch
<1>8. CASE Install(b) BY <1>8 DEF Install
<1>9. CASE TestTree(b) BY <1>9 DEF TestTree
<1>10. CASE Wipe(b)
  <2>1. tree' \in [Builders -> [Artifacts -> SUBSET Pieces]]
    <3>1. CASE UNCHANGED tree
      BY <3>1
    <3>2. ASSUME NEW a \in Artifacts, NEW piece \in tree[b][a],
                 tree' = [tree EXCEPT ![b][a] = @ \ {piece}]
          PROVE  tree' \in [Builders -> [Artifacts -> SUBSET Pieces]]
      <4>1. tree[b] \in [Artifacts -> SUBSET Pieces] /\ tree[b][a] \ {piece} \in SUBSET Pieces
        OBVIOUS
      <4>2. [tree[b] EXCEPT ![a] = @ \ {piece}] \in [Artifacts -> SUBSET Pieces]
        BY <4>1
      <4> QED BY <3>2, <4>2
    <3> QED BY <1>10, <3>1, <3>2 DEF Wipe
  <2> QED BY <1>10, <2>1 DEF Wipe
<1>11. CASE OpenToUnpack(b)
  <2>1. archive[File(b)] \in {"absent", "corrupt", "pinned"}
    BY <1>11, <1>0 DEF OpenToUnpack
  <2>2. handle' \in [Builders -> {"absent", "corrupt", "pinned"}]
    BY <1>11, <2>1 DEF OpenToUnpack
  <2> QED BY <1>11, <2>2 DEF OpenToUnpack
<1>12. CASE Unpack(b)
  <2>1. tree' \in [Builders -> [Artifacts -> SUBSET Pieces]]
    <3>1. CASE UNCHANGED tree
      BY <3>1
    <3>2. ASSUME NEW piece \in Pieces,
                 tree' = [tree EXCEPT ![b][target[b]] = @ \cup {piece}]
          PROVE  tree' \in [Builders -> [Artifacts -> SUBSET Pieces]]
      <4>1. target[b] \in Artifacts
        BY <1>12 DEF Unpack, Selected
      <4>2. [tree[b] EXCEPT ![target[b]] = @ \cup {piece}] \in [Artifacts -> SUBSET Pieces]
        BY <4>1
      <4> QED BY <3>2, <4>2
    <3> QED BY <1>12, <3>1, <3>2 DEF Unpack
  <2> QED BY <1>12, <2>1 DEF Unpack
<1>13. CASE WriteStamp(b) BY <1>13 DEF WriteStamp, Selected
<1>14. CASE Killed(b) BY <1>14 DEF Killed
<1> QED
  BY <1>1, <1>2, <1>3, <1>4, <1>5, <1>6, <1>7, <1>8, <1>9, <1>10, <1>11, <1>12, <1>13, <1>14
  DEF BuilderStep

\* A builder moves only itself.
LEMMA OthersStay ==
  ASSUME TypeOK, NEW b \in Builders, BuilderStep(b)
  PROVE  \A o \in Builders \ {b} :
           /\ phase'[o] = phase[o] /\ target'[o] = target[o]
           /\ handle'[o] = handle[o] /\ stamp'[o] = stamp[o] /\ tree'[o] = tree[o]
  BY DEF TypeOK, BuilderStep, GoTo, Panic, Begin, TestFile, OpenToHash, Compare, TestStale,
     RemoveStale, Fetch, Install, TestTree, Wipe, OpenToUnpack, Unpack, WriteStamp, Killed

LEMMA SelectedStep ==
  ASSUME TypeOK, Selected, NEW b \in Builders, BuilderStep(b)
  PROVE  Selected'
<1>1. /\ phase'[b] # "idle" => target'[b] \in Wants[b] /\ target'[b] \in Artifacts
      /\ phase'[b] \in {"wiping", "stamping"} => target'[b] \notin Sources
  BY BuildCacheAssumption DEF BuildCacheAssumption, TypeOK, Selected, BuilderStep, Stopped,
     Reading, GoTo, Panic, FromSource, Begin, TestFile, OpenToHash, Compare, TestStale,
     RemoveStale, Fetch, Install, TestTree, Wipe, OpenToUnpack, Unpack, WriteStamp, Killed
<1> QED BY <1>1, OthersStay DEF Selected

LEMMA VerifiedStep == Verified /\ [Next]_vars => Verified'
<1> SUFFICES ASSUME Verified, [Next]_vars PROVE Verified'
  OBVIOUS
<1> USE BuildCacheAssumption DEF BuildCacheAssumption
<1>1. CASE UNCHANGED vars
  BY <1>1 DEF vars, Verified, TypeOK, Selected, VerifiedOrGone, File
<1>2. ASSUME NEW b \in Builders, BuilderStep(b)
      PROVE  Verified'
  <2>1. TypeOK' /\ Selected'
    BY <1>2, TypeStep, SelectedStep DEF Verified
  <2>2. /\ phase'[b] \in {"downloaded", "wiping", "unpackOpening"} => archive'[File(b)'] # "corrupt"
        /\ phase'[b] = "hashing" /\ handle'[b] = "pinned" => archive'[File(b)'] # "corrupt"
        /\ phase'[b] = "unpacking" => handle'[b] = "pinned"
    <3> USE DEF Verified, TypeOK, Stopped, Reading, GoTo, Panic
    <3>1. CASE Begin(b) \/ Killed(b)
      BY <3>1 DEF Begin, Killed
    <3>2. CASE TestFile(b) \/ OpenToHash(b) \/ TestStale(b) \/ RemoveStale(b) \/ Fetch(b)
      BY <3>2 DEF TestFile, OpenToHash, TestStale, RemoveStale, Fetch, File
    <3>3. CASE Compare(b)
      BY <3>3 DEF Compare, VerifiedOrGone, File
    <3>4. CASE Install(b)
      BY <3>4 DEF Install, Selected, File
    <3>5. CASE TestTree(b) \/ Wipe(b) \/ WriteStamp(b)
      BY <3>5 DEF TestTree, Wipe, WriteStamp, VerifiedOrGone, File
    <3>6. CASE OpenToUnpack(b)
      BY <3>6 DEF OpenToUnpack, VerifiedOrGone, Selected, File
    <3>7. CASE Unpack(b)
      BY <3>7 DEF Unpack, VerifiedOrGone
    <3> QED
      BY <1>2, <3>1, <3>2, <3>3, <3>4, <3>5, <3>6, <3>7 DEF BuilderStep
  <2>3. ASSUME NEW o \in Builders \ {b}
        PROVE  /\ phase'[o] \in {"downloaded", "wiping", "unpackOpening"}
                    => archive'[File(o)'] # "corrupt"
               /\ phase'[o] = "hashing" /\ handle'[o] = "pinned"
                    => archive'[File(o)'] # "corrupt"
               /\ phase'[o] = "unpacking" => handle'[o] = "pinned"
    <3>1. phase'[o] = phase[o] /\ target'[o] = target[o] /\ handle'[o] = handle[o]
      BY <1>2, OthersStay DEF Verified
    <3>2. phase[o] # "idle" => File(o) \in Files
      BY DEF Verified, Selected, File
    <3> QED BY <1>2, <3>1, <3>2, OnlyPinnedInstalled DEF Verified, VerifiedOrGone, File
  <2> QED BY <2>1, <2>2, <2>3 DEF Verified, VerifiedOrGone
<1> QED BY <1>1, <1>2 DEF Next

\* TypeOK holds in every reachable state, for any builders, files and artifacts:
\* in particular acquire_source never writes archive.sha256.
THEOREM CacheTypes == Spec => []TypeOK
<1>1. Verified => TypeOK
  BY DEF Verified
<1> QED BY VerifiedInit, VerifiedStep, <1>1, PTL DEF Spec

\* UnpacksVerified: acquire_prebuilt and acquire_source unpack only archives
\* whose digest some builder has compared with the pinned one.
THEOREM CacheVerified == Spec => []UnpacksVerified
<1>1. Verified => UnpacksVerified
  BY DEF Verified, VerifiedOrGone, UnpacksVerified
<1> QED BY VerifiedInit, VerifiedStep, <1>1, PTL DEF Spec

\* ArchiveNeverSpoiled: no step of ensure_download turns the pinned archive into
\* something else.
THEOREM CacheNeverSpoiled == Spec => ArchiveNeverSpoiled
<1>1. Verified /\ [Next]_vars
        => [\A f \in Files : archive[f] = "pinned" => archive'[f] # "corrupt"]_vars
  BY OnlyPinnedInstalled
<1> QED BY VerifiedInit, VerifiedStep, <1>1, PTL DEF Spec, ArchiveNeverSpoiled

-----------------------------------------------------------------------------
(* Prebuilt trees.                                                         *)

\* The one interruption that does harm: between the entries of another release's
\* tree, whose stamp is still there.
WipesFinish ==
  \A b \in Builders :
    phase[b] = "wiping" /\ stamp[b] \notin {NoArtifact, target[b]} => phase'[b] # "failed"

\* A stamp vouches for a whole tree, except while that is removed for another
\* release; there is none while a tree is being unpacked.
StampVouches ==
  \A b \in Builders :
    /\ stamp[b] # NoArtifact /\ phase[b] # "wiping" => tree[b][stamp[b]] = Pieces
    /\ phase[b] = "wiping" => stamp[b] # target[b]
    /\ phase[b] \in {"unpackOpening", "unpacking", "stamping"}
         /\ target[b] \notin Sources => stamp[b] = NoArtifact
    /\ phase[b] = "stamping" => tree[b][target[b]] = Pieces
    /\ phase[b] = "used" /\ target[b] \notin Sources => tree[b][target[b]] = Pieces

LEMMA StampInit == Init => StampVouches
  BY BuildCacheAssumption DEF BuildCacheAssumption, Init, StampVouches

LEMMA StampStep ==
  ASSUME Verified, StampVouches, [Next]_vars, [WipesFinish]_vars
  PROVE  StampVouches'
<1> USE BuildCacheAssumption DEF BuildCacheAssumption
<1>1. CASE UNCHANGED vars
  BY <1>1 DEF vars, StampVouches
<1>2. ASSUME NEW b \in Builders, BuilderStep(b)
      PROVE  StampVouches'
  <2>1. \A o \in Builders \ {b} :
          /\ phase'[o] = phase[o] /\ target'[o] = target[o]
          /\ stamp'[o] = stamp[o] /\ tree'[o] = tree[o]
    BY <1>2, OthersStay DEF Verified
  <2> DEFINE Vouches ==
        /\ stamp[b] # NoArtifact /\ phase[b] # "wiping" => tree[b][stamp[b]] = Pieces
        /\ phase[b] = "wiping" => stamp[b] # target[b]
        /\ phase[b] \in {"unpackOpening", "unpacking", "stamping"}
             /\ target[b] \notin Sources => stamp[b] = NoArtifact
        /\ phase[b] = "stamping" => tree[b][target[b]] = Pieces
        /\ phase[b] = "used" /\ target[b] \notin Sources => tree[b][target[b]] = Pieces
  <2>2. Vouches'
    <3> USE DEF Verified, TypeOK, Stopped, Reading, GoTo, Panic
    <3>0. Vouches
      BY DEF StampVouches
    <3>1. CASE Begin(b)
      BY <3>0, <3>1 DEF Begin
    <3>2. CASE TestFile(b) \/ OpenToHash(b) \/ TestStale(b) \/ RemoveStale(b) \/ Fetch(b)
                 \/ Compare(b) \/ Install(b) \/ OpenToUnpack(b)
      BY <3>0, <3>2 DEF TestFile, OpenToHash, TestStale, RemoveStale, Fetch, Compare,
         Install, OpenToUnpack
    <3>3. CASE TestTree(b)
      <4>1. target[b] \in Artifacts
        BY <3>3 DEF TestTree, Selected
      <4>2. stamp[b] = target[b] => Reusable(b)
        BY <3>0, <3>3, <4>1 DEF TestTree, Reusable, Unpacked, Pieces
      <4>3. Reusable(b) => stamp[b] = target[b]
        BY DEF Reusable
      <4> QED BY <3>0, <3>3, <4>1, <4>2, <4>3 DEF TestTree, FromSource
    <3>4. CASE Wipe(b)
      <4>1. target[b] \in Artifacts \ Sources
        BY <3>4 DEF Wipe, Selected
      <4>2. phase'[b] # "wiping" => stamp'[b] = NoArtifact /\ phase'[b] = "unpackOpening"
        BY <3>4 DEF Wipe, ExtractionEmpty
      <4>3. target'[b] = target[b] /\ stamp'[b] \in {stamp[b], NoArtifact}
        BY <3>4 DEF Wipe
      <4>4. phase'[b] \in {"wiping", "unpackOpening"}
        BY <3>4 DEF Wipe
      <4> QED BY <3>0, <3>4, <4>1, <4>2, <4>3, <4>4 DEF Wipe
    <3>5. CASE Unpack(b)
      <4>1. target[b] \in Artifacts /\ tree[b] \in [Artifacts -> SUBSET Pieces]
        BY <3>5 DEF Unpack, Selected
      <4>2. CASE UNCHANGED tree
        BY <3>0, <3>5, <4>1, <4>2 DEF Unpack, FromSource, Unpacked
      <4>3. ASSUME NEW piece \in Pieces \ Unpacked(b),
                   tree' = [tree EXCEPT ![b][target[b]] = @ \cup {piece}],
                   UNCHANGED <<phase, stamp, target>>
            PROVE  Vouches'
        <5>1. stamp[b] # NoArtifact => stamp[b] # target[b] /\ stamp[b] \in Artifacts
          BY <3>0, <4>3 DEF Unpacked
        <5>2. stamp[b] # NoArtifact => tree'[b][stamp[b]] = tree[b][stamp[b]]
          BY <4>1, <4>3, <5>1
        <5>3. phase[b] = "unpacking"
          BY <3>5 DEF Unpack
        <5> QED BY <3>0, <4>3, <5>2, <5>3
      <4> QED BY <3>5, <4>2, <4>3 DEF Unpack
    <3>6. CASE WriteStamp(b)
      BY <3>0, <3>6 DEF WriteStamp, Selected
    <3>7. CASE Killed(b)
      <4>1. phase[b] = "wiping" => stamp[b] = NoArtifact
        BY <1>2, <3>0, <3>7 DEF Killed, WipesFinish, vars
      <4> QED BY <3>0, <3>7, <4>1 DEF Killed
    <3> QED
      BY <1>2, <3>1, <3>2, <3>3, <3>4, <3>5, <3>6, <3>7 DEF BuilderStep
  <2> QED BY <2>1, <2>2 DEF StampVouches
<1> QED BY <1>1, <1>2 DEF Next

\* PrebuiltComplete: acquire_prebuilt goes on with a part of a prebuilt only after a
\* build was interrupted in remove_dir_all, while it removed the tree of another
\* release that its stamp still named; for any releases, checksums and kills besides.
THEOREM PrebuiltWhole == Spec /\ [][WipesFinish]_vars => []PrebuiltComplete
<1>1. StampVouches => PrebuiltComplete
  BY DEF StampVouches, PrebuiltComplete, FromSource, Unpacked
<1>2. Verified /\ StampVouches /\ [Next]_vars /\ [WipesFinish]_vars => StampVouches'
  BY StampStep
<1> QED BY VerifiedInit, VerifiedStep, StampInit, <1>1, <1>2, PTL DEF Spec
=============================================================================
