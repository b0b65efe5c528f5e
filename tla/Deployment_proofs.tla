-------------------------- MODULE Deployment_proofs --------------------------
(***************************************************************************)
(* For every target, set of features and surroundings: the build uses the  *)
(* archive the documentation promises, links all it needs, and offers at   *)
(* run time the backends that were asked for and no others.                *)
(*                                                                         *)
(* The table of archives meets the documentation row by row; that the      *)
(* smallest fitting row is taken does the rest.                            *)
(***************************************************************************)
EXTENDS Deployment, FiniteSetTheorems, WellFoundedInduction, TLAPS

-----------------------------------------------------------------------------
(* The table.                                                              *)

LEMMA Widened ==
  ASSUME NEW s, NEW n \in Nat, IsFiniteSet(s), Cardinality(s) = n, NEW b, b \notin s
  PROVE  IsFiniteSet(s \cup {b}) /\ Cardinality(s \cup {b}) = n + 1
BY FS_AddElement

LEMMA Sizes ==
  /\ Cardinality({}) = 0
  /\ Cardinality({"metal"}) = 1
  /\ Cardinality({"cuda"}) = 1
  /\ Cardinality({"vulkan", "opencl"}) = 2
  /\ Cardinality({"metal", "coreml"}) = 2
  /\ Cardinality({"vulkan", "opencl", "opengl"}) = 3
<1>1. Cardinality({}) = 0
  BY FS_EmptySet
<1>2. ASSUME NEW a PROVE IsFiniteSet({a}) /\ Cardinality({a}) = 1
  BY FS_Singleton
<1>3. ASSUME NEW a, NEW b, a # b PROVE IsFiniteSet({a, b}) /\ Cardinality({a, b}) = 2
  <2>1. {a, b} = {a} \cup {b}
    OBVIOUS
  <2>2. IsFiniteSet({a}) /\ Cardinality({a}) = 1 /\ b \notin {a}
    BY <1>2, <1>3
  <2>3. IsFiniteSet({a} \cup {b}) /\ Cardinality({a} \cup {b}) = 1 + 1
    BY <2>2, Widened
  <2> QED BY <2>1, <2>3
<1>4. Cardinality({"vulkan", "opencl", "opengl"}) = 3
  <2>1. {"vulkan", "opencl", "opengl"} = {"vulkan", "opencl"} \cup {"opengl"}
    OBVIOUS
  <2>2. /\ IsFiniteSet({"vulkan", "opencl"}) /\ Cardinality({"vulkan", "opencl"}) = 2
        /\ "opengl" \notin {"vulkan", "opencl"}
    BY <1>3
  <2>3. Cardinality({"vulkan", "opencl"} \cup {"opengl"}) = 2 + 1
    BY <2>2, Widened
  <2> QED BY <2>1, <2>3
<1> QED BY <1>1, <1>2, <1>3, <1>4

Published ==
  {{}, {"metal"}, {"cuda"}, {"vulkan", "opencl"}, {"metal", "coreml"},
   {"vulkan", "opencl", "opengl"}}

LEMMA Rows ==
  /\ DOMAIN ARTIFACTS = 1..22
  /\ \A i \in 1..22 : ARTIFACTS[i].backends \in Published /\ Size(i) \in Nat
<1>1. DOMAIN ARTIFACTS = 1..22
  BY DEF ARTIFACTS
<1>2. ASSUME NEW i \in 1..22
      PROVE  ARTIFACTS[i].backends \in Published
  BY DEF ARTIFACTS, Profile, Published
<1>3. \A s \in Published : Cardinality(s) \in Nat
  BY Sizes DEF Published
<1> QED BY <1>1, <1>2, <1>3 DEF Size

\* min_by_key: of the rows that will do, one with no more backends than any.
LEMMA SmallestFits ==
  ASSUME NEW c \in SUBSET (DOMAIN ARTIFACTS), c # {}
  PROVE  \E i \in c : SmallestOf(c) = ARTIFACTS[i] /\ \A j \in c : Size(i) <= Size(j)
<1> DEFINE Key(i) == 100 * Size(i) + i
           Keys == {Key(i) : i \in c}
           Smallest(i) == \A j \in c : Size(i) < Size(j) \/ (Size(i) = Size(j) /\ i <= j)
<1>1. \A i \in c : i \in 1..22 /\ Size(i) \in Nat
  BY Rows
<1>2. Keys \subseteq Nat /\ Keys # {}
  BY <1>1
<1>3. PICK k \in Keys : \A l \in Keys : ~(<<l, k>> \in OpToRel(<, Nat))
  <2> HIDE DEF Keys
  <2> QED BY <1>2, NatLessThanWellFounded, WFMin
<1>4. PICK i \in c : k = Key(i)
  BY <1>3
<1>5. ASSUME NEW j \in c
      PROVE  Size(i) < Size(j) \/ (Size(i) = Size(j) /\ i <= j)
  <2>1. ~(Key(j) < Key(i))
    BY <1>1, <1>2, <1>3, <1>4 DEF OpToRel
  <2> QED BY <1>1, <2>1
<1>6. \E m \in c : Smallest(m)
  BY <1>5
<1> DEFINE chosen == CHOOSE m \in c : Smallest(m)
<1>7. chosen \in c /\ Smallest(chosen)
  <2> HIDE DEF Smallest
  <2> QED BY <1>6, Zenon
<1>8. SmallestOf(c) = ARTIFACTS[chosen]
  BY DEF SmallestOf
<1>9. \A j \in c : Size(chosen) <= Size(j)
  <2> HIDE DEF chosen
  <2> QED BY <1>1, <1>7
<1> HIDE DEF chosen
<1> QED BY <1>7, <1>8, <1>9

\* What the table has for a platform.
RowsOf(base) == {i \in 1..22 : ARTIFACTS[i].base = base}

ProfilesOf(base) ==
  CASE base \in {"linux-x86_64", "windows-x86_64"} -> {{}, {"vulkan", "opencl"}, {"cuda"}}
    [] base \in {"linux-aarch64", "windows-i686", "windows-aarch64"} -> {{}, {"vulkan", "opencl"}}
    [] base \in {"macos-universal", "ios-arm64", "ios-arm64-sim"} ->
         {{"metal"}, {"metal", "coreml"}}
    [] base \in {"android-arm64-v8a", "android-armeabi-v7a"} -> {{}, {"vulkan", "opencl", "opengl"}}
    [] OTHER -> {}

LEMMA TableProfiles ==
  ASSUME NEW base
  PROVE  \A p : p \in ProfilesOf(base) <=> \E i \in RowsOf(base) : p = ARTIFACTS[i].backends
<1>1. ASSUME NEW i \in 1..22
      PROVE  ARTIFACTS[i].backends \in ProfilesOf(ARTIFACTS[i].base)
  BY DEF ARTIFACTS, Profile, ProfilesOf
<1>2. ASSUME NEW p \in ProfilesOf(base)
      PROVE  \E i \in 1..22 : ARTIFACTS[i].base = base /\ ARTIFACTS[i].backends = p
  <2>1. CASE base = "linux-x86_64"
    <3>1. p = ARTIFACTS[13].backends \/ p = ARTIFACTS[12].backends \/ p = ARTIFACTS[11].backends
      BY <2>1 DEF ProfilesOf, ARTIFACTS, Profile
    <3>2. ARTIFACTS[13].base = base /\ ARTIFACTS[12].base = base /\ ARTIFACTS[11].base = base
      BY <2>1 DEF ARTIFACTS, Profile
    <3> QED BY <3>1, <3>2
  <2>2. CASE base = "windows-x86_64"
    <3>1. p = ARTIFACTS[22].backends \/ p = ARTIFACTS[21].backends \/ p = ARTIFACTS[20].backends
      BY <2>2 DEF ProfilesOf, ARTIFACTS, Profile
    <3>2. ARTIFACTS[22].base = base /\ ARTIFACTS[21].base = base /\ ARTIFACTS[20].base = base
      BY <2>2 DEF ARTIFACTS, Profile
    <3> QED BY <3>1, <3>2
  <2>3. CASE base = "linux-aarch64"
    <3>1. p = ARTIFACTS[10].backends \/ p = ARTIFACTS[9].backends
      BY <2>3 DEF ProfilesOf, ARTIFACTS, Profile
    <3>2. ARTIFACTS[10].base = base /\ ARTIFACTS[9].base = base
      BY <2>3 DEF ARTIFACTS, Profile
    <3> QED BY <3>1, <3>2
  <2>4. CASE base = "windows-i686"
    <3>1. p = ARTIFACTS[19].backends \/ p = ARTIFACTS[18].backends
      BY <2>4 DEF ProfilesOf, ARTIFACTS, Profile
    <3>2. ARTIFACTS[19].base = base /\ ARTIFACTS[18].base = base
      BY <2>4 DEF ARTIFACTS, Profile
    <3> QED BY <3>1, <3>2
  <2>5. CASE base = "windows-aarch64"
    <3>1. p = ARTIFACTS[17].backends \/ p = ARTIFACTS[16].backends
      BY <2>5 DEF ProfilesOf, ARTIFACTS, Profile
    <3>2. ARTIFACTS[17].base = base /\ ARTIFACTS[16].base = base
      BY <2>5 DEF ARTIFACTS, Profile
    <3> QED BY <3>1, <3>2
  <2>6. CASE base = "macos-universal"
    <3>1. p = ARTIFACTS[15].backends \/ p = ARTIFACTS[14].backends
      BY <2>6 DEF ProfilesOf, ARTIFACTS, Profile
    <3>2. ARTIFACTS[15].base = base /\ ARTIFACTS[14].base = base
      BY <2>6 DEF ARTIFACTS, Profile
    <3> QED BY <3>1, <3>2
  <2>7. CASE base = "ios-arm64"
    <3>1. p = ARTIFACTS[8].backends \/ p = ARTIFACTS[5].backends
      BY <2>7 DEF ProfilesOf, ARTIFACTS, Profile
    <3>2. ARTIFACTS[8].base = base /\ ARTIFACTS[5].base = base
      BY <2>7 DEF ARTIFACTS, Profile
    <3> QED BY <3>1, <3>2
  <2>8. CASE base = "ios-arm64-sim"
    <3>1. p = ARTIFACTS[7].backends \/ p = ARTIFACTS[6].backends
      BY <2>8 DEF ProfilesOf, ARTIFACTS, Profile
    <3>2. ARTIFACTS[7].base = base /\ ARTIFACTS[6].base = base
      BY <2>8 DEF ARTIFACTS, Profile
    <3> QED BY <3>1, <3>2
  <2>9. CASE base = "android-arm64-v8a"
    <3>1. p = ARTIFACTS[2].backends \/ p = ARTIFACTS[1].backends
      BY <2>9 DEF ProfilesOf, ARTIFACTS, Profile
    <3>2. ARTIFACTS[2].base = base /\ ARTIFACTS[1].base = base
      BY <2>9 DEF ARTIFACTS, Profile
    <3> QED BY <3>1, <3>2
  <2>10. CASE base = "android-armeabi-v7a"
    <3>1. p = ARTIFACTS[4].backends \/ p = ARTIFACTS[3].backends
      BY <2>10 DEF ProfilesOf, ARTIFACTS, Profile
    <3>2. ARTIFACTS[4].base = base /\ ARTIFACTS[3].base = base
      BY <2>10 DEF ARTIFACTS, Profile
    <3> QED BY <3>1, <3>2
  <2> QED BY <2>1, <2>2, <2>3, <2>4, <2>5, <2>6, <2>7, <2>8, <2>9, <2>10 DEF ProfilesOf
<1> QED BY <1>1, <1>2 DEF RowsOf

LEMMA ProfilesDocumented ==
  ASSUME NEW t
  PROVE  DocumentedProfiles(t) = ProfilesOf(TargetSuffix(t))
BY DEF TargetSuffix, DocumentedProfiles, ProfilesOf, None

\* No two profiles of a platform have the same size, so a smallest one is unique.
LEMMA SizesTellApart ==
  ASSUME NEW base, NEW p \in ProfilesOf(base), NEW q \in ProfilesOf(base),
         Cardinality(p) = Cardinality(q)
  PROVE  p = q
BY Sizes DEF ProfilesOf

-----------------------------------------------------------------------------
(* The choice.                                                             *)

Requested == features \cap Backends

Smallest(p) ==
  /\ p \in ProfilesOf(TargetSuffix(target))
  /\ Requested \subseteq p
  /\ \A q \in ProfilesOf(TargetSuffix(target)) :
       Requested \subseteq q => Cardinality(p) <= Cardinality(q)

LEMMA CandidateRows ==
  \A i : i \in Candidates <=> /\ i \in RowsOf(TargetSuffix(target))
                             /\ Requested \subseteq ARTIFACTS[i].backends
BY Rows DEF Candidates, Compatible, RowsOf, Requested

LEMMA WantedSmallest ==
  ASSUME Wanted # <<>>
  PROVE  ~Unpublished /\ Smallest(Wanted[1].backends)
<1>1. Wanted = SelectPrebuilt
  BY DEF Wanted
<1>2. ~Unpublished /\ Candidates # {} /\ SelectPrebuilt = <<SmallestOf(Candidates)>>
  BY <1>1 DEF SelectPrebuilt
<1>3. Candidates \in SUBSET (DOMAIN ARTIFACTS)
  BY DEF Candidates
<1>4. PICK i \in Candidates : /\ SmallestOf(Candidates) = ARTIFACTS[i]
                              /\ \A j \in Candidates : Size(i) <= Size(j)
  BY <1>2, <1>3, SmallestFits
<1>5. Wanted[1] = ARTIFACTS[i]
  BY <1>1, <1>2, <1>4
<1>6. /\ ARTIFACTS[i].backends \in ProfilesOf(TargetSuffix(target))
      /\ Requested \subseteq ARTIFACTS[i].backends
  BY <1>4, CandidateRows, TableProfiles
<1>7. ASSUME NEW q \in ProfilesOf(TargetSuffix(target)), Requested \subseteq q
      PROVE  Cardinality(ARTIFACTS[i].backends) <= Cardinality(q)
  <2>1. PICK j \in RowsOf(TargetSuffix(target)) : q = ARTIFACTS[j].backends
    BY TableProfiles
  <2>2. j \in Candidates
    BY <1>7, <2>1, CandidateRows
  <2> QED BY <1>4, <2>1, <2>2 DEF Size
<1> QED BY <1>2, <1>5, <1>6, <1>7 DEF Smallest

LEMMA ChoiceDocumented ==
  \A p : p \in DocumentedChoice <=> DocumentedPolicy /\ Smallest(p)
<1>1. DocumentedProfiles(target) = ProfilesOf(TargetSuffix(target))
  BY ProfilesDocumented
<1> QED BY <1>1 DEF DocumentedChoice, Smallest, Requested

LEMMA WantedDocumented ==
  ASSUME Wanted # <<>>
  PROVE  Wanted[1].backends \in DocumentedChoice
<1>1. DocumentedPolicy
  BY WantedSmallest DEF Unpublished, DocumentedPolicy
<1> QED BY <1>1, WantedSmallest, ChoiceDocumented

\* A policy that no archive was built with is one the documentation excludes; of
\* openmp it says so only together with the thread pool, which main refuses.
LEMMA NoneDocumented ==
  ASSUME Wanted = <<>>, ~Contradictory, "prebuilt" \in features, "build-from-source" \notin features
  PROVE  DocumentedChoice = {}
<1>1. TargetSuffix(target) = None \/ Unpublished \/ Candidates = {}
  BY DEF Wanted, SelectPrebuilt
<1>2. Unpublished => ~DocumentedPolicy
  BY DEF Unpublished, DocumentedPolicy, Contradictory, Apple
<1>3. TargetSuffix(target) = None => ProfilesOf(TargetSuffix(target)) = {}
  BY DEF ProfilesOf, None
<1>4. ASSUME NEW p, Smallest(p) PROVE Candidates # {}
  <2>1. PICK i \in RowsOf(TargetSuffix(target)) : p = ARTIFACTS[i].backends
    BY <1>4, TableProfiles DEF Smallest
  <2> QED BY <1>4, <2>1, CandidateRows DEF Smallest
<1>5. ASSUME NEW p \in DocumentedChoice PROVE FALSE
  BY <1>1, <1>2, <1>3, <1>4, <1>5, ChoiceDocumented DEF Smallest
<1> QED BY <1>5

LEMMA ChoiceUnique == Cardinality(DocumentedChoice) <= 1
<1>1. ASSUME NEW p \in DocumentedChoice, NEW q \in DocumentedChoice PROVE p = q
  <2>1. Smallest(p) /\ Smallest(q)
    BY ChoiceDocumented
  <2>2. p \in Published /\ q \in Published
    BY <2>1, TableProfiles, Rows DEF Smallest, RowsOf
  <2>3. Cardinality(p) \in Nat /\ Cardinality(q) \in Nat
    BY <2>2, Sizes DEF Published
  <2>4. Cardinality(p) = Cardinality(q)
    BY <2>1, <2>3 DEF Smallest
  <2> QED BY <2>1, <2>4, SizesTellApart DEF Smallest
<1>2. CASE DocumentedChoice = {}
  BY <1>2, Sizes
<1>3. CASE DocumentedChoice # {}
  <2>1. PICK p \in DocumentedChoice : TRUE
    BY <1>3
  <2>2. DocumentedChoice = {p}
    BY <1>1, <2>1
  <2> QED BY <2>2, FS_Singleton
<1> QED BY <1>2, <1>3

-----------------------------------------------------------------------------
(* The build.                                                              *)

\* What each stage of the build script has established.
Outcome ==
  \/ native = [kind |-> "external", profile |-> {}]
  \/ Wanted # <<>> /\ native = [kind |-> "prebuilt", profile |-> Wanted[1].backends]
  \/ Wanted = <<>> /\ native = [kind |-> "source", profile |-> Requested]

BuildInv ==
  /\ features \in FeatureSets
  /\ phase \in {"started", "screened", "acquired", "linked", "refused"}
  /\ phase \in {"screened", "acquired", "linked"} => ~Contradictory
  /\ IF phase \in {"acquired", "linked"} THEN Outcome ELSE native = NoNative
  /\ phase = "linked" => links = LibraryLink \cup OpenGlLink \cup CudaLink \cup AppleLink

LEMMA BuildInit == Init => BuildInv
BY DEF Init, BuildInv, NoNative

\* The target, features and surroundings never change, nor what is made of them.
LEMMA Fixed ==
  ASSUME UNCHANGED <<target, features, environment>>
  PROVE  /\ Contradictory' = Contradictory
         /\ Wanted' = Wanted
         /\ Requested' = Requested
BY DEF Contradictory, Apple, CudaTargetSupported, Requested, Wanted, SelectPrebuilt,
       Candidates, Compatible, Unpublished

LEMMA BuildStep == BuildInv /\ [Next]_vars => BuildInv'
<1> SUFFICES ASSUME BuildInv, [Next]_vars PROVE BuildInv'
  OBVIOUS
<1>0. UNCHANGED <<target, features, environment>>
  BY DEF Next, vars
<1>1. Contradictory' = Contradictory /\ Wanted' = Wanted /\ Requested' = Requested
  BY <1>0, Fixed
<1> USE DEF BuildInv, Outcome
<1>2. CASE Screen
  BY <1>0, <1>1, <1>2 DEF Screen, Refuse
<1>3. CASE External
  BY <1>0, <1>1, <1>3 DEF External, Acquire, Refuse
<1>4. CASE Prebuilt
  BY <1>0, <1>1, <1>4 DEF Prebuilt, Acquire, Refuse
<1>5. CASE FromSource
  BY <1>0, <1>1, <1>5 DEF FromSource, Acquire, Refuse, Requested
<1>6. CASE Link
  <2>1. /\ LibraryLink' = LibraryLink /\ OpenGlLink' = OpenGlLink
        /\ CudaLink' = CudaLink /\ AppleLink' = AppleLink
    BY <1>0, <1>6 DEF Link, LibraryLink, LinkMode, OpenGlLink, CudaLink, AppleLink, Apple
  <2> QED BY <1>0, <1>1, <1>6, <2>1 DEF Link
<1>7. CASE UNCHANGED <<phase, native, links>>
  <2>1. /\ LibraryLink' = LibraryLink /\ OpenGlLink' = OpenGlLink
        /\ CudaLink' = CudaLink /\ AppleLink' = AppleLink
    BY <1>0, <1>7 DEF LibraryLink, LinkMode, OpenGlLink, CudaLink, AppleLink, Apple
  <2> QED BY <1>0, <1>1, <1>7, <2>1
<1> QED BY <1>2, <1>3, <1>4, <1>5, <1>6, <1>7 DEF Next, Step, Finished, vars

LEMMA BuildInvariant == Spec => []BuildInv
BY BuildInit, BuildStep, PTL DEF Spec

\* What an archive brings unasked, and what its presence says of the target.
LEMMA Unasked ==
  ASSUME Wanted # <<>>, NEW p, p = Wanted[1].backends
  PROVE  /\ Requested \subseteq p /\ p \subseteq Backends
         /\ "coreml" \in p => "coreml" \in features
         /\ "cuda" \in p => "cuda" \in features
         /\ {"metal", "coreml"} \cap p # {} => Apple
         /\ "opengl" \in p => target.os = "android"
<1>1. Smallest(p)
  BY WantedSmallest
<1>2. Requested \subseteq p /\ p \subseteq Backends
  BY <1>1 DEF Smallest, ProfilesOf, Backends
<1>3. ASSUME "coreml" \in p, "coreml" \notin features PROVE FALSE
  <2>1. p = {"metal", "coreml"} /\ {"metal"} \in ProfilesOf(TargetSuffix(target))
    BY <1>1, <1>3 DEF Smallest, ProfilesOf
  <2>2. Requested \subseteq {"metal"}
    BY <1>2, <1>3, <2>1 DEF Requested
  <2> QED BY <1>1, <2>1, <2>2, Sizes DEF Smallest
<1>4. ASSUME "cuda" \in p, "cuda" \notin features PROVE FALSE
  <2>1. p = {"cuda"} /\ {} \in ProfilesOf(TargetSuffix(target))
    BY <1>1, <1>4 DEF Smallest, ProfilesOf
  <2>2. Requested \subseteq {}
    BY <1>2, <1>4, <2>1 DEF Requested
  <2> QED BY <1>1, <2>1, <2>2, Sizes DEF Smallest
<1>5. {"metal", "coreml"} \cap p # {} => Apple
  <2>1. {"metal", "coreml"} \cap p # {} =>
          TargetSuffix(target) \in {"macos-universal", "ios-arm64", "ios-arm64-sim"}
    BY <1>1 DEF Smallest, ProfilesOf
  <2> QED BY <2>1 DEF TargetSuffix, None, Apple
<1>6. "opengl" \in p => target.os = "android"
  <2>1. "opengl" \in p => TargetSuffix(target) \in {"android-arm64-v8a", "android-armeabi-v7a"}
    BY <1>1 DEF Smallest, ProfilesOf
  <2> QED BY <2>1 DEF TargetSuffix, None
<1> QED BY <1>2, <1>3, <1>4, <1>5, <1>6

-----------------------------------------------------------------------------
(* The theorems.                                                           *)

\* ProfileAsDocumented: select_prebuilt takes the archive README.md promises, and
\* main compiles the requested backends exactly where it promises none.
THEOREM ProfilesHonoured == Spec => []ProfileAsDocumented
<1>1. ASSUME BuildInv, native.kind = "prebuilt" PROVE native.profile \in DocumentedChoice
  BY <1>1, WantedDocumented DEF BuildInv, Outcome, NoNative, None
<1>2. ASSUME BuildInv, native.kind = "source"
      PROVE  /\ native.profile = features \cap Backends
             /\ ("prebuilt" \in features /\ "build-from-source" \notin features)
                  => DocumentedChoice = {}
  BY <1>2, NoneDocumented DEF BuildInv, Outcome, NoNative, None, Requested
<1>3. BuildInv => ProfileAsDocumented
  BY <1>1, <1>2, ChoiceUnique DEF ProfileAsDocumented
<1> QED BY <1>3, BuildInvariant, PTL

\* LinksComplete: link_mnn asks for the libraries of every backend in the archive.
THEOREM LinksSuffice == Spec => []LinksComplete
<1>1. ASSUME BuildInv, phase = "linked", native.kind = "prebuilt", NEW b \in native.profile
      PROVE  Needs(b) \subseteq links
  <2>1. Wanted # <<>> /\ native.profile = Wanted[1].backends
    BY <1>1 DEF BuildInv, Outcome
  <2>2. b \in Backends
    BY <2>1, Unasked
  <2>3. links = LibraryLink \cup OpenGlLink \cup CudaLink \cup AppleLink
    BY <1>1 DEF BuildInv
  <2>4. CASE b = "metal"
    BY <1>1, <2>1, <2>3, <2>4, Unasked DEF Needs, AppleLink
  <2>5. CASE b = "coreml"
    BY <1>1, <2>1, <2>3, <2>5, Unasked DEF Needs, AppleLink
  <2>6. CASE b = "opengl"
    BY <1>1, <2>1, <2>3, <2>6, Unasked DEF Needs, OpenGlLink
  <2>7. CASE b = "cuda"
    BY <1>1, <2>1, <2>3, <2>7, Unasked DEF Needs, CudaLink
  <2>8. CASE b \in {"vulkan", "opencl"}
    BY <2>8 DEF Needs
  <2> QED BY <2>2, <2>4, <2>5, <2>6, <2>7, <2>8 DEF Backends
<1>2. ASSUME BuildInv, phase = "linked", native.kind = "prebuilt"
      PROVE  "MNN static" \notin links
  <2>1. links = LibraryLink \cup OpenGlLink \cup CudaLink \cup AppleLink
    BY <1>2 DEF BuildInv
  <2>2. "MNN static" \notin LibraryLink
    BY <1>2 DEF LibraryLink
  <2>3. "MNN static" \notin OpenGlLink \cup CudaLink \cup AppleLink
    BY DEF OpenGlLink, CudaLink, AppleLink
  <2> QED BY <2>1, <2>2, <2>3
<1>3. BuildInv => LinksComplete
  BY <1>1, <1>2 DEF LinksComplete
<1> QED BY <1>3, BuildInvariant, PTL

\* What is registered of what was asked for, whether MNN was an archive or built.
LEMMA RegisteredRequested ==
  ASSUME BuildInv, Built, NEW b \in Requested
  PROVE  b \in Registered <=> Buildable(b)
<1>1. links = LibraryLink \cup OpenGlLink \cup CudaLink \cup AppleLink
  BY DEF BuildInv, Built
<1>2. b \in native.profile /\ native.kind \in {"prebuilt", "source"}
  BY Unasked DEF BuildInv, Built, Outcome
<1>3. "MNN static" \notin links
  BY <1>1, <1>2 DEF LibraryLink, OpenGlLink, CudaLink, AppleLink, Requested
<1>4. b = "cuda" /\ target.os = "linux" => "MNN_Cuda_Main" \in links
  BY <1>1 DEF CudaLink, Requested
<1>5. b # "cpu"
  BY DEF Requested, Backends
<1> QED BY <1>2, <1>3, <1>4, <1>5 DEF Registered

LEMMA BackendsAnswered ==
  ASSUME BuildInv, Built, NEW b \in Backends \cup {"cpu"}
  PROVE  Library!ValidateBackend(b) =
           CASE b \in Usable -> "ok"
             [] b \in features \ Usable -> "BackendUnavailable"
             [] OTHER -> "BackendNotCompiled"
<1>1. b # "auto" /\ "cpu" \in Registered
  BY DEF Backends, Registered
<1>2. b = "cpu" => b \in Usable
  BY DEF Usable
<1>3. b # "cpu" => (b \in Usable <=> b \in Requested /\ b \in Registered)
  BY RegisteredRequested DEF Usable, Requested
<1>4. b # "cpu" => (b \in features <=> b \in Requested)
  BY DEF Requested
<1>5. CASE b = "cpu"
  BY <1>1, <1>2, <1>5 DEF Library!ValidateBackend
<1>6. CASE b # "cpu" /\ b \in Usable
  BY <1>1, <1>3, <1>4, <1>6 DEF Library!ValidateBackend, Requested
<1>7. CASE b # "cpu" /\ b \in features \ Usable
  BY <1>1, <1>3, <1>4, <1>7 DEF Library!ValidateBackend, Requested
<1>8. CASE b # "cpu" /\ b \notin features
  BY <1>1, <1>3, <1>4, <1>8 DEF Library!ValidateBackend, Requested
<1> QED BY <1>5, <1>6, <1>7, <1>8

\* RequestedUsable: validate_backend accepts what the features promised and the
\* target can have, and nothing an archive brought unasked.
THEOREM BackendsServed == Spec => []RequestedUsable
<1>1. BuildInv => RequestedUsable
  BY BackendsAnswered DEF RequestedUsable
<1> QED BY <1>1, BuildInvariant, PTL

-----------------------------------------------------------------------------
(* The adapter on top of the build.                                        *)

\* AdapterConfig keeps what the caller chose and puts the default number of
\* threads for zero and less.
LEMMA AdapterKeeps ==
  ASSUME NEW i \in Inferences
  PROVE  LET c == Library!AdapterConfig(i) IN
           /\ c.threads = IF i.threads <= 0 THEN 4 ELSE i.threads
           /\ c.backend = i.backend /\ c.tuning = i.tuning /\ c.storage = i.storage
           /\ c.precision = i.precision /\ c.power = "normal" /\ c.memory = "normal"
           /\ c.capacity = 2
<1>1. i \in Library!InferenceConfig
  BY DeploymentAssumption
<1> QED BY <1>1 DEF Library!AdapterConfig, Library!With, Library!Default, Library!InferenceConfig

\* gpu_mode refuses Vulkan's two missing tunings and nothing else.
LEMMA ModesRefused ==
  ASSUME NEW c, c.tuning \in Library!Tunings, c.storage \in Library!Storages
  PROVE  Library!GpuMode(c) = Library!Rejected
           <=> c.backend = "vulkan" /\ c.tuning \in {"fast", "normal"}
<1>1. c.backend = "opencl" => Library!TuningBits(c) \in Nat /\ Library!StorageBits(c) \in Nat
  BY DEF Library!TuningBits, Library!StorageBits, Library!Tunings, Library!Storages
<1>2. c.backend = "vulkan" => Library!TuningBits(c) \in Nat \cup {Library!Rejected}
                              /\ Library!StorageBits(c) = 0
  BY DEF Library!TuningBits, Library!StorageBits, Library!Tunings, Library!Rejected
<1>3. c.backend = "vulkan" =>
        (Library!TuningBits(c) = Library!Rejected <=> c.tuning \in {"fast", "normal"})
  BY DEF Library!TuningBits, Library!Tunings, Library!Rejected
<1> QED BY <1>1, <1>2, <1>3 DEF Library!GpuMode, Library!Rejected

LEMMA RuntimeAnswers ==
  ASSUME NEW c, c.tuning \in Library!Tunings, c.storage \in Library!Storages, c.capacity = 2
  PROVE  Library!RuntimeNew(c) =
           IF c.threads \notin 1..32 \/ (c.backend = "vulkan" /\ c.tuning \in {"fast", "normal"})
           THEN "InvalidConfig" ELSE Library!ValidateBackend(c.backend)
BY ModesRefused DEF Library!RuntimeNew

LEMMA BackendsNamed == Library!Backends \ {"auto"} = Backends \cup {"cpu"}
BY DEF Library!Backends, Backends

LEMMA AdapterAnswers ==
  ASSUME BuildInv, Built, NEW i \in Inferences
  PROVE  /\ Library!AdapterRuntime(i) =
              IF i.threads > 32 \/ (i.backend = "vulkan" /\ i.tuning \in {"fast", "normal"})
              THEN "InvalidParameter"
              ELSE IF i.backend \in Usable THEN "ok" ELSE "BackendUnavailable"
         /\ Library!IsAvailable(i.backend) <=> i.backend \in Usable
<1> DEFINE c == Library!AdapterConfig(i)
           answer == Library!ValidateBackend(i.backend)
<1>1. /\ i.threads \in Int /\ i.tuning \in Library!Tunings /\ i.storage \in Library!Storages
      /\ i.backend \in Backends \cup {"cpu"}
  BY DeploymentAssumption, BackendsNamed DEF Library!InferenceConfig
<1>2. IF i.backend \in Usable THEN answer = "ok"
      ELSE answer \in {"BackendUnavailable", "BackendNotCompiled"}
  BY <1>1, BackendsAnswered
<1>3. Library!RuntimeNew(c) =
        IF i.threads > 32 \/ (i.backend = "vulkan" /\ i.tuning \in {"fast", "normal"})
        THEN "InvalidConfig" ELSE answer
  <2>1. /\ c.threads = IF i.threads <= 0 THEN 4 ELSE i.threads
        /\ c.backend = i.backend /\ c.tuning = i.tuning /\ c.storage = i.storage /\ c.capacity = 2
    BY AdapterKeeps
  <2>2. c.threads \notin 1..32 <=> i.threads > 32
    BY <1>1, <2>1
  <2> HIDE DEF c, answer
  <2>3. Library!RuntimeNew(c) =
          IF c.threads \notin 1..32 \/ (c.backend = "vulkan" /\ c.tuning \in {"fast", "normal"})
          THEN "InvalidConfig" ELSE Library!ValidateBackend(c.backend)
    BY <1>1, <2>1, RuntimeAnswers
  <2> QED BY <2>1, <2>2, <2>3 DEF answer
<1>4. Library!Validate(i) <=> ~(i.backend = "vulkan" /\ i.tuning \in {"fast", "normal"})
  BY <1>1 DEF Library!Validate, Library!AdapterBits, Library!Tunings, Library!Rejected
<1>5. Library!AdapterRuntime(i) =
        IF i.threads > 32 \/ (i.backend = "vulkan" /\ i.tuning \in {"fast", "normal"})
        THEN "InvalidParameter"
        ELSE IF i.backend \in Usable THEN "ok" ELSE "BackendUnavailable"
  <2> HIDE DEF c, answer
  <2>1. Library!AdapterRuntime(i) = IF Library!Validate(i)
                                    THEN Library!ConvertError(Library!RuntimeNew(c))
                                    ELSE "InvalidParameter"
    BY DEF Library!AdapterRuntime, c
  <2> QED BY <1>2, <1>3, <1>4, <2>1 DEF Library!ConvertError
<1>6. Library!IsAvailable(i.backend) <=> i.backend \in Usable
  <2> DEFINE d == Library!With(Library!Default, [backend |-> i.backend])
  <2>1. /\ d.threads = 4 /\ d.backend = i.backend /\ d.tuning = "auto" /\ d.storage = "buffer"
        /\ d.capacity = 2
    BY DEF Library!With, Library!Default
  <2>2. "auto" \in Library!Tunings /\ "buffer" \in Library!Storages
    BY DEF Library!Tunings, Library!Storages
  <2> HIDE DEF d, answer
  <2>3. Library!RuntimeNew(d) = Library!ValidateBackend(i.backend)
    BY <2>1, <2>2, RuntimeAnswers
  <2> QED BY <1>2, <2>3 DEF Library!IsAvailable, d, answer
<1> QED BY <1>5, <1>6

\* Whatever threads the bridge is given are positive, and its enumerations are in range.
LEMMA BridgeAccepts ==
  ASSUME NEW i \in Inferences
  PROVE  Library!CreateAccepts(Library!Native(Library!AdapterConfig(i)))
<1> DEFINE c == Library!AdapterConfig(i)
<1>1. i.threads \in Int /\ i.precision \in {"normal", "low", "high"}
  BY DeploymentAssumption DEF Library!InferenceConfig
<1>2. /\ c.threads = IF i.threads <= 0 THEN 4 ELSE i.threads
      /\ c.precision = i.precision /\ c.power = "normal" /\ c.memory = "normal"
  BY AdapterKeeps
<1> HIDE DEF c
<1>3. /\ Library!Native(c).threads > 0 /\ Library!Native(c).precision \in 0..3
      /\ Library!Native(c).power \in 0..2 /\ Library!Native(c).memory \in 0..2
  BY <1>1, <1>2 DEF Library!Native
<1> QED BY <1>3 DEF Library!CreateAccepts, c

\* ConfigAccepted: InferenceConfig::runtime, Runtime::new, is_available and the
\* bridge draw one line for every configuration the adapter's types can hold.
THEOREM LayersAccept == Spec => []ConfigAccepted
<1>1. BuildInv => ConfigAccepted
  BY AdapterAnswers, BridgeAccepts DEF ConfigAccepted
<1> QED BY <1>1, BuildInvariant, PTL
=============================================================================
