---------------------------- MODULE AssetsProofs ----------------------------
(***************************************************************************)
(* Proofs about Assets, for any assets, scales and orders of listing: when *)
(* no two assets have the same place in a release, it holds the right file *)
(* for every scale that it should have, and shows what the dev server      *)
(* shows; and which assets make a build fail.                              *)
(***************************************************************************)
EXTENDS Assets, TLAPS

(* The encodings of folder and name keep assets apart.                     *)
DistinctPlaces ==
    \A t \in Target : \A a, b \in Asset :
        Identifier[t][a] = Identifier[t][b] => a = b

(* Where a release is to have the file with tag t, there is a file of the  *)
(* same asset and scale.                                                   *)
Shipped(a, t) ==
    LET d == Dest(a, ScaleOf(t))
    IN  /\ d \in DOMAIN out
        /\ out[d][1] = a
        /\ Folder(a, ScaleOf(t)) # None => ScaleOf(out[d][2]) = ScaleOf(t)

(* Every file to be copied has been, or is still on the list.              *)
CopyInv ==
    \A a \in Asset : stage[a] \in {"copying", "registered"} =>
        \A t \in ToCopy(a) : t \in todo[a] \/ Shipped(a, t)

RegisteredDone ==
    \A a \in Asset : stage[a] = "registered" => todo[a] = {}

TodoListed ==
    \A a \in Asset : /\ todo[a] \subseteq listing[a]
                     /\ stage[a] \in {"none", "listed"} => todo[a] = {}

Inv == TypeOK /\ TodoListed /\ RegisteredDone /\ CopyInv
-----------------------------------------------------------------------------
(* What is taken off the list was on it.                                   *)
LEMMA FirstIsMember ==
    ASSUME NEW S \in SUBSET Tag, S # {} PROVE First(S) \in S
BY OrderAssumption DEF First

LEMMA FinalIsMember ==
    ASSUME NEW S \in SUBSET Tag, S # {} PROVE Final(S) \in S
BY OrderAssumption DEF Final

(* The file found for the scale of a listed tag has that scale.            *)
LEMMA OnDiskPathHasScale ==
    ASSUME TypeOK, NEW a \in Asset, NEW t \in listing[a]
    PROVE  /\ OnDiskPath(a, ScaleOf(t))[1] = a
           /\ ScaleOf(OnDiskPath(a, ScaleOf(t))[2]) = ScaleOf(t)
           /\ OnDiskPath(a, ScaleOf(t)) \in Asset \X Tag
<1> DEFINE S == {u \in listing[a] : ScaleOf(u) = ScaleOf(t)}
<1>1. S \in SUBSET Tag /\ S # {}
  BY DEF TypeOK
<1>2. Final(S) \in S
  BY <1>1, FinalIsMember
<1>3. OnDiskPath(a, ScaleOf(t)) = <<a, Final(S)>>
  BY DEF OnDiskPath
<1>4. QED
  BY <1>1, <1>2, <1>3

LEMMA ScaleTyped == ASSUME NEW t \in Tag PROVE ScaleOf(t) \in Scale
BY AssetsAssumption DEF ScaleOf
-----------------------------------------------------------------------------
LEMMA TypeInit == Init => TypeOK
BY AssetsAssumption DEF Init, TypeOK, Stage, Target

LEMMA TypeNext == TypeOK /\ [Next]_vars => TypeOK'
<1> SUFFICES ASSUME TypeOK, [Next]_vars PROVE TypeOK'
  OBVIOUS
<1> USE AssetsAssumption
<1>1. ASSUME NEW a \in Asset, Readdir(a) PROVE TypeOK'
  <2>1. listing' \in [Asset -> SUBSET Tag]
    BY <1>1 DEF Readdir, TypeOK
  <2>2. \A b \in Asset : \A t \in listing'[b] : ScaleOf(t) \in Scale
    BY <2>1, ScaleTyped
  <2>3. QED
    BY <1>1, <2>1, <2>2 DEF Readdir, TypeOK, Stage
<1>2. ASSUME NEW a \in Asset, Size(a) PROVE TypeOK'
  BY <1>2 DEF Size, TypeOK, Stage, ToCopy
<1>3. ASSUME NEW a \in Asset, CopyFile(a) PROVE TypeOK'
  <2>1. OnDiskPath(a, NextScale(a)) \in Files
    BY <1>3 DEF CopyFile, CanBeCopied, TypeOK
  <2>2. \A d \in DOMAIN out' : out'[d] \in Files
    BY <1>3, <2>1 DEF CopyFile, TypeOK
  <2>3. todo' \in [Asset -> SUBSET Tag]
    BY <1>3 DEF CopyFile, TypeOK
  <2>4. QED
    BY <1>3, <2>2, <2>3 DEF CopyFile, TypeOK
<1>4. ASSUME NEW a \in Asset, Throw(a) PROVE TypeOK'
  BY <1>4 DEF Throw, TypeOK, Stage
<1>5. ASSUME NEW a \in Asset, Register(a) PROVE TypeOK'
  BY <1>5 DEF Register, TypeOK, Stage
<1>6. ASSUME NEW f \in Files, Edit(f) PROVE TypeOK'
  BY <1>6 DEF Edit, TypeOK
<1>7. CASE UNCHANGED vars
  BY <1>7 DEF vars, TypeOK
<1>8. QED
  BY <1>1, <1>2, <1>3, <1>4, <1>5, <1>6, <1>7 DEF Next, Load

(* The state of every asset has the type it should have, and every scale   *)
(* that is registered is a number.                                         *)
THEOREM AssetsTypeCorrect == Spec => []TypeOK
BY TypeInit, TypeNext, PTL DEF Spec
-----------------------------------------------------------------------------
(* A copy of one asset goes where no copy of another is.                   *)
LEMMA CopyIsLocal ==
    ASSUME DistinctPlaces, TypeOK, TodoListed, NEW a \in Asset, CopyFile(a),
           NEW b \in Asset \ {a}, NEW t \in Tag, Shipped(b, t)
    PROVE  Shipped(b, t)'
<1> DEFINE d == Dest(b, ScaleOf(t))
           x == Dest(a, NextScale(a))
<1>1. target' = target /\ target \in Target
  BY DEF CopyFile, TypeOK
<1>2. d # x
  BY <1>1 DEF DistinctPlaces, Dest
<1>3. d \in DOMAIN out' /\ out'[d] = out[d]
  BY <1>2 DEF CopyFile, Shipped
<1>4. d' = d /\ Folder(b, ScaleOf(t))' = Folder(b, ScaleOf(t))
  BY <1>1 DEF Dest, Folder, ScaleOf
<1>5. QED
  BY <1>3, <1>4 DEF Shipped, ScaleOf

(* A copy for one scale leaves those of the asset's other scales right.    *)
LEMMA CopyIsRight ==
    ASSUME TypeOK, TodoListed, NEW a \in Asset, CopyFile(a), NEW t \in Tag,
           Shipped(a, t) \/ t = First(todo[a])
    PROVE  Shipped(a, t)'
<1> DEFINE d == Dest(a, ScaleOf(t))
           x == Dest(a, NextScale(a))
           f == First(todo[a])
<1>1. target' = target
  BY DEF CopyFile
<1>2. f \in listing[a] /\ NextScale(a) = ScaleOf(f)
  BY FirstIsMember DEF CopyFile, TodoListed, TypeOK, NextScale
<1>3. /\ OnDiskPath(a, NextScale(a))[1] = a
      /\ ScaleOf(OnDiskPath(a, NextScale(a))[2]) = NextScale(a)
  BY <1>2, OnDiskPathHasScale
<1>4. d' = d /\ Folder(a, ScaleOf(t))' = Folder(a, ScaleOf(t))
  BY <1>1 DEF Dest, Folder, ScaleOf
<1>5. CASE d = x
  <2>1. d \in DOMAIN out' /\ out'[d] = OnDiskPath(a, NextScale(a))
    BY <1>5 DEF CopyFile
  <2>2. Folder(a, ScaleOf(t)) = Folder(a, NextScale(a))
    BY <1>5 DEF Dest
  <2>3. Folder(a, ScaleOf(t)) # None => ScaleOf(t) = NextScale(a)
    BY <2>2 DEF Folder
  <2>4. QED
    BY <1>3, <1>4, <2>1, <2>3 DEF Shipped, ScaleOf
<1>6. CASE d # x
  <2>1. Shipped(a, t)
    BY <1>2, <1>6
  <2>2. d \in DOMAIN out' /\ out'[d] = out[d]
    BY <1>6, <2>1 DEF CopyFile, Shipped
  <2>3. QED
    BY <1>4, <2>1, <2>2 DEF Shipped, ScaleOf
<1>7. QED
  BY <1>5, <1>6

LEMMA InvInit == Init => Inv
BY TypeInit DEF Init, Inv, TodoListed, RegisteredDone, CopyInv

(* A step that copies nothing leaves what has been shipped.                *)
LEMMA ShippedStays ==
    ASSUME UNCHANGED <<target, out>>, NEW a \in Asset, NEW t \in Tag, Shipped(a, t)
    PROVE  Shipped(a, t)'
BY DEF Shipped, Dest, Folder, ScaleOf

(* The lists of what is to be copied, whoever else copies where.           *)
LEMMA ListNext ==
    ASSUME TypeOK, TodoListed, RegisteredDone, NEW a \in Asset, Load(a)
    PROVE  TodoListed' /\ RegisteredDone'
<1>1. TodoListed'
  <2> SUFFICES ASSUME NEW b \in Asset
               PROVE  /\ todo'[b] \subseteq listing'[b]
                      /\ stage'[b] \in {"none", "listed"} => todo'[b] = {}
    BY DEF TodoListed
  <2>1. /\ todo[b] \subseteq listing[b]
        /\ stage[b] \in {"none", "listed"} => todo[b] = {}
    BY DEF TodoListed
  <2>2. CASE Readdir(a)
    BY <2>1, <2>2 DEF Readdir, TypeOK
  <2>3. CASE Size(a)
    BY <2>1, <2>3 DEF Size, TypeOK, ToCopy
  <2>4. CASE CopyFile(a) \/ Throw(a) \/ Register(a)
    BY <2>1, <2>4 DEF CopyFile, Throw, Register, TypeOK
  <2>5. QED
    BY <2>2, <2>3, <2>4 DEF Load
<1>2. RegisteredDone'
  BY DEF Load, RegisteredDone, TypeOK, Readdir, Size, CopyFile, Throw, Register
<1>3. QED
  BY <1>1, <1>2

LEMMA InvNext == DistinctPlaces /\ Inv /\ [Next]_vars => Inv'
<1> SUFFICES ASSUME DistinctPlaces, Inv, [Next]_vars PROVE Inv'
  OBVIOUS
<1>1. TypeOK /\ TodoListed /\ RegisteredDone /\ CopyInv /\ TypeOK'
  BY TypeNext DEF Inv
<1>2. ASSUME NEW a \in Asset, Load(a) PROVE TodoListed' /\ RegisteredDone'
  BY <1>1, <1>2, ListNext
<1>3. ASSUME NEW a \in Asset, Load(a) PROVE CopyInv'
  <2> SUFFICES ASSUME NEW b \in Asset, stage'[b] \in {"copying", "registered"},
                      NEW t \in ToCopy(b)'
               PROVE  t \in todo'[b] \/ Shipped(b, t)'
    BY DEF CopyInv
  <2>1. target' = target
    BY <1>3 DEF Load, Readdir, Size, CopyFile, Throw, Register
  <2>2. t \in Tag
    BY <1>1 DEF ToCopy, TypeOK
  <2>3. CASE Readdir(a)
    <3>1. b # a /\ stage'[b] = stage[b] /\ todo'[b] = todo[b] /\ out' = out
          /\ listing'[b] = listing[b]
      BY <1>1, <2>3 DEF Readdir, TypeOK
    <3>2. t \in ToCopy(b)
      BY <2>1, <3>1 DEF ToCopy, FilterScales, ScaleOf
    <3>3. QED
      BY <1>1, <2>1, <2>2, <3>1, <3>2, ShippedStays DEF CopyInv
  <2>4. CASE Size(a)
    <3>1. out' = out /\ listing' = listing
      BY <2>4 DEF Size
    <3>2. t \in ToCopy(b)
      BY <2>1, <3>1 DEF ToCopy, FilterScales, ScaleOf
    <3>3. CASE b = a
      BY <1>1, <2>4, <3>2, <3>3 DEF Size, TypeOK
    <3>4. CASE b # a
      BY <1>1, <2>1, <2>2, <2>4, <3>1, <3>2, <3>4, ShippedStays DEF Size, TypeOK, CopyInv
    <3>5. QED
      BY <3>3, <3>4
  <2>5. CASE CopyFile(a)
    <3>1. stage' = stage /\ listing' = listing
          /\ todo' = [todo EXCEPT ![a] = @ \ {First(@)}]
      BY <2>5 DEF CopyFile
    <3>2. t \in ToCopy(b)
      BY <2>1, <3>1 DEF ToCopy, FilterScales, ScaleOf
    <3>3. t \in todo[b] \/ Shipped(b, t)
      BY <1>1, <3>1, <3>2 DEF CopyInv
    <3>4. CASE b = a
      <4>1. t \in todo'[b] \/ Shipped(a, t) \/ t = First(todo[a])
        BY <1>1, <3>1, <3>3, <3>4 DEF TypeOK
      <4>2. QED
        BY <1>1, <2>2, <2>5, <3>4, <4>1, CopyIsRight
    <3>5. CASE b # a
      <4>1. todo'[b] = todo[b]
        BY <1>1, <3>1, <3>5 DEF TypeOK
      <4>2. QED
        BY <1>1, <2>2, <2>5, <3>3, <3>5, <4>1, CopyIsLocal
    <3>6. QED
      BY <3>4, <3>5
  <2>6. CASE Throw(a) \/ Register(a)
    <3>1. /\ stage[b] \in {"copying", "registered"}
          /\ UNCHANGED <<out, listing, todo>>
      BY <1>1, <2>6 DEF Throw, Register, TypeOK
    <3>2. t \in ToCopy(b)
      BY <2>1, <3>1 DEF ToCopy, FilterScales, ScaleOf
    <3>3. QED
      BY <1>1, <2>1, <2>2, <3>1, <3>2, ShippedStays DEF CopyInv
  <2>7. QED
    BY <1>3, <2>3, <2>4, <2>5, <2>6 DEF Load
<1>4. ASSUME UNCHANGED <<target, stage, listing, todo, out>>
      PROVE  TodoListed' /\ RegisteredDone' /\ CopyInv'
  BY <1>1, <1>4 DEF TodoListed, RegisteredDone, CopyInv, ToCopy, FilterScales,
                    ScaleOf, Shipped, Dest, Folder
<1>5. QED
  BY <1>1, <1>2, <1>3, <1>4 DEF Inv, Next, Edit, vars

(* When no two assets have the same place, a release has a file of the     *)
(* right asset and scale wherever the app looks for one, whatever order    *)
(* the copies are made in and whatever happens to the files meanwhile.     *)
THEOREM ReleasesAreExact ==
    ASSUME DistinctPlaces
    PROVE  Spec => []ReleaseExact
<1>1. Init => Inv
  BY InvInit
<1>2. Inv /\ [Next]_vars => Inv'
  BY InvNext
<1>3. Inv => ReleaseExact
  <2> SUFFICES ASSUME Inv, target # "dev", NEW a \in Asset, stage[a] = "registered",
                      NEW t \in listing[a],
                      target = "android" \/ ScaleOf(t) \in IosScale
               PROVE  Shipped(a, t)
    BY DEF ReleaseExact, Shipped
  <2>1. t \in ToCopy(a)
    BY DEF ToCopy, FilterScales
  <2>2. todo[a] = {}
    BY DEF Inv, RegisteredDone
  <2>3. QED
    BY <2>1, <2>2 DEF Inv, CopyInv
<1>4. QED
  BY <1>1, <1>2, <1>3, PTL DEF Spec
-----------------------------------------------------------------------------
(***************************************************************************)
(* While the files are left alone, what was listed is what is there, and   *)
(* how far an asset has come tells what is the case with its files.        *)
(***************************************************************************)
FoldersFound ==
    \A a \in Asset : stage[a] \in {"copying", "registered"} =>
        \A t \in ToCopy(a) : t \in todo[a] \/ HasFolder(a, ScaleOf(t))

Settled(a) ==
    /\ stage[a] # "none" => listing[a] = {t \in Tag : <<a, t>> \in disk}
    /\ stage[a] \in {"copying", "registered"} => CanBeSized(a)
    /\ stage[a] = "failed" => Unbuildable(a)

SettledInv ==
    /\ TypeOK /\ TodoListed /\ RegisteredDone /\ FoldersFound
    /\ edits = 0 => /\ \A a \in Asset : Settled(a)
                    /\ \A d \in DOMAIN out : out[d] \in disk

LEMMA SettledInit == Init => SettledInv
BY InvInit DEF Init, Inv, SettledInv, FoldersFound, Settled

LEMMA FoldersNext ==
    ASSUME TypeOK, TodoListed, FoldersFound, NEW a \in Asset, Load(a)
    PROVE  FoldersFound'
<1> SUFFICES ASSUME NEW b \in Asset, stage'[b] \in {"copying", "registered"},
                    NEW t \in ToCopy(b)'
             PROVE  t \in todo'[b] \/ HasFolder(b, ScaleOf(t))'
  BY DEF FoldersFound
<1>1. target' = target
  BY DEF Load, Readdir, Size, CopyFile, Throw, Register
<1>2. HasFolder(b, ScaleOf(t))' = HasFolder(b, ScaleOf(t))
  BY <1>1 DEF HasFolder, ScaleOf
<1>3. CASE Readdir(a)
  <2>1. b # a /\ stage'[b] = stage[b] /\ todo'[b] = todo[b] /\ listing'[b] = listing[b]
    BY <1>3 DEF Readdir, TypeOK
  <2>2. t \in ToCopy(b)
    BY <1>1, <2>1 DEF ToCopy, FilterScales, ScaleOf
  <2>3. QED
    BY <1>2, <2>1, <2>2 DEF FoldersFound
<1>4. CASE Size(a) \/ Throw(a) \/ Register(a)
  <2>1. listing' = listing
    BY <1>4 DEF Size, Throw, Register
  <2>2. t \in ToCopy(b)
    BY <1>1, <2>1 DEF ToCopy, FilterScales, ScaleOf
  <2>3. QED
    BY <1>2, <1>4, <2>2 DEF FoldersFound, Size, Throw, Register, TypeOK
<1>5. CASE CopyFile(a)
  <2>1. listing' = listing /\ stage' = stage
    BY <1>5 DEF CopyFile
  <2>2. t \in ToCopy(b)
    BY <1>1, <2>1 DEF ToCopy, FilterScales, ScaleOf
  <2>3. t \in todo[b] \/ HasFolder(b, ScaleOf(t))
    BY <2>1, <2>2 DEF FoldersFound
  <2>4. t \in todo'[b] \/ t \notin todo[b] \/ (b = a /\ t = First(todo[a]))
    BY <1>5 DEF CopyFile, TypeOK
  <2>5. HasFolder(a, ScaleOf(First(todo[a])))
    BY <1>5 DEF CopyFile, CanBeCopied, NextScale
  <2>6. QED
    BY <1>2, <2>3, <2>4, <2>5
<1>6. QED
  BY <1>3, <1>4, <1>5 DEF Load

(* Where onLoad throws, the files alone are the reason. *)
LEMMA ThrowIsRight ==
    ASSUME SettledInv, edits = 0, NEW a \in Asset, Throw(a)
    PROVE  Unbuildable(a)
<1>1. listing[a] = {t \in Tag : <<a, t>> \in disk}
  BY DEF SettledInv, Settled, Throw
<1>2. CASE ~CanBeSized(a)
  BY <1>1, <1>2 DEF CanBeSized, Unbuildable
<1>3. CASE todo[a] # {} /\ ~CanBeCopied(a, NextScale(a))
  <2> DEFINE f == First(todo[a])
  <2>1. f \in listing[a] /\ f \in Tag /\ NextScale(a) = ScaleOf(f)
    BY <1>3, FirstIsMember DEF SettledInv, TypeOK, TodoListed, NextScale
  <2> DEFINE S == {u \in listing[a] : ScaleOf(u) = ScaleOf(f)}
  <2>2. Final(S) \in listing[a] /\ OnDiskPath(a, ScaleOf(f)) = <<a, Final(S)>>
    <3>1. S \in SUBSET Tag /\ S # {}
      BY <2>1 DEF SettledInv, TypeOK
    <3>2. QED
      BY <3>1, FinalIsMember DEF OnDiskPath
  <2>3. OnDiskPath(a, NextScale(a)) \in disk
    BY <1>1, <2>1, <2>2
  <2>4. ~HasFolder(a, ScaleOf(f))
    BY <1>3, <2>1, <2>3 DEF CanBeCopied
  <2>5. QED
    BY <1>1, <2>1, <2>4 DEF HasFolder, Unbuildable
<1>4. QED
  BY <1>2, <1>3 DEF Throw

LEMMA SettledNext == SettledInv /\ [Next]_vars => SettledInv'
<1> SUFFICES ASSUME SettledInv, [Next]_vars PROVE SettledInv'
  OBVIOUS
<1>1. TypeOK /\ TodoListed /\ RegisteredDone /\ FoldersFound /\ TypeOK'
  BY TypeNext DEF SettledInv
<1>2. ASSUME NEW a \in Asset, Load(a) PROVE SettledInv'
  <2>1. UNCHANGED <<target, disk, corrupt, edits>>
    BY <1>2 DEF Load, Readdir, Size, CopyFile, Throw, Register
  <2>2. ASSUME edits = 0, NEW d \in DOMAIN out' PROVE out'[d] \in disk
    BY <1>2, <2>2 DEF SettledInv, Load, Readdir, Size, CopyFile, CanBeCopied, Throw, Register
  <2>3. ASSUME edits = 0, NEW b \in Asset PROVE Settled(b)'
    <3>1. Settled(b)
      BY <2>3 DEF SettledInv
    <3>2. CASE Throw(a) /\ b = a
      <4>1. Unbuildable(a) /\ Unbuildable(a)' = Unbuildable(a)
        BY <2>1, <2>3, <3>2, ThrowIsRight DEF Unbuildable, HasSize, ScaleOf
      <4>2. QED
        BY <1>1, <2>1, <3>1, <3>2, <4>1 DEF Settled, Throw, TypeOK
    <3>3. CASE ~(Throw(a) /\ b = a)
      <4>1. /\ stage'[b] # "none" => listing'[b] = {t \in Tag : <<b, t>> \in disk'}
            /\ stage'[b] \in {"copying", "registered"} => CanBeSized(b)'
            /\ stage'[b] = "failed" => stage[b] = "failed"
        BY <1>1, <1>2, <2>1, <3>1, <3>3 DEF Settled, TypeOK, Load, Readdir, Size, CopyFile,
                Throw, Register, CanBeSized, HasSize
      <4>2. Unbuildable(b)' = Unbuildable(b)
        BY <2>1 DEF Unbuildable, HasSize, ScaleOf
      <4>3. QED
        BY <3>1, <4>1, <4>2 DEF Settled
    <3>4. QED
      BY <3>2, <3>3
  <2>4. QED
    BY <1>1, <1>2, <2>1, <2>2, <2>3, ListNext, FoldersNext DEF SettledInv
<1>3. ASSUME NEW f \in Files, Edit(f) PROVE SettledInv'
  <2>1. edits' # 0 /\ UNCHANGED <<target, stage, listing, todo>>
    BY <1>1, <1>3 DEF Edit, TypeOK
  <2>2. TodoListed' /\ RegisteredDone' /\ FoldersFound'
    BY <1>1, <2>1 DEF TodoListed, RegisteredDone, FoldersFound, ToCopy, FilterScales,
                      HasFolder, ScaleOf
  <2>3. QED
    BY <1>1, <2>1, <2>2 DEF SettledInv
<1>4. CASE UNCHANGED vars
  BY <1>1, <1>4 DEF vars, SettledInv, TodoListed, RegisteredDone, FoldersFound, ToCopy,
          FilterScales, HasFolder, ScaleOf, Settled, CanBeSized, HasSize, Unbuildable
<1>5. QED
  BY <1>2, <1>3, <1>4 DEF Next

LEMMA SettledInvariant == Spec => []SettledInv
BY SettledInit, SettledNext, PTL DEF Spec

(* If nobody touches the files, an asset fails the build if it has no file *)
(* (plugin-assets.ts:62), is an image whose plain file is missing or       *)
(* cannot be parsed (:63), or is a drawable of a release for Android with  *)
(* a scale that has no folder (assetPathUtils.ts:41); and only then.       *)
THEOREM FailureHasReason == Spec => []FailsOnlyFor
<1>1. SettledInv => FailsOnlyFor
  <2> SUFFICES ASSUME SettledInv, edits = 0, NEW a \in Asset
               PROVE  /\ stage[a] = "failed" => Unbuildable(a)
                      /\ stage[a] = "registered" => ~Unbuildable(a)
    BY DEF FailsOnlyFor
  <2>1. Settled(a)
    BY DEF SettledInv
  <2>2. ASSUME stage[a] = "registered" PROVE ~Unbuildable(a)
    <3>1. CanBeSized(a) /\ listing[a] = {t \in Tag : <<a, t>> \in disk} /\ todo[a] = {}
      BY <2>1, <2>2 DEF Settled, SettledInv, RegisteredDone
    <3>2. ASSUME target = "android", a \in Drawable, NEW t \in listing[a]
          PROVE  ScaleOf(t) \in AndroidSuffix
      <4>1. t \in ToCopy(a)
        BY <3>2 DEF ToCopy, FilterScales
      <4>2. QED
        BY <2>2, <3>1, <3>2, <4>1 DEF SettledInv, FoldersFound, HasFolder
    <3>3. QED
      BY <3>1, <3>2 DEF Unbuildable, CanBeSized
  <2>3. QED
    BY <2>1, <2>2 DEF Settled
<1>2. QED
  BY <1>1, SettledInvariant, PTL
-----------------------------------------------------------------------------
(* The scale that is picked is that of a listed file. *)
LEMMA PickedIsListed ==
    ASSUME TypeOK, NEW a \in Asset, listing[a] # {}, NEW device
    PROVE  \E t \in listing[a] : PickScale(a, device) = ScaleOf(t)
<1> DEFINE enough == {t \in listing[a] : ScaleOf(t) >= device}
           t == IF enough # {} THEN First(enough) ELSE Final(listing[a])
<1>1. listing[a] \in SUBSET Tag /\ enough \in SUBSET Tag
  BY DEF TypeOK
<1>2. t \in listing[a]
  BY <1>1, FirstIsMember, FinalIsMember
<1>3. QED
  BY <1>2 DEF PickScale

(* When no two assets have the same place and nobody touches the files, a  *)
(* device shows the same file in development and in a release: the one     *)
(* that has the scale which it picks ("Prod-compatible assets handling",   *)
(* notes/todo.md:7).                                                       *)
THEOREM ReleaseShowsTheSame ==
    ASSUME DistinctPlaces
    PROVE  Spec => []ShowsPicked
<1>1. Inv /\ SettledInv => ShowsPicked
  <2> SUFFICES ASSUME Inv, SettledInv, Built, edits = 0, NEW a \in Asset,
                      NEW device \in IosScale, Conventional(a),
                      target = "android" => a \in Drawable
               PROVE  Shown(a, PickScale(a, device))
                        = <<a, TagOf[PickScale(a, device)]>>
    BY DEF ShowsPicked
  <2> DEFINE s == PickScale(a, device)
  <2>1. /\ TypeOK /\ stage[a] = "registered" /\ todo[a] = {} /\ listing[a] # {}
        /\ listing[a] = {t \in Tag : <<a, t>> \in disk}
    BY DEF Built, SettledInv, Settled, RegisteredDone, CanBeSized
  <2>2. PICK t \in listing[a] : s = ScaleOf(t)
    BY <2>1, PickedIsListed
  <2> HIDE DEF s
  <2>3. TagOf[s] = t /\ s \in Scale /\ t \in Tag
    BY <2>1, <2>2 DEF Conventional, TypeOK
  <2>4. ASSUME target = "dev" PROVE Shown(a, s) = <<a, TagOf[s]>>
    BY <2>1, <2>2, <2>3, <2>4 DEF Shown
  <2>5. ASSUME target # "dev" PROVE Shown(a, s) = <<a, TagOf[s]>>
    <3> DEFINE d == Dest(a, s)
    <3>1. t \in ToCopy(a)
      BY <2>2, <2>5 DEF ToCopy, FilterScales, Conventional
    <3>2. Shipped(a, t)
      BY <2>1, <3>1 DEF Inv, CopyInv
    <3>3. Folder(a, s) = s /\ s # None
      BY <2>3, AssetsAssumption DEF Folder
    <3>4. d \in DOMAIN out /\ out[d][1] = a /\ ScaleOf(out[d][2]) = s
      BY <2>2, <3>2, <3>3 DEF Shipped
    <3>5. out[d] = <<a, out[d][2]>> /\ out[d][2] \in Tag /\ out[d] \in disk
      BY <2>1, <3>4, AssetsAssumption DEF TypeOK, SettledInv
    <3>6. out[d][2] \in listing[a]
      BY <2>1, <3>5
    <3>7. out[d][2] = t
      BY <2>3, <3>4, <3>6 DEF Conventional
    <3>8. QED
      BY <2>3, <2>5, <3>4, <3>5, <3>7 DEF Shown
  <2>6. QED
    BY <2>4, <2>5 DEF s
<1>2. Spec => []Inv
  <2>1. Inv /\ [Next]_vars => Inv'
    BY InvNext
  <2>2. QED
    BY InvInit, <2>1, PTL DEF Spec
<1>3. QED
  BY <1>1, <1>2, SettledInvariant, PTL
=============================================================================
