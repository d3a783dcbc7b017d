------------------------------- MODULE Assets -------------------------------
(***************************************************************************)
(* The assets plugin in one build: esbuild hands it every asset that the   *)
(* project requires, all at once; it lists the asset's directory, groups   *)
(* the files by name and scale, reads the size of an image, copies the     *)
(* files of a release and has the app register the scales.  Files may come *)
(* and go between these steps.                                             *)
(*                                                                         *)
(* A file is <<asset, tag>>: img/a@2x.png is the asset img/a.png with the  *)
(* tag "@2x", and "" is no tag.  Scales are counted in quarters.  Contents *)
(* do not change: a file stands for what is in it, and some files named    *)
(* like an image hold nothing that image_size can parse.                   *)
(***************************************************************************)
EXTENDS Naturals

CONSTANTS
    Asset,       \* the paths that the project requires
    Image,       \* those of image_extensions
    Drawable,    \* those of drawableFileTypes
    Tag,         \* "" and the other tags
    Place,       \* Place[tag]: its place in the order in which readdir lists files
    Number,      \* Number[tag]: what parseFloat reads from it, None for NaN
    TagOf,       \* TagOf[scale]: `@${scale}x`, or ""
    Files,       \* the files that there may be
    Identifier,  \* Identifier[target][a]: where a release keeps asset a
    MaxEdits,    \* at most this many changes of the directory (a bound)
    None

Scale == DOMAIN TagOf
Target == {"dev", "ios", "android"}

ASSUME AssetsAssumption ==
    /\ Image \subseteq Asset /\ Drawable \subseteq Asset
    /\ Files \subseteq Asset \X Tag
    /\ Place \in [Tag -> Nat]
    /\ Number \in [Tag -> Scale \cup {None}]
    /\ 4 \in Scale /\ None \notin Scale
    /\ MaxEdits \in Nat
    /\ None \notin Files

(* One file of a directory is listed first and one is listed last. *)
ASSUME OrderAssumption ==
    \A S \in (SUBSET Tag) \ {{}} :
        /\ \E t \in S : \A u \in S : Place[t] <= Place[u]
        /\ \E t \in S : \A u \in S : Place[u] <= Place[t]

VARIABLES
    target,   \* what is built: bundles of the dev server, or a release
    disk,     \* the files in the project
    corrupt,  \* the images whose plain file image_size cannot parse
    edits,    \* how often it has been changed
    stage,    \* of every onLoad
    listing,  \* the tags with which each asset was found
    todo,     \* those whose scale is still to be copied
    out       \* assets_dest: the file that was copied to each destination

vars == <<target, disk, corrupt, edits, stage, listing, todo, out>>

Stage == {"none", "listed", "copying", "registered", "failed"}

Init ==
    /\ target \in Target
    /\ disk \in SUBSET Files
    /\ corrupt \in SUBSET Image
    /\ edits = 0
    /\ stage = [a \in Asset |-> "none"]
    /\ listing = [a \in Asset |-> {}]
    /\ todo = [a \in Asset |-> {}]
    /\ out = <<>>
-----------------------------------------------------------------------------
(* Mutant: the number is not checked. *)
ScaleOrNaN(t) == IF t = "" THEN 4 ELSE Number[t]

(* parse_basename: a tag that is no number counts as no tag. *)
ScaleOf(t) == IF Number[t] = None THEN 4 ELSE Number[t]

First(S) == CHOOSE t \in S : \A u \in S : Place[t] <= Place[u]

Final(S) == CHOOSE t \in S : \A u \in S : Place[u] <= Place[t]

(* Mutant: every scale is the required file. *)
RequiredFile(a, s) == <<a, "">>

(* parse_dir: on_disk_path[scale], the last of the files with that scale.  *)
OnDiskPath(a, s) == <<a, Final({t \in listing[a] : ScaleOf(t) = s})>>

(* The scales of iOS devices. *)
IosScale == {4, 8, 12}

(* Mutant: no scale above two on iOS. *)
UpToTwo(s) == target = "ios" => s \in {4, 8}

FilterScales(s) == target = "ios" => s \in IosScale

ToCopy(a) == {t \in listing[a] : target # "dev" /\ FilterScales(ScaleOf(t))}

AndroidSuffix == {3, 4, 6, 8, 12, 16}

(* Mutant: files of any type need a folder with a suffix. *)
SuffixAlways(a, s) == target = "android" => s \in AndroidSuffix

(* getAndroidResourceFolderName throws otherwise. *)
HasFolder(a, s) == target = "android" /\ a \in Drawable => s \in AndroidSuffix

(* What tells the scales of an asset apart: "drawable-hdpi", or "@2x" in   *)
(* the name.  What is not drawable has one place on Android: raw, or None. *)
Folder(a, s) == IF target = "android" /\ a \notin Drawable THEN None ELSE s

Dest(a, s) == <<Folder(a, s), Identifier[target][a]>>
-----------------------------------------------------------------------------
Readdir(a) ==
    /\ stage[a] = "none"
    /\ stage' = [stage EXCEPT ![a] = "listed"]
    /\ listing' = [listing EXCEPT ![a] = {t \in Tag : <<a, t>> \in disk}]
    /\ UNCHANGED <<target, disk, corrupt, edits, todo, out>>

(* image_size gets what readFile finds in the file that was required,      *)
(* whatever scales there are.                                              *)
HasSize(a) == <<a, "">> \in disk /\ a \notin corrupt

(* The listing has a file of the asset, and an image has a size. *)
CanBeSized(a) == listing[a] # {} /\ (a \in Image => HasSize(a))

Size(a) ==
    /\ stage[a] = "listed"
    /\ CanBeSized(a)
    /\ stage' = [stage EXCEPT ![a] = "copying"]
    /\ todo' = [todo EXCEPT ![a] = ToCopy(a)]
    /\ UNCHANGED <<target, disk, corrupt, edits, listing, out>>

NextScale(a) == ScaleOf(First(todo[a]))

CanBeCopied(a, s) == HasFolder(a, s) /\ OnDiskPath(a, s) \in disk

CopyFile(a) ==
    /\ stage[a] = "copying"
    /\ todo[a] # {}
    /\ CanBeCopied(a, NextScale(a))
    /\ LET d == Dest(a, NextScale(a))
       IN  out' = [x \in DOMAIN out \cup {d} |->
                     IF x = d THEN OnDiskPath(a, NextScale(a)) ELSE out[x]]
    /\ todo' = [todo EXCEPT ![a] = @ \ {First(@)}]
    /\ UNCHANGED <<target, disk, corrupt, edits, stage, listing>>

(* onLoad throws: the build will fail, and a release exit with 1. *)
Throw(a) ==
    /\ \/ stage[a] = "listed" /\ ~CanBeSized(a)
       \/ stage[a] = "copying" /\ todo[a] # {} /\ ~CanBeCopied(a, NextScale(a))
    /\ stage' = [stage EXCEPT ![a] = "failed"]
    /\ UNCHANGED <<target, disk, corrupt, edits, listing, todo, out>>

Register(a) ==
    /\ stage[a] = "copying"
    /\ todo[a] = {}
    /\ stage' = [stage EXCEPT ![a] = "registered"]
    /\ UNCHANGED <<target, disk, corrupt, edits, listing, todo, out>>

(* Somebody adds or removes a file. *)
Edit(f) ==
    /\ edits < MaxEdits
    /\ edits' = edits + 1
    /\ disk' = IF f \in disk THEN disk \ {f} ELSE disk \cup {f}
    /\ UNCHANGED <<target, corrupt, stage, listing, todo, out>>

Load(a) == Readdir(a) \/ Size(a) \/ CopyFile(a) \/ Throw(a) \/ Register(a)

Next == (\E a \in Asset : Load(a)) \/ (\E f \in Files : Edit(f))

Spec == Init /\ [][Next]_vars
-----------------------------------------------------------------------------
TypeOK ==
    /\ target \in Target
    /\ disk \subseteq Files
    /\ corrupt \subseteq Image
    /\ edits \in 0..MaxEdits
    /\ stage \in [Asset -> Stage]
    /\ listing \in [Asset -> SUBSET Tag]
    /\ \A a \in Asset : \A t \in listing[a] : ScaleOf(t) \in Scale
    /\ todo \in [Asset -> SUBSET Tag]
    /\ \A d \in DOMAIN out : out[d] \in Files

(* The build is over and nothing in it failed. *)
Built == \A a \in Asset : stage[a] = "registered"

(***************************************************************************)
(* A release has, where the app looks for a scale of an asset, a file of   *)
(* that asset and that scale (plugin-assets.ts:83-100), though the copies  *)
(* of all assets are made at once and files come and go.  What Android     *)
(* keeps under raw is the file of some scale.                              *)
(***************************************************************************)
ReleaseExact ==
    target # "dev" =>
        \A a \in Asset : stage[a] = "registered" =>
            \A t \in listing[a] : target = "android" \/ ScaleOf(t) \in IosScale =>
                LET d == Dest(a, ScaleOf(t))
                IN  /\ d \in DOMAIN out
                    /\ out[d][1] = a
                    /\ Folder(a, ScaleOf(t)) # None =>
                           ScaleOf(out[d][2]) = ScaleOf(t)

(* React Native's pickScale: the first scale that is enough for the        *)
(* device, or else the last one.                                           *)
PickScale(a, device) ==
    LET enough == {t \in listing[a] : ScaleOf(t) >= device}
    IN  ScaleOf(IF enough # {} THEN First(enough) ELSE Final(listing[a]))

(* The file that a device shows, fetched from /assets/* or in the release. *)
Shown(a, s) ==
    IF target = "dev" THEN IF <<a, TagOf[s]>> \in disk THEN <<a, TagOf[s]>> ELSE None
    ELSE IF Dest(a, s) \in DOMAIN out THEN out[Dest(a, s)] ELSE None

(* Every file is named as the app will ask for it, and iOS has no other    *)
(* scales than its own: without this a file may be picked that is not      *)
(* there, see the README.                                                  *)
Conventional(a) ==
    \A t \in listing[a] : /\ TagOf[ScaleOf(t)] = t
                          /\ target = "ios" => ScaleOf(t) \in IosScale

(***************************************************************************)
(* If the files are left alone, a device is shown the same file by the dev *)
(* server and by a release, "Prod-compatible assets handling"              *)
(* (notes/todo.md:7): the one that was listed for the scale it picks.      *)
(***************************************************************************)
ShowsPicked ==
    Built /\ edits = 0 =>
        \A a \in Asset, device \in IosScale :
            Conventional(a) /\ (target = "android" => a \in Drawable) =>
                LET s == PickScale(a, device)
                IN  Shown(a, s) = <<a, TagOf[s]>>

(* An asset that cannot be built, from the files alone. *)
Unbuildable(a) ==
    \/ \A t \in Tag : <<a, t>> \notin disk
    \/ a \in Image /\ ~HasSize(a)
    \/ /\ target = "android" /\ a \in Drawable
       /\ \E t \in Tag : <<a, t>> \in disk /\ ScaleOf(t) \notin AndroidSuffix

(***************************************************************************)
(* If the files are left alone, a build fails for an asset that has no     *)
(* file, for an image that is there in other scales only or whose plain    *)
(* file cannot be parsed (plugin-assets.ts:63), and in a release for       *)
(* Android also for a drawable whose scale has no folder; and for none of  *)
(* its other files, such as a scale that cannot be parsed.                 *)
(***************************************************************************)
FailsOnlyFor ==
    edits = 0 =>
        \A a \in Asset :
            /\ stage[a] = "failed" => Unbuildable(a)
            /\ stage[a] = "registered" => ~Unbuildable(a)
=============================================================================
