-------------------------- MODULE DevBundlerProofs --------------------------
(***************************************************************************)
(* Theorems about the dev bundler, for every project, every number of      *)
(* overlapping builds and every bound.                                     *)
(***************************************************************************)
EXTENDS DevBundler, FiniteSetTheorems, TLAPS

(* What the kinds of code have to do with each other. *)
LEMMA CodeFacts ==
    /\ Content \subseteq MaybeCode
    /\ Stub \in MaybeCode /\ None \in MaybeCode
    /\ NoCode \in [Module -> MaybeCode]
    /\ \A m \in Module : NoCode[m] = None
BY DEF MaybeCode, Code, NoCode

(* A disk that is saved to still holds contents. *)
LEMMA SavedDisk ==
    ASSUME disk \in [Module -> Content], NEW m \in Module, NEW c \in Source[m]
    PROVE  [disk EXCEPT ![m] = c] \in [Module -> Content]
BY SourceAssumption

LEMMA InitTypeOK == Init => TypeOK
<1> SUFFICES ASSUME Init PROVE TypeOK
    OBVIOUS
<1>1. disk \in [Module -> Content]
    BY SourceAssumption DEF Init
<1>2. builds \in [Slot -> Build \cup {None}]
    BY DEF Init, NoBuilds
<1>3. outbox \in Seq(Update)
    BY DEF Init
<1> QED
    BY <1>1, <1>2, <1>3, CodeFacts DEF Init, TypeOK, Phase

(* A running build is a build. *)
LEMMA RunningBuilds ==
    ASSUME TypeOK, NEW s \in Running
    PROVE  s \in Slot /\ builds[s] \in Build
BY DEF TypeOK, Running

LEMMA NextTypeOK == TypeOK /\ [Next]_serverVars => TypeOK'
<1> SUFFICES ASSUME TypeOK, [Next]_serverVars PROVE TypeOK'
    OBVIOUS
<1> USE CodeFacts DEF TypeOK, Phase
<1>1. ASSUME NEW m \in Module, Edit(m) PROVE TypeOK'
    <2>1. disk' \in [Module -> Content]
        BY <1>1, SavedDisk DEF Edit
    <2> QED
        BY <1>1, <2>1 DEF Edit
<1>2. CASE WatcherError
    BY <1>2 DEF WatcherError
<1>3. CASE NotifyIrrelevant
    BY <1>3 DEF NotifyIrrelevant, Invalidated
<1>4. ASSUME NEW s \in Slot, Notify(s) PROVE TypeOK'
    <2>1. [changed |-> pending, replace |-> pending \cap known,
           reading |-> {}, code |-> NoCode] \in Build
        BY DEF Build
    <2> QED
        BY <1>4, <2>1 DEF Notify, Invalidated
<1>5. CASE BundleRequest
    <2>1. NoBuilds \in [Slot -> Build \cup {None}]
        BY DEF NoBuilds
    <2>2. outbox' \in Seq(Update)
        BY <1>5 DEF BundleRequest
    <2> QED
        BY <1>5, <2>1, <2>2 DEF BundleRequest
<1>6. ASSUME NEW m \in Module, FullLoad(m) PROVE TypeOK'
    BY <1>6 DEF FullLoad
<1>7. CASE FullDone
    BY <1>7 DEF FullDone, Loaded
<1>8. CASE FullFailed
    BY <1>8 DEF FullFailed
<1>9. CASE Subscribed
    BY <1>9 DEF Subscribed
<1>10. CASE Connect
    BY <1>10 DEF Connect
<1>11. ASSUME NEW s \in Slot, NEW m \in Module, OnLoadStub(s, m) PROVE TypeOK'
    <2>1. builds[s] \in Build
        BY <1>11, RunningBuilds DEF OnLoadStub
    <2>2. builds' = [builds EXCEPT ![s] = [builds[s] EXCEPT !.code[m] = Stub]]
        BY <1>11 DEF OnLoadStub
    <2>3. [builds[s] EXCEPT !.code[m] = Stub] \in Build
        BY <2>1 DEF Build
    <2> QED
        BY <1>11, <2>2, <2>3 DEF OnLoadStub
<1>12. ASSUME NEW s \in Slot, NEW m \in Module, OnLoadTransform(s, m) PROVE TypeOK'
    <2>1. builds[s] \in Build
        BY <1>12, RunningBuilds DEF OnLoadTransform
    <2>2. [builds[s] EXCEPT !.reading = @ \cup {m}] \in Build
        BY <2>1 DEF Build
    <2> QED
        BY <1>12, <2>2 DEF OnLoadTransform
<1>13. ASSUME NEW s \in Slot, NEW m \in Module, ReadFile(s, m) PROVE TypeOK'
    <2>1. builds[s] \in Build
        BY <1>13, RunningBuilds DEF ReadFile
    <2>2. builds' = [builds EXCEPT
                ![s] = [builds[s] EXCEPT !.code[m] = disk[m],
                                         !.reading = @ \ {m}]]
        BY <1>13 DEF ReadFile
    <2>3. [builds[s] EXCEPT !.code[m] = disk[m],
                            !.reading = @ \ {m}] \in Build
        BY <2>1 DEF Build
    <2> QED
        BY <1>13, <2>2, <2>3 DEF ReadFile
<1>14. ASSUME NEW s \in Slot, BuildDone(s) PROVE TypeOK'
    <2>1. builds[s] \in Build
        BY <1>14, RunningBuilds DEF BuildDone, BuildEnds
    <2>2. Payload(builds[s]) \in Update
        BY <2>1 DEF Payload, InPayload, Loaded, Build, Update
    <2>3. outbox' \in Seq(Update)
        BY <1>14, <2>2 DEF BuildDone
    <2>4. InPayload(builds[s]) \subseteq Module
        BY DEF InPayload, Loaded
    <2> QED
        BY <1>14, <2>3, <2>4 DEF BuildDone
<1>15. ASSUME NEW s \in Slot, BuildFailed(s) PROVE TypeOK'
    <2>1. builds[s] \in Build
        BY <1>15, RunningBuilds DEF BuildFailed, BuildEnds
    <2>2. Reset(builds[s]) \subseteq Module
        BY <2>1 DEF Reset, Build
    <2> QED
        BY <1>15, <2>2 DEF BuildFailed
<1>16. CASE Receive
    BY <1>16 DEF Receive
<1>17. CASE UNCHANGED serverVars
    BY <1>17 DEF serverVars
<1> QED
    BY <1>1, <1>2, <1>3, <1>4, <1>5, <1>6, <1>7, <1>8, <1>9, <1>10, <1>11,
       <1>12, <1>13, <1>14, <1>15, <1>16, <1>17
    DEF Next, ServerStep, BuildStep

(***************************************************************************)
(* The state of the dev bundler keeps its type.                            *)
(***************************************************************************)
THEOREM ServerTypeCorrect == Spec => []TypeOK
<1>1. Init => TypeOK
    BY InitTypeOK
<1>2. TypeOK /\ [Next]_serverVars => TypeOK'
    BY NextTypeOK
<1> QED
    BY <1>1, <1>2, PTL DEF Spec
-----------------------------------------------------------------------------
(* The files a build replaces are among those that changed. *)
ReplaceChanged == \A s \in Running : builds[s].replace \subseteq builds[s].changed

(* When a build ends, it has loaded what it replaces. *)
LEMMA EndedBuilds ==
    ASSUME TypeOK, NEW s \in Slot, BuildEnds(s)
    PROVE  builds[s].replace \subseteq Loaded(builds[s].code)
BY DEF BuildEnds, ToLoad, Discovered

(* A step of the build that runs in slot s changes what it has read. *)
Reads(s) == \E m \in Module : OnLoadStub(s, m) \/ OnLoadTransform(s, m) \/ ReadFile(s, m)

LEMMA ReadingBuilds ==
    ASSUME TypeOK, NEW s \in Slot, Reads(s)
    PROVE  /\ Running' = Running
           /\ \A t \in Running : /\ builds'[t].replace = builds[t].replace
                                 /\ builds'[t].changed = builds[t].changed
           /\ UNCHANGED <<disk, phase, bundle, known, pending, hasError,
                          connected, outbox>>
<1>1. s \in Running /\ builds[s] \in Build /\ builds \in [Slot -> Build \cup {None}]
    BY RunningBuilds DEF Reads, OnLoadStub, OnLoadTransform, ReadFile, TypeOK
<1>2. PICK b \in Build : /\ builds' = [builds EXCEPT ![s] = b]
                         /\ b.replace = builds[s].replace
                         /\ b.changed = builds[s].changed
    <2>1. PICK m \in Module : OnLoadStub(s, m) \/ OnLoadTransform(s, m) \/ ReadFile(s, m)
        BY DEF Reads
    <2>2. CASE OnLoadStub(s, m)
        <3> DEFINE b == [builds[s] EXCEPT !.code[m] = Stub]
        <3>1. builds' = [builds EXCEPT ![s] = b]
            BY <2>2 DEF OnLoadStub
        <3>2. b \in Build /\ b.replace = builds[s].replace /\ b.changed = builds[s].changed
            BY <1>1, CodeFacts DEF Build
        <3> QED
            BY <3>1, <3>2
    <2>3. CASE OnLoadTransform(s, m)
        <3> DEFINE b == [builds[s] EXCEPT !.reading = builds[s].reading \cup {m}]
        <3>1. builds' = [builds EXCEPT ![s] = b]
            BY <2>3 DEF OnLoadTransform
        <3>2. b \in Build /\ b.replace = builds[s].replace /\ b.changed = builds[s].changed
            BY <1>1 DEF Build
        <3> QED
            BY <3>1, <3>2
    <2>4. CASE ReadFile(s, m)
        <3> DEFINE b == [builds[s] EXCEPT !.code[m] = disk[m],
                                          !.reading = builds[s].reading \ {m}]
        <3>1. builds' = [builds EXCEPT ![s] = b]
            BY <2>4 DEF ReadFile
        <3>2. b \in Build /\ b.replace = builds[s].replace /\ b.changed = builds[s].changed
            BY <1>1, CodeFacts DEF Build, TypeOK
        <3> QED
            BY <3>1, <3>2
    <2> QED
        BY <2>1, <2>2, <2>3, <2>4
<1>3. b # None
    BY <1>2, NoneAssumption
<1>4. UNCHANGED <<disk, phase, bundle, known, pending, hasError, connected, outbox>>
    BY DEF Reads, OnLoadStub, OnLoadTransform, ReadFile
<1> QED
    BY <1>1, <1>2, <1>3, <1>4 DEF Running

(* What a step of a build may change of it. *)
LEMMA ReadCode ==
    ASSUME TypeOK, NEW s \in Slot, Reads(s), NEW m \in Module
    PROVE  \/ builds'[s].code[m] = builds[s].code[m]
           \/ builds'[s].code[m] = Stub /\ m \in known \cap Transformed
           \/ builds'[s].code[m] = disk[m] /\ m \in builds[s].reading
<1>1. s \in Running /\ builds[s] \in Build /\ builds \in [Slot -> Build \cup {None}]
    BY RunningBuilds DEF Reads, OnLoadStub, OnLoadTransform, ReadFile, TypeOK
<1>2. PICK n \in Module : OnLoadStub(s, n) \/ OnLoadTransform(s, n) \/ ReadFile(s, n)
    BY DEF Reads
<1>3. CASE OnLoadStub(s, n)
    BY <1>1, <1>3 DEF OnLoadStub, IsStubbed, Build
<1>4. CASE OnLoadTransform(s, n)
    BY <1>1, <1>4 DEF OnLoadTransform, Build
<1>5. CASE ReadFile(s, n)
    BY <1>1, <1>5 DEF ReadFile, Build
<1> QED
    BY <1>2, <1>3, <1>4, <1>5

(* A step of a build leaves the other builds alone. *)
LEMMA OtherBuilds ==
    ASSUME TypeOK, NEW s \in Slot, Reads(s), NEW t \in Running \ {s}
    PROVE  builds'[t] = builds[t]
<1>1. builds \in [Slot -> Build \cup {None}]
    BY DEF TypeOK
<1> QED
    BY <1>1 DEF Reads, OnLoadStub, OnLoadTransform, ReadFile, Running

(* What a step of a build adds to it is among what it has discovered. *)
LEMMA ReadLoaded ==
    ASSUME TypeOK, NEW s \in Slot, Reads(s)
    PROVE  Loaded(builds'[s].code) \cup builds'[s].reading
            \subseteq Loaded(builds[s].code) \cup builds[s].reading \cup ToLoad(builds[s])
<1>1. s \in Running /\ builds[s] \in Build /\ builds \in [Slot -> Build \cup {None}]
    BY RunningBuilds DEF Reads, OnLoadStub, OnLoadTransform, ReadFile, TypeOK
<1>2. PICK n \in Module : OnLoadStub(s, n) \/ OnLoadTransform(s, n) \/ ReadFile(s, n)
    BY DEF Reads
<1>3. CASE OnLoadStub(s, n)
    BY <1>1, <1>3 DEF OnLoadStub, Build, Loaded
<1>4. CASE OnLoadTransform(s, n)
    BY <1>1, <1>4 DEF OnLoadTransform, Build, Loaded
<1>5. CASE ReadFile(s, n)
    BY <1>1, <1>5 DEF ReadFile, Build, Loaded
<1> QED
    BY <1>2, <1>3, <1>4, <1>5

(* A file that is going to be read is no stub. *)
LEMMA ReadReading ==
    ASSUME TypeOK, NEW s \in Slot, Reads(s), NEW m \in builds'[s].reading
    PROVE  m \in builds[s].reading \/ ~IsStubbed(m)
<1>1. s \in Running /\ builds[s] \in Build /\ builds \in [Slot -> Build \cup {None}]
    BY RunningBuilds DEF Reads, OnLoadStub, OnLoadTransform, ReadFile, TypeOK
<1>2. PICK n \in Module : OnLoadStub(s, n) \/ OnLoadTransform(s, n) \/ ReadFile(s, n)
    BY DEF Reads
<1>3. CASE OnLoadStub(s, n)
    BY <1>1, <1>3 DEF OnLoadStub, Build
<1>4. CASE OnLoadTransform(s, n)
    BY <1>1, <1>4 DEF OnLoadTransform, Build
<1>5. CASE ReadFile(s, n)
    BY <1>1, <1>5 DEF ReadFile, Build
<1> QED
    BY <1>2, <1>3, <1>4, <1>5

(* The build that a watcher event starts. *)
LEMMA StartedBuild ==
    ASSUME TypeOK, NEW s \in Slot, Notify(s)
    PROVE  /\ Running' = Running \cup {s} /\ s \notin Running
           /\ \A t \in Running : builds'[t] = builds[t]
           /\ builds'[s] = [changed |-> pending, replace |-> pending \cap known,
                            reading |-> {}, code |-> NoCode]
           /\ known' = known \ pending
<1> DEFINE b == [changed |-> pending, replace |-> pending \cap known,
                 reading |-> {}, code |-> NoCode]
<1>1. b \in Build
    BY CodeFacts DEF Build, TypeOK
<1>2. b # None
    BY <1>1, NoneAssumption
<1>3. builds' = [builds EXCEPT ![s] = b] /\ builds[s] = None /\ known' = known \ pending
    BY DEF Notify, Invalidated
<1> HIDE DEF b
<1>4. /\ Running' = Running \cup {s} /\ s \notin Running
      /\ \A t \in Running : builds'[t] = builds[t]
      /\ builds'[s] = b
    BY <1>2, <1>3 DEF Running, TypeOK
<1> QED
    BY <1>3, <1>4 DEF b

(* A build that ends, well or badly. *)
LEMMA EndedBuild ==
    ASSUME TypeOK, NEW s \in Slot, BuildDone(s) \/ BuildFailed(s)
    PROVE  /\ s \in Running /\ Running' = Running \ {s}
           /\ \A t \in Running' : builds'[t] = builds[t]
BY DEF BuildDone, BuildFailed, BuildEnds, Running, TypeOK

(* Every step, told by what it does to the known modules and the builds.   *)
LEMMA StepKinds ==
    ASSUME TypeOK, [Next]_serverVars
    PROVE  \/ UNCHANGED <<builds, known>>
           \/ NotifyIrrelevant
           \/ BundleRequest
           \/ FullDone \/ FullFailed
           \/ \E s \in Slot : \/ Notify(s)
                              \/ Reads(s)
                              \/ BuildDone(s) \/ BuildFailed(s)
<1>1. CASE UNCHANGED serverVars
    BY <1>1 DEF serverVars
<1>2. CASE \E m \in Module : Edit(m) \/ FullLoad(m)
    BY <1>2 DEF Edit, FullLoad
<1>3. CASE WatcherError \/ Subscribed \/ Connect \/ Receive
    BY <1>3 DEF WatcherError, Subscribed, Connect, Receive
<1>4. CASE \E s \in Slot : BuildStep(s)
    BY <1>4 DEF BuildStep, Reads
<1> QED
    BY <1>1, <1>2, <1>3, <1>4 DEF Next, ServerStep

LEMMA ReplaceChangedStep ==
    TypeOK /\ ReplaceChanged /\ [Next]_serverVars => ReplaceChanged'
<1> SUFFICES ASSUME TypeOK, ReplaceChanged, [Next]_serverVars PROVE ReplaceChanged'
    OBVIOUS
<1>1. CASE UNCHANGED builds
    BY <1>1 DEF ReplaceChanged, Running
<1>2. CASE BundleRequest
    BY <1>2 DEF BundleRequest, NoBuilds, ReplaceChanged, Running
<1>3. ASSUME NEW s \in Slot, Notify(s) PROVE ReplaceChanged'
    BY <1>3, StartedBuild DEF ReplaceChanged
<1>4. ASSUME NEW s \in Slot, Reads(s) PROVE ReplaceChanged'
    BY <1>4, ReadingBuilds DEF ReplaceChanged
<1>5. ASSUME NEW s \in Slot, BuildDone(s) \/ BuildFailed(s) PROVE ReplaceChanged'
    BY <1>5, EndedBuild DEF ReplaceChanged
<1> QED
    BY <1>1, <1>2, <1>3, <1>4, <1>5, StepKinds
    DEF NotifyIrrelevant, FullDone, FullFailed

LEMMA TrackedStep ==
    ASSUME TypeOK, ReplaceChanged, [Next]_serverVars,
           phase \in {"bundled", "watching"}, phase' \in {"bundled", "watching"}
    PROVE  Tracked \subseteq Tracked'
<1>1. CASE UNCHANGED <<builds, known>>
    BY <1>1 DEF Tracked, Running
<1>2. CASE NotifyIrrelevant
    <2>1. known' = known /\ builds' = builds
        BY <1>2 DEF NotifyIrrelevant, Invalidated
    <2> QED
        BY <2>1 DEF Tracked, Running
<1>3. CASE BundleRequest \/ FullDone \/ FullFailed
    BY <1>3 DEF BundleRequest, FullDone, FullFailed, FullEnds
<1>4. ASSUME NEW s \in Slot, Notify(s) PROVE Tracked \subseteq Tracked'
    <2>1. known \subseteq known' \cup builds'[s].replace
        BY <1>4, StartedBuild
    <2> QED
        BY <1>4, <2>1, StartedBuild DEF Tracked
<1>5. ASSUME NEW s \in Slot, Reads(s) PROVE Tracked \subseteq Tracked'
    BY <1>5, ReadingBuilds DEF Tracked
<1>6. ASSUME NEW s \in Slot, BuildDone(s) PROVE Tracked \subseteq Tracked'
    <2>1. builds[s].replace \subseteq Loaded(builds[s].code)
        BY <1>6, EndedBuilds DEF BuildDone
    <2>2. known' = known \cup Loaded(builds[s].code)
        BY <1>6 DEF BuildDone, InPayload
    <2>3. /\ Running \subseteq Running' \cup {s}
          /\ \A t \in Running' : builds'[t] = builds[t]
        BY <1>6, EndedBuild
    <2> QED
        BY <2>1, <2>2, <2>3 DEF Tracked
<1>7. ASSUME NEW s \in Slot, BuildFailed(s) PROVE Tracked \subseteq Tracked'
    <2>1. /\ s \in Running /\ Running \subseteq Running' \cup {s}
          /\ \A t \in Running' : builds'[t] = builds[t]
        BY <1>7, EndedBuild
    <2>2. known' = known \cup builds[s].changed
        BY <1>7 DEF BuildFailed, Reset
    <2>3. builds[s].replace \subseteq builds[s].changed
        BY <2>1 DEF ReplaceChanged
    <2> QED
        BY <2>1, <2>2, <2>3 DEF Tracked
<1> QED
    BY <1>1, <1>2, <1>3, <1>4, <1>5, <1>6, <1>7, StepKinds

(***************************************************************************)
(* A watched session never loses track of a file, with any number of       *)
(* builds under way, in any order, and whichever of them fail.             *)
(***************************************************************************)
THEOREM NothingForgotten == Spec => NeverForgotten
<1>1. Init => TypeOK /\ ReplaceChanged
    BY InitTypeOK DEF Init, NoBuilds, Running, ReplaceChanged
<1>2. TypeOK /\ ReplaceChanged /\ [Next]_serverVars => (TypeOK /\ ReplaceChanged)'
    BY NextTypeOK, ReplaceChangedStep
<1>3. TypeOK /\ ReplaceChanged /\ [Next]_serverVars =>
        [phase = "watching" /\ phase' = "watching" => Tracked \subseteq Tracked']_serverVars
    BY TrackedStep
<1> QED
    BY <1>1, <1>2, <1>3, PTL DEF Spec, NeverForgotten
-----------------------------------------------------------------------------
(***************************************************************************)
(* A patient developer, who saves a file only when the app has received    *)
(* everything: at most one build runs, and no save arrives during it, so   *)
(* what it decided when it began is still true when it ends.               *)
(***************************************************************************)
OneBuild == \A s, t \in Running : s = t

Undisturbed ==
    /\ Running # {} => pending = {} /\ phase = "watching"
    /\ pending # {} => phase = "watching"

BuildsTrueToKnown ==
    \A s \in Running :
        /\ builds[s].replace \cap known = {}
        /\ \A m \in Module : builds[s].code[m] = Stub => m \in known

QuietInv == OneBuild /\ Undisturbed /\ BuildsTrueToKnown /\ UpdatesExact

(* The code of a file is never mistaken for a stub. *)
LEMMA ContentIsNoStub == Stub \notin Content
BY DEF Stub, Content

LEMMA QuietReading ==
    ASSUME TypeOK, BuildsTrueToKnown, NEW s \in Slot, Reads(s)
    PROVE  BuildsTrueToKnown'
<1>1. s \in Running /\ builds[s] \in Build /\ builds \in [Slot -> Build \cup {None}]
    BY RunningBuilds DEF Reads, OnLoadStub, OnLoadTransform, ReadFile, TypeOK
<1>2. \A t \in Running \ {s} : builds'[t] = builds[t]
    BY <1>1 DEF Reads, OnLoadStub, OnLoadTransform, ReadFile, Running
<1>3. \A m \in Module : builds'[s].code[m] = Stub => m \in known
    <2>1. PICK n \in Module : OnLoadStub(s, n) \/ OnLoadTransform(s, n) \/ ReadFile(s, n)
        BY DEF Reads
    <2>2. CASE OnLoadStub(s, n)
        <3>1. \A m \in Module \ {n} : builds'[s].code[m] = builds[s].code[m]
            BY <1>1, <2>2 DEF OnLoadStub, Build
        <3>2. n \in known
            BY <2>2 DEF OnLoadStub, IsStubbed
        <3> QED
            BY <1>1, <3>1, <3>2 DEF BuildsTrueToKnown
    <2>3. CASE OnLoadTransform(s, n)
        <3>1. builds'[s].code = builds[s].code
            BY <1>1, <2>3 DEF OnLoadTransform, Build
        <3> QED
            BY <1>1, <3>1 DEF BuildsTrueToKnown
    <2>4. CASE ReadFile(s, n)
        <3>1. \A m \in Module \ {n} : builds'[s].code[m] = builds[s].code[m]
            BY <1>1, <2>4 DEF ReadFile, Build
        <3>2. builds'[s].code[n] \in Content
            BY <1>1, <2>4 DEF ReadFile, Build, TypeOK
        <3> QED
            BY <1>1, <3>1, <3>2, ContentIsNoStub DEF BuildsTrueToKnown
    <2> QED
        BY <2>1, <2>2, <2>3, <2>4
<1> QED
    BY <1>1, <1>2, <1>3, ReadingBuilds DEF BuildsTrueToKnown

(* The update of an undisturbed build is exact. *)
LEMMA QuietPayload ==
    ASSUME TypeOK, BuildsTrueToKnown, NEW s \in Slot, BuildEnds(s)
    PROVE  IsExact(Payload(builds[s]))
<1>1. s \in Running
    BY DEF BuildEnds
<1>2. builds[s].replace \subseteq Loaded(builds[s].code) \ known
    BY <1>1, EndedBuilds DEF BuildsTrueToKnown
<1>3. \A m \in Loaded(builds[s].code) \ known : builds[s].code[m] \notin {Stub, None}
    BY <1>1 DEF BuildsTrueToKnown, Loaded
<1> QED
    BY <1>2, <1>3 DEF IsExact, Payload, InPayload

LEMMA AppendedExact ==
    ASSUME outbox \in Seq(Update), UpdatesExact, NEW u, IsExact(u),
           outbox' \in {outbox, Append(outbox, u)}
    PROVE  UpdatesExact'
<1>1. CASE outbox' = outbox
    BY <1>1 DEF UpdatesExact
<1>2. CASE outbox' = Append(outbox, u)
    <2>1. DOMAIN outbox' = 1 .. Len(outbox) + 1 /\ DOMAIN outbox = 1 .. Len(outbox)
        BY <1>2
    <2>2. \A i \in DOMAIN outbox' : outbox'[i] = IF i = Len(outbox) + 1 THEN u ELSE outbox[i]
        BY <1>2
    <2>3. \A i \in DOMAIN outbox' : IsExact(outbox'[i])
        BY <2>1, <2>2 DEF UpdatesExact
    <2> QED
        BY <2>3 DEF UpdatesExact, IsExact
<1> QED
    BY <1>1, <1>2

LEMMA QuietStep ==
    ASSUME EditWhen = "quiet", TypeOK, QuietInv, [Next]_serverVars
    PROVE  QuietInv'
<1> USE DEF QuietInv
<1>1. CASE UNCHANGED serverVars
    BY <1>1 DEF serverVars, OneBuild, Undisturbed, BuildsTrueToKnown, UpdatesExact, Running
<1>2. ASSUME NEW m \in Module, Edit(m) PROVE QuietInv'
    <2>1. Running = {} /\ phase = "watching" /\ UNCHANGED <<phase, builds, known, outbox>>
        BY <1>2 DEF Edit, EditAllowed
    <2> QED
        BY <2>1 DEF OneBuild, Undisturbed, BuildsTrueToKnown, UpdatesExact, Running
<1>3. CASE WatcherError \/ Connect \/ Subscribed \/ FullDone \/ FullFailed
           \/ \E m \in Module : FullLoad(m)
    <2>1. UNCHANGED <<builds, outbox>> /\ pending' \in {pending, {}}
        BY <1>3 DEF WatcherError, Connect, Subscribed, FullDone, FullFailed, FullLoad
    <2>2. phase = "watching" => UNCHANGED <<phase, known>>
        BY <1>3 DEF WatcherError, Connect, Subscribed, FullDone, FullFailed, FullLoad,
                    FullEnds
    <2>3. Running' = Running
        BY <2>1 DEF Running
    <2> QED
        BY <2>1, <2>2, <2>3 DEF OneBuild, Undisturbed, BuildsTrueToKnown, UpdatesExact
<1>4. CASE NotifyIrrelevant
    <2>1. /\ Running = {} /\ UNCHANGED <<phase, builds, outbox>> /\ pending' = {}
        BY <1>4 DEF NotifyIrrelevant, Undisturbed
    <2> QED
        BY <2>1 DEF OneBuild, Undisturbed, BuildsTrueToKnown, UpdatesExact, Running
<1>5. ASSUME NEW s \in Slot, Notify(s) PROVE QuietInv'
    <2>1. pending # {} /\ pending' = {} /\ UNCHANGED <<phase, outbox>>
        BY <1>5 DEF Notify
    <2>2. Running = {} /\ phase = "watching"
        BY <2>1 DEF Undisturbed
    <2>3. Running' = {s}
        BY <1>5, <2>2, StartedBuild
    <2>4. builds'[s].replace \cap known' = {}
        BY <1>5, StartedBuild
    <2>5. \A m \in Module : builds'[s].code[m] # Stub
        <3>1. Stub # None
            BY SourceAssumption DEF Code
        <3> QED
            BY <1>5, <3>1, StartedBuild DEF NoCode
    <2> QED
        BY <2>1, <2>2, <2>3, <2>4, <2>5
        DEF OneBuild, Undisturbed, BuildsTrueToKnown, UpdatesExact
<1>6. ASSUME NEW s \in Slot, Reads(s) PROVE QuietInv'
    BY <1>6, ReadingBuilds, QuietReading DEF OneBuild, Undisturbed, UpdatesExact
<1>7. ASSUME NEW s \in Slot, BuildDone(s) \/ BuildFailed(s) PROVE QuietInv'
    <2>1. s \in Running /\ Running' = {} /\ UNCHANGED <<phase, pending>>
        BY <1>7, EndedBuild DEF OneBuild, BuildDone, BuildFailed
    <2>2. IsExact(Payload(builds[s]))
        BY <1>7, QuietPayload DEF BuildDone, BuildFailed
    <2>3. outbox' \in {outbox, Append(outbox, Payload(builds[s]))}
        BY <1>7 DEF BuildDone, BuildFailed
    <2>4. UpdatesExact'
        BY <2>2, <2>3, AppendedExact DEF TypeOK
    <2> QED
        BY <2>1, <2>4 DEF OneBuild, Undisturbed, BuildsTrueToKnown
<1>8. CASE BundleRequest
    <2>1. Running' = {} /\ pending' = {} /\ outbox' = <<>>
        BY <1>8 DEF BundleRequest, NoBuilds, Running
    <2> QED
        BY <2>1 DEF OneBuild, Undisturbed, BuildsTrueToKnown, UpdatesExact
<1>9. CASE Receive
    <2>1. UNCHANGED <<phase, builds, known, pending>> /\ outbox # <<>> /\ outbox' = Tail(outbox)
        BY <1>9 DEF Receive
    <2>2. Running' = Running
        BY <2>1 DEF Running
    <2>3. \A i \in DOMAIN outbox' : i + 1 \in DOMAIN outbox /\ outbox'[i] = outbox[i + 1]
        BY <2>1 DEF TypeOK
    <2>4. UpdatesExact'
        BY <2>3 DEF UpdatesExact, IsExact
    <2> QED
        BY <2>1, <2>2, <2>4 DEF OneBuild, Undisturbed, BuildsTrueToKnown
<1> QED
    BY <1>1, <1>2, <1>3, <1>4, <1>5, <1>6, <1>7, <1>8, <1>9
    DEF Next, ServerStep, BuildStep, Reads

(***************************************************************************)
(* For a developer who waits for one update before the next save, every    *)
(* update names in its graph all that it replaces, with real code for all  *)
(* that it names.  (An overlapping save breaks this.)                      *)
(***************************************************************************)
THEOREM QuietUpdatesExact ==
    ASSUME EditWhen = "quiet"
    PROVE  Spec => []UpdatesExact
<1>1. Init => TypeOK /\ QuietInv
    BY InitTypeOK
    DEF Init, NoBuilds, Running, QuietInv, OneBuild, Undisturbed, BuildsTrueToKnown,
        UpdatesExact
<1>2. TypeOK /\ QuietInv /\ [Next]_serverVars => (TypeOK /\ QuietInv)'
    BY NextTypeOK, QuietStep
<1>3. QuietInv => UpdatesExact
    BY DEF QuietInv
<1> QED
    BY <1>1, <1>2, <1>3, PTL DEF Spec
-----------------------------------------------------------------------------
(* Every content that the developer may save compiles. *)
AlwaysCompiles == \A m \in Module : \A k \in Source[m] : k.compiles

(* ... and so do the disk, and what the builds read from it. *)
AllSavedCompile ==
    /\ \A m \in Module : disk[m].compiles
    /\ \A s \in Running : AllCompile(builds[s].code)

LEMMA AllSavedCompileStep ==
    ASSUME AlwaysCompiles, TypeOK, AllSavedCompile, [Next]_serverVars
    PROVE  AllSavedCompile'
<1>1. CASE UNCHANGED <<disk, builds>>
    BY <1>1 DEF AllSavedCompile, Running
<1>2. ASSUME NEW m \in Module, Edit(m) PROVE AllSavedCompile'
    <2>1. PICK k \in Source[m] : disk' = [disk EXCEPT ![m] = k]
        BY <1>2 DEF Edit
    <2>2. \A n \in Module : disk'[n].compiles
        BY <2>1 DEF AlwaysCompiles, AllSavedCompile, TypeOK
    <2>3. UNCHANGED builds
        BY <1>2 DEF Edit
    <2> QED
        BY <2>2, <2>3 DEF AllSavedCompile, Running
<1>3. CASE BundleRequest
    BY <1>3 DEF BundleRequest, NoBuilds, AllSavedCompile, Running
<1>4. ASSUME NEW s \in Slot, Notify(s) PROVE AllSavedCompile'
    <2>1. UNCHANGED disk /\ AllCompile(NoCode)
        BY <1>4 DEF Notify, AllCompile, Loaded, NoCode
    <2> QED
        BY <1>4, <2>1, StartedBuild DEF AllSavedCompile
<1>5. ASSUME NEW s \in Slot, Reads(s) PROVE AllSavedCompile'
    <2>1. Running' = Running /\ UNCHANGED disk
        BY <1>5, ReadingBuilds
    <2>2. s \in Running
        BY <1>5 DEF Reads, OnLoadStub, OnLoadTransform, ReadFile
    <2>3. ASSUME NEW m \in Loaded(builds'[s].code) PROVE builds'[s].code[m].compiles
        <3>1. m \in Module /\ builds'[s].code[m] # None /\ Stub.compiles
            BY DEF Loaded, Stub
        <3> QED
            BY <1>5, <2>2, <3>1, ReadCode DEF AllSavedCompile, AllCompile, Loaded
    <2> QED
        BY <1>5, <2>1, <2>3, OtherBuilds DEF AllSavedCompile, AllCompile
<1>6. ASSUME NEW s \in Slot, BuildDone(s) \/ BuildFailed(s) PROVE AllSavedCompile'
    <2>1. UNCHANGED disk
        BY <1>6 DEF BuildDone, BuildFailed
    <2> QED
        BY <1>6, <2>1, EndedBuild DEF AllSavedCompile
<1>7. CASE UNCHANGED serverVars
    BY <1>1, <1>7 DEF serverVars
<1>8. CASE \E m \in Module : FullLoad(m)
    BY <1>1, <1>8 DEF FullLoad
<1>9. CASE WatcherError \/ NotifyIrrelevant \/ Subscribed \/ Connect \/ Receive
    BY <1>1, <1>9 DEF WatcherError, NotifyIrrelevant, Subscribed, Connect, Receive
<1>10. CASE FullDone \/ FullFailed
    BY <1>1, <1>10 DEF FullDone, FullFailed
<1> QED
    BY <1>2, <1>3, <1>4, <1>5, <1>6, <1>7, <1>8, <1>9, <1>10
    DEF Next, ServerStep, BuildStep, Reads

(* Saves come one file at a time: what a build replaces is all of it that  *)
(* changed.                                                                *)
OneFileAtATime ==
    /\ \A m, n \in pending : m = n
    /\ \A s \in Running : builds[s].changed \subseteq builds[s].replace

LEMMA AtMostOne ==
    ASSUME MaxBatch <= 1, NEW S \in SUBSET Module, Cardinality(S) <= MaxBatch,
           NEW m \in S, NEW n \in S
    PROVE  m = n
<1>1. IsFiniteSet(S)
    BY SourceAssumption, FS_Subset
<1>2. Cardinality(S) \in Nat /\ Cardinality(S) # 0
    BY <1>1, FS_CardinalityType, FS_EmptySet
<1>3. Cardinality(S) = 1
    BY <1>2, BundlerAssumption
<1> QED
    BY <1>1, <1>3, FS_Singleton

LEMMA OneFileAtATimeStep ==
    ASSUME MaxBatch <= 1, TypeOK, OneFileAtATime, [Next]_serverVars
    PROVE  OneFileAtATime'
<1>1. CASE UNCHANGED builds /\ pending' \in {pending, {}}
    BY <1>1 DEF OneFileAtATime, Running
<1>2. ASSUME NEW m \in Module, Edit(m) PROVE OneFileAtATime'
    <2>1. /\ Cardinality(pending \cup {m}) <= MaxBatch
          /\ pending' \subseteq pending \cup {m} /\ UNCHANGED builds
        BY <1>2 DEF Edit
    <2>2. pending \cup {m} \in SUBSET Module
        BY DEF TypeOK
    <2>3. \A k, n \in pending \cup {m} : k = n
        BY <2>1, <2>2, AtMostOne
    <2> QED
        BY <2>1, <2>3 DEF OneFileAtATime, Running
<1>3. CASE BundleRequest
    BY <1>3 DEF BundleRequest, NoBuilds, OneFileAtATime, Running
<1>4. ASSUME NEW s \in Slot, Notify(s) PROVE OneFileAtATime'
    <2>1. pending \cap known # {} /\ pending' = {}
        BY <1>4 DEF Notify
    <2>2. pending \subseteq pending \cap known
        BY <2>1 DEF OneFileAtATime
    <2> QED
        BY <1>4, <2>1, <2>2, StartedBuild DEF OneFileAtATime
<1>5. ASSUME NEW s \in Slot, Reads(s) PROVE OneFileAtATime'
    BY <1>5, ReadingBuilds DEF OneFileAtATime
<1>6. ASSUME NEW s \in Slot, BuildDone(s) \/ BuildFailed(s) PROVE OneFileAtATime'
    <2>1. UNCHANGED pending
        BY <1>6 DEF BuildDone, BuildFailed
    <2> QED
        BY <1>6, <2>1, EndedBuild DEF OneFileAtATime
<1>7. CASE UNCHANGED serverVars
    BY <1>1, <1>7 DEF serverVars
<1>8. CASE \E m \in Module : FullLoad(m)
    BY <1>1, <1>8 DEF FullLoad
<1>9. CASE WatcherError \/ NotifyIrrelevant \/ Subscribed \/ Connect \/ Receive
    BY <1>1, <1>9 DEF WatcherError, NotifyIrrelevant, Subscribed, Connect, Receive
<1>10. CASE FullDone \/ FullFailed
    BY <1>1, <1>10 DEF FullDone, FullFailed
<1> QED
    BY <1>2, <1>3, <1>4, <1>5, <1>6, <1>7, <1>8, <1>9, <1>10
    DEF Next, ServerStep, BuildStep, Reads
=============================================================================
