-------------------------- MODULE FullBundleProofs --------------------------
(***************************************************************************)
(* Proofs about FullBundle, for any platforms, any requests and bundles of *)
(* any length: when no other request for its platform is in flight with a  *)
(* request, what is streamed to the client is the whole bundle that its    *)
(* known modules come from.                                                *)
(*                                                                         *)
(* Such a request writes and reads a file that no other one writes, so     *)
(* that it holds what the request's own build has written, up to the last  *)
(* chunk, for as long as it is streamed.                                   *)
(***************************************************************************)
EXTENDS FullBundle, TLAPS

Alone ==
    \A r, q \in InFlight : r # q /\ r \notin shared => platform[r] # platform[q]

(* The chunks of f up to n are of version v. *)
Upto(f, n, v) == \A i \in 1..Chunks : i <= n => f[i] = v

NotYet(r) ==
    /\ stage[r] \in {"none", "building"} => written[r] = 0
    /\ stage[r] \in {"none", "building", "writing"} => sent[r] = <<>>

BundleInv(r) ==
    /\ stage[r] = "writing" => Upto(outfile[platform[r]], written[r], built[r])
                            /\ built[r] \in Version
    /\ stage[r] = "streaming" =>
        /\ known[r] \in Version /\ known[r] = built[r]
        /\ Upto(outfile[platform[r]], Chunks, known[r])
        /\ Len(sent[r]) <= Chunks
        /\ \A i \in 1..Len(sent[r]) : sent[r][i] = known[r]
    /\ stage[r] = "served" => Whole(r)

(* What a request bundles is known from when it starts to write on. *)
BuiltInv ==
    \A r \in Request :
        stage[r] \in {"writing", "streaming", "served", "ending", "ended"} =>
            built[r] \in Version

RequestInv(r) == NotYet(r) /\ (r \notin shared => BundleInv(r))

Inv == TypeOK /\ BuiltInv /\ Alone /\ \A r \in Request : RequestInv(r)

-----------------------------------------------------------------------------
(* Every step is well typed. *)
LEMMA TypeInit == Init => TypeOK
BY FullBundleAssumption DEF Init, TypeOK, NoChunks, Version, Stage

LEMMA BuiltHasLines ==
    ASSUME TypeOK, NEW r \in Request, built[r] \in Version
    PROVE  Counted(r) \in Nat /\ Counted(r) = PreambleLines(r) + 1
BY FullBundleAssumption DEF Counted, PreambleLines

LEMMA TypeNext == TypeOK /\ BuiltInv /\ [Next]_vars => TypeOK' /\ BuiltInv'
<1> SUFFICES ASSUME TypeOK, BuiltInv, [Next]_vars PROVE TypeOK' /\ BuiltInv'
  OBVIOUS
<1> USE FullBundleAssumption
    DEF givenVars, buildVars, clientVars, symbolicatorVars
<1>1. CASE Save
  BY <1>1 DEF TypeOK, BuiltInv, Save, Version
<1>2. ASSUME NEW r \in Request, BundleRequest(r) \/ Rejected(r) \/ BannerThrows(r)
      PROVE  TypeOK' /\ BuiltInv'
  <2>1. TypeOK'
    BY <1>2 DEF TypeOK, BundleRequest, Rejected, BannerThrows, Stage, Together, InFlight
  <2>2. BuiltInv'
    BY <1>2 DEF TypeOK, BuiltInv, BundleRequest, Rejected, BannerThrows
  <2>3. QED
    BY <2>1, <2>2
<1>3. ASSUME NEW r \in Request, Bundled(r) PROVE TypeOK' /\ BuiltInv'
  <2>1. TypeOK'
    BY <1>3 DEF TypeOK, Bundled, Stage, NoChunks, File, Outdir
  <2>2. BuiltInv'
    BY <1>3 DEF TypeOK, BuiltInv, Bundled
  <2>3. QED
    BY <2>1, <2>2
<1>4. ASSUME NEW r \in Request, WriteChunk(r) PROVE TypeOK' /\ BuiltInv'
  <2>1. written[r] + 1 \in 1..Chunks /\ platform[r] \in Platform
    BY <1>4 DEF TypeOK, WriteChunk
  <2>2. built[r] \in Version \cup {None}
    BY DEF TypeOK
  <2>3. outfile' \in [Platform -> [1..Chunks -> Version \cup {None}]]
    BY <1>4, <2>1, <2>2 DEF TypeOK, WriteChunk, File, Outdir
  <2>4. written' \in [Request -> 0..Chunks]
    BY <1>4, <2>1 DEF TypeOK, WriteChunk
  <2>5. QED
    BY <1>4, <2>3, <2>4 DEF TypeOK, BuiltInv, WriteChunk
<1>5. ASSUME NEW r \in Request, Built(r) \/ IncludeFails(r) PROVE TypeOK' /\ BuiltInv'
  <2>1. built[r] \in Version
    BY <1>5 DEF BuiltInv, Built, IncludeFails
  <2> DEFINE n == offset[platform[r]] + Counted(r)
  <2>2. platform[r] \in Platform /\ n \in Nat
    BY <2>1, BuiltHasLines DEF TypeOK
  <2> HIDE DEF n
  <2>3. /\ offset' = [offset EXCEPT ![platform[r]] = n]
        /\ placed' \in {placed, [placed EXCEPT ![r] = n]}
        /\ route' \in {route, platform[r]}
    BY <1>5 DEF Built, IncludeFails, n
  <2>4. /\ offset' \in [Platform -> Nat]
        /\ placed' \in [Request -> Nat \cup {None}]
        /\ route' \in Platform \cup {None}
    <3>1. offset' \in [Platform -> Nat]
      BY <2>2, <2>3 DEF TypeOK
    <3>2. placed' \in [Request -> Nat \cup {None}]
      <4>1. placed \in [Request -> Nat \cup {None}] /\ n \in Nat \cup {None}
        BY <2>2 DEF TypeOK
      <4>2. [placed EXCEPT ![r] = n] \in [Request -> Nat \cup {None}]
        BY <4>1
      <4>3. QED
        BY <2>3, <4>1, <4>2
    <3>3. route' \in Platform \cup {None}
      BY <2>2, <2>3 DEF TypeOK
    <3>4. QED
      BY <3>1, <3>2, <3>3
  <2>5. known' \in [Request -> Version \cup {None}] /\ stage' \in [Request -> Stage]
    BY <1>5 DEF TypeOK, Built, IncludeFails, Stage
  <2>6. TypeOK'
    BY <1>5, <2>4, <2>5 DEF TypeOK, Built, IncludeFails
  <2>7. BuiltInv'
    BY <1>5, <2>1 DEF TypeOK, BuiltInv, Built, IncludeFails
  <2>8. QED
    BY <2>6, <2>7
<1>6. ASSUME NEW r \in Request,
             BuildFailed(r) \/ ErrorSent(r) \/ Served(r) \/ StreamBreaks(r)
      PROVE  TypeOK' /\ BuiltInv'
  <2>1. TypeOK'
    BY <1>6 DEF TypeOK, BuildFailed, ErrorSent, Served, StreamBreaks, Stage
  <2>2. BuiltInv'
    BY <1>6 DEF TypeOK, BuiltInv, BuildFailed, ErrorSent, Served, StreamBreaks
  <2>3. QED
    BY <2>1, <2>2
<1>7. ASSUME NEW r \in Request, ReadChunk(r) PROVE TypeOK' /\ BuiltInv'
  <2> DEFINE n == Len(sent[r]) + 1
  <2>1. sent[r] \in Seq(Version \cup {None}) /\ n \in Nat
    BY DEF TypeOK
  <2>2. n \in 1..Chunks
    BY <1>7, <2>1 DEF ReadChunk, AtEnd
  <2>3. outfile[File(r)][n] \in Version \cup {None}
    BY <2>2 DEF TypeOK, File, Outdir
  <2>4. Append(sent[r], outfile[File(r)][n]) \in Seq(Version \cup {None})
    BY <2>1, <2>3
  <2>5. sent' \in [Request -> Seq(Version \cup {None})]
    BY <1>7, <2>4 DEF TypeOK, ReadChunk
  <2>6. replaced' \in [Request -> SUBSET (1..Chunks)]
    BY <1>7, <2>2 DEF TypeOK, ReadChunk
  <2>7. QED
    BY <1>7, <2>5, <2>6 DEF TypeOK, BuiltInv, ReadChunk
<1>8. CASE UNCHANGED vars
  BY <1>8 DEF TypeOK, BuiltInv, vars
<1>9. QED
  BY <1>1, <1>2, <1>3, <1>4, <1>5, <1>6, <1>7, <1>8 DEF Next, Step, Progress

(* The state of every request has the type it should have. *)
THEOREM BundleTypeCorrect == Spec => []TypeOK
<1>1. Init => TypeOK /\ BuiltInv
  BY TypeInit DEF Init, BuiltInv
<1>2. QED
  BY <1>1, TypeNext, PTL DEF Spec
-----------------------------------------------------------------------------
(***************************************************************************)
(* What a step of request s does to the others: nothing, unless they are   *)
(* in flight for the same platform.                                        *)
(***************************************************************************)
LEMMA StepIsLocal ==
    ASSUME TypeOK, NEW s \in Request, Step(s)
    PROVE  /\ platform' = platform
           /\ \A r \in Request \ {s} :
                /\ stage'[r] = stage[r] /\ built'[r] = built[r]
                /\ written'[r] = written[r] /\ known'[r] = known[r]
                /\ sent'[r] = sent[r]
           /\ shared \subseteq shared'
           /\ \A p \in Platform : p # platform[s] => outfile'[p] = outfile[p]
           /\ stage[s] \notin {"building", "writing"} => outfile' = outfile
BY DEF TypeOK, Step, Progress, BundleRequest, Rejected, BannerThrows, Bundled,
       WriteChunk, Built, IncludeFails, BuildFailed, ErrorSent, ReadChunk, Served,
       StreamBreaks, File, Outdir, givenVars, buildVars, clientVars

(* A request comes in flight only by being made; if it is not alone then,  *)
(* it and those for its platform are marked.                               *)
LEMMA AloneNext ==
    ASSUME TypeOK, Alone, NEW s \in Request, Step(s)
    PROVE  Alone'
<1>0. platform' = platform /\ shared \subseteq shared'
  BY StepIsLocal
<1>1. CASE BundleRequest(s)
  <2>1. InFlight' = InFlight \cup {s} /\ s \notin InFlight
    BY <1>1 DEF TypeOK, BundleRequest, InFlight
  <2>2. \A q \in InFlight : platform[q] = platform[s] => q \in shared' /\ s \in shared'
    BY <1>1 DEF BundleRequest, Together
  <2>3. QED
    BY <1>0, <2>1, <2>2 DEF Alone
<1>2. CASE ~BundleRequest(s)
  <2>1. InFlight' \subseteq InFlight
    BY <1>2 DEF TypeOK, Step, Progress, Rejected, BannerThrows, Bundled, WriteChunk,
                Built, IncludeFails, BuildFailed, ErrorSent, ReadChunk, Served,
                StreamBreaks, InFlight
  <2>2. QED
    BY <1>0, <2>1 DEF Alone
<1>3. QED
  BY <1>1, <1>2

LEMMA OthersKeepInv ==
    ASSUME TypeOK, Alone, NEW s \in Request, Step(s),
           NEW r \in Request \ {s}, RequestInv(r)
    PROVE  RequestInv(r)'
<1>1. /\ platform'[r] = platform[r] /\ stage'[r] = stage[r]
      /\ built'[r] = built[r] /\ written'[r] = written[r]
      /\ known'[r] = known[r] /\ sent'[r] = sent[r]
      /\ shared \subseteq shared'
  BY StepIsLocal
<1>2. r \notin shared /\ stage[r] \in {"writing", "streaming"} =>
          outfile'[platform[r]] = outfile[platform[r]]
  <2> SUFFICES ASSUME r \notin shared, stage[r] \in {"writing", "streaming"}
               PROVE  outfile'[platform[r]] = outfile[platform[r]]
    OBVIOUS
  <2>1. platform[r] \in Platform /\ r \in InFlight
    BY DEF TypeOK, InFlight
  <2>2. CASE stage[s] \in {"building", "writing"}
    <3>1. s \in InFlight
      BY <2>2 DEF InFlight
    <3>2. platform[s] # platform[r]
      BY <2>1, <3>1 DEF Alone
    <3>3. QED
      BY <2>1, <3>2, StepIsLocal
  <2>3. CASE stage[s] \notin {"building", "writing"}
    BY <2>3, StepIsLocal
  <2>4. QED
    BY <2>2, <2>3
<1>3. NotYet(r)'
  BY <1>1 DEF RequestInv, NotYet
<1>4. ASSUME r \notin shared' PROVE BundleInv(r)'
  <2>1. r \notin shared /\ BundleInv(r)
    BY <1>1, <1>4 DEF RequestInv
  <2>2. QED
    BY <1>1, <1>2, <2>1 DEF BundleInv, Upto, Whole
<1>5. QED
  BY <1>3, <1>4 DEF RequestInv

(* What a step does to its own request. *)
LEMMA OwnNotYet ==
    ASSUME TypeOK, NEW s \in Request, NotYet(s), Step(s)
    PROVE  NotYet(s)'
BY DEF NotYet, TypeOK, Step, Progress, BundleRequest, Rejected, BannerThrows, Bundled,
       WriteChunk, Built, IncludeFails, BuildFailed, ErrorSent, ReadChunk, Served,
       StreamBreaks, givenVars, buildVars, clientVars

LEMMA OwnKeepsInv ==
    ASSUME TypeOK, NEW s \in Request, NotYet(s), BundleInv(s), Step(s)
    PROVE  BundleInv(s)'
<1> DEFINE f == outfile[platform[s]]
<1>0. platform[s] \in Platform /\ f \in [1..Chunks -> Version \cup {None}]
  BY DEF TypeOK
<1> USE FullBundleAssumption DEF givenVars, buildVars, clientVars
<1>1. CASE \/ BundleRequest(s) \/ Rejected(s) \/ BannerThrows(s) \/ BuildFailed(s)
           \/ IncludeFails(s) \/ ErrorSent(s)
  BY <1>1 DEF TypeOK, BundleRequest, Rejected, BannerThrows, BuildFailed,
              IncludeFails, ErrorSent, BundleInv
<1>2. CASE Bundled(s)
  <2>1. /\ stage'[s] = "writing" /\ built'[s] = version
        /\ written'[s] = 0 /\ sent'[s] = <<>>
    BY <1>2 DEF TypeOK, Bundled, NotYet
  <2>2. version \in Version
    BY DEF TypeOK
  <2>3. Upto(outfile'[platform'[s]], 0, version)
    BY DEF Upto
  <2>4. QED
    BY <2>1, <2>2, <2>3 DEF BundleInv
<1>3. CASE WriteChunk(s)
  <2>1. /\ stage'[s] = "writing" /\ stage[s] = "writing"
        /\ built'[s] = built[s] /\ sent'[s] = sent[s]
        /\ written'[s] = written[s] + 1 /\ platform'[s] = platform[s]
    BY <1>3 DEF TypeOK, WriteChunk
  <2>2. outfile'[platform[s]] = [f EXCEPT ![written[s] + 1] = built[s]]
    BY <1>0, <1>3 DEF TypeOK, WriteChunk, File, Outdir
  <2>3. Upto(f, written[s], built[s]) /\ built[s] \in Version /\ sent[s] = <<>>
    BY <2>1 DEF BundleInv, NotYet
  <2>4. written[s] \in Nat
    BY DEF TypeOK
  <2>5. Upto(outfile'[platform[s]], written[s] + 1, built[s])
    <3>1. SUFFICES ASSUME NEW i \in 1..Chunks, i <= written[s] + 1
                   PROVE  outfile'[platform[s]][i] = built[s]
      BY DEF Upto
    <3>2. DOMAIN f = 1..Chunks
      BY <1>0
    <3>3. CASE i = written[s] + 1
      BY <2>2, <3>2, <3>3
    <3>4. CASE i # written[s] + 1
      <4>1. i <= written[s]
        BY <2>4, <3>1, <3>4
      <4>2. outfile'[platform[s]][i] = f[i]
        BY <2>2, <3>2, <3>4
      <4>3. QED
        BY <2>3, <4>1, <4>2 DEF Upto
    <3>5. QED
      BY <3>3, <3>4
  <2>6. QED
    BY <2>1, <2>3, <2>5 DEF BundleInv
<1>4. CASE Built(s)
  <2>1. /\ stage[s] = "writing" /\ stage'[s] = "streaming"
        /\ known'[s] = built[s] /\ sent'[s] = sent[s] /\ written[s] = Chunks
        /\ platform'[s] = platform[s] /\ outfile' = outfile
        /\ built'[s] = built[s]
    BY <1>4 DEF TypeOK, Built
  <2>2. Upto(f, Chunks, built[s]) /\ built[s] \in Version /\ sent[s] = <<>>
    BY <2>1 DEF BundleInv, NotYet
  <2>3. QED
    BY <2>1, <2>2 DEF BundleInv
<1>5. CASE ReadChunk(s)
  <2> DEFINE n == Len(sent[s]) + 1
  <2>1. /\ stage[s] = "streaming" /\ stage'[s] = "streaming"
        /\ known'[s] = known[s] /\ platform'[s] = platform[s] /\ outfile' = outfile
        /\ sent'[s] = Append(sent[s], f[n]) /\ built'[s] = built[s]
    BY <1>5 DEF TypeOK, ReadChunk, File, Outdir
  <2>2. /\ known[s] \in Version /\ Upto(f, Chunks, known[s])
        /\ known[s] = built[s]
        /\ \A i \in 1..Len(sent[s]) : sent[s][i] = known[s]
    BY <2>1 DEF BundleInv
  <2>3. sent[s] \in Seq(Version \cup {None}) /\ n \in Nat
    BY DEF TypeOK
  <2>4. n \in 1..Chunks
    BY <1>5, <2>3 DEF ReadChunk, AtEnd
  <2>5. f[n] = known[s]
    BY <2>2, <2>4 DEF Upto
  <2>6. Len(sent'[s]) = n /\ \A i \in 1..n : sent'[s][i] = known[s]
    BY <2>1, <2>2, <2>3, <2>5
  <2>7. QED
    BY <2>1, <2>2, <2>4, <2>6 DEF BundleInv
<1>6. CASE Served(s)
  <2>1. /\ stage[s] = "streaming" /\ stage'[s] = "served"
        /\ known'[s] = known[s] /\ sent'[s] = sent[s]
    BY <1>6 DEF TypeOK, Served
  <2>2. /\ known[s] \in Version /\ Upto(f, Chunks, known[s])
        /\ Len(sent[s]) <= Chunks
        /\ \A i \in 1..Len(sent[s]) : sent[s][i] = known[s]
    BY <2>1 DEF BundleInv
  <2>3. sent[s] \in Seq(Version \cup {None})
    BY DEF TypeOK
  <2>4. \A i \in 1..Chunks : i > Len(sent[s]) => f[i] = None
    BY <1>6 DEF Served, AtEnd, File, Outdir
  <2>5. ~ Len(sent[s]) < Chunks
    <3> SUFFICES ASSUME Len(sent[s]) < Chunks PROVE FALSE
      OBVIOUS
    <3>1. Chunks \in 1..Chunks
      OBVIOUS
    <3>2. f[Chunks] = None /\ f[Chunks] = known[s]
      BY <2>2, <2>4, <3>1 DEF Upto
    <3>3. QED
      BY <2>2, <3>2
  <2>6. Len(sent[s]) = Chunks
    BY <2>2, <2>3, <2>5
  <2>7. sent[s] = [i \in 1..Chunks |-> known[s]]
    BY <2>2, <2>3, <2>6
  <2>8. QED
    BY <2>1, <2>7 DEF BundleInv, Whole
<1>7. CASE StreamBreaks(s)
  BY <1>7 DEF StreamBreaks, BundleInv, Upto, Whole
<1>8. QED
  BY <1>1, <1>2, <1>3, <1>4, <1>5, <1>6, <1>7 DEF Step, Progress

LEMMA InvInit == Init => Inv
<1> SUFFICES ASSUME Init PROVE Inv
  OBVIOUS
<1>1. Alone
  BY DEF Init, Alone, InFlight
<1>2. \A r \in Request : RequestInv(r)
  BY DEF Init, RequestInv, NotYet, BundleInv
<1>3. BuiltInv
  BY DEF Init, BuiltInv
<1>4. QED
  BY <1>1, <1>2, <1>3, TypeInit DEF Inv

LEMMA InvNext == Inv /\ [Next]_vars => Inv'
<1> SUFFICES ASSUME Inv, [Next]_vars PROVE Inv'
  OBVIOUS
<1>1. TypeOK /\ Alone /\ TypeOK' /\ BuiltInv'
  BY TypeNext DEF Inv
<1>2. ASSUME NEW s \in Request, Step(s) PROVE Alone' /\ \A r \in Request : RequestInv(r)'
  <2>1. Alone' /\ shared \subseteq shared'
    BY <1>1, <1>2, AloneNext, StepIsLocal
  <2>2. RequestInv(s)'
    BY <1>1, <1>2, <2>1, OwnNotYet, OwnKeepsInv DEF Inv, RequestInv
  <2>3. ASSUME NEW r \in Request \ {s} PROVE RequestInv(r)'
    BY <1>1, <1>2, OthersKeepInv DEF Inv
  <2>4. QED
    BY <2>1, <2>2, <2>3
<1>3. ASSUME Save \/ UNCHANGED vars PROVE Alone' /\ \A r \in Request : RequestInv(r)'
  <2>1. UNCHANGED <<outfile, stage, shared, platform, built, written, known, sent>>
    BY <1>3 DEF Save, vars, givenVars, buildVars, clientVars
  <2>2. Alone'
    BY <1>1, <2>1 DEF Alone, InFlight
  <2>3. ASSUME NEW r \in Request PROVE RequestInv(r)'
    <3>1. RequestInv(r)
      BY DEF Inv
    <3>2. QED
      BY <2>1, <3>1 DEF RequestInv, NotYet, BundleInv, Upto, Whole
  <2>4. QED
    BY <2>2, <2>3
<1>4. QED
  BY <1>1, <1>2, <1>3 DEF Inv, Next

(* A client with whose request no other one for its platform was in flight *)
(* has been streamed the whole bundle whose modules the server takes it to *)
(* have, whatever is saved meanwhile, whatever fails, whatever is bundled  *)
(* for other platforms, and however other requests overlap.                *)
THEOREM LoneBundlesAreWhole == Spec => []LoneIsWhole
<1>1. Init => Inv
  BY InvInit
<1>2. Inv /\ [Next]_vars => Inv'
  BY InvNext
<1>3. Inv => LoneIsWhole
  BY DEF Inv, RequestInv, BundleInv, LoneIsWhole
<1>4. QED
  BY <1>1, <1>2, <1>3, PTL DEF Spec
-----------------------------------------------------------------------------
(***************************************************************************)
(* The override of the helper: either no match has been streamed yet, or   *)
(* the first of all matches is the one that was replaced.                  *)
(***************************************************************************)
HelperInv ==
    \A r \in Request :
        \/ replaced[r] = {} /\ \A j \in Helpers : j > Len(sent[r])
        \/ \E i \in Helpers : replaced[r] = {i} /\ \A j \in Helpers : i <= j

LEMMA HelpersAreNumbers == Chunks \in Nat /\ \A j \in Helpers : j \in 1..Chunks
BY FullBundleAssumption

LEMMA HelperInit == Init => HelperInv
<1> SUFFICES ASSUME Init, NEW r \in Request
             PROVE  replaced[r] = {} /\ \A j \in Helpers : j > Len(sent[r])
  BY DEF HelperInv
<1>1. replaced[r] = {} /\ sent[r] = <<>>
  BY DEF Init
<1>2. Len(sent[r]) = 0
  BY <1>1
<1>3. \A j \in Helpers : j > Len(sent[r])
  BY <1>2, HelpersAreNumbers
<1>4. QED
  BY <1>1, <1>3

LEMMA HelperNext == TypeOK /\ HelperInv /\ [Next]_vars => HelperInv'
<1> SUFFICES ASSUME TypeOK, HelperInv, [Next]_vars PROVE HelperInv'
  OBVIOUS
<1>1. CASE UNCHANGED <<sent, replaced>>
  BY <1>1 DEF HelperInv
<1>2. ASSUME NEW s \in Request, ReadChunk(s) PROVE HelperInv'
  <2> DEFINE n == Len(sent[s]) + 1
             c == outfile[File(s)][n]
  <2>1. sent[s] \in Seq(Version \cup {None}) /\ n \in Nat /\ Len(sent[s]) \in Nat
    BY DEF TypeOK
  <2>2. n \in 1..Chunks
    BY <1>2, <2>1, HelpersAreNumbers DEF ReadChunk, AtEnd
  <2>11. c \in Version \cup {None}
    BY <2>2 DEF TypeOK, File, Outdir
  <2>3. sent'[s] = Append(sent[s], c)
    BY <1>2 DEF ReadChunk, TypeOK
  <2>4. Len(sent'[s]) = n
    BY <2>1, <2>3, <2>11
  <2>5. replaced'[s] =
            IF n \in Helpers /\ replaced[s] = {} THEN {n} ELSE replaced[s]
    BY <1>2 DEF ReadChunk, TypeOK, IsDone
  <2>6. \A r \in Request \ {s} : sent'[r] = sent[r] /\ replaced'[r] = replaced[r]
    BY <1>2 DEF ReadChunk, TypeOK
  <2>7. \A j \in Helpers : j \in Nat
    BY HelpersAreNumbers
  <2>8. CASE replaced[s] = {} /\ \A j \in Helpers : j > Len(sent[s])
    <3>1. \A j \in Helpers : j >= n
      BY <2>1, <2>7, <2>8
    <3>2. CASE n \in Helpers
      BY <2>5, <2>6, <2>8, <3>1, <3>2 DEF HelperInv
    <3>3. CASE n \notin Helpers
      <4>1. replaced'[s] = {} /\ \A j \in Helpers : j > Len(sent'[s])
        BY <2>1, <2>4, <2>5, <2>7, <2>8, <3>1, <3>3
      <4>2. QED
        BY <2>6, <4>1 DEF HelperInv
    <3>4. QED
      BY <3>2, <3>3
  <2>9. CASE \E i \in Helpers : replaced[s] = {i} /\ \A j \in Helpers : i <= j
    BY <2>5, <2>6, <2>9 DEF HelperInv
  <2>10. QED
    BY <2>8, <2>9 DEF HelperInv
<1>3. QED
  BY <1>1, <1>2 DEF Next, Step, Progress, vars, clientVars, Save, BundleRequest, Rejected,
                    BannerThrows, Bundled, WriteChunk, Built, IncludeFails, BuildFailed,
                    ErrorSent, Served, StreamBreaks

(* The helper is overridden in every bundle that is served while no other  *)
(* request for its platform is in flight, and only where it comes first,   *)
(* however many streams there are and wherever the matches are.            *)
THEOREM HelperIsOverridden == Spec => []FirstHelperOnly
<1>1. Init => Inv /\ HelperInv
  BY InvInit, HelperInit
<1>2. Inv /\ HelperInv /\ [Next]_vars => (Inv /\ HelperInv)'
  BY InvNext, HelperNext DEF Inv
<1>3. Inv /\ HelperInv => FirstHelperOnly
  <2> SUFFICES ASSUME Inv, HelperInv, NEW r \in Request \ shared, stage[r] = "served"
               PROVE  replaced[r] = {i \in Helpers : \A j \in Helpers : i <= j}
    BY DEF FirstHelperOnly
  <2>1. Len(sent[r]) = Chunks
    BY HelpersAreNumbers DEF Inv, RequestInv, BundleInv, Whole
  <2>2. Chunks \in Nat /\ \A j \in Helpers : j \in Nat /\ j <= Chunks
    BY HelpersAreNumbers
  <2>3. CASE replaced[r] = {} /\ \A j \in Helpers : j > Len(sent[r])
    <3>1. Helpers = {}
      BY <2>1, <2>2, <2>3
    <3>2. QED
      BY <2>3, <3>1
  <2>4. CASE \E i \in Helpers : replaced[r] = {i} /\ \A j \in Helpers : i <= j
    <3>1. PICK i \in Helpers : replaced[r] = {i} /\ \A j \in Helpers : i <= j
      BY <2>4
    <3>2. \A k \in Helpers : (\A j \in Helpers : k <= j) => k = i
      BY <2>2, <3>1
    <3>3. QED
      BY <3>1, <3>2
  <2>5. QED
    BY <2>3, <2>4 DEF HelperInv
<1>4. QED
  BY <1>1, <1>2, <1>3, PTL DEF Spec
-----------------------------------------------------------------------------
(***************************************************************************)
(* The symbolicators: before the preamble of a bundle of its platform is   *)
(* written an offset is 0, and before a map is included there is no route. *)
(* This holds however requests overlap.                                    *)
(***************************************************************************)
PlacedInv ==
    /\ \A p \in Platform :
          (\A r \in Request : PastBuild(r) => platform[r] # p) => offset[p] = 0
    /\ (\A r \in Request : ~PastBuild(r)) => route = None
    /\ FirstBundlePlaced

LEMMA PlacedInit == Init => PlacedInv
BY DEF Init, PlacedInv, PastBuild, FirstBundlePlaced

LEMMA PlacedNext == TypeOK /\ BuiltInv /\ PlacedInv /\ [Next]_vars => PlacedInv'
<1> SUFFICES ASSUME TypeOK, BuiltInv, PlacedInv, [Next]_vars PROVE PlacedInv'
  OBVIOUS
<1>1. ASSUME NEW s \in Request, Built(s) \/ IncludeFails(s) PROVE PlacedInv'
  <2>1. /\ platform' = platform /\ built' = built /\ platform[s] \in Platform
        /\ ~PastBuild(s) /\ PastBuild(s)'
        /\ \A r \in Request \ {s} : stage'[r] = stage[r]
        /\ \A p \in Platform \ {platform[s]} : offset'[p] = offset[p]
    BY <1>1 DEF Built, IncludeFails, PastBuild, TypeOK, givenVars, buildVars
  <2>2. FirstBundlePlaced'
    <3> SUFFICES ASSUME NEW r \in Request, stage'[r] \in {"streaming", "served"},
                        \A q \in Request \ {r} : ~PastBuild(q)'
                 PROVE  placed'[r] = PreambleLines(r)' + 1 /\ route' = platform'[r]
      BY DEF FirstBundlePlaced
    <3>1. r = s /\ \A q \in Request : ~PastBuild(q)
      BY <2>1 DEF PastBuild
    <3>2. offset[platform[s]] = 0 /\ route = None
      BY <2>1, <3>1 DEF PlacedInv
    <3>3. Built(s)
      BY <1>1, <3>1 DEF IncludeFails, TypeOK
    <3>4. placed'[s] = Counted(s) /\ route' = platform[s]
      <4>1. built[s] \in Version
        BY <3>3 DEF Built, BuiltInv
      <4>2. Counted(s) \in Nat
        BY <4>1, BuiltHasLines
      <4>3. QED
        BY <3>2, <3>3, <4>2 DEF Built, TypeOK
    <3>5. Counted(s) = PreambleLines(s) + 1 /\ PreambleLines(s)' = PreambleLines(s)
      BY <2>1, <3>3, BuiltHasLines DEF Built, BuiltInv, PreambleLines
    <3>6. QED
      BY <2>1, <3>1, <3>4, <3>5
  <2>3. ASSUME NEW p \in Platform, \A r \in Request : PastBuild(r)' => platform'[r] # p
        PROVE  offset'[p] = 0
    <3>1. p # platform[s]
      BY <2>1, <2>3
    <3>2. \A r \in Request : PastBuild(r) => platform[r] # p
      BY <2>1, <2>3, <3>1 DEF PastBuild
    <3>3. QED
      BY <2>1, <3>1, <3>2 DEF PlacedInv
  <2>4. QED
    BY <2>1, <2>2, <2>3 DEF PlacedInv
<1>2. ASSUME NEW s \in Request, Step(s), ~Built(s), ~IncludeFails(s) PROVE PlacedInv'
  <2>1. UNCHANGED <<platform, symbolicatorVars>>
    BY <1>2 DEF Step, Progress, BundleRequest, Rejected, BannerThrows, Bundled,
                WriteChunk, BuildFailed, ErrorSent, ReadChunk, Served, StreamBreaks,
                givenVars
  <2>2. \A r \in Request :
           /\ PastBuild(r)' <=> PastBuild(r)
           /\ PastBuild(r) => built'[r] = built[r]
           /\ stage'[r] \in {"streaming", "served"} =>
                  stage[r] \in {"streaming", "served"}
    BY <1>2 DEF TypeOK, PastBuild, Step, Progress, BundleRequest, Rejected, BannerThrows,
                Bundled, WriteChunk, BuildFailed, ErrorSent, ReadChunk, Served,
                StreamBreaks, buildVars
  <2>3. FirstBundlePlaced'
    <3> SUFFICES ASSUME NEW r \in Request, stage'[r] \in {"streaming", "served"},
                        \A q \in Request \ {r} : ~PastBuild(q)'
                 PROVE  placed'[r] = PreambleLines(r)' + 1 /\ route' = platform'[r]
      BY DEF FirstBundlePlaced
    <3>1. /\ stage[r] \in {"streaming", "served"} /\ PastBuild(r)
          /\ \A q \in Request \ {r} : ~PastBuild(q)
      BY <2>2 DEF PastBuild
    <3>2. placed[r] = PreambleLines(r) + 1 /\ route = platform[r]
      BY <3>1 DEF PlacedInv, FirstBundlePlaced
    <3>3. PreambleLines(r)' = PreambleLines(r)
      BY <2>2, <3>1 DEF PreambleLines
    <3>4. QED
      BY <2>1, <3>2, <3>3 DEF symbolicatorVars
  <2>4. QED
    BY <2>1, <2>2, <2>3 DEF PlacedInv, symbolicatorVars
<1>3. CASE Save \/ UNCHANGED vars
  BY <1>3 DEF Save, vars, givenVars, buildVars, symbolicatorVars, PlacedInv, PastBuild,
              FirstBundlePlaced, PreambleLines
<1>4. QED
  BY <1>1, <1>2, <1>3 DEF Next

(* As long as the preamble of one bundle has been written, its map lies at *)
(* the line after the preamble's own, by the count of the code, and in the *)
(* platform's own symbolicator, whatever builds failed or are under way.   *)
THEOREM FirstBundleIsPlaced == Spec => []FirstBundlePlaced
<1>1. Init => TypeOK /\ BuiltInv /\ PlacedInv
  BY TypeInit, PlacedInit DEF Init, BuiltInv
<1>2. TypeOK /\ BuiltInv /\ PlacedInv /\ [Next]_vars =>
          (TypeOK /\ BuiltInv /\ PlacedInv)'
  BY TypeNext, PlacedNext
<1>3. PlacedInv => FirstBundlePlaced
  BY DEF PlacedInv
<1>4. QED
  BY <1>1, <1>2, <1>3, PTL DEF Spec
=============================================================================
