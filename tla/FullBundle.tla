----------------------------- MODULE FullBundle -----------------------------
(***************************************************************************)
(* Full bundles of several clients.  All requests for one platform share   *)
(* one dev bundler: one incremental esbuild build, and one output file.    *)
(* "Going through fs is faster": esbuild writes the bundle to the file,    *)
(* and the handler streams the file to the client afterwards, while it     *)
(* takes the list of the client's modules from the build's metafile.       *)
(*                                                                         *)
(* The project is its version: the number of saves so far.  A bundle is    *)
(* cut into the chunks it is written and read in, each of which says of    *)
(* what version it is.  A rebuild makes what a first build would make.     *)
(* The preamble (socket url, runtime, module graph) goes out before the    *)
(* first chunk; the symbolicator counts its lines, to know where in what   *)
(* the client got the bundle begins.  The runtime is built once per        *)
(* platform.                                                               *)
(***************************************************************************)
EXTENDS Naturals, Sequences

CONSTANTS
    Request,     \* GET /index.bundle, each with a ClientKnownModules of its own
    Platform,
    Chunks,      \* the length of a bundle, in chunks
    Helpers,     \* the chunks in which esbuild_helper_regExp matches
    MaxVersion,  \* at most this many versions of the project (a bound)
    BannerLines, \* the newlines in the text of the runtime
    GraphLines,  \* GraphLines[v]: the lines of version v's module graph
    None

Version == 1..MaxVersion

ASSUME FullBundleAssumption ==
    /\ Chunks \in Nat \ {0} /\ MaxVersion \in Nat \ {0}
    /\ Helpers \subseteq 1..Chunks
    /\ BannerLines \in Nat /\ GraphLines \in [Version -> Nat \ {0}]
    /\ None \notin Version /\ None \notin Nat /\ None \notin Platform

VARIABLES
    up,        \* the server process is running
    version,   \* of the project on disk
    outfile,   \* the chunks of every output file; None is past its end, or a hole
    stage,     \* of every request
    platform,  \* that the request is for
    built,     \* the version that the request's build has bundled
    written,   \* the chunks that this build has written
    known,     \* ClientKnownModules: the version they come from, or None
    sent,      \* the chunks streamed to the client
    replaced,  \* those of them in which the helper has been overridden
    banner,    \* of every platform: banner_promise is fulfilled, not rejected
    offset,    \* current_offset of every platform's symbolicator
    placed,    \* where the source map of the request's bundle was included
    route,     \* the platform of the first /symbolicate handler, or None
    shared     \* the requests that were in flight with another for their
               \* platform (history only: nothing depends on it)

givenVars == <<platform, banner>>
buildVars == <<version, outfile, built, written>>
clientVars == <<known, sent, replaced>>
symbolicatorVars == <<offset, placed, route>>

vars == <<up, stage, shared, givenVars, buildVars, clientVars, symbolicatorVars>>

(* "failed": the build failed and the client has got the error.  "ending": *)
(* the client is getting the error after a preamble, and then has "ended". *)
Stage == {"none", "building", "writing", "streaming", "served", "failed",
          "ending", "ended", "unanswered"}

InFlight == {r \in Request : stage[r] \in {"building", "writing", "streaming"}}

(* Mutant: all platforms are built into one directory. *)
OneOutdir(p) == CHOOSE q \in Platform : TRUE

(* outdir: `.tgv-cache/${platform}`. *)
Outdir(p) == p

File(r) == Outdir(platform[r])

NoChunks == [i \in 1..Chunks |-> None]

Init ==
    /\ up = TRUE
    /\ version = 1
    /\ outfile = [p \in Platform |-> NoChunks]
    /\ stage = [r \in Request |-> "none"]
    /\ platform \in [Request -> Platform]
    /\ built = [r \in Request |-> None]
    /\ written = [r \in Request |-> 0]
    /\ known = [r \in Request |-> None]
    /\ sent = [r \in Request |-> <<>>]
    /\ replaced = [r \in Request |-> {}]
    /\ banner \in [Platform -> BOOLEAN]
    /\ offset = [p \in Platform |-> 0]
    /\ placed = [r \in Request |-> None]
    /\ route = None
    /\ shared = {}

Save ==
    /\ version < MaxVersion
    /\ version' = version + 1
    /\ UNCHANGED <<up, stage, shared, outfile, built, written>>
    /\ UNCHANGED <<givenVars, clientVars, symbolicatorVars>>
-----------------------------------------------------------------------------
Together(r) == {q \in InFlight : platform[q] = platform[r]}

(* bundle_request, get_bundler and build_full_bundle up to the build.      *)
BundleRequest(r) ==
    /\ stage[r] = "none"
    /\ banner[platform[r]]
    /\ stage' = [stage EXCEPT ![r] = "building"]
    /\ known' = [known EXCEPT ![r] = None]
    /\ shared' = IF Together(r) = {} THEN shared
                 ELSE shared \cup Together(r) \cup {r}
    /\ UNCHANGED <<up, sent, replaced>>
    /\ UNCHANGED <<givenVars, buildVars, symbolicatorVars>>

(* The query has no platform, or no configuration can be made of it: what  *)
(* bundle_request throws is printed, and the response never ended.         *)
Rejected(r) ==
    /\ stage[r] = "none"
    /\ stage' = [stage EXCEPT ![r] = "unanswered"]
    /\ UNCHANGED <<up, shared, givenVars, buildVars, clientVars, symbolicatorVars>>

(* So it is when `await banner_promise` throws, outside of the try. *)
BannerThrows(r) ==
    /\ stage[r] = "none"
    /\ ~banner[platform[r]]
    /\ stage' = [stage EXCEPT ![r] = "unanswered"]
    /\ UNCHANGED <<up, shared, givenVars, buildVars, clientVars, symbolicatorVars>>

(* esbuild has bundled the project and opens the output file for writing. *)
Bundled(r) ==
    /\ stage[r] = "building"
    /\ stage' = [stage EXCEPT ![r] = "writing"]
    /\ built' = [built EXCEPT ![r] = version]
    /\ outfile' = [outfile EXCEPT ![File(r)] = NoChunks]
    /\ UNCHANGED <<up, shared, version, written>>
    /\ UNCHANGED <<givenVars, clientVars, symbolicatorVars>>

WriteChunk(r) ==
    /\ stage[r] = "writing"
    /\ written[r] < Chunks
    /\ written' = [written EXCEPT ![r] = @ + 1]
    /\ outfile' = [outfile EXCEPT ![File(r)][written[r] + 1] = built[r]]
    /\ UNCHANGED <<up, stage, shared, version, built>>
    /\ UNCHANGED <<givenVars, clientVars, symbolicatorVars>>

(* What the three calls of symbolicator.offset add for the preamble: the   *)
(* pieces between the newlines of the runtime, which ends in one, are one  *)
(* more than its lines.                                                    *)
Counted(r) == 1 + (BannerLines + 1) + GraphLines[built[r]]

(* The rest of build_full_bundle: the preamble is written and counted, the *)
(* output file has yet to be read; the metafile's inputs are the client's  *)
(* modules from now on; the map goes to the current offset, and            *)
(* bundle_request adds a handler for /symbolicate, of which the first one  *)
(* ever added answers.                                                     *)
Built(r) ==
    /\ stage[r] = "writing"
    /\ written[r] = Chunks
    /\ stage' = [stage EXCEPT ![r] = "streaming"]
    /\ known' = [known EXCEPT ![r] = built[r]]
    /\ offset' = [offset EXCEPT ![platform[r]] = @ + Counted(r)]
    /\ placed' = [placed EXCEPT ![r] = offset[platform[r]] + Counted(r)]
    /\ route' = IF route = None THEN platform[r] ELSE route
    /\ UNCHANGED <<up, shared, sent, replaced, givenVars, buildVars>>

(* includeBundle cannot read or parse the map beside the output file, when *)
(* the preamble is on its way and the output file is about to be: the      *)
(* catch forgets the modules and ends the response with the error.  The    *)
(* lines stay counted; nothing is placed, and no handler is added.         *)
IncludeFails(r) ==
    /\ stage[r] = "writing"
    /\ written[r] = Chunks
    /\ stage' = [stage EXCEPT ![r] = "ending"]
    /\ known' = [known EXCEPT ![r] = None]
    /\ offset' = [offset EXCEPT ![platform[r]] = @ + Counted(r)]
    /\ UNCHANGED <<up, shared, sent, replaced, placed, route, givenVars, buildVars>>

(* Mutants: url and runtime are counted before the build; the stream is    *)
(* not ended.                                                              *)
BuildFailedCounted(r) ==
    /\ stage[r] \in {"building", "writing"}
    /\ stage' = [stage EXCEPT ![r] = "failed"]
    /\ known' = [known EXCEPT ![r] = None]
    /\ offset' = [offset EXCEPT ![platform[r]] = @ + BannerLines + 2]
    /\ UNCHANGED <<up, shared, sent, replaced, placed, route, givenVars, buildVars>>
BuildFailedSilently(r) ==
    /\ stage[r] \in {"building", "writing"}
    /\ stage' = [stage EXCEPT ![r] = "unanswered"]
    /\ UNCHANGED <<up, shared, givenVars, buildVars, clientVars, symbolicatorVars>>

(* esbuild fails, be it while it writes: the client gets                   *)
(* `throw new Error(...)` alone, and nothing is known of it.               *)
BuildFailed(r) ==
    /\ stage[r] \in {"building", "writing"}
    /\ stage' = [stage EXCEPT ![r] = "failed"]
    /\ known' = [known EXCEPT ![r] = None]
    /\ UNCHANGED <<up, shared, sent, replaced>>
    /\ UNCHANGED <<givenVars, buildVars, symbolicatorVars>>

(* Preamble and error are through before the output file has been opened:  *)
(* the stream that reads it is unpiped.                                    *)
ErrorSent(r) ==
    /\ stage[r] = "ending"
    /\ stage' = [stage EXCEPT ![r] = "ended"]
    /\ UNCHANGED <<up, shared, givenVars, buildVars, clientVars, symbolicatorVars>>

(* The output file cannot be read, or its first chunk is written to a      *)
(* response that the catch has ended: neither stream has a handler for     *)
(* errors, and the process has none for what nobody catches.               *)
StreamBreaks(r) ==
    /\ stage[r] \in {"streaming", "ending"}
    /\ up' = FALSE
    /\ UNCHANGED <<stage, shared, givenVars, buildVars, clientVars, symbolicatorVars>>

AtEnd(r) == \A i \in 1..Chunks : i > Len(sent[r]) => outfile[File(r)][i] = None

(* Mutant: one is_done for all streams. *)
IsDoneForAll(r) == \E q \in Request : replaced[q] # {}

IsDone(r) == replaced[r] # {}

(* A chunk is read, and passes create_cjs_override_transform.              *)
ReadChunk(r) ==
    /\ stage[r] = "streaming"
    /\ ~AtEnd(r)
    /\ LET i == Len(sent[r]) + 1
       IN  /\ sent' = [sent EXCEPT ![r] = Append(@, outfile[File(r)][i])]
           /\ replaced' = [replaced EXCEPT
                  ![r] = IF i \in Helpers /\ ~IsDone(r) THEN @ \cup {i} ELSE @]
    /\ UNCHANGED <<up, stage, shared, known, givenVars, buildVars, symbolicatorVars>>

Served(r) ==
    /\ stage[r] = "streaming"
    /\ AtEnd(r)
    /\ stage' = [stage EXCEPT ![r] = "served"]
    /\ UNCHANGED <<up, shared, givenVars, buildVars, clientVars, symbolicatorVars>>

(* What goes on by itself once a request has been made. *)
Progress(r) ==
    \/ Bundled(r) \/ WriteChunk(r) \/ Built(r) \/ IncludeFails(r)
    \/ BuildFailed(r) \/ ErrorSent(r) \/ ReadChunk(r) \/ Served(r)

Step(r) ==
    \/ BundleRequest(r) \/ Rejected(r) \/ BannerThrows(r)
    \/ Progress(r) \/ StreamBreaks(r)

Next == Save \/ \E r \in Request : up /\ Step(r)

Spec == Init /\ [][Next]_vars

(* esbuild and the streams never stop while they have something to do. *)
FairSpec == Spec /\ \A r \in Request : WF_vars(up /\ Progress(r))
-----------------------------------------------------------------------------
TypeOK ==
    /\ up \in BOOLEAN
    /\ shared \subseteq Request
    /\ version \in Version
    /\ outfile \in [Platform -> [1..Chunks -> Version \cup {None}]]
    /\ stage \in [Request -> Stage]
    /\ platform \in [Request -> Platform]
    /\ built \in [Request -> Version \cup {None}]
    /\ written \in [Request -> 0..Chunks]
    /\ known \in [Request -> Version \cup {None}]
    /\ sent \in [Request -> Seq(Version \cup {None})]
    /\ replaced \in [Request -> SUBSET (1..Chunks)]
    /\ banner \in [Platform -> BOOLEAN]
    /\ offset \in [Platform -> Nat]
    /\ placed \in [Request -> Nat \cup {None}]
    /\ route \in Platform \cup {None}

(***************************************************************************)
(* The modules that the server takes a client to have are the ones in the  *)
(* bundle that was streamed to it, which is whole (dev-bundler.ts:99-104): *)
(* a module that hot reloading leaves out is "already present in the       *)
(* client" (esbuild-plugin-hot-module.ts:22).                              *)
(***************************************************************************)
Whole(r) == sent[r] = [i \in 1..Chunks |-> known[r]]

KnownIsServed == \A r \in Request : stage[r] = "served" => Whole(r)

(***************************************************************************)
(* That is so, at least, for a request during which there was no other for *)
(* its platform, whatever was asked for before and after it or for other   *)
(* platforms, whatever failed, and whatever is saved meanwhile.            *)
(***************************************************************************)
LoneIsWhole == \A r \in Request \ shared : stage[r] = "served" => Whole(r)

(***************************************************************************)
(* In every bundle that has been served and not been overtaken by another  *)
(* for its platform, whatever other bundles were streamed before or at the *)
(* same time, the helper is overridden, and only where it comes first      *)
(* (dev-bundler.ts:180-207): a later match is the text of some module.     *)
(***************************************************************************)
FirstHelperOnly ==
    \A r \in Request \ shared :
        stage[r] = "served" =>
            replaced[r] = {i \in Helpers : \A j \in Helpers : i <= j}

(* Its build has come as far as the preamble. *)
PastBuild(r) == stage[r] \in {"streaming", "served", "ending", "ended"}

(* What the client gets before the bundle, in lines. *)
PreambleLines(r) == 1 + BannerLines + GraphLines[built[r]]

(***************************************************************************)
(* As long as the preamble of one bundle has been written, a frame of it   *)
(* is looked for in its own platform's map, which lies one line further    *)
(* down than the preamble is long, whatever builds esbuild has failed      *)
(* before: that line is the one by which "we need to start at -1" and "the *)
(* offset is off by 1" (symbolicator.ts:9, :22).                           *)
(***************************************************************************)
FirstBundlePlaced ==
    \A r \in Request :
        /\ stage[r] \in {"streaming", "served"}
        /\ \A q \in Request \ {r} : ~PastBuild(q)
        => placed[r] = PreambleLines(r) + 1 /\ route = platform[r]

(***************************************************************************)
(* Once its bundling has begun, a request is answered in the end, with a   *)
(* bundle or with the error that the client shows, however requests        *)
(* overlap and wherever in build_full_bundle something is thrown           *)
(* (dev-bundler.ts:107-109), unless the process comes to its end.  What is *)
(* refused before, for its query, its configuration or a runtime that      *)
(* could not be built, is never answered.                                  *)
(***************************************************************************)
Answered ==
    \A r \in Request :
        stage[r] = "building" ~> \/ stage[r] \in {"served", "failed", "ended"}
                                 \/ ~up
=============================================================================
