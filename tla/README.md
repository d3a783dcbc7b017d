# tgv, verified

tgv is a bundler and dev server for React Native apps, built on esbuild. `tgv
start` serves bundles, watches the project, and keeps running apps up to date
with hot module replacement (HMR); `tgv bundle` makes a release. This directory
holds TLA+ models of its stateful parts, the TLC configurations that check them
on small instances, and proofs of their main invariants for all instances.

Source paths below are relative to `src/src/`; "`hmr.md`" and the like are files
of `src/notes/`.

## 1. The system

| component | state it keeps | operations | correct when |
|---|---|---|---|
| **dev bundler** `dev-server/bundler/*` | per platform: an incremental esbuild build and its output file; per client: `ClientKnownModules` | `build_full_bundle`, `build_hmr_payload`, the hot-module and hmr-bundle esbuild plugins | known modules are those the client has; an update has the changed modules and new ones, and stubs for the rest |
| **request handler** `dev-server-command.ts` | per request: `has_error`, the watcher, the socket server | `bundle_request`, the watcher callback, `on_close` | every save of a known file is built and sent; watchers end with their session |
| **file watcher** `utils/fs-watcher.ts` | a subscription | `watch_fs` | events or an error |
| **socket server** `dev-server/server/hmr-wss.ts`, `http-server.ts` | one `WebSocketServer` per session; connected sockets; request handlers | upgrade routing, `send_update`, reconnection signal | an update goes to the session it is for |
| **module registry** `dev-server/runtimes/require.runtime.ts` (in the app) | run cache, result cache, module graph | `$UPDATE_MODULE_GRAPH`, `$COMMONJS`, `require`, `$PERFORM_REFRESH` | code, results and graph agree; a refresh reruns everything between a changed module and the nearest boundaries |
| **socket client** `dev-server/runtimes/ws-client.runtime.ts` (in the app) | socket, `was_connected`, a polling interval, an abort controller | evaluate updates, reconnect | the app finds the server again |
| **caches** `utils/cached-fn.ts` | a map in memory and a file per cached function | `cached_fn`, load, persist on `exit`/SIGINT | an answer is the function of the call's data; what was in memory is saved |
| **transforms** `shared/esbuild-plugin-transform.ts`, `plugins/*` | none (but the cache) | filter, flow, svg, reanimated, swc | esbuild gets what it can compile |
| **worker pool** `utils/worker-pool/*` | threads | run a transform | - |
| **symbolicator** `dev-server/symbolicator/*` | source maps and line offsets | add a bundle, symbolicate | frames map to the right bundle |
| **assets** `shared/plugin-assets.ts`, `shared/assets-helpers/*` | none (but the cache and an output directory) | `parse_dir`, copy for release | the right files, scales and size |
| **release bundler** `prod-bundler*` | none | one build | - |
| **commands, config, console, logger** | options, the console's line | parsing and printing | - |

How they interact:

    editor --save--> disk --event--> watcher --callback--> build_hmr_payload --update--> socket
                      |                                        ^   |                       |
                      +---- read by builds ---------- ClientKnownModules             app: evaluate,
                      |                                        |                      $PERFORM_REFRESH
    app --GET /index.bundle--> build_full_bundle --------------+--bundle--> app: run, connect

The server is one Node process: callbacks do not interrupt each other, but every
`await` is a point where another may run. The app is one JavaScript thread: a
message handler runs to its end. What makes the system hard is what is shared
across awaits:

* every watcher event starts a build of its own on the same `ClientKnownModules`,
  so builds of one client overlap, and each one *decides what to send by a set
  that the other one changes* (`dev-bundler.ts:126-169`);
* files change while they are being built, and before they are watched;
* the app is told of modules that it is not sent, and has to have them;
* the app's registry is updated piecemeal: code, graph and results by different
  calls, in an order that matters;
* sockets, server and app may go away independently, at any moment;
* one output file per platform is shared by all clients (`dev-bundler.ts:99`);
* cache files are written by exit handlers, and may be cut short.

`PROJECT.json` lists each hazard with its line and the properties that guard it.

## 2. The modules

| module | stands for | lines it is read from |
|---|---|---|
| `SourceFiles` | a project: contents of files, what they import and export, whether they compile; what esbuild discovers | esbuild as used; the stub of `esbuild-plugin-hot-module.ts` |
| `DevBundler` | the server half of HMR for one client | `dev-bundler.ts`, `dev-server-command.ts`, `fs-watcher.ts`, `hmr-wss.ts`, both esbuild plugins |
| `RequireRuntime` | the app half: the module registry as functions on a record, and the message handler | `require.runtime.ts`, `ws-client.runtime.ts` |
| `Hmr` | both halves, joined by bundle and socket | - |
| `HotReload` | what hot reloading promises: the app is given the whole project of one moment, but for saves that were lost | `dev-server-command.ts`, `require.runtime.ts` |
| `HmrGiven` | `Hmr` with two history variables, shown to implement `HotReload` | `require.runtime.ts` (`$COMMONJS`), `dev-server-command.ts` |
| `RequireFn` | `require` as the call stack it is, with modules that throw and the registrar of components | `require.runtime.ts` |
| `RefreshWalk` | `$PERFORM_REFRESH` as the recursions it is (`find_refresh_boundaries`, call by call, then `require`), against what `RequireRuntime` says it computes | `require.runtime.ts` |
| `HmrSession` | life and death of sessions, sockets, watchers, server and app | `dev-server-command.ts`, `hmr-wss.ts`, `http-server.ts`, `ws-client.runtime.ts` |
| `FullBundle` | several clients and platforms sharing output files; streaming with the override of esbuild's helper; the symbolicator's offsets and route | `dev-bundler.ts`, `symbolicator.ts`, `dev-server-command.ts` |
| `CachedFn` | caches in memory and on disk, several processes | `cached-fn.ts` |
| `Transform` | the plugins of a configuration on one file | `esbuild-plugin-transform.ts`, `plugins/*` |
| `Assets` | the assets plugin on several assets at once, the copies of a release, what a device shows | `plugin-assets.ts`, `assetPathUtils.ts`, `http-server.ts` |
| `MC*` | small projects, packages and lists for TLC | - |
| `*Proofs` | theorems about the module of that name; `RefreshWalkProofs` has those about `RequireFn`, `HmrProofs` those about `HmrGiven` | - |

### How state and actions correspond to the code

**SourceFiles.** A file is `[rev, imports, exports, compiles]`: the text abstracted
to what the system acts on. `exports` is what `is_react_refresh_boundary` tells
apart. An import that does not resolve and a deleted file are `compiles = FALSE`.
`Stub` is the module that the hot-module plugin substitutes, `module.__hot_cached
= true`. A stub has an empty import list, as its text requires nothing. `Discovered`
is how esbuild goes about a build: the entry points and what the loaded code
imports. `Transformed` are the files with an extension that a transform plugin
claims: the hot-module plugin is registered for those only, so that other files
are never stubbed.

**DevBundler.** `known` is `ClientKnownModules`. `builds[s]` is one
`esbuild.build` started by a watcher event: the changed files, those that were
known (`modules_to_hot_replace`), and what has been loaded. An action is what
runs between two awaits: `Notify` is `build_hmr_payload` up to `await
esbuild.build` (invalidation of every changed file, early return when none was
known is `NotifyIrrelevant`); `OnLoadStub`/`OnLoadTransform` is the plugin's
`onLoad`, asked file by file in any order, and `ReadFile` the later read of the
file itself; `BuildDone` the rest of the function and of the callback
(`modules_in_payload`, additions to `known`, `has_error = false`,
`send_update`); `BuildFailed` the catch with `reset`. `BundleRequest`, `FullLoad`,
`FullDone`, `FullFailed`, `Subscribed` are the request. `WatcherError` is the
callback called with an error, which returns. The update goes to nobody when the
socket is not open.

**RequireRuntime.** `registry.run` is `ModuleRunCache`, `registry.result`
`ModuleResultCache` (each result named by the code it came from), `registry.graph`
the module graph (`get_importers` inverts it). `registry.linked` is the part of
the heap that no variable of the code holds: `<<p, q>>` when the running code of
`p` has the very exports that are cached for `q`. It lets a property say that a
module *still uses old exports*. `UpdateModuleGraph`, `RegisterModules`, `Require`
and `Refreshed` are the calls of an update, in the order of its text; as the app
does not interrupt a handler, their composition is one step.

**Hmr** adds no behaviour: `Reload` is a request that also drops the heap, `Start`
runs the bundle and connects, `Deliver` takes an update and handles it.

**HotReload, HmrGiven.** The abstract state is the source of every file, the code the app has
been given, and the files whose last save was lost. Under the mapping, `source` is the disk,
and the other two are history variables: `given` is what the app was last sent for each
module, `missed` the files of events that the server gave up, because the watcher reported an
error or their build failed (`Dropped`). A save of the file, or a reload, takes it out of
`missed`. The registry cannot play the part of `given`, as it forgets the code when a stub is
stored over it (section 4, `Hmr_stub_run`); so refinement says what the app was *told*, and
`OnlyMissedBehind` what has become of it. A bundle and each update map to `Sync`, which brings
all the app has and needs to the disk's state *at once*; a save is `Save`, a request is
`Quit`, what is given up is `Lose`, and everything else (events, builds, loads, the socket) is
a stutter. To `Sync`, a lost save is as if it had not been made: the text that counts is the one the
app has (`Text`).

**RequireFn.** A frame of `stack` is a module function being called: its module, what it
has yet to require, whether it runs as app code (between `prepare_refresh_registration`
and `reset_refresh_registration`) and the registrar saved meanwhile. `Call` caches the
empty exports and calls the function; `Hit` returns what is cached, finished or not;
`Return` finishes. A throw ends the innermost frame: a library (`NodeModules`) is called
again as app code, anything else returns `undefined` to its requirer. `runs` and `thrown`
are there for the properties. In `RequireRuntime` all of this is one step without throws:
`RerunAgrees` compares the two.

**RefreshWalk.** A frame of `path` is a call of `find_refresh_boundaries`: its module, and the
importers for which `every` has yet to call, in any order (`todo`). One step is one call
(`FindRefreshBoundaries`: it stops at a boundary, climbs, reaches a root, or recurs for ever on a
cycle, `Overflow`) or one return (`AnswerTrue`). `Refresh` drops the results on the way;
`RefreshBoundary` then requires the boundaries one by one in any order, and `Rerun` is the recursion
of `RequireFn`. `before` is the registry in which it all began.

**HmrSession.** The two ends of a connection are two variables (`socket[s]`, `ws`),
so that one may know what the other does not yet. `Unwatch` is `(await
watcher)?.unsubscribe()` for a socket that closes before `watch_fs` has resolved.
`Stop` empties the server's memory. `Tick` aborts the request under way, as the
interval does.

**FullBundle.** A bundle is a sequence of `Chunks` chunks, each of which says what
version of the project it comes from. `Bundled` truncates the output file,
`WriteChunk` fills it, `ReadChunk` streams it through the transform that overrides the
helper: `Helpers` are the chunks in which its text occurs, `IsDone` the transform's
`is_done`. `Built` is what comes after the build: known modules, the lines of the preamble as
the three calls of `offset` count them (`Counted`), `includeBundle` at the sum, the route.
A request may be refused before the build (`Rejected`, `BannerThrows`), esbuild may fail at any
moment (`BuildFailed`), and `includeBundle` may throw when the lines have been counted and the
file is being piped (`IncludeFails`): then the catch ends the response, and either all of it is
through before the file has been opened (`ErrorSent`), or the stream writes after the end
(`StreamBreaks`). Nobody listens for that error, nor for one of the read stream: the process
ends (`up`). `shared` is history: the requests that were in flight together with another one for
their platform.

**Assets.** One `onLoad` per asset, all at once: `Readdir` lists, `Size` parses the listing and
reads the image, each `CopyFile` is one turn of the loop, `Register` the result, `Throw` any
rejection. `corrupt` are the images whose plain file `image_size` cannot parse. A file is an asset and a tag (`@2x`), a scale is counted in quarters. What
`readdir` puts last among the files of one scale is what `parse_dir` keeps (`OnDiskPath`).
`Identifier` is the name that a release gives to a path, an uninterpreted constant: lower
case and stripped on Android, `..` replaced on iOS. `PickScale` and `Shown` are the app's
side.

**CachedFn.** `CachedAnswer`/`CallFn` are `cached_fn` up to its await, `FnReturns`
what follows, `FnThrows` a rejection. The end of a process is a list of writes:
`process.exit` runs the `exit` handlers of all caches; on SIGINT the first cache's
handler writes and then exits, which runs all `exit` handlers (`SigintWrites`).
A write empties the file first (`BeginWrite`), so that a kill leaves a file that
does not deserialize, which counts as absent (`Deserialized`). A write may also fail, before
the file is opened or after (`WriteFails`); `persist_cache` drops the error and the process goes on
to the next cache (`Persisted`). `unsaved` are the caches whose last write did fail.

**Transform.** Code is the set of syntaxes in it. Each plugin has its filter
(loaders, packages, content), the loaders for which it has a parser (`Parsers`: swc takes
`cjs` and has none for it), the syntax this parser takes *for the loader it is
handed*, and what it leaves.

## 3. What TLC checks

Each passing run is exhaustive within its bounds.

| run | properties | what it shows |
|---|---|---|
| `Hmr_overlap` | `TypeOK`, `ClientTypeOK`, `RequireFinds`, `ClientModulesTracked`, `NeverForgotten` | two overlapping builds, saves at any moment, watcher errors, broken files, reloads: what an event takes out of `ClientKnownModules`, its build puts back; `Module not found in run cache` is never thrown; each module of the app is known to the server or about to be replaced by a running build |
| `Hmr_one_save` | `OnlyMissedBehind`, `StubsArePresent`, `UpdatesExact`, `RefreshReachesImporters`, `CatchesUp`, `ReloadsWhole` | imports and exports that change, files that break and are mended, a watcher that may report errors, one save at a time: updates are exact, stubs stand for modules the app has, no importer keeps old exports, the app goes from one state of the whole project to the next (`HotReload`), and at last has what is on disk, but for the files whose own last save was given up |
| `RefreshWalk` | `WalkAgrees`, `RerunAgrees`, `RegistersOwn`, `RunsOnce` | every graph over three files, every choice of boundaries, every message, importers and boundaries in any order, modules that have not run yet, any module throwing: the walk collects what the closures say, the reruns leave what the single step of `RequireRuntime` says, components are registered under the module that runs, nothing runs twice but a library that threw |
| `HmrSession` | `TypeOK`, `WatchedWhileOpen`, `WatcherReleased`, `Rejoins` | connections lost, reloads, restarts: the two ends of a connection agree, a session is watched as long as its socket is open and no longer, watchers of left sessions are released, and an app that was connected is attached again |
| `FullBundle` | `LoneIsWhole`, `FirstHelperOnly`, `FirstBundlePlaced`, `Answered` | two requests for one platform or two, one after the other or overlapping, saves between and during builds, failures everywhere: a client whose request overlaps no other for its platform is sent the whole bundle that its known modules come from, with the helper overridden exactly once; the map of the only bundle lies one line beyond its preamble; every request whose bundling has begun is answered, unless the process ends |
| `CachedFn` | `TypeOK`, `AnswersExact`, `ExitSaves` | two caches, overlapping calls, interrupts, kills during a write, restarts: answers are those of the function, and an orderly exit saves both caches, but for one whose own last write fails |
| `Transform` | `OnlyMistakesThrow`, `Bundleable`, `WorkletsCompiled` | all orders of plugins with flow and with swc last, all kinds of files and packages: no plugin fails on what another left, swc on `cjs` files excepted |
| `Assets` | `TypeOK`, `ReleaseExact`, `ShowsPicked`, `FailsOnlyFor` | an icon, a picture and a movie, every set of their files, plain files that cannot be parsed, dev server, iOS and Android, one file that comes or goes at any moment: a release has the right file in each place; if nothing changes, it shows what the dev server shows, and a build fails for exactly the reasons stated |

The violation runs are in section 4.

### Bounds

* **Projects** (`MCSources`). `TinySource` (two files, one of which may be
  broken, the other may drop its import and stop being a boundary) is enough for
  two builds to overlap in every way: one replaces what the other imports, fails,
  or loads the file before or after it is saved. `MendedSource` (four files) has imports that come
  and go, and modules that turn from component to helper and back, or break: the screen uses
  either of two modules, one of which may use the other. `ChainSource` is a screen, a component
  and a helper; `BreakableSource` the same with files that may be broken.
* **`Slot`**: builds at once: two where overlap is the question, one elsewhere.
  Builds affect each other only through `known`, pairwise. Slots are symmetric and
  nothing chooses among them, so `SlotSymmetry` is sound; it is used with safety
  properties only.
* **`MaxOutbox`** = 1: an unread update on the socket. A longer queue only delays,
  as updates are not changed after they are sent.
* **`MaxBatch`**: files per event: one. `NeverForgotten`, the safety of `Hmr_overlap` and
  `OnlyMissedBehind` are proved for events of any size, `StubsArePresent` and `ReloadsWhole` for
  events of any size if nothing breaks; what two files per event do otherwise is in section 4.
* **`EditWhen`**: when the developer saves. `"anytime"` is the whole truth;
  `"connected"` after the app has connected; `"quiet"` once earlier saves have been
  delivered. The properties of `Hmr_one_save` are those of a developer who waits (only
  `StubsArePresent` is proved for `"connected"` too): see section 4 for what happens
  otherwise. That is the assumption, and not a convenience.
* `Session` = 3: the one the app is in, an earlier one whose end has not yet been
  noticed, and one to ask for. Ended sessions are reused.
* `RefreshWalk` has one library (`NodeModules`) among three modules: it can be replaced, an
  importer or an import, and throw under app code that has registered already.
* `Helpers` = {2, 3}: a first chunk without a match, and a second match in every bundle.
* `Assets`: `MaxEdits` = 1, a file that comes or goes once, between any two steps. The tags are
  one that is no number, one that repeats a scale, one without an Android folder, and those of
  iOS.
* `Chunks` = 3, `MaxVersion` = 3, two requests: a bundle can be partly written and partly of
  other versions, and a request comes before, during or after the other, for its platform or not.
  The theorems are about any number of requests. The module graph, and with it the preamble, grows
  with the version (`Growing`).
* `CachedFn`: one process that restarts, two keys, two texts per key, two calls at
  once: enough for calls on one key with different texts to cross. Several processes
  on the same files are covered by the theorems; `ExitSaves` is about one, as another
  process may overwrite the files at any time.

### Fairness

`Hmr!Fairness` is weak fairness of `Progress`: esbuild, the watcher, the socket
and the event loop go on as long as there is something to do. Saves, reloads and
watcher errors are not fair. It is one conjunct for all of them since none is
enabled forever: each build and each queue is finite. `CatchesUp` assumes that
saves stop, or else that the session ends; the app then ends with what is on disk, but for
what was given up.

`FullBundle!FairSpec` is weak fairness of each request's own steps, under which a build
may fail or succeed: esbuild and Node's streams do not stop while there is work. `Answered`
assumes nothing about saves or other requests, which may overlap; that a stream's error ends the
process is left to chance.

`HmrSession!Fairness` is weak fairness for every session's server side, the app's
events and the interval, and strong fairness of `Reconnect`. Every tick aborts the
request under way, so `Reconnect` is disabled again and again; that the app is
attached in the end takes a server which answers within a second now and then.
Nothing is assumed about `Stop`, `Restart`, `Drop` and `Reload`: `Rejoins` speaks of
behaviours in which disturbances end with the server up.

### What a deadlock would mean

Deadlock is checked in all models whose system runs forever. It is switched
off for `FullBundle` (all requests served), `Transform` (one file done),
`Assets` (all assets loaded) and `RefreshWalk` (one refresh).

## 4. Where the code and its own account of itself differ

Four are runs that TLC ends with a counterexample, listed under `findings`:

* **`Hmr_stub_run`** (`StubNeverRun`). The update for a saved file has stubs for the file's known
  imports, and `$COMMONJS` stores each stub in the run cache over the code that was there
  (`require.runtime.ts:33`). In the trace a screen is saved, which stubs its import. When a
  helper of that import is saved next, the refresh forgets the result of the import and runs
  it again: the stub runs, and its exports are gone. "The require will be intercepted by the
  runtime and the cached version will be used" (`esbuild-plugin-hot-module.ts:24`) is true only of
  modules that are not forgotten. `InSync` and `OnlyMissedBehind` accept a stub in these places, so
  that they say what else may go wrong.
* **`Hmr_failed_build`** (`MendedInSync`). A file is saved whose new import does not
  compile. `reset` makes the file known again, though its text was never sent. Then the import is
  mended; as it never became known, the event is not relevant and nothing is built. All files
  compile, and the app keeps the earlier code of the first until that is saved again. `OnlyMissedBehind`
  says, and `OnlyDroppedAreBehind` proves, that the files of the failed event are all that is lost.
* **`Hmr_save_in_flight`** (`InSync`). A file saved again while its build runs is
  not in `ClientKnownModules`: the event is filtered out. If the build had
  read the file already, the later text is never sent.
* **`FullBundle_overlap`** (`KnownIsServed`). A second request for a platform
  truncates the output file before it has been streamed to the first client.

More were seen with these models, by the change of one constant or property:

* Two files of one event (`MaxBatch = 2`), a screen and a helper that it uses through another
  helper: modules to replace have "just" been run and are not run again
  (`require.runtime.ts:192`), but the screen ran before the helper in between was
  forgotten, and keeps its old exports (`RefreshReachesImporters`). The proof of
  `RefreshReachesAll` fails in just this step, hence its hypothesis `MaxBatch <= 1`.
* `EditWhen = "anytime"` with `InSync`: a save between the reads of the full build
  and the subscription of the watcher reaches nobody (`dev-server-command.ts:65`).
  With `"watching"`: an update that is ready before the app has connected is sent
  to nobody (`hmr-wss.ts:28`), and its modules are known all the same.
* `EditWhen = "connected"`, two slots and `RefreshReachesImporters`: a file that is saved while the
  build of another runs may come along in that build's update, without being one of
  its modules to replace (`dev-bundler.ts:120`), so that the walk does not start from it: its
  other importers keep the old exports until its own update.
* Two slots with `UpdatesExact`: a build leaves out of `modules_in_payload` a file
  that another has meanwhile made known, though it replaces it; or announces
  as a module what it only has a stub for (`dev-bundler.ts:154`).
* `BreakableSource` with `MaxBatch = 2` and `StubsArePresent`: `reset` also makes files known
  that the app never had (`dev-bundler.ts:169`); it then gets stubs for them.
* "Error fixed, serving hot modules again" (`dev-server-command.ts:73`) is logged by
  any build that succeeds, while the broken file is still broken.
* A cycle of imports among modules none of which is a boundary overflows the stack
  of `find_refresh_boundaries` (`require.runtime.ts:180`); `WalkAgrees` compares
  when. The refresh ends as `failed`.
* An app whose *first* connection fails never looks for the server again
  (`was_connected`, `ws-client.runtime.ts:37`): `NeverConnected` in `Rejoins`.
* The key of a cache entry does not name the plugins (`cached-fn.ts:60`): after a
  restart with other ones, unchanged files come out as the earlier ones
  left them. `AnswersExact` therefore compares key and data only.
* The count of the preamble's lines is one too many: `split` counts the pieces between the newlines
  of the runtime, which ends in one (`dev-bundler.ts:71`, `:92`). So a map is included one line too
  far down, which is what "we need to start at -1" and "the offset is off by 1" are about
  (`symbolicator.ts:9`, `:22`): the code starts at 0, and `FirstBundlePlaced` says `PreambleLines + 1`.
* When `includeBundle` fails, the lines that were counted stay, and the next map of the platform is
  placed beyond them; and the file's stream writes to a response that has been ended, which
  ends the process unless the client was faster (`dev-bundler.ts:99-109`). An output file that
  cannot be read ends it too. `Answered` excepts the end of the process.
* The map of a platform's second bundle is placed at the sum of the lines of both preambles
  (`symbolicator.ts:16`), and of all handlers for `/symbolicate` the first answers, for all
  platforms (`dev-server-command.ts:52`): `FirstBundlePlaced` speaks of a first bundle only.
* A runtime that does not build leaves every client waiting (`dev-bundler.ts:70`, outside the `try`),
  and so does a query without a platform (`dev-server-command.ts:29`, `:90`: the error is printed, the
  response not ended). `Answered` is therefore about requests whose bundling has begun.
* swc takes files of the loader `cjs` (`swc.ts:10`), but its table of parsers has no such entry
  (`swc.ts:28-33`): `select` gives `undefined`, and swc throws for want of a syntax.
  `OnlyMistakesThrow` excepts this.
* A cache file that cannot be written is lost without a word (`cached-fn.ts:45`, "Not critical"), and
  may be left cut short: `ExitSaves` excepts a cache whose own last write failed.
* The text of the helper is missed when it straddles two chunks (`dev-bundler.ts:189`); the model's
  chunks hold it whole.
* A module that throws returns `undefined` to its first requirer and its unfinished exports
  to later ones (`require.runtime.ts:41`, `:67`).
* Of `a.png` and `a@1x.png` a release ships the second, which is listed last, and the dev
  server serves the first: `ShowsPicked` asks for one way to write each scale
  (`Conventional`). So it does for a movie that exists as `clip@1x.mp4`: the app asks for
  `clip.mp4`, and a stream that cannot open its file has no handler for the error
  (`http-server.ts:107`). An image that exists in other scales only, or whose plain file cannot be
  parsed, fails its build (`plugin-assets.ts:63`); a movie does not.
* A release for iOS copies scales 1, 2 and 3 only, but registers all: for scales 1.5 or 4
  the app picks one that is not there (`plugin-assets.ts:178`).
* On Android everything that is no drawable goes to `raw`, where the scales of one asset overwrite
  each other (`assetPathUtils.ts:42`), and two paths may have one name
  (`assetPathUtils.ts:55-62`: `a-b.png` and `ab.png`). `ReleaseExact` is proved for names that differ.
* Assets are known under absolute paths in a namespace (`assets:/...`), which no event of the
  watcher matches: saving one does not reload it.
* With the plugins of the README, `[flow(), reanimated()]`, nothing transpiles the
  JSX and ES6 of the app, as `compute_config` adds no swc (`config.ts:41`):
  `Bundleable` needs swc last.

## 5. What is proved

All by TLAPS, for every value of the constants that satisfies the named
assumptions of the module (finite set of files, non-empty contents, `None`
distinct from values). The bounds `MaxOutbox`, `MaxBatch` and the number of slots are
arbitrary, so that in effect there are none.

| theorem | says | along which argument |
|---|---|---|
| `ServerTypeCorrect` | `Spec => []TypeOK` of `DevBundler` | inductive as it stands, action by action |
| `NothingForgotten` | `Spec => NeverForgotten` | every running build replaces only files of its event (`ReplaceChanged`): so `reset` covers what it took; a build that succeeds has loaded all it replaces, so that what is not known by then is in its payload and becomes known |
| `QuietUpdatesExact` | `EditWhen = "quiet"` and `Spec` imply `[]UpdatesExact` | `QuietInv`: there is one build at most (`OneBuild`); while it runs nothing else is under way (`Undisturbed`), so that what was known when a file was asked for is known at the end, and stubs are exactly the known ones (`BuildsTrueToKnown`) |
| `ClientTypeCorrect`, `RequireAlwaysFinds`, `ClientAlwaysTracked` | `HmrSpec` implies `[]ClientTypeOK`, `[]RequireFinds`, `[]ClientModulesTracked` | `HmrInv`: all code that is shipped or about to be (`Shippable`) is closed under imports and within `Tracked`, and `Tracked` never shrinks in a session; merging closed code into a closed registry leaves it closed (`ClosedMerge`), whatever stubs there are |
| `StubsAlwaysPresent` | if saves wait for the app to listen (`EditWhen` is `"connected"` or `"quiet"`), and either events have one file or nothing is broken, `[]StubsArePresent` | `ConnectedInv`: all that the server takes the app to have (`Tracked`) the app has, or will have when it has received the updates on the socket, which announce what is new; and an update, or a build, leaves out only what it will have from the updates before it (`KnownPresent`). A failed build must put back no more than it took (`FailureRestores`): true of one file, or if no build fails |
| `QuietInSync` | if `EditWhen = "quiet"` and no save is given up (`SavesArrive`), `[]InSync`; where a save is given up, `Hmr_failed_build` refutes even the weaker `MendedInSync` | `UpToDate`: code in builds, in updates and in a bundle not yet run is that on disk (`Fresh`), and so is what the app has run, but for the modules of an event, a build or an update that is under way (`Due`) |
| `OnlyDroppedAreBehind` | if `EditWhen = "quiet"`, `GivenSpec => []OnlyMissedBehind`, for events of any size, broken files and a watcher that fails | no step leaves a module behind that is neither due afterwards nor dropped by it (`CurrentStep`); and all that is tracked and was not given up the app has, will have or is due (`Accounted` in `MissedInv`), as what a failed build puts back is what it took and the rest of its event |
| `HmrImplementsHotReload` | if `EditWhen = "quiet"`, either events have one file or nothing is broken, and either no save is given up or every file can be left out as a stub: `GivenSpec => ReloadsWhole` | the step refinement: starting and each delivery are `Sync` of `HotReload`, a save is `Save`, a reload `Quit`, a failed build or a watcher error `Lose`, all else stutters. `WholeInv`: what the app has been given is closed and, where nothing is due or missed, on disk (`GivenWhole`); what builds and updates bring is just what the disk needs beyond that, and spares the files whose earlier text the app holds (`Held`, `ComingWhole`) |
| `RefreshReachesAll` | if `EditWhen = "quiet"`, events have one file, and either no save is given up or every file can be left out as a stub: `HmrSpec => RefreshReachesImporters` | `Traceable`: every cached result comes from the code in the run cache or from the code that a stub has replaced, and the graph has all imports of both, so that the walk finds every importer (`WalkClosed`); what the walk forgets it never comes back to (`WalkNeverReturns`). If no save is given up, the graph is that on disk besides (`GraphOnDisk`); otherwise it falls behind, which does no harm as all that an update leaves out is a stub |
| `PatientHotReload` | one file per event, any breakage: all safety of the run `Hmr_one_save` at once | from the theorems above, as the history variables do not interfere (`GivenIsHistory`) |
| `ServerByItself`, `NothingForgottenWithApp` | `HmrSpec => Spec` of `DevBundler`, hence `NeverForgotten` in `Hmr` too | a step of the app leaves the server's variables alone, or is a step of the server |
| `ExitsSave` | for one process, `Spec => ExitSaves` | `ExitInv`: an exiting process has no calls left that could change its memory, and each cache is still on its list, or in its file, or its last write has failed (`unsaved`); a failing write takes nothing but its own cache off the list |
| `CacheTypeCorrect` | `Spec => []TypeOK` of `CachedFn` | one lemma per action |
| `CacheAnswersExactly` | `Spec => []AnswersExact` | every entry in every memory and file is the function's output for its key and its data (`Fits`); for any number of processes and caches |
| `BundleTypeCorrect`, `LoneBundlesAreWhole` | `[]TypeOK`, `[]LoneIsWhole`, however the other requests overlap | a request that is not `shared` has its platform for itself while it is in flight (`Alone`), so that the file holds a prefix of its version while written, all of it while streamed, and what has been sent is a prefix (`BundleInv`) |
| `HelperIsOverridden` | `[]FirstHelperOnly` | what has been replaced is the first of the helpers among the chunks sent (`HelperInv`); a bundle that was served to a request not `shared` has all chunks |
| `FirstBundleIsPlaced` | `[]FirstBundlePlaced` | until a platform has a preamble written its offset is 0, failed builds included, and until any has there is no route (`PlacedInv`); what the code counts is the lines of the preamble and one (`BuiltHasLines`) |
| `AssetsTypeCorrect` | `[]TypeOK` of `Assets` | inductive as it stands |
| `ReleasesAreExact` | if different assets have different names (`DistinctPlaces`), `[]ReleaseExact` | what is to be copied is still on the list or has its place in the release (`CopyInv`), and copies of other assets do not disturb it |
| `FailureHasReason` | `[]FailsOnlyFor` | `SettledInv`: unless somebody edits, the listing is what is on disk, an asset is copied only when it can be sized, its plain file being there and not `corrupt`, and a scale that is off the list had its folder (`FoldersFound`) |
| `ReleaseShowsTheSame` | with `DistinctPlaces`, `[]ShowsPicked` | `Inv` and `SettledInv` together: the file at the place of the picked scale has that scale and is listed, and a conventional asset has one file for each scale |
| `SessionTypeCorrect`, `SessionsWatchedWhileOpen` | `[]TypeOK` and `[]WatchedWhileOpen` of `HmrSession` | a session is ready before the app that runs its bundle connects to it, unless the server has forgotten all sessions in between (`AppOK`), and each state of a socket has its states of the watcher (`SessionOK`) |
| `RegistrarIsRestored`, `ModulesRunOnce`; `RefreshRegistersOwn`, `RefreshRunsOnce` | `CallSpec`, and `WalkSpec` for a refresh, imply `[]RegistersOwn`, `[]RunsOnce` | `CallInv`: every app frame remembers the registrar of the frames below it, running modules are cached and differ, and a library runs as app code only after it has thrown; so a throw at any depth restores what was |
| `WalkMatchesClosures` | `WalkSpec => []WalkAgrees`, for every graph, every choice of boundaries and every order | `FindInv`: what has been called is collected, and a module is either still wanted by a call on the path or `Explored`: all that is above it up to the boundaries is collected, is on no cycle and reaches no root. A call on its own path closes a cycle, and one without importers is a root, which is what `Outcomes` says of the closures |
| `RerunsMatchRefreshed` | `WalkSpec => []RerunAgrees` | `RerunInv`: a result is that of before or, of a module that has run again, its new exports; the links are those of before and one for each import that such a module no longer has to require (`LinksInv`); what has run is below a boundary, and all it imports is cached or still wanted by a frame (`RunInv`). When nothing is left to require, that is `Refreshed` (`RerunIsComplete`) |
| `SwcLastIsBundleable` | if swc is last in all lists, `[]Bundleable` | `ImageWaits`: an image is still an image until the svg plugin turns it to JSX, which swc, whose turn comes last, then takes |
| `WorkletsAlwaysCompiled` | `[]WorkletsCompiled`, for all configurations | `WorkletWaits`: a worklet that is still there is in a file that the reanimated plugin takes, under whatever loader, so that the plugin has yet to come |
| `OnlyMistakesAreErrors` | if flow comes before swc, and before reanimated should a package have both Flow and worklets (`FlowFirst`), `[]OnlyMistakesThrow`, which excepts swc at `cjs` files | `SyntaxInv`: code has only the syntax expected of its present loader (`Expected`), and Flow that is left waits for the flow plugin (`FlowWaits`) |

The proof of `NothingForgotten` does not use the number of builds, and neither does
that of `RequireAlwaysFinds`: with two slots the runs check what the theorems say for
any number.

**What the hypotheses mean.** `EditWhen = "quiet"` is a developer who saves once the last save
has arrived; `AlwaysCompiles`, one who saves no file with a mistake; `~WatcherErrors`, a
watcher that loses no event; `SavesArrive` is both of these: no save is given up.
`MaxBatch <= 1` is an editor that writes one file at a time; `Transformed = Module`, a project of
files that a plugin transforms, any of which may be left out as a stub (a JSON file is sent
along with any importer, so that an update may carry a text that was given up). None is
promised by the code. Section 4 has what happens without the first and with larger events. Where
some file is always sent whole, `ReloadsWhole` and `RefreshReachesImporters` are proved only if no
save is given up; `OnlyDroppedAreBehind` needs none of this, and says what is lost.
All hypotheses of `PatientHotReload` hold of `Hmr_one_save`, whose files do break and whose watcher does fail, so that states satisfy them.

The invariants build on each other: `HmrInv` (typing, closure, tracking) holds of everyone;
`ConnectedInv` adds what a developer may rely on who waits for the app to connect, `SerialInv` what
one may who waits for each save, whatever breaks; `PatientInv` is both. `Fresh` and `UpToDate` relate
that to the disk; `MissedInv`, `WholeInv` and `TraceInv` extend it to what was given up, to what
the app was given and to what its registry remembers. What the server does is proved in
`DevBundlerProofs` and used in `HmrProofs`.

**Only model-checked.** Liveness (`CatchesUp`, `WatcherReleased`, `Rejoins`, `Answered`): the
provers at hand do not deal with fairness. That `Outcomes` and `Visited` are what the walk computes
is proved for all graphs; that the walk *ends* is not.

## 6. What is not modelled

* **Modules that throw, in `Hmr`.** They are in `RequireFn` and `RefreshWalk`; in the composed
  model a module runs to its end.
* **React's own refresh**: registration and rendering. A boundary that is run again
  counts as refreshed.
* **esbuild**: its `loaders`, resolver and text; what it discovers, reads and when it ends
  is modelled.
* **The text of bundles**: a helper's text that straddles two chunks.
* **Looking up a stack frame** in a source map, which is a library. When a map is included and
  where, and which handler answers, is in `FullBundle`.
* **How a release names an asset**: `Identifier` is any function.
  `getAssetsDestPathIOS` is not called by the plugin.
* **The worker pool**: a transform in the pool is one step. Its library decides
  what a pool of size 0 does.
* **The release bundler, commands, configuration, console, logger**: no state to
  speak of. The assets, transforms and caches of a release are modelled. Inspector proxy and React Native middleware: third-party.
* **More than one client in `Hmr`**: each has its own known modules, watcher and
  socket. What clients share (the output file) is `FullBundle`; files on disk
  and caches do not depend on the client.

## 7. Plan

Done: all modules of section 2 and the theorems of section 5.

Left to model: more than one client in `HmrSession` (sessions are independent but for
the server's handlers, which are never removed); modules that throw in `Hmr`.

Proved: every invariant, action property and refinement that a passing run checks. What is left
is liveness, and the pace of saves: for a developer who does not wait, the runs and
theorems have what the server remembers (`NeverForgotten`), what the app has
(`RequireFinds`, `StubsArePresent`), and not what it shows.

## 8. Running

    tlc -workers 2 -config Hmr_one_save.cfg MCHmrGiven
    tlapm HmrProofs.tla

`PROJECT.json` has the module and configuration of each run, the source lines of each
definition, and for each property a mutant: a plausible mistake in the code
(defined next to the definition it would replace) that makes the property fail.
