----------------------------- MODULE HmrSession -----------------------------
(***************************************************************************)
(* The life of hot-reload sessions: one is made by every request for a     *)
(* bundle, is joined by the app's WebSocket, and ends when that closes.    *)
(* Server and app each see the connection from their own end; either end   *)
(* may be lost, and the whole server may stop and be started again.        *)
(*                                                                         *)
(* client_id is random; here a session that has ended may be reused, which *)
(* stands for a fresh one.  What the bundle and the updates say is in Hmr. *)
(***************************************************************************)
EXTENDS Naturals, FiniteSets

CONSTANTS Session, None

ASSUME SessionAssumption == None \notin Session

VARIABLES
    up,       \* the dev server runs
    stage,    \* how far GET /index.bundle has come, per session
    watcher,  \* the file watcher of a session
    socket,   \* the server's end of a session's WebSocket
    app,      \* "idle", "loading" a bundle, "running" it, or "broken"
    url,      \* the session of the bundle that the app has asked for or runs
    ws,       \* the app's end of its WebSocket
    wasConnected,
    polling,  \* try_reconnecting has set its interval
    fetch     \* the latest reconnection request

serverVars == <<up, stage, watcher, socket>>
appVars == <<app, url, ws, wasConnected, polling, fetch>>
vars == <<serverVars, appVars>>

AllNone == [s \in Session |-> "none"]

Init ==
    /\ up = TRUE /\ stage = AllNone /\ watcher = AllNone /\ socket = AllNone
    /\ app = "idle" /\ url = None /\ ws = "none"
    /\ wasConnected = FALSE /\ polling = FALSE /\ fetch = "none"

(* The app's connection to s is up at the app's end. *)
Joined(s) == url = s /\ ws \in {"accepted", "open"}

(* Nothing of s is left, or nothing was there. *)
Ended(s) ==
    /\ s # url
    /\ \/ stage[s] = "none"
       \/ stage[s] = "failed"
       \/ socket[s] = "closed" /\ watcher[s] = "off"
-----------------------------------------------------------------------------
(***************************************************************************)
(* The server.                                                             *)
(***************************************************************************)
BundleRequest(s) ==
    /\ up /\ app = "loading" /\ url = None
    /\ Ended(s)
    /\ url' = s
    /\ stage' = [stage EXCEPT ![s] = "bundling"]
    /\ watcher' = [watcher EXCEPT ![s] = "none"]
    /\ socket' = [socket EXCEPT ![s] = "none"]
    /\ UNCHANGED <<up, app, ws, wasConnected, polling, fetch>>

(* The bundle is streamed out and watch_fs is called, without an await. *)
Bundled(s) ==
    /\ stage[s] = "bundling"
    /\ stage' = [stage EXCEPT ![s] = "ready"]
    /\ watcher' = [watcher EXCEPT ![s] = "subscribing"]
    /\ UNCHANGED <<up, socket, appVars>>

BundleFailed(s) ==
    /\ stage[s] = "bundling"
    /\ stage' = [stage EXCEPT ![s] = "failed"]
    /\ UNCHANGED <<up, watcher, socket, appVars>>

Subscribed(s) ==
    /\ watcher[s] = "subscribing"
    /\ watcher' = [watcher EXCEPT ![s] = "on"]
    /\ UNCHANGED <<up, stage, socket, appVars>>

(* The upgrade finds the session's WebSocketServer, which takes no more    *)
(* connections once it has been closed.                                    *)
Accepts(s) == up /\ stage[s] # "none" /\ socket[s] # "closed"

Upgrade(s) ==
    /\ ws = "connecting" /\ url = s
    /\ Accepts(s)
    /\ ws' = "accepted"
    /\ socket' = [socket EXCEPT ![s] = "open"]
    /\ UNCHANGED <<up, stage, watcher, app, url, wasConnected, polling, fetch>>

(* Mutant: a subscription under way is not awaited. *)
UnwatchIfSubscribed(w) == IF w = "on" THEN "off" ELSE w

(* `(await watcher)?.unsubscribe()`. *)
Unwatch(w) == IF w = "subscribing" THEN "unwanted" ELSE "off"

(* The server's end notices that the app's end has gone. *)
OnClose(s) ==
    /\ socket[s] = "open" /\ ~Joined(s)
    /\ socket' = [socket EXCEPT ![s] = "closed"]
    /\ watcher' = [watcher EXCEPT ![s] = Unwatch(@)]
    /\ UNCHANGED <<up, stage, appVars>>

Unsubscribe(s) ==
    /\ watcher[s] = "unwanted"
    /\ watcher' = [watcher EXCEPT ![s] = "off"]
    /\ UNCHANGED <<up, stage, socket, appVars>>

(* The developer stops the server, or it crashes, and starts it again:     *)
(* sessions, handlers and watchers live in its memory only.                *)
Stop ==
    /\ up
    /\ up' = FALSE
    /\ stage' = AllNone /\ watcher' = AllNone /\ socket' = AllNone
    /\ ws' = IF ws \in {"accepted", "open"} THEN "lost" ELSE ws
    /\ UNCHANGED <<app, url, wasConnected, polling, fetch>>

Restart ==
    /\ ~up
    /\ up' = TRUE
    /\ UNCHANGED <<stage, watcher, socket, appVars>>
-----------------------------------------------------------------------------
(***************************************************************************)
(* The app.                                                                *)
(***************************************************************************)

(* The JavaScript heap is dropped, and a bundle is asked for. *)
StartOver ==
    /\ app' = "loading" /\ url' = None /\ ws' = "none"
    /\ wasConnected' = FALSE /\ polling' = FALSE /\ fetch' = "none"
    /\ UNCHANGED serverVars

(* The developer opens or reloads the app.  (Bound: while a session is left.) *)
Reload == (\E s \in Session : Ended(s)) /\ StartOver

RunBundle ==
    /\ app = "loading" /\ url # None
    /\ stage[url] = "ready"
    /\ app' = "running" /\ ws' = "connecting"
    /\ UNCHANGED <<serverVars, url, wasConnected, polling, fetch>>

(* There is no answer, or it is `throw new Error(...)`. *)
LoadFails ==
    /\ app = "loading"
    /\ ~up \/ (url # None /\ stage[url] \in {"none", "failed"})
    /\ app' = "broken"
    /\ UNCHANGED <<serverVars, url, ws, wasConnected, polling, fetch>>

WsOpen ==
    /\ ws = "accepted"
    /\ ws' = "open" /\ wasConnected' = TRUE
    /\ UNCHANGED <<serverVars, app, url, polling, fetch>>

Refused ==
    /\ ws = "connecting" /\ ~Accepts(url)
    /\ ws' = "lost"
    /\ UNCHANGED <<serverVars, app, url, wasConnected, polling, fetch>>

Drop ==
    /\ ws \in {"accepted", "open"}
    /\ ws' = "lost"
    /\ UNCHANGED <<serverVars, app, url, wasConnected, polling, fetch>>

WsClose ==
    /\ ws = "lost"
    /\ ws' = "closed" /\ polling' = wasConnected
    /\ UNCHANGED <<serverVars, app, url, wasConnected, fetch>>

(* Mutant: one AbortController for all: a request that it has aborted once *)
(* is never made again.                                                    *)
TickAborted ==
    /\ polling
    /\ fetch' = IF fetch = "none" THEN "asked" ELSE "aborted"
    /\ UNCHANGED <<serverVars, app, url, ws, wasConnected, polling>>

(* Every second: abort the request that is under way, and ask again. *)
Tick ==
    /\ polling
    /\ fetch' = "asked"
    /\ UNCHANGED <<serverVars, app, url, ws, wasConnected, polling>>

(* Any server answers 205 to any session's url. *)
Respond ==
    /\ fetch = "asked" /\ up
    /\ fetch' = "answered"
    /\ UNCHANGED <<serverVars, app, url, ws, wasConnected, polling>>

FetchFails ==
    /\ fetch = "asked" /\ ~up
    /\ fetch' = "none"
    /\ UNCHANGED <<serverVars, app, url, ws, wasConnected, polling>>

Reconnect == fetch = "answered" /\ StartOver
-----------------------------------------------------------------------------
SessionProgress(s) ==
    \/ BundleRequest(s)
    \/ Bundled(s) \/ BundleFailed(s)
    \/ Subscribed(s) \/ Unsubscribe(s)
    \/ Upgrade(s) \/ OnClose(s)

AppProgress == RunBundle \/ LoadFails \/ WsOpen \/ Refused \/ WsClose \/ Respond \/ FetchFails

Disturbance == Stop \/ Drop \/ Reload

Next ==
    \/ \E s \in Session : SessionProgress(s)
    \/ AppProgress \/ Tick \/ Reconnect
    \/ Disturbance \/ Restart

Spec == Init /\ [][Next]_vars

(***************************************************************************)
(* The server gets round to every session, the app to every event, and the *)
(* interval keeps firing.  Strong fairness of Reconnect, since every tick  *)
(* throws away an answer that has not arrived: it says that an answer that *)
(* is sent again and again comes within the second at last.                *)
(***************************************************************************)
Fairness ==
    /\ \A s \in Session : WF_vars(SessionProgress(s))
    /\ WF_vars(AppProgress)
    /\ WF_vars(Tick) /\ SF_vars(Reconnect)

FairSpec == Spec /\ Fairness
-----------------------------------------------------------------------------
TypeOK ==
    /\ up \in BOOLEAN
    /\ stage \in [Session -> {"none", "bundling", "ready", "failed"}]
    /\ watcher \in [Session -> {"none", "subscribing", "on", "unwanted", "off"}]
    /\ socket \in [Session -> {"none", "open", "closed"}]
    /\ app \in {"idle", "loading", "running", "broken"}
    /\ url \in Session \cup {None}
    /\ ws \in {"none", "connecting", "accepted", "open", "lost", "closed"}
    /\ wasConnected \in BOOLEAN /\ polling \in BOOLEAN
    /\ fetch \in {"none", "asked", "answered"}

Attached == ws = "open" /\ socket[url] = "open" /\ watcher[url] = "on"

(* An app whose first connection failed does not ask again. *)
NeverConnected == ws = "closed" /\ ~wasConnected

(***************************************************************************)
(* The two ends and the watcher agree: what the app takes for a connection *)
(* is one at the server too, a session is watched, or about to be, as long *)
(* as its socket is open, and for no longer (dev-server-command.ts:36-42). *)
(***************************************************************************)
WatchedWhileOpen ==
    \A s \in Session :
        /\ Joined(s) => socket[s] = "open"
        /\ socket[s] = "open" => watcher[s] \in {"subscribing", "on"}
        /\ socket[s] = "closed" => watcher[s] \in {"unwanted", "off"}

(***************************************************************************)
(* The watcher of a session whose socket has been open and that the app    *)
(* has left is unsubscribed, however early the socket closes (on_close,    *)
(* dev-server-command.ts:40-42).                                           *)
(***************************************************************************)
WatcherReleased ==
    \A s \in Session : (socket[s] # "none" /\ ~Joined(s)) ~> (watcher[s] \in {"none", "off"})

(***************************************************************************)
(* When the server stays up and nothing is lost any more, a running app    *)
(* that has once been connected ends up attached again, to a session of    *)
(* the server that now runs (ws-client.runtime.ts:35-91).                  *)
(***************************************************************************)
Rejoins ==
    \/ []<><<Disturbance>>_vars
    \/ <>[]~up
    \/ <>[](Attached \/ app \in {"idle", "broken"} \/ NeverConnected)
=============================================================================
