-------------------------- MODULE HmrSessionProofs --------------------------
(***************************************************************************)
(* Proofs about HmrSession, for any number of sessions: whatever is lost,  *)
(* reloaded or restarted and whenever, the server's end of a session, its  *)
(* watcher and the app's end agree.                                        *)
(*                                                                         *)
(* A socket is only opened for a bundle that the app runs, and such a      *)
(* bundle is of a session that is ready, if the server has not forgotten   *)
(* all sessions since: hence the parts of Inv about the app.               *)
(***************************************************************************)
EXTENDS HmrSession, TLAPS

LEMMA TypeInit == Init => TypeOK
BY DEF Init, TypeOK, AllNone

LEMMA TypeSession ==
    ASSUME TypeOK, NEW s \in Session, SessionProgress(s)
    PROVE  TypeOK'
<1>1. CASE BundleRequest(s) \/ Upgrade(s)
  BY <1>1 DEF TypeOK, BundleRequest, Upgrade
<1>2. CASE Bundled(s) \/ BundleFailed(s)
  BY <1>2 DEF TypeOK, Bundled, BundleFailed, appVars
<1>3. CASE Subscribed(s) \/ Unsubscribe(s) \/ OnClose(s)
  BY <1>3 DEF TypeOK, Subscribed, Unsubscribe, OnClose, Unwatch, appVars
<1>4. QED
  BY <1>1, <1>2, <1>3 DEF SessionProgress

LEMMA TypeNext == TypeOK /\ [Next]_vars => TypeOK'
<1> SUFFICES ASSUME TypeOK, [Next]_vars PROVE TypeOK'
  OBVIOUS
<1>1. CASE AppProgress
  <2> USE DEF TypeOK, serverVars
  <2>1. CASE RunBundle \/ LoadFails
    BY <2>1 DEF RunBundle, LoadFails
  <2>2. CASE WsOpen \/ Refused \/ WsClose
    BY <2>2 DEF WsOpen, Refused, WsClose
  <2>3. CASE Respond \/ FetchFails
    BY <2>3 DEF Respond, FetchFails
  <2>4. QED
    BY <1>1, <2>1, <2>2, <2>3 DEF AppProgress
<1>2. CASE Tick \/ Reconnect \/ Reload
  BY <1>2 DEF Tick, Reconnect, Reload, StartOver, TypeOK, serverVars
<1>3. CASE Stop
  <2>1. AllNone \in [Session -> {"none"}]
    BY DEF AllNone
  <2>2. /\ stage' \in [Session -> {"none", "bundling", "ready", "failed"}]
        /\ watcher' \in [Session -> {"none", "subscribing", "on", "unwanted", "off"}]
        /\ socket' \in [Session -> {"none", "open", "closed"}]
    BY <1>3, <2>1 DEF Stop
  <2>3. up' \in BOOLEAN /\ UNCHANGED <<app, url, wasConnected, polling, fetch>>
    BY <1>3 DEF Stop
  <2>4. ws' \in {"none", "connecting", "accepted", "open", "lost", "closed"}
    BY <1>3 DEF Stop, TypeOK
  <2>5. QED
    BY <2>2, <2>3, <2>4 DEF TypeOK
<1>4. CASE Drop \/ Restart
  BY <1>4 DEF Drop, Restart, TypeOK, serverVars, appVars
<1>5. CASE UNCHANGED vars
  BY <1>5 DEF vars, serverVars, appVars, TypeOK
<1>6. QED
  BY <1>1, <1>2, <1>3, <1>4, <1>5, TypeSession DEF Next, Disturbance

(* A session, its watcher and the app are in one of their states, and the  *)
(* url is that of a session.                                               *)
THEOREM SessionTypeCorrect == Spec => []TypeOK
BY TypeInit, TypeNext, PTL DEF Spec
-----------------------------------------------------------------------------
(* What has become of the socket and the watcher of a session.             *)
SessionOK(s) ==
    /\ stage[s] # "ready" => socket[s] = "none" /\ watcher[s] = "none"
    /\ stage[s] = "ready" =>
        IF socket[s] = "closed" THEN watcher[s] \in {"unwanted", "off"}
                                ELSE watcher[s] \in {"subscribing", "on"}

(* The app has no end of a connection but for the bundle that it runs, and *)
(* connects only to a session that is ready or forgotten.                  *)
AppOK ==
    /\ ws # "none" => app = "running"
    /\ ws = "connecting" => url # None /\ stage[url] \in {"ready", "none"}
    /\ ws \in {"accepted", "open"} => url # None /\ socket[url] = "open"

Inv == TypeOK /\ AppOK /\ \A s \in Session : SessionOK(s)

LEMMA InvInit == Init => Inv
BY TypeInit DEF Init, Inv, AppOK, SessionOK, AllNone

LEMMA InvSession ==
    ASSUME Inv, NEW s \in Session, SessionProgress(s)
    PROVE  Inv'
<1> USE SessionAssumption DEF Inv, TypeOK, AppOK, SessionOK
<1>1. TypeOK'
  BY TypeSession
<1>2. CASE BundleRequest(s)
  BY <1>1, <1>2 DEF BundleRequest, Ended
<1>3. CASE Bundled(s) \/ BundleFailed(s)
  BY <1>1, <1>3 DEF Bundled, BundleFailed, appVars
<1>4. CASE Subscribed(s) \/ Unsubscribe(s)
  BY <1>1, <1>4 DEF Subscribed, Unsubscribe, appVars
<1>5. CASE Upgrade(s)
  BY <1>1, <1>5 DEF Upgrade, Accepts
<1>6. CASE OnClose(s)
  BY <1>1, <1>6 DEF OnClose, Joined, Unwatch, appVars
<1>7. QED
  BY <1>2, <1>3, <1>4, <1>5, <1>6 DEF SessionProgress

LEMMA InvNext == Inv /\ [Next]_vars => Inv'
<1> SUFFICES ASSUME Inv, [Next]_vars PROVE Inv'
  OBVIOUS
<1>1. TypeOK /\ TypeOK'
  BY TypeNext DEF Inv
<1>2. CASE AppProgress
  <2> USE <1>1 DEF Inv, TypeOK, AppOK, SessionOK, serverVars
  <2>1. CASE RunBundle \/ LoadFails
    BY <2>1 DEF RunBundle, LoadFails
  <2>2. CASE WsOpen \/ Refused \/ WsClose
    BY <2>2 DEF WsOpen, Refused, WsClose
  <2>3. CASE Respond \/ FetchFails
    BY <2>3 DEF Respond, FetchFails
  <2>4. QED
    BY <1>2, <2>1, <2>2, <2>3 DEF AppProgress
<1>3. CASE Tick \/ Reconnect \/ Reload
  BY <1>1, <1>3 DEF Tick, Reconnect, Reload, StartOver, Inv, AppOK, SessionOK, serverVars
<1>4. CASE Stop
  BY <1>1, <1>4 DEF Stop, AllNone, Inv, TypeOK, AppOK, SessionOK
<1>5. CASE Drop \/ Restart
  BY <1>1, <1>5 DEF Drop, Restart, Inv, AppOK, SessionOK, serverVars, appVars
<1>6. CASE UNCHANGED vars
  BY <1>1, <1>6 DEF vars, serverVars, appVars, Inv, AppOK, SessionOK
<1>7. QED
  BY <1>2, <1>3, <1>4, <1>5, <1>6, InvSession DEF Next, Disturbance

(* What the app takes for a connection is one at the server too, and a     *)
(* session is watched, or about to be, as long as its socket is open and   *)
(* for no longer, however early or late the app leaves and whatever the    *)
(* server forgets by restarting (dev-server-command.ts:36-42).             *)
THEOREM SessionsWatchedWhileOpen == Spec => []WatchedWhileOpen
<1>1. Inv => WatchedWhileOpen
  BY DEF Inv, TypeOK, AppOK, SessionOK, WatchedWhileOpen, Joined
<1>2. QED
  BY <1>1, InvInit, InvNext, PTL DEF Spec
=============================================================================
