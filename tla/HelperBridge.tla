---------------------------- MODULE HelperBridge ----------------------------
(* How what Twitch's helper says reaches the pages of the extension: the boot *)
(* script holds the helper's only listeners, the bundle subscribes to it when *)
(* it has loaded, and a page to the bundle when it is mounted.                *)
(* Sources: the Twitch bridge of web/public/gtamap-boot.js, viewer/twitch.ts, *)
(* and what viewer/App.tsx and config/App.tsx do with authorizations and      *)
(* errors.                                                                    *)
(*                                                                            *)
(* An authorization is a number.  The context, which nobody reads, and the    *)
(* highlight, which travels as the visibility does, are left out.  Where the  *)
(* boot script did not wire the helper the bundle does, and hears nothing of  *)
(* what was said before it.                                                   *)
EXTENDS Integers

CONSTANTS
  MaxAuths,   \* authorizations
  None

VARIABLES
  said,     \* what Twitch said last: authorization, whether an error came after it,
            \* visibility (history); None: nothing yet
  wired,    \* boot.wired
  latest,   \* what the boot script replays to a late subscriber
  bundle,   \* what twitch.ts holds: started, latestAuth, lastError, latestVisible
  config,   \* the broadcaster's page: mounted, auth it was told of, whether it shows
            \* the error
  viewer    \* the viewer's page: mounted, auth, whether it says that there is no session

vars == <<said, wired, latest, bundle, config, viewer>>

Nothing == [auth |-> None, error |-> FALSE, visible |-> None]
Unmounted == [mounted |-> FALSE, auth |-> None, error |-> FALSE]

Init ==
  /\ said = Nothing /\ wired \in BOOLEAN /\ latest = Nothing
  /\ bundle = [started |-> FALSE, auth |-> None, error |-> FALSE, visible |-> TRUE]
  /\ config = Unmounted /\ viewer = Unmounted

-----------------------------------------------------------------------------
(* The pages.                                                               *)

Heard(page, auth) == IF page.mounted THEN [page EXCEPT !.auth = auth, !.error = FALSE] ELSE page
ConfigFailed(page) == IF page.mounted THEN [page EXCEPT !.error = TRUE] ELSE page
(* The viewer need know of it only when there is no session at all.         *)
ViewerFailed(page, token) ==
  IF page.mounted /\ token = None THEN [page EXCEPT !.error = TRUE] ELSE page

(* emitAuth and emitError, with whatever listens to them.                   *)
EmitAuth(auth) ==
  /\ bundle' = [bundle EXCEPT !.auth = auth, !.error = FALSE]
  /\ config' = Heard(config, auth) /\ viewer' = Heard(viewer, auth)

EmitError ==
  /\ bundle' = [bundle EXCEPT !.error = TRUE]
  /\ config' = ConfigFailed(config)
  /\ viewer' = ViewerFailed(viewer, bundle.auth)

-----------------------------------------------------------------------------
(* Twitch: the boot script keeps what it is told and hands it on; without   *)
(* it the bundle listens for itself.                                        *)
NewAuth == IF said.auth = None THEN 1 ELSE said.auth + 1
Reached == bundle.started

Superseded == [latest EXCEPT !.auth = NewAuth, !.error = FALSE]

OnAuthorized ==
  /\ NewAuth <= MaxAuths
  /\ said' = [said EXCEPT !.auth = NewAuth, !.error = FALSE]
  /\ latest' = IF wired THEN Superseded ELSE latest
  /\ IF Reached THEN EmitAuth(NewAuth) ELSE UNCHANGED <<bundle, config, viewer>>
  /\ UNCHANGED wired

OnError ==
  /\ said' = [said EXCEPT !.error = TRUE]
  /\ latest' = IF wired THEN [latest EXCEPT !.error = TRUE] ELSE latest
  /\ IF Reached THEN EmitError ELSE UNCHANGED <<bundle, config, viewer>>
  /\ UNCHANGED wired

OnVisibilityChanged ==
  /\ \E v \in BOOLEAN :
       /\ said' = [said EXCEPT !.visible = v]
       /\ latest' = IF wired THEN [latest EXCEPT !.visible = v] ELSE latest
       /\ bundle' = IF Reached THEN [bundle EXCEPT !.visible = v] ELSE bundle
  /\ UNCHANGED <<wired, config, viewer>>

-----------------------------------------------------------------------------
(* Late subscribers.                                                        *)

(* start, called by the first page that listens: the authorization is       *)
(* replayed first, the error last, before that page is among the listeners. *)
Start ==
  /\ ~bundle.started
  /\ bundle' = [started |-> TRUE, auth |-> latest.auth, error |-> latest.error,
                visible |-> IF latest.visible = None THEN bundle.visible ELSE latest.visible]
  /\ UNCHANGED <<said, wired, latest, config, viewer>>

(* A page is told of the authorization there is, and of no former error.    *)
Mounted == [mounted |-> TRUE, auth |-> bundle.auth, error |-> FALSE]
MountConfig ==
  /\ bundle.started /\ ~config.mounted /\ config' = Mounted
  /\ UNCHANGED <<said, wired, latest, bundle, viewer>>
MountViewer ==
  /\ bundle.started /\ ~viewer.mounted /\ viewer' = Mounted
  /\ UNCHANGED <<said, wired, latest, bundle, config>>
Unmount ==
  /\ \/ config.mounted /\ config' = Unmounted /\ UNCHANGED viewer
     \/ viewer.mounted /\ viewer' = Unmounted /\ UNCHANGED config
  /\ UNCHANGED <<said, wired, latest, bundle>>

Next ==
  \/ OnAuthorized \/ OnError \/ OnVisibilityChanged
  \/ Start \/ MountConfig \/ MountViewer \/ Unmount

Spec == Init /\ [][Next]_vars

-----------------------------------------------------------------------------
TypeOK ==
  /\ {said.auth, latest.auth, bundle.auth, config.auth, viewer.auth} \subseteq 1..MaxAuths \cup {None}
  /\ bundle.visible \in BOOLEAN /\ said.visible \in BOOLEAN \cup {None}

(* However late the bundle and a page came, they hold what Twitch said last:*)
(* the newest authorization, and an error only when none was authorized     *)
(* since; and a viewer who has a session is not told that there is none.    *)
LateIsUpToDate ==
  /\ wired /\ bundle.started =>
       /\ bundle.auth = said.auth /\ bundle.error = said.error
       /\ said.visible # None => bundle.visible = said.visible
  /\ config.mounted => config.auth = bundle.auth /\ (config.error => bundle.error)
  /\ viewer.error => bundle.auth = None

(* Why: the boot script keeps all that was said, and who is not mounted     *)
(* shows nothing.                                                           *)
BootKeeps ==
  /\ wired => latest = said
  /\ \A p \in {config, viewer} : p.mounted => bundle.started
  /\ \A p \in {config, viewer} : ~p.mounted => p = Unmounted
BridgeIsTyped ==
  /\ said \in [auth : Int \cup {None}, error : BOOLEAN, visible : BOOLEAN \cup {None}]
  /\ latest \in [auth : Int \cup {None}, error : BOOLEAN, visible : BOOLEAN \cup {None}]
  /\ bundle \in [started : BOOLEAN, auth : Int \cup {None}, error : BOOLEAN, visible : BOOLEAN]
  /\ {config, viewer} \subseteq [mounted : BOOLEAN, auth : Int \cup {None}, error : BOOLEAN]
  /\ wired \in BOOLEAN
=============================================================================
