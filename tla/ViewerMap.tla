----------------------------- MODULE ViewerMap -----------------------------
(* The map of the viewer's extension: when it is made, and what it draws of   *)
(* the page's state, which changes before, while and after it loads.          *)
(* Sources: src/web/src/viewer/MapView.tsx, the reading of the configuration  *)
(* in viewer/App.tsx.                                                         *)
(*                                                                            *)
(* The configuration is read again with each authorization, and the map is    *)
(* made anew with each configuration.  What job and position the page is told *)
(* of, and which quote its card has, is left open (JobNews, ViewerPage).      *)
(* A destination is a number, its route changes while the job runs.  Clicks,  *)
(* flying to a place that was searched, the first jump to the streamer,       *)
(* headings and sizes are left out.                                           *)
EXTENDS Integers

CONSTANTS
  Positions,
  Destinations,
  MaxAuths,   \* times Twitch authorizes the page: it rotates the token
  None

VARIABLES
  auths,
  asked,    \* GET ext/config is under way, for the last authorization
  fallback, \* whether the bundle has a token for the map
  config,   \* None, or whether it has one
  mounted,  \* the overlay was opened once
  player,   \* the streamer's position
  route,    \* the destination and the version of its route, or None
  map

vars == <<auths, asked, fallback, config, mounted, player, route, map>>

Versions == 0..1
Routes == [to : Destinations, version : Versions]
Destination(r) == IF r = None THEN None ELSE r.to

(* A marker glides to its target; fits is how often the map was fitted to a *)
(* destination since it is drawn (history).                                 *)
NoMap == [made |-> FALSE, ready |-> FALSE, route |-> None, pin |-> None,
          marker |-> None, target |-> None, fitted |-> None, fits |-> 0]

Init ==
  /\ auths = 0 /\ asked = FALSE /\ fallback \in BOOLEAN /\ config = None /\ mounted = FALSE
  /\ player = None /\ route = None /\ map = NoMap

-----------------------------------------------------------------------------
(* The effects of MapView, in their order.                                  *)

Marked(m, p) ==
  IF ~m.made THEN m
  ELSE IF p = None THEN [m EXCEPT !.marker = None, !.target = None]
  ELSE IF m.marker = None THEN [m EXCEPT !.marker = p]
  ELSE [m EXCEPT !.target = p]

(* Framed once per destination, not once per geometry.                      *)
FitKey(r) == r.to
Routed(m, r) ==
  IF ~m.ready THEN m
  ELSE IF r = None THEN [m EXCEPT !.route = None, !.fitted = None, !.fits = 0]
  ELSE IF m.fitted = FitKey(r) THEN [m EXCEPT !.route = r]
  ELSE [m EXCEPT !.route = r, !.fitted = FitKey(r),
                 !.fits = IF Destination(m.route) = r.to THEN @ + 1 ELSE 1]

Pinned(m, d) == IF m.made THEN [m EXCEPT !.pin = d] ELSE m

(* A new configuration: the map goes, and one is made if there is a token.  *)
(* Taking ready back runs the effects on the position and the pin.          *)
Made(c) == [NoMap EXCEPT !.made = (c = TRUE) \/ fallback]
Remade(m, c) == IF m.ready THEN Pinned(Marked(Made(c), player), Destination(route)) ELSE Made(c)

-----------------------------------------------------------------------------
(* The page.                                                                *)

OnAuthorized ==
  /\ auths < MaxAuths /\ auths' = auths + 1 /\ asked' = TRUE
  /\ UNCHANGED <<fallback, config, mounted, player, route, map>>

(* An answer, or an error, which is a configuration without a token.        *)
TakeConfig ==
  /\ asked /\ asked' = FALSE
  /\ \E token \in BOOLEAN :
       config' = token /\ map' = IF mounted THEN Remade(map, token) ELSE map
  /\ UNCHANGED <<auths, fallback, mounted, player, route>>

OpenMap ==
  /\ ~mounted /\ mounted' = TRUE
  /\ map' = Pinned(Marked(Made(config), player), Destination(route))
  /\ UNCHANGED <<auths, asked, fallback, config, player, route>>

(* load: the route is added as it is now, and ready runs the effects.       *)
MapLoads ==
  /\ map.made /\ ~map.ready
  /\ map' = Pinned(Routed(Marked([map EXCEPT !.ready = TRUE, !.route = route], player), route),
                   Destination(route))
  /\ UNCHANGED <<auths, asked, fallback, config, mounted, player, route>>

SetPlayer(p) ==
  /\ player' = p /\ map' = Marked(map, p)
  /\ UNCHANGED <<auths, asked, fallback, config, mounted, route>>

(* A quote is priced, a job starts, moves on or ends.                       *)
SetRoute(r) ==
  /\ r # route /\ route' = r
  /\ map' = Pinned(Routed(map, r), Destination(r))
  /\ UNCHANGED <<auths, asked, fallback, config, mounted, player>>

(* The last frame of a glide.                                               *)
Arrive ==
  /\ map.target # None /\ map' = [map EXCEPT !.marker = map.target, !.target = None]
  /\ UNCHANGED <<auths, asked, fallback, config, mounted, player, route>>

Next ==
  \/ OnAuthorized \/ TakeConfig \/ OpenMap \/ MapLoads \/ Arrive
  \/ \E p \in Positions \cup {None} : SetPlayer(p)
  \/ \E r \in Routes \cup {None} : SetRoute(r)

Spec == Init /\ [][Next]_vars

-----------------------------------------------------------------------------
TypeOK ==
  /\ config \in BOOLEAN \cup {None} /\ player \in Positions \cup {None}
  /\ route \in Routes \cup {None} /\ map.route \in Routes \cup {None}

(* Whenever the map is made anew, loads and is drawn on: once it is ready   *)
(* it shows the streamer, or is on the way there, the route and the pin that*)
(* the page has; and it was fitted to the destination, and only once, so    *)
(* that a viewer who looks around while the job runs is left alone.         *)
MapIsOfThePage ==
  map.ready =>
    /\ player = (IF map.target # None THEN map.target ELSE map.marker)
    /\ map.route = route /\ map.pin = Destination(route)
    /\ route # None => map.fitted = route.to /\ map.fits = 1

(* Why: a map that is not ready was never fitted, and one that is was drawn *)
(* from the page at every change.                                           *)
MapIsTyped ==
  /\ player \in Positions \cup {None} /\ route \in Routes \cup {None} /\ fallback \in BOOLEAN
  /\ map \in [made : BOOLEAN, ready : BOOLEAN, route : Routes \cup {None},
              pin : Destinations \cup {None}, marker : Positions \cup {None},
              target : Positions \cup {None}, fitted : Destinations \cup {None}, fits : Nat]
MapBegins ==
  /\ map.ready => map.made
  /\ ~map.ready => map.fitted = None /\ map.fits = 0
  /\ map.ready /\ route = None => map.fitted = None
  /\ map.marker = None => map.target = None
=============================================================================
