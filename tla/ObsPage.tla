------------------------------ MODULE ObsPage ------------------------------
(* The HUD on the stream: its configuration, its socket, the watch for a      *)
(* position that got old, and the map that turns under the streamer.          *)
(* Sources: src/web/src/obs/App.tsx, obs/Minimap.tsx.                         *)
(*                                                                            *)
(* A position is a number, and so is a job, of which the route and the        *)
(* destination are drawn; which news of jobs come is JobNews, how the server  *)
(* watches the phone is GpsFeed.  A second passes with each round of the      *)
(* page's clock.  What the server sends arrives at once, or not at all while  *)
(* the page is not connected.  The tween, the progress bar, the layout and    *)
(* the debug readout are left out; so are the settings of the snapshot, which *)
(* the server sends to the admin only, and a page without the token of OBS,   *)
(* which gets what viewers get.                                               *)
EXTENDS Integers

CONSTANTS
  Positions,
  Jobs,
  Limits,     \* values of gpsTimeoutSeconds; the least is the page's default
  MaxAge,     \* an age that is over every limit
  MaxDrops,   \* times the page loses its connection
  MaxNews,    \* changes of the job and of the limit
  None

VARIABLES
  fix,     \* the server's: position, age, and the limit it is judged by
  config,  \* GET obs/config, and the token the bundle has: "none", "same", "other"
  link,    \* the socket: not opened, opened before the channel was known, connected
  gps,     \* what the page holds: position, status, age since it came, and (history)
           \* the limit the server judged it by
  limit,   \* gpsTimeoutMs of the page
  job,     \* the job the page was told of
  map,     \* the minimap
  drops, news

vars == <<fix, config, link, gps, limit, job, map, drops, news>>
bounds == <<drops, news>>

Default == CHOOSE l \in Limits : \A m \in Limits : l <= m
NoGps == [at |-> None, status |-> "missing", age |-> 0, by |-> Default]
NoMap == [token |-> "none", styleReady |-> FALSE, camera |-> None, route |-> None,
          pin |-> None, since |-> None]
(* A map shows Patong until its first fix; since: the position it began at. *)
NewMap(token, at) == [NoMap EXCEPT !.token = token, !.since = at]

Init ==
  /\ fix = [at |-> None, age |-> 0, limit |-> Default]
  /\ config \in [token : {"none", "same", "other"}, load : {"asked"}]
  /\ link = [opened |-> "no", up |-> FALSE]
  /\ gps = NoGps /\ limit = Default /\ job = None
  /\ map = IF config.token = "none" THEN NoMap ELSE NewMap(config.token, None)
  /\ drops = 0 /\ news = 0

-----------------------------------------------------------------------------
(* The minimap.                                                             *)

(* Its effects on the position: the camera goes where a new one is.         *)
Camera(m, old, new) == IF m.token = "none" \/ new \in {None, old} THEN m ELSE [m EXCEPT !.camera = new]

(* On the job: the route once the style is there, the pin on any map.       *)
Drawn(m, j) ==
  IF m.token = "none" THEN m
  ELSE [m EXCEPT !.pin = j, !.route = IF m.styleReady THEN j ELSE @]

(* Another token or style: the map is removed and a new one made.  Its pin  *)
(* follows when that takes styleReady back.                                 *)
Remade(m, token) == [NewMap(token, gps.at) EXCEPT !.pin = IF m.styleReady THEN job ELSE None]

StyleLoads ==
  /\ map.token # "none" /\ ~map.styleReady
  /\ map' = Drawn([map EXCEPT !.styleReady = TRUE], job)
  /\ UNCHANGED <<fix, config, link, gps, limit, job, bounds>>

-----------------------------------------------------------------------------
(* The configuration and the socket.                                        *)

ConfigFails ==
  /\ config.load = "asked" /\ config' = [config EXCEPT !.load = "failed"]
  /\ link' = IF link.opened = "no" THEN [opened |-> "early", up |-> FALSE] ELSE link
  /\ UNCHANGED <<fix, gps, limit, job, map, bounds>>

Retry ==
  /\ config.load = "failed" /\ config' = [config EXCEPT !.load = "asked"]
  /\ UNCHANGED <<fix, link, gps, limit, job, map, bounds>>

(* The socket is opened, or opened anew now that the channel is known.      *)
ConfigLoads ==
  /\ config.load = "asked" /\ config' = [config EXCEPT !.load = "loaded"]
  /\ link' = [opened |-> "own", up |-> FALSE]
  /\ map' = IF config.token = "same" THEN map ELSE Remade(map, "config")
  /\ UNCHANGED <<fix, gps, limit, job, bounds>>

(* What the page is told of the position starts its watch anew; the age     *)
(* that comes with it is not looked at.                                     *)
Status == IF fix.at = None THEN "missing" ELSE IF fix.age > fix.limit THEN "stale" ELSE "ok"
TakeGps(at, status) == gps' = [at |-> at, status |-> status, age |-> 0, by |-> fix.limit]

Snapshot(j) ==
  /\ ~link.up /\ link.opened # "no" /\ link' = [link EXCEPT !.up = TRUE]
  /\ TakeGps(fix.at, Status)
  /\ job' = j /\ map' = Drawn(Camera(map, gps.at, fix.at), j)
  /\ UNCHANGED <<fix, config, limit, bounds>>

Drop ==
  /\ link.up /\ drops < MaxDrops /\ drops' = drops + 1
  /\ link' = [link EXCEPT !.up = FALSE]
  /\ UNCHANGED <<fix, config, gps, limit, job, map, news>>

News == news < MaxNews /\ news' = news + 1

(* waypoint:activated, completed, canceled.                                 *)
JobEvent(j) ==
  /\ News /\ link.up /\ j # job
  /\ job' = j /\ map' = Drawn(map, j)
  /\ UNCHANGED <<fix, config, link, gps, limit, drops>>

-----------------------------------------------------------------------------
(* The server.                                                              *)

(* A fix, and gps:update.                                                   *)
Push(p) ==
  /\ fix' = [fix EXCEPT !.at = p, !.age = 0]
  /\ IF link.up THEN TakeGps(p, "ok") /\ map' = Camera(map, gps.at, p)
     ELSE UNCHANGED <<gps, map>>
  /\ UNCHANGED <<config, link, limit, job, bounds>>

(* gps:stale, once for each drop.                                           *)
GpsStale ==
  /\ link.up /\ Status = "stale" /\ gps.status = "ok"
  /\ gps' = [gps EXCEPT !.status = "stale"]
  /\ UNCHANGED <<fix, config, link, limit, job, map, bounds>>

SettingsUpdate(l) ==
  /\ News /\ l # fix.limit /\ fix' = [fix EXCEPT !.limit = l]
  /\ limit' = IF link.up THEN l ELSE limit
  /\ UNCHANGED <<config, link, gps, job, map, drops>>

Second ==
  /\ fix.at # None
  /\ fix' = [fix EXCEPT !.age = IF @ < MaxAge THEN @ + 1 ELSE @]
  /\ gps' = [gps EXCEPT !.age = IF @ < MaxAge THEN @ + 1 ELSE @]
  /\ UNCHANGED <<config, link, limit, job, map, bounds>>

Next ==
  \/ StyleLoads \/ ConfigFails \/ Retry \/ ConfigLoads \/ Drop
  \/ \E j \in Jobs \cup {None} : Snapshot(j) \/ JobEvent(j)
  \/ \E p \in Positions : Push(p)
  \/ GpsStale \/ Second
  \/ \E l \in Limits : SettingsUpdate(l)

Spec == Init /\ [][Next]_vars

-----------------------------------------------------------------------------
TypeOK ==
  /\ gps.at \in Positions \cup {None} /\ gps.status \in {"ok", "stale", "missing"}
  /\ limit \in Limits /\ map.token \in {"none", "same", "other", "config"}

(* The HUD is dimmed.                                                       *)
Stale == gps.at = None \/ gps.status # "ok" \/ gps.age > limit

(* A HUD that is not dimmed is of a fix no older than the server's limit    *)
(* when it was told and the page's own since, whatever connection was lost  *)
(* and whenever; and a map that has loaded draws the job the page was told  *)
(* of and is where the streamer is, unless it was made since and the        *)
(* streamer has not moved.                                                  *)
HudIsTrue ==
  /\ ~Stale => fix.age <= gps.by + limit
  /\ map.styleReady =>
       /\ map.route = job /\ map.pin = job
       /\ gps.at # None => map.camera = gps.at \/ (map.camera = None /\ map.since = gps.at)

(* Why: the page's own clock runs with the server's, and every map knows    *)
(* where it began.                                                          *)
Fixes == [at : Positions \cup {None}, age : Nat, limit : Limits]
Told == [at : Positions \cup {None}, status : {"ok", "stale", "missing"}, age : Nat, by : Limits]
Maps == [token : {"none", "same", "other", "config"}, styleReady : BOOLEAN,
         camera : Positions \cup {None}, route : Jobs \cup {None}, pin : Jobs \cup {None},
         since : Positions \cup {None}]
HudIsTyped == fix \in Fixes /\ gps \in Told /\ limit \in Limits /\ job \in Jobs \cup {None} /\ map \in Maps
FreshIsFresh == gps.status = "ok" /\ gps.at # None /\ gps.age < MaxAge => fix.age <= gps.by + gps.age
MapIsDrawn ==
  /\ map.styleReady => map.token # "none" /\ map.route = job /\ map.pin = job
  /\ map.token # "none" /\ gps.at # None => map.camera = gps.at \/ (map.camera = None /\ map.since = gps.at)
=============================================================================
