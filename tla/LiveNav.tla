------------------------------ MODULE LiveNav ------------------------------
(* The live route of the running job: which job and whose route a viewer's   *)
(* page shows while the streamer walks and jobs come and go.                  *)
(* Sources: primeLiveNav, completeWaypoint, cancelWaypoint, getActiveWaypoint,*)
(* getActiveWaypointView and refreshLiveNavigation of                         *)
(* src/server/src/domain/waypoints.ts, sendSnapshot of realtime/io.ts,        *)
(* jobs/gpsSimulator.ts and, of src/web/src/viewer/App.tsx, what is read of   *)
(* the state and the events of the socket.                                    *)
(*                                                                            *)
(* The streamer walks along a line of positions, one a tick at most, and a    *)
(* route is the stretch of it between the position it was asked for and the   *)
(* destination.  Distances and durations are left out; what is cut off a      *)
(* viewer's copy is in Geo.  An event reaches the page when it is sent: that  *)
(* it may be lost or late is in StaleNews and Fanout.  What is read of the    *)
(* state may be late or lost here.                                            *)
EXTENDS Integers, FiniteSets

CONSTANTS
  Handlers,    \* fixes whose handlers run at the same time
  End,         \* positions are 0..End
  Reads,       \* reads of the state for a page that run at the same time
  Reroute,     \* REROUTE_INTERVAL_MS, in ticks
  MaxTodo,     \* commits, at most, whose effects are pending
  None

VARIABLES
  walk,      \* where the streamer is
  job,       \* the destination of the active waypoint
  nav,       \* K.activeWaypoint: the live route and the age of its updatedAt
  throttle,  \* ticks until K.liveRouteThrottle is gone
  todo,      \* what is to be done after a commit: the jobs whose route is to be
             \* primed, and None if one is to be deleted
  work,
  page,      \* a viewer's page: the job it holds, and where the route on its map leads
  read       \* the reads of the state, for the page

vars == <<walk, job, nav, throttle, todo, work, page, read>>

Positions == 0..End
NoNav == [from |-> None, to |-> None, age |-> 0]
Idle == [at |-> "idle", pos |-> 0, job |-> None, kept |-> NoNav]
Nothing == [job |-> None, route |-> None]

Init ==
  /\ walk = 0
  /\ job = None /\ nav = NoNav /\ throttle = 0 /\ todo = {}
  /\ work = [h \in Handlers |-> Idle]
  /\ page = Nothing /\ read = [r \in Reads |-> None]

Stretch(n) == (n.from..n.to) \cup (n.to..n.from)

(* The waypoint's own route, and what a page shows of a job: the live route *)
(* or else that one.                                                        *)
Own(to) == [from |-> 0, to |-> to, age |-> 0]
(* Mutant: the key of the route is shown without the row of a job.          *)
KeyIsShown(to, n) == [job |-> to, route |-> IF n = NoNav THEN to ELSE n.to]
Shows(to, n) ==
  IF to = None THEN Nothing
  ELSE [job |-> to, route |-> IF n = NoNav THEN to ELSE n.to]

-----------------------------------------------------------------------------
(* refreshLiveNavigation, on every fix that was stored.                     *)

GetActiveWaypoint(h) ==
  /\ work[h] = Idle /\ job # None
  /\ work' = [work EXCEPT ![h] = [Idle EXCEPT !.at = "nav", !.pos = walk, !.job = job]]
  /\ UNCHANGED <<walk, job, nav, throttle, todo, page, read>>

Stale(n) == n = NoNav \/ n.age > Reroute
OffRoute(n, pos) == n # NoNav /\ pos \notin Stretch(n)

(* The route that is there, or the waypoint's own.                          *)
KnownRoute(h) == IF nav = NoNav THEN Own(work[h].job) ELSE nav

(* Mutant: every refresh counts as an update.                               *)
FreshEachTime(h) == [KnownRoute(h) EXCEPT !.age = 0]

(* What is written if no new route is got: updatedAt moves when the route   *)
(* was due for a new one.                                                   *)
KeptRoute(h) ==
  IF Stale(nav) \/ OffRoute(nav, work[h].pos)
  THEN [KnownRoute(h) EXCEPT !.age = 0] ELSE KnownRoute(h)

(* A new route is wanted when the old one is old or left, unless the        *)
(* streamer has arrived, and asked for no more often than the throttle lets.*)
ReadLiveNav(h) ==
  LET wanted == work[h].pos # work[h].job /\ (Stale(nav) \/ OffRoute(nav, work[h].pos)) IN
  /\ work[h].at = "nav"
  /\ IF wanted /\ throttle = 0
     THEN /\ throttle' = Reroute
          /\ work' = [work EXCEPT ![h].kept = KeptRoute(h), ![h].at = "route"]
     ELSE /\ UNCHANGED throttle
          /\ work' = [work EXCEPT ![h] = [Idle EXCEPT !.at = "write", !.kept = KeptRoute(h)]]
  /\ UNCHANGED <<walk, job, nav, todo, page, read>>

(* What was read, or got, is written over whatever is there now.  A page    *)
(* takes the route for the job that it holds, whichever that is.            *)
WriteLiveNav(h, route) ==
  /\ nav' = route
  /\ page' = IF page.job = None THEN page ELSE [page EXCEPT !.route = route.to]
  /\ work' = [work EXCEPT ![h] = Idle]
  /\ UNCHANGED <<walk, job, throttle, todo, read>>

GetWalkingRoute(h) ==
  /\ work[h].at = "route"
  /\ WriteLiveNav(h, [from |-> work[h].pos, to |-> work[h].job, age |-> 0])
RoutingFails(h) == work[h].at = "route" /\ WriteLiveNav(h, work[h].kept)
KeepRoute(h) == work[h].at = "write" /\ WriteLiveNav(h, work[h].kept)

-----------------------------------------------------------------------------
(* Jobs come and go; the route's key is written and deleted after the       *)
(* commit, when another job may already be on.                              *)

Pending(effect) ==
  /\ effect \notin todo /\ Cardinality(todo) < MaxTodo
  /\ todo' = todo \cup {effect}

Activate(to) ==
  /\ job = None /\ walk # to
  /\ job' = to /\ Pending(to)
  /\ UNCHANGED <<walk, nav, throttle, work, page, read>>

(* Completed or canceled; the next job may be bought at once.               *)
EndJob ==
  /\ job # None
  /\ job' = None /\ Pending(None)
  /\ UNCHANGED <<walk, nav, throttle, work, page, read>>

(* waypoint:activated puts the job that was bought on the page.             *)
PrimeLiveNav(to) ==
  /\ to \in todo /\ todo' = todo \ {to}
  /\ nav' = Own(to) /\ page' = Shows(to, NoNav)
  /\ UNCHANGED <<walk, job, throttle, work, read>>

(* The key goes, and the page drops whatever job it holds.                  *)
DeleteNav ==
  /\ None \in todo /\ todo' = todo \ {None}
  /\ nav' = NoNav /\ page' = Nothing
  /\ UNCHANGED <<walk, job, throttle, work, read>>

(* The process dies, or Redis fails it, after a commit.                     *)
LeaveUndone(t) ==
  /\ t \in todo /\ todo' = todo \ {t}
  /\ UNCHANGED <<walk, job, nav, throttle, work, page, read>>

-----------------------------------------------------------------------------
(* GET /state, which a page asks for after each of these events and each    *)
(* time Twitch's helper gives it a token, and the snapshot of a socket that *)
(* connects.  The row and its route are read, in one step here (the route   *)
(* may be another job's all the same); the answer comes later or never, and *)
(* is not asked for again.                                                  *)

Refresh(r) ==
  /\ read[r] = None
  /\ read' = [read EXCEPT ![r] = Shows(job, nav)]
  /\ UNCHANGED <<walk, job, nav, throttle, todo, work, page>>

Answered(r) ==
  /\ read[r] # None
  /\ page' = read[r] /\ read' = [read EXCEPT ![r] = None]
  /\ UNCHANGED <<walk, job, nav, throttle, todo, work>>

ReadFails(r) ==
  /\ read[r] # None /\ read' = [read EXCEPT ![r] = None]
  /\ UNCHANGED <<walk, job, nav, throttle, todo, work, page>>

(* Between two ticks every handler answers that does not wait for Mapbox.   *)
Tick ==
  /\ \A h \in Handlers : work[h].at \in {"idle", "route"}
  /\ walk' \in {walk - 1, walk, walk + 1} \cap Positions
  /\ nav' = IF nav = NoNav \/ nav.age > Reroute THEN nav ELSE [nav EXCEPT !.age = @ + 1]
  /\ throttle' = IF throttle = 0 THEN 0 ELSE throttle - 1
  /\ UNCHANGED <<job, todo, work, page, read>>

Next ==
  \/ \E h \in Handlers :
       \/ GetActiveWaypoint(h) \/ ReadLiveNav(h)
       \/ GetWalkingRoute(h) \/ RoutingFails(h) \/ KeepRoute(h)
  \/ \E to \in Positions : Activate(to) \/ PrimeLiveNav(to)
  \/ \E t \in todo : LeaveUndone(t)
  \/ \E r \in Reads : Refresh(r) \/ Answered(r) \/ ReadFails(r)
  \/ EndJob \/ DeleteNav \/ Tick

(* The phone goes on sending fixes, the routing service answers now and     *)
(* then, and time passes.  Twitch's helper goes on renewing the page's      *)
(* token, at which the page asks for the state; and now and then it gets it.*)
Fairness ==
  /\ SF_vars(Tick)
  /\ \A h \in Handlers :
       /\ SF_vars(GetActiveWaypoint(h)) /\ WF_vars(ReadLiveNav(h)) /\ WF_vars(KeepRoute(h))
       /\ SF_vars(GetWalkingRoute(h))
  /\ \A r \in Reads : WF_vars(Refresh(r)) /\ SF_vars(Answered(r))

Spec == Init /\ [][Next]_vars /\ Fairness

-----------------------------------------------------------------------------
TypeOK ==
  /\ walk \in Positions /\ job \in Positions \cup {None} /\ throttle \in 0..Reroute
  /\ nav = NoNav \/ (nav.from \in Positions /\ nav.to \in Positions /\ nav.age \in 0..Reroute + 1)
  /\ page = Nothing \/ {page.job, page.route} \subseteq Positions

GoesTo(to) == job = to
CaughtUp(to) == job # to \/ (page.job = to /\ page.route = to) \/ walk = to

(* A job that stays on gets onto the page, with its own route on the map:   *)
(* although a refresh that began under the job before may write that one's  *)
(* route over it, a deletion that comes late may remove it and take the new *)
(* job off the page, which then ignores its routes, an answer may be late,  *)
(* and what follows a commit may be left undone.  Until then, or until the  *)
(* streamer has arrived.                                                    *)
RouteCatchesUp == \A to \in Positions : GoesTo(to) ~> CaughtUp(to)
=============================================================================
