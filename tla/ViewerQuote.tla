---------------------------- MODULE ViewerQuote ----------------------------
(* How a quote comes about: the route that the router, or the cache of routes,*)
(* gives from where the streamer is, the checks, and the row with its code.   *)
(* Sources: createViewerQuote of src/server/src/domain/waypointFlow.ts,       *)
(* getWalkingRoute of maps/mapbox.ts, domain/quotes.ts and redis/lock.ts.     *)
(*                                                                            *)
(* Points are numbers along one street and the buckets of the cache hold two  *)
(* of them.  What happens to a quote later is GtaEconomy's and SlotPool's;    *)
(* how fresh a position is, is PhoneGps' and GpsFeed's; settings stay as they *)
(* are.                                                                       *)
EXTENDS Integers, FiniteSets

CONSTANTS
  Workers,            \* requests under way at once
  Viewers,            \* who ask, and
  Others,             \* who have a quote from before
  Positions, Places,  \* where the streamer may be, and what may be tapped
  Zone,               \* the places that are out of bounds or restricted
  RouteOf,            \* the router's answer per pair of points, None for NoRoute
  MaxWalk, MaxSnap,   \* maxWalkingDistanceMeters, maxSnapDistanceMeters
  Codes, MaxTries,    \* the codes there are, and the attempts to find a free one
  MaxTrouble,         \* bound: failures, and lapses of the lock
  None

VARIABLES
  cache,      \* K.routeCache, per pair of buckets
  work,       \* the requests
  lock,       \* K.viewerQuote: per viewer, the worker that has it
  quotes,     \* waypoint_quotes, the live rows: whose, and with which code;
              \* where they go and at which price is as in the request
  trouble

vars == <<cache, work, lock, quotes, trouble>>

Bucket(p) == p \div 2
KeyFor(origin, destination) == <<Bucket(origin), Bucket(destination)>>
Keys == {KeyFor(o, d) : o \in Positions, d \in Places}
Free == [at |-> "free", viewer |-> None, origin |-> None, destination |-> None,
         route |-> None, tries |-> 0]

Row(v, code) == [viewer |-> v, code |-> code, lapsed |-> FALSE]

Init ==
  /\ cache = [k \in Keys |-> None] /\ work = [w \in Workers |-> Free]
  /\ lock = [v \in Viewers |-> None]
  /\ trouble = 0 /\ quotes \in {{Row(v, code)} : v \in Others, code \in Codes}

Trouble == trouble < MaxTrouble /\ trouble' = trouble + 1
At(w, step) == work[w].at = step
Goes(w, step) == work' = [work EXCEPT ![w].at = step]
Ends(w) == work' = [work EXCEPT ![w] = Free]

-----------------------------------------------------------------------------
(* createViewerQuote up to the route: the cheap rejections first.           *)

Crow(a, b) == IF a < b THEN b - a ELSE a - b

(* The origin is where the streamer is when the position is read.           *)
Tap(w, v, d) ==
  /\ At(w, "free") /\ d \notin Zone
  /\ \E pos \in Positions :
       /\ Crow(pos, d) <= MaxWalk
       /\ work' = [work EXCEPT ![w] = [Free EXCEPT !.at = "cache", !.viewer = v,
                                                   !.origin = pos, !.destination = d]]
  /\ UNCHANGED <<cache, lock, quotes, trouble>>

Key(w) == KeyFor(work[w].origin, work[w].destination)
IsRefused(route) == route.snap > MaxSnap \/ route.distance > MaxWalk

(* getWalkingRoute returns.                                                 *)
Routed(w, route) ==
  IF IsRefused(route) THEN Ends(w)
  ELSE work' = [work EXCEPT ![w].at = "lock", ![w].route = route]

ReadCache(w) ==
  /\ At(w, "cache")
  /\ IF cache[Key(w)] = None THEN Goes(w, "ask") ELSE Routed(w, cache[Key(w)])
  /\ UNCHANGED <<cache, lock, quotes, trouble>>

AskRouter(w) ==
  LET route == RouteOf[<<work[w].origin, work[w].destination>>]
  IN
  /\ At(w, "ask")
  /\ IF route = None THEN Ends(w)
     ELSE work' = [work EXCEPT ![w].at = "store", ![w].route = route]
  /\ UNCHANGED <<cache, lock, quotes, trouble>>

StoreRoute(w) ==
  /\ At(w, "store")
  /\ cache' = [cache EXCEPT ![Key(w)] = work[w].route] /\ Routed(w, work[w].route)
  /\ UNCHANGED <<lock, quotes, trouble>>

-----------------------------------------------------------------------------
(* One quote in the place of another, under the viewer's lock.              *)

LiveOf(v) == {q \in quotes : q.viewer = v}

Lock(w) ==
  LET v == work[w].viewer IN
  /\ At(w, "lock")
  /\ IF lock[v] = None THEN lock' = [lock EXCEPT ![v] = w] /\ Goes(w, "supersede")
     ELSE Ends(w) /\ UNCHANGED lock
  /\ UNCHANGED <<cache, quotes, trouble>>

(* A quote that has lapsed is not found, but it still counts for the index. *)
Supersede(w) ==
  /\ At(w, "supersede") /\ Goes(w, "insert")
  /\ quotes' = {q \in quotes : q.viewer # work[w].viewer \/ q.lapsed}
  /\ UNCHANGED <<cache, lock, trouble>>

(* The lock is given back by whoever still has it.                          *)
Released(w) == [v \in Viewers |-> IF lock[v] = w THEN None ELSE lock[v]]
Leaves(w) == Ends(w) /\ lock' = Released(w)

(* quotes_code_active_idx, quotes_one_live_per_viewer                       *)
Collides(code) == \E q \in quotes : q.code = code
Conflicts(w) == LiveOf(work[w].viewer) # {}

Insert(w) ==
  /\ At(w, "insert")
  /\ \E code \in Codes :
       \/ /\ Collides(code)
          /\ IF work[w].tries + 1 = MaxTries THEN Leaves(w)
             ELSE work' = [work EXCEPT ![w].tries = @ + 1] /\ UNCHANGED lock
          /\ UNCHANGED quotes
       \/ Conflicts(w) /\ Leaves(w) /\ UNCHANGED quotes
       \/ /\ ~Collides(code) /\ ~Conflicts(w)
          /\ quotes' = quotes \cup {Row(work[w].viewer, code)}
          /\ Goes(w, "answer") /\ UNCHANGED lock
  /\ UNCHANGED <<cache, trouble>>

(* The copy for Redis, and the answer.                                      *)
CacheQuote(w) ==
  /\ At(w, "answer") /\ Leaves(w)
  /\ UNCHANGED <<cache, quotes, trouble>>

(* Redis, the router or Postgres fails; a row that is made stays.           *)
CallFails(w) ==
  /\ ~At(w, "free") /\ Trouble
  /\ Leaves(w)
  /\ UNCHANGED <<cache, quotes>>

-----------------------------------------------------------------------------
(* Meanwhile time passes.                                                   *)

Forget(k) ==
  /\ cache[k] # None /\ cache' = [cache EXCEPT ![k] = None]
  /\ UNCHANGED <<work, lock, quotes, trouble>>

LockLapses(v) ==
  /\ lock[v] # None /\ Trouble /\ lock' = [lock EXCEPT ![v] = None]
  /\ UNCHANGED <<cache, work, quotes>>

Lapse(q) ==
  /\ quotes' = (quotes \ {q}) \cup {[q EXCEPT !.lapsed = TRUE]}
  /\ UNCHANGED <<cache, work, lock, trouble>>

(* By the sweep when it has lapsed, or because it was bought.               *)
Closes(q) ==
  /\ quotes' = quotes \ {q}
  /\ UNCHANGED <<cache, work, lock, trouble>>

Next ==
  \/ \E w \in Workers :
       \/ \E v \in Viewers, d \in Places : Tap(w, v, d)
       \/ ReadCache(w) \/ AskRouter(w) \/ StoreRoute(w) \/ Lock(w) \/ Supersede(w) \/ Insert(w)
       \/ CacheQuote(w) \/ CallFails(w)
  \/ (\E k \in Keys : Forget(k)) \/ (\E v \in Viewers : LockLapses(v))
  \/ \E q \in quotes : Lapse(q) \/ Closes(q)

Spec == Init /\ [][Next]_vars

-----------------------------------------------------------------------------
TypeOK ==
  /\ trouble \in 0..MaxTrouble /\ Cardinality(quotes) <= Cardinality(Codes)
  /\ \A w \in Workers : work[w].tries < MaxTries
  /\ \A v \in Viewers : lock[v] \in Workers \cup {None}

Walks == Positions \X (Places \ Zone)
Steps == {"cache", "ask", "store", "lock", "supersede", "insert", "answer"}
Request ==
  [at : Steps \cup {"free"}, viewer : Viewers \cup {None}, origin : Positions \cup {None},
   destination : Places \cup {None}, route : {RouteOf[p] : p \in Walks} \cup {None}, tries : Int]

(* A route that is cached is the router's for some walk between the buckets.*)
IsOfBuckets(route, key) == \E p \in Walks : route = RouteOf[p] /\ key = KeyFor(p[1], p[2])
CacheIsTheRouters ==
  DOMAIN cache = Keys /\ \A k \in Keys : cache[k] # None => IsOfBuckets(cache[k], k)

(* A request is of a viewer who tapped an open place; its route is the      *)
(* router's for about its walk, and within limits once it was checked.      *)
IsOfTap(r) == r.at # "free" => r.viewer \in Viewers /\ <<r.origin, r.destination>> \in Walks
IsRouted(r) ==
  /\ r.at \in {"store", "lock", "supersede", "insert"} =>
       r.route # None /\ IsOfBuckets(r.route, KeyFor(r.origin, r.destination))
  /\ r.at \in {"lock", "supersede", "insert"} => ~IsRefused(r.route)
RequestsAreRouted ==
  work \in [Workers -> Request] /\ \A w \in Workers : IsOfTap(work[w]) /\ IsRouted(work[w])

(* The unique indexes.                                                      *)
RowsAreApart ==
  /\ quotes \subseteq [viewer : Viewers \cup Others, code : Codes, lapsed : BOOLEAN]
  /\ \A q, r \in quotes : q # r => q.code # r.code /\ q.viewer # r.viewer

(* A quote is for a walk that the router knows, between points no further   *)
(* than a bucket from its own, within the limits and to no closed place,    *)
(* whoever tapped before and wherever the streamer has gone meanwhile.  No  *)
(* two live quotes can be taken for each other, by their code or because    *)
(* they are of one viewer, even when the lock did not hold.                 *)
QuotedAsRouted ==
  /\ \A w \in Workers :
       LET quote == work[w] IN
       At(w, "insert") =>
         /\ quote.destination \notin Zone
         /\ quote.route.distance <= MaxWalk /\ quote.route.snap <= MaxSnap
         /\ \E p \in DOMAIN RouteOf :
              /\ RouteOf[p] = quote.route
              /\ Crow(p[1], quote.origin) <= 1 /\ Crow(p[2], quote.destination) <= 1
  /\ \A q, r \in quotes :
       q # r => q.code # r.code /\ q.viewer # r.viewer
=============================================================================
