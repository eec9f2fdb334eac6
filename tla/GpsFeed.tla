------------------------------ MODULE GpsFeed ------------------------------
(* The fixes of the streamer's phone: what is kept of them, what a viewer is  *)
(* told, and the watch for a phone that dropped off.                          *)
(* Sources: src/server/src/domain/gps.ts, realtime/gpsBroadcast.ts, gps:push  *)
(* and sendSnapshot of realtime/io.ts, the GPS watch of jobs/maintenance.ts.  *)
(*                                                                            *)
(* A fix is its age, in rounds of the watch (GPS_WATCH_MS), since the server  *)
(* received it, and whether it is accurate enough; the position is whatever   *)
(* the phone sent.  Where a viewer's copy is rounded, where the row of        *)
(* gps_samples is written, the fixed position of the review demo and the      *)
(* reset of the development tools are left out.                               *)
EXTENDS Integers, FiniteSets

CONSTANTS
  Handlers,    \* gps:push handlers, or ticks of the simulator, at the same time
  Keep,        \* BUFFER_TTL_SECONDS
  Delay,       \* viewerLocationDelaySeconds when the admin turns it on
  Timeout,     \* gpsTimeoutSeconds
  None

VARIABLES
  delay,      \* the setting: 0 or Delay
  latest,     \* K.gpsLatest
  buffer,     \* K.gpsBuffer
  work,
  healthy,    \* lastGpsHealthy
  watched,    \* whether the watch has run in this round
  viewer      \* what viewers were last told: the status, and the age of the fix
              \* and the delay it was picked with

vars == <<delay, latest, buffer, work, healthy, watched, viewer>>

Idle == [at |-> "idle", good |-> FALSE, delay |-> 0]
Fixes == [age : 0..Keep, good : BOOLEAN]
NoFix == [age |-> 0, good |-> FALSE, none |-> TRUE]
Nothing == [age |-> None, delay |-> 0]

Init ==
  /\ delay = 0
  /\ latest = NoFix /\ buffer = {}
  /\ work = [h \in Handlers |-> Idle]
  /\ healthy = TRUE /\ watched = FALSE
  /\ viewer = [status |-> "missing", fix |-> Nothing]

-----------------------------------------------------------------------------
(* What is told.                                                            *)

Status(fix) ==
  IF fix = NoFix THEN "missing"
  ELSE IF fix.age > Timeout THEN "stale"
  ELSE IF fix.good THEN "ok" ELSE "inaccurate"

(* getPublicGps: the newest fix that is at least that old, or none.         *)
PublicFix(d) ==
  LET old == {s.age : s \in {x \in buffer : x.age >= d}} IN
  IF latest = NoFix THEN Nothing
  ELSE IF d = 0 THEN [age |-> latest.age, delay |-> d]
  ELSE IF old = {} THEN Nothing
  ELSE [age |-> CHOOSE a \in old : \A b \in old : a <= b, delay |-> d]

(* The status is that of the live fix, however old the one that is shown.   *)
Told(d) == [status |-> Status(latest), fix |-> PublicFix(d)]

-----------------------------------------------------------------------------
(* gps:push.                                                                *)

(* The settings are read before the fix is stored.                          *)
Push(h) ==
  /\ work[h] = Idle
  /\ \E good \in BOOLEAN :
       work' = [work EXCEPT ![h] = [at |-> "ingest", good |-> good, delay |-> delay]]
  /\ UNCHANGED <<delay, latest, buffer, healthy, watched, viewer>>

IngestGps(h) ==
  /\ work[h].at = "ingest"
  /\ latest' = [age |-> 0, good |-> work[h].good]
  /\ buffer' = buffer \cup {latest'}
  /\ work' = [work EXCEPT ![h].at = "broadcast"]
  /\ UNCHANGED <<delay, healthy, watched, viewer>>

BroadcastGps(h) ==
  /\ work[h].at = "broadcast"
  /\ viewer' = Told(work[h].delay)
  /\ work' = [work EXCEPT ![h] = Idle]
  /\ UNCHANGED <<delay, latest, buffer, healthy, watched>>

-----------------------------------------------------------------------------
(* The watch, a page that connects, the admin, and time.                    *)

(* Mutant: only a drop is remembered.                                       *)
StaysUnhealthy == healthy /\ Status(latest) = "ok"
HealthyNow == Status(latest) = "ok"

(* Edge-triggered: one event when the fixes drop.                           *)
WatchGps ==
  /\ ~watched /\ watched' = TRUE
  /\ healthy' = HealthyNow
  /\ viewer' = IF healthy /\ ~healthy' THEN [viewer EXCEPT !.status = "stale"] ELSE viewer
  /\ UNCHANGED <<delay, latest, buffer, work>>

SendSnapshot ==
  /\ viewer' = Told(delay)
  /\ UNCHANGED <<delay, latest, buffer, work, healthy, watched>>

SetDelay(d) ==
  /\ delay # d /\ delay' = d
  /\ UNCHANGED <<latest, buffer, work, healthy, watched, viewer>>

Restart ==
  /\ healthy' = TRUE
  /\ work' = [h \in Handlers |-> Idle]
  /\ UNCHANGED <<delay, latest, buffer, watched, viewer>>

(* The keys expire; a sample no reader can get any more, because a younger  *)
(* one is old enough for the longest delay, is left out of the buffer.      *)
Aged(samples) == {[s EXCEPT !.age = @ + 1] : s \in {x \in samples : x.age < Keep}}
Readable(samples) == {s \in samples : \A r \in samples : r.age >= Delay => s.age <= r.age}

(* A handler takes less than a round.                                       *)
Tick ==
  /\ watched /\ watched' = FALSE
  /\ \A h \in Handlers : work[h] = Idle
  /\ latest' = IF latest = NoFix \/ latest.age = Keep THEN NoFix ELSE [latest EXCEPT !.age = @ + 1]
  /\ buffer' = Readable(Aged(buffer))
  /\ UNCHANGED <<delay, work, healthy, viewer>>

Next ==
  \/ \E h \in Handlers : Push(h) \/ IngestGps(h) \/ BroadcastGps(h)
  \/ WatchGps \/ SendSnapshot \/ Restart \/ Tick
  \/ \E d \in {0, Delay} : SetDelay(d)

Spec == Init /\ [][Next]_vars

-----------------------------------------------------------------------------
TypeOK ==
  /\ delay \in {0, Delay} /\ latest \in Fixes \cup {NoFix} /\ buffer \subseteq Fixes
  /\ viewer.status \in {"ok", "stale", "inaccurate", "missing"}

Dropped == Status(latest) # "ok"
ViewersKnow == viewer.status # "ok" \/ Status(latest) = "ok"

(* When the phone drops off, viewers are told: a page never goes on showing *)
(* a healthy position, whatever the phone sent between two rounds of the    *)
(* watch, and whenever the server restarted.                                *)
DropIsTold == Dropped ~> ViewersKnow
=============================================================================
