------------------------------ MODULE PhoneGps ------------------------------
(* How a fix gets from the streamer's phone to the price of a waypoint: the   *)
(* geolocation watch, the upload of its newest fix, and what the server takes *)
(* for fresh.                                                                 *)
(* Sources: src/web/src/streamer/useGeolocation.ts, the GPS upload of         *)
(* streamer/App.tsx, ingestGps, classify and requireFreshGps of               *)
(* src/server/src/domain/gps.ts.                                              *)
(*                                                                            *)
(* Time passes in rounds of PUSH_MAX_INTERVAL_MS, shorter than any timeout of *)
(* the server; a fix is the rounds since the device took it.                  *)
EXTENDS Integers

CONSTANTS
  Timeout,  \* gpsTimeoutSeconds
  Skew,     \* CLOCK_SKEW_PAST_MS
  Ahead,    \* how far the device's clock may be ahead
  None

VARIABLES
  ahead,    \* how far this device's clock is ahead
  state,    \* GeoState
  hasFix,   \* hasFixRef
  armed,    \* watchRef is set
  last,     \* lastPosition
  pending,  \* pendingRef
  sent,     \* lastSentRef's fix
  rested,   \* PUSH_MAX_INTERVAL_MS went by since then
  link,     \* the socket is connected
  wire,     \* a gps:push on its way
  latest    \* K.gpsLatest: age of the fix, and rounds since it was received

vars == <<ahead, state, hasFix, armed, last, pending, sent, rested, link, wire, latest>>

Eldest == Skew + Ahead + Timeout + 2
Ages == 0..Eldest
Older(age) == IF age = None \/ age = Eldest THEN age ELSE age + 1
NoSample == [taken |-> None, age |-> 0]

watch == <<state, hasFix, armed, last>>
upload == <<pending, sent, rested>>
server == <<wire, latest>>

Init ==
  /\ ahead \in 0..Ahead
  /\ state = "idle" /\ hasFix = FALSE /\ armed = FALSE /\ last = None
  /\ pending = None /\ sent = None /\ rested = TRUE
  /\ link = FALSE /\ wire = None /\ latest = NoSample

-----------------------------------------------------------------------------
(* The watch.  Whatever changes state or lastPosition is seen by the effect *)
(* that keeps the newest fix to send, and only while watching.              *)
Pend == pending' = IF state' # "watching" THEN None ELSE IF last' # None THEN last' ELSE pending

(* From the button; the position of a former watch is still there.          *)
Start ==
  /\ state = "idle" /\ ~armed /\ armed' = TRUE
  /\ state' = IF hasFix THEN "watching" ELSE "requesting"
  /\ UNCHANGED <<hasFix, last>> /\ Pend
  /\ UNCHANGED <<ahead, sent, rested, link, server>>

(* stop and start in one handler; the page renders once.                    *)
Retry ==
  /\ state \in {"denied", "requesting", "error"} /\ armed' = TRUE
  /\ state' = IF hasFix THEN "watching" ELSE "requesting"
  /\ UNCHANGED <<hasFix, last>> /\ Pend
  /\ UNCHANGED <<ahead, sent, rested, link, server>>

(* maximumAge is less than a round.                                         *)
Fix ==
  /\ armed
  /\ hasFix' = TRUE /\ last' = 0 /\ state' = "watching"
  /\ UNCHANGED armed /\ Pend
  /\ UNCHANGED <<ahead, sent, rested, link, server>>

(* A watch without signal goes on, and so does the state it is in once it   *)
(* had a fix.                                                               *)
NoSignal ==
  /\ armed /\ ~hasFix
  /\ state' = "error"
  /\ UNCHANGED <<hasFix, armed, last>> /\ Pend
  /\ UNCHANGED <<ahead, sent, rested, link, server>>

Denied ==
  /\ armed /\ armed' = FALSE /\ hasFix' = FALSE
  /\ state' = "denied"
  /\ UNCHANGED last /\ Pend
  /\ UNCHANGED <<ahead, sent, rested, link, server>>

(* The phone is unpaired: the watch stops and the socket is closed.         *)
Unpair ==
  /\ armed' = FALSE /\ state' = "idle" /\ link' = FALSE
  /\ UNCHANGED <<hasFix, last>> /\ Pend
  /\ UNCHANGED <<ahead, sent, rested, server>>

Reload ==
  /\ state' = "idle" /\ hasFix' = FALSE /\ armed' = FALSE /\ last' = None
  /\ pending' = None /\ sent' = None /\ rested' = TRUE /\ link' = FALSE
  /\ UNCHANGED <<ahead, server>>

-----------------------------------------------------------------------------
(* The upload and its receipt.                                              *)

(* A fix that is somewhere else, or the same one again when the last is     *)
(* PUSH_MAX_INTERVAL_MS ago.                                                *)
Upload ==
  /\ pending # None /\ link /\ (rested \/ pending # sent)
  /\ wire = None /\ wire' = pending
  /\ sent' = pending /\ rested' = FALSE
  /\ UNCHANGED <<ahead, watch, pending, link, latest>>

(* Mutant: the device's timestamp is not looked at.                         *)
AnyTimestamp(taken) == TRUE

(* timestamp < now - CLOCK_SKEW_PAST_MS is refused, and so is one from the  *)
(* future, which this device's clock is not ahead enough for.               *)
Accepted(taken) == taken - ahead <= Skew

(* receivedAt is the server's own clock.                                    *)
IngestGps ==
  /\ wire # None /\ wire' = None
  /\ latest' = IF Accepted(wire) THEN [taken |-> wire, age |-> 0] ELSE latest
  /\ UNCHANGED <<ahead, watch, upload, link>>

Connect ==
  /\ ~link /\ link' = TRUE
  /\ UNCHANGED <<ahead, watch, upload, server>>

(* What was on its way may be lost.                                         *)
Disconnect ==
  /\ link /\ link' = FALSE /\ wire' \in {wire, None}
  /\ UNCHANGED <<ahead, watch, upload, latest>>

(* A message takes less than a round.                                       *)
Tick ==
  /\ wire = None
  /\ last' = Older(last) /\ pending' = Older(pending) /\ sent' = Older(sent)
  /\ rested' = TRUE
  /\ latest' = IF latest = NoSample THEN NoSample
               ELSE [taken |-> Older(latest.taken), age |-> IF latest.age > Timeout THEN latest.age
                                                            ELSE latest.age + 1]
  /\ UNCHANGED <<ahead, state, hasFix, armed, link, wire>>

Next ==
  \/ Start \/ Retry \/ Fix \/ NoSignal \/ Denied \/ Unpair \/ Reload
  \/ Upload \/ IngestGps \/ Connect \/ Disconnect \/ Tick

Spec == Init /\ [][Next]_vars

-----------------------------------------------------------------------------
(* requireFreshGps lets a quote be priced, by the time of receipt.          *)
Fresh == latest # NoSample /\ latest.age <= Timeout

TypeOK ==
  /\ state \in {"idle", "requesting", "watching", "denied", "error"}
  /\ {last, pending, sent, wire} \subseteq Ages \cup {None}
  /\ pending # None => state = "watching" /\ armed

(* What is known of a fix is its age.                                       *)
FixesAreTyped ==
  /\ ahead \in 0..Ahead /\ {last, pending, sent, wire} \subseteq Ages \cup {None}
  /\ latest = NoSample \/ latest \in [taken : Ages, age : 0..Timeout + 1]

(* A fix is no older than it could be when it came, and what has passed     *)
(* since.                                                                   *)
AgedSinceReceipt == Fresh => latest.taken <= Skew + ahead + latest.age

(* A position that a waypoint is priced from is at most CLOCK_SKEW_PAST_MS  *)
(* and gpsTimeoutSeconds old, whatever the phone goes on sending: a watch   *)
(* without signal keeps its state and its fix, a restarted one begins with  *)
(* the position of the former, and both are received as new again and again.*)
PricedWithinSkew == Fresh => latest.taken <= Skew + ahead + Timeout
=============================================================================
