------------------------------ MODULE JobNews ------------------------------
(* How the pages of the streamer, of OBS and of the admin learn which job     *)
(* runs: events sent after the commit, a snapshot on connecting, the answers  *)
(* of their own requests, and the admin's poll.                               *)
(* Sources: src/web/src/streamer/App.tsx, obs/App.tsx, admin/App.tsx,         *)
(* shared/socket.ts, src/server/src/realtime/io.ts and bus.ts, the routes     *)
(* that end a job in http/routes/streamer.ts and admin.ts.                    *)
(*                                                                            *)
(* Jobs follow one another, so a version tells it all: it is odd while a job  *)
(* runs, and it names that job.  A message is the version that it was made    *)
(* at, and a page shows the version of what it was last told.  route:update   *)
(* changes the route of the job a page shows and is in LiveNav.               *)
EXTENDS Integers, Sequences

CONSTANTS
  MaxVersion,  \* versions
  MaxDrops,    \* times the page loses its connection
  MaxLoads,    \* times it asks for the state
  None, Asked, Refused

VARIABLES
  page,      \* which page it is
  version,   \* of the job in the database
  emits,     \* versions committed and not yet announced
  link,      \* the page's socket is connected
  snapshot,  \* of this connection: Asked, the version it read, None when it is sent
  queue,     \* sent to the page and not yet received
  load,      \* GET state: Asked, the version it read, None
  loads,
  request,   \* complete or cancel: Asked, Refused, the version it made, None
  shown,
  seen,      \* the latest version the page was told of
  arm,       \* the version shown when the button was pressed for the first time,
             \* or the admin's dialog opened
  replaced,  \* whether a snapshot or a state came since then
  drops

vars == <<page, version, emits, link, snapshot, queue, load, loads, request, shown, seen,
          arm, replaced, drops>>

Job(v) == v % 2 = 1
Versions == 0..MaxVersion
Kinds == {"activated", "ended", "snapshot"}

Init ==
  /\ page \in {"streamer", "obs", "admin"}
  /\ version = 0 /\ emits = {}
  /\ link = FALSE /\ snapshot = None /\ queue = <<>> /\ drops = 0
  /\ load = None /\ loads = 0 /\ request = None
  /\ shown = 0 /\ seen = 0
  /\ arm = None /\ replaced = FALSE

server == <<version, emits>>
socket == <<link, snapshot, queue, drops>>
loading == <<load, loads>>
button == <<arm, replaced>>

-----------------------------------------------------------------------------
(* The server.                                                              *)

Commit == version < MaxVersion /\ version' = version + 1 /\ emits' = emits \cup {version + 1}

(* A job is bought, or ended by somebody else.                              *)
Elsewhere ==
  /\ Commit
  /\ UNCHANGED <<page, socket, loading, request, shown, seen, button>>

(* The event follows the commit after other awaits, so two may change place.*)
Emit(v) ==
  /\ v \in emits /\ emits' = emits \ {v}
  /\ queue' = IF link THEN Append(queue, [kind |-> IF Job(v) THEN "activated" ELSE "ended",
                                          version |-> v]) ELSE queue
  /\ UNCHANGED <<page, version, link, snapshot, drops, loading, request, shown, seen, button>>

(* sendSnapshot reads the job, then the fix, and sends both.                *)
ReadSnapshot ==
  /\ snapshot = Asked /\ snapshot' = version
  /\ UNCHANGED <<page, server, link, queue, drops, loading, request, shown, seen, button>>
SendSnapshot ==
  /\ snapshot \notin {Asked, None} /\ snapshot' = None
  /\ queue' = Append(queue, [kind |-> "snapshot", version |-> snapshot])
  /\ UNCHANGED <<page, server, link, drops, loading, request, shown, seen, button>>

(* The answer of GET state.                                                 *)
ReadState ==
  /\ load = Asked /\ load' \in {version, None}
  /\ UNCHANGED <<page, server, socket, loads, request, shown, seen, button>>

(* The request names no job: it ends the one that is active.                *)
EndActive ==
  /\ request = Asked
  /\ IF Job(version) THEN Commit /\ request' = version'
     ELSE request' = Refused /\ UNCHANGED server
  /\ UNCHANGED <<page, socket, loading, shown, seen, button>>

-----------------------------------------------------------------------------
(* The page's connection.                                                   *)

(* The socket joins its room before the snapshot is read.                   *)
Connect ==
  /\ ~link /\ link' = TRUE /\ snapshot' = Asked
  /\ UNCHANGED <<page, server, queue, drops, loading, request, shown, seen, button>>

Disconnect ==
  /\ link /\ drops < MaxDrops
  /\ link' = FALSE /\ snapshot' = None /\ queue' = <<>> /\ drops' = drops + 1
  /\ UNCHANGED <<page, server, loading, request, shown, seen, button>>

(* What the page is told replaces what it shows.                            *)
Show(v) == shown' = v /\ seen' = IF v > seen THEN v ELSE seen

(* Only the phone takes its buttons back, and not on a snapshot.            *)
ArmAfter(kind) ==
  IF page = "streamer" /\ kind # "snapshot" THEN arm' = None /\ replaced' = FALSE
  ELSE arm' = arm /\ replaced' = (arm # None /\ (replaced \/ kind = "snapshot"))

(* Mutant: the snapshot says only whether waypoints are open.               *)
EventsOnly(m) == IF m.kind = "snapshot" THEN UNCHANGED <<shown, seen>> ELSE Show(m.version)
Told(m) == Show(m.version)

Receive ==
  /\ queue # <<>>
  /\ Told(Head(queue)) /\ ArmAfter(Head(queue).kind)
  /\ queue' = Tail(queue)
  /\ UNCHANGED <<page, server, link, snapshot, drops, loading, request>>

-----------------------------------------------------------------------------
(* The page's own requests.                                                 *)

(* The phone asks once it is paired; the admin's page every POLL_MS, one    *)
(* poll at a time.                                                          *)
Load ==
  /\ page # "obs" /\ load = None /\ loads < (IF page = "streamer" THEN 1 ELSE MaxLoads)
  /\ load' = Asked /\ loads' = loads + 1
  /\ UNCHANGED <<page, server, socket, request, shown, seen, button>>

TakeState ==
  /\ load \notin {Asked, None}
  /\ Show(load) /\ load' = None
  /\ ArmAfter("snapshot")
  /\ UNCHANGED <<page, server, socket, loads, request>>

(* The buttons are there with a job, and not while a request is under way.  *)
Arm ==
  /\ page # "obs" /\ Job(shown) /\ request = None /\ arm = None
  /\ arm' = shown /\ replaced' = FALSE
  /\ UNCHANGED <<page, server, socket, loading, request, shown, seen>>

Disarm ==
  /\ arm # None /\ arm' = None /\ replaced' = FALSE
  /\ UNCHANGED <<page, server, socket, loading, request, shown, seen>>

(* The phone's button goes with the job; the dialog stays.                  *)
Confirm ==
  /\ arm # None /\ request = None /\ (page = "streamer" => Job(shown))
  /\ request' = Asked /\ arm' = None /\ replaced' = FALSE
  /\ UNCHANGED <<page, server, socket, loading, shown, seen>>

(* The page takes the job off, whichever it shows by now; an error, or an   *)
(* answer that is lost, leaves it.                                          *)
Answered ==
  /\ request \notin {Asked, None} /\ request' = None
  /\ IF request = Refused THEN UNCHANGED <<shown, seen>>
     ELSE Show(request) \/ UNCHANGED <<shown, seen>>
  /\ UNCHANGED <<page, server, socket, loading, button>>

Next ==
  \/ Elsewhere \/ ReadSnapshot \/ SendSnapshot \/ ReadState \/ EndActive
  \/ \E v \in Versions : Emit(v)
  \/ Connect \/ Disconnect \/ Receive
  \/ Load \/ TakeState \/ Arm \/ Disarm \/ Confirm \/ Answered

Spec == Init /\ [][Next]_vars

-----------------------------------------------------------------------------
TypeOK ==
  /\ {version, shown, seen} \subseteq Versions /\ emits \subseteq Versions
  /\ \A i \in DOMAIN queue : queue[i].kind \in Kinds /\ queue[i].version \in Versions
  /\ snapshot \in Versions \cup {Asked, None} /\ load \in Versions \cup {Asked, None}
  /\ request \in Versions \cup {Asked, Refused, None} /\ arm \in Versions \cup {None}

(* With everything delivered a connected page shows the job that runs, and  *)
(* none when none does, unless the last thing it was told had been overtaken*)
(* by newer news: no event of a lost connection is missed for good.         *)
AllDelivered ==
  /\ link /\ emits = {} /\ snapshot = None /\ queue = <<>>
  /\ load = None /\ request = None
LostOnlyToLateNews == AllDelivered => shown = version \/ shown < seen

(* The second tap on the phone ends the job that the first was for, unless  *)
(* a snapshot or a state put another in its place between them.             *)
ConfirmsWhatWasArmed ==
  page = "streamer" /\ request = None /\ request' = Asked => arm = shown \/ replaced

(* Why: what a connected page has not been told of is on its way to it.     *)
Known(v) == v \in Nat /\ v <= version
NewsIsTyped ==
  /\ page \in {"streamer", "obs", "admin"}
  /\ version \in Nat /\ seen \in Nat /\ shown \in Nat /\ shown <= seen /\ seen <= version
  /\ \A v \in emits : Known(v)
  /\ queue \in Seq([kind : Kinds, version : Nat]) /\ \A i \in 1..Len(queue) : Known(queue[i].version)
  /\ snapshot \in {Asked, None} \/ Known(snapshot)
  /\ load \in {Asked, None} \/ Known(load)
  /\ request \in {Asked, Refused, None} \/ Known(request)
NewsIsOnItsWay ==
  link => \/ version = seen \/ version \in emits \/ snapshot \in {Asked, version}
          \/ \E i \in 1..Len(queue) : queue[i].version = version
ArmedForShown ==
  /\ request # None => arm = None
  /\ page = "streamer" /\ arm # None => arm = shown \/ replaced
=============================================================================
