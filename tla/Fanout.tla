------------------------------- MODULE Fanout -------------------------------
(* Who hears an event: the rooms of the socket server, and the copies that    *)
(* the processes of the API hand one another through Redis.                   *)
(* Sources: src/server/src/realtime/io.ts, realtime/bus.ts, the verification  *)
(* of the tokens in http/auth.ts and twitch/extJwt.ts.                        *)
(*                                                                            *)
(* One event is followed, emitted at any time by any process.  The deployment *)
(* serves one channel: the token of another is as good as none.  A token is   *)
(* what it proves: a device, the admin, OBS, a viewer who shares an identity, *)
(* or one who does not.  INSTANCE_ID is the process number and the second of  *)
(* the start: two processes, each alone in its container, can have the same.  *)
EXTENDS Integers

CONSTANTS
  Procs,       \* processes of the API
  Instances,   \* INSTANCE_IDs
  Sockets,
  Viewers,
  None

VARIABLES
  instance,  \* INSTANCE_ID of each process
  socket,    \* the process, the room and the wallet of each socket, and what it proved
  event,     \* whom it is for, and the process and the instance that emitted it
  transit,   \* processes to which Redis still has to bring it
  missed,    \* those to which it will not: not subscribed, or not published (history)
  present,   \* sockets it was for that have stayed connected since (history)
  heard      \* how often each socket got it (history)

vars == <<instance, socket, event, transit, missed, present, heard>>

Audiences == {"all", "viewers", "trusted"}
Tokens == {None, "device", "admin", "obs", "unlinked"} \cup Viewers
Roles == {"viewer", "obs", "streamer", "admin"}
Closed == [at |-> None, room |-> None, wallet |-> None, proved |-> None]

Init ==
  /\ instance \in [Procs -> Instances]
  /\ socket = [s \in Sockets |-> Closed]
  /\ event = None /\ transit = {} /\ missed = {} /\ present = {}
  /\ heard = [s \in Sockets |-> 0]

-----------------------------------------------------------------------------
(* resolveSocketData and the rooms.                                         *)

(* A device's token and the admin's are signed with the same secret, and    *)
(* say which they are; that of OBS is derived from it.                      *)
VerifyDeviceToken(token) == token = "device"
VerifyAdminToken(token) == token = "admin"
IsObsToken(token) == token = "obs"

IsTrusted(role, token) ==
  \/ role = "streamer" /\ VerifyDeviceToken(token)
  \/ role = "admin" /\ VerifyAdminToken(token)
  \/ role = "obs" /\ IsObsToken(token)

(* A privileged page with a bad token is refused; a viewer never is, and    *)
(* OBS without its token is one, with no wallet whatever else it presents.  *)
IsRefused(role, token) == role \in {"streamer", "admin"} /\ ~IsTrusted(role, token)
Joined(p, role, token) ==
  [at |-> p, proved |-> token,
   room |-> IF IsTrusted(role, token) THEN "trusted" ELSE "viewers",
   wallet |-> IF role = "viewer" /\ token \in Viewers THEN token ELSE None]

Connect(s) ==
  /\ socket[s] = Closed
  /\ \E p \in Procs, role \in Roles, token \in Tokens :
       /\ ~IsRefused(role, token)
       /\ socket' = [socket EXCEPT ![s] = Joined(p, role, token)]
  /\ UNCHANGED <<instance, event, transit, missed, present, heard>>

Closing(sockets) ==
  /\ socket' = [s \in Sockets |-> IF s \in sockets THEN Closed ELSE socket[s]]
  /\ heard' = [s \in Sockets |-> IF s \in sockets THEN 0 ELSE heard[s]]
  /\ present' = present \ sockets

Disconnect(s) ==
  /\ socket[s] # Closed /\ Closing({s})
  /\ UNCHANGED <<instance, event, transit, missed>>

-----------------------------------------------------------------------------
(* Events.                                                                  *)

IsFor(s, audience) ==
  /\ socket[s] # Closed
  /\ audience \in {"all", socket[s].room, socket[s].wallet}

Delivered(p, audience) ==
  [s \in Sockets |->
     heard[s] + (IF socket[s].at = p /\ IsFor(s, audience) THEN 1 ELSE 0)]

(* emit and emitToViewer: to the sockets here, and to Redis, whose errors   *)
(* nobody hears of.  Redis brings it to whoever is subscribed then.         *)
Emit(p) ==
  /\ event = None
  /\ \E audience \in Audiences \cup Viewers, reached \in SUBSET Procs :
       /\ event' = [for |-> audience, at |-> p, origin |-> instance[p]]
       /\ heard' = Delivered(p, audience)
       /\ present' = {s \in Sockets : IsFor(s, audience)}
       /\ transit' = reached /\ missed' = Procs \ reached
  /\ UNCHANGED <<instance, socket>>

IsMine(p) == event.origin = instance[p]

OnMessage(p) ==
  /\ p \in transit /\ transit' = transit \ {p}
  /\ heard' = IF IsMine(p) THEN heard ELSE Delivered(p, event.for)
  /\ UNCHANGED <<instance, socket, event, missed, present>>

(* A process starts anew: its sockets are closed and what Redis had for it  *)
(* is gone.                                                                 *)
Restart(p) ==
  /\ \E i \in Instances : instance' = [instance EXCEPT ![p] = i]
  /\ Closing({s \in Sockets : socket[s].at = p})
  /\ transit' = transit \ {p} /\ missed' = IF p \in transit THEN missed \cup {p} ELSE missed
  /\ UNCHANGED event

Next ==
  \/ \E s \in Sockets : Connect(s) \/ Disconnect(s)
  \/ \E p \in Procs : Emit(p) \/ OnMessage(p) \/ Restart(p)

Spec == Init /\ [][Next]_vars

-----------------------------------------------------------------------------
TypeOK ==
  /\ instance \in [Procs -> Instances] /\ transit \subseteq Procs /\ present \subseteq Sockets
  /\ \A s \in Sockets : socket[s].at \in Procs \cup {None} /\ socket[s].proved \in Tokens

(* A socket hears of an event once, and is left out only when Redis did not *)
(* bring it to its process, or that process has the INSTANCE_ID of the one  *)
(* that emitted it.                                                         *)
HeardOnce ==
  /\ \A s \in Sockets : heard[s] <= 1
  /\ event # None /\ transit = {} =>
       \A s \in present :
         \/ heard[s] = 1
         \/ socket[s].at \in missed
         \/ socket[s].at # event.at /\ instance[socket[s].at] = event.origin

(* A wallet's event is heard only by who proved to be that viewer, and what *)
(* is for the streamer's own pages only by who proved to be one of them.    *)
HeardByWhoMay ==
  \A s \in Sockets : heard[s] > 0 =>
    /\ event.for \in Viewers => socket[s].proved = event.for
    /\ event.for = "trusted" => socket[s].proved \in {"device", "admin", "obs"}

(* Why: the room and the wallet of a socket are what it proved, and nothing *)
(* is heard before it is emitted or by who is not connected.                *)
Socket == [at : Procs \cup {None}, room : {"viewers", "trusted", None},
           wallet : Viewers \cup {None}, proved : Tokens]
Event == [for : Audiences \cup Viewers, at : Procs, origin : Instances]
RoomsAreProved ==
  /\ socket \in [Sockets -> Socket] /\ heard \in [Sockets -> Nat]
  /\ instance \in [Procs -> Instances] /\ transit \subseteq Procs
  /\ event \in Event \cup {None} /\ (event = None => transit = {})
  /\ \A s \in Sockets :
       /\ socket[s] = Closed \/ event = None => heard[s] = 0
       /\ socket[s].room = "trusted" => socket[s].proved \in {"device", "admin", "obs"}
       /\ socket[s].wallet # None => socket[s].wallet = socket[s].proved

(* Why HeardOnce holds: a socket that has heard is not on a process that    *)
(* will deliver, and one that was there when the event was emitted has heard*)
(* or waits for its process, unless that takes the event for its own.       *)
HeardIsDone ==
  \A s \in Sockets :
    /\ heard[s] <= 1
    /\ heard[s] = 1 /\ socket[s].at \in transit => IsMine(socket[s].at)
    /\ socket[s].at = None => socket[s] = Closed
PresentHears ==
  /\ present \subseteq Sockets /\ (event = None => present = {})
  /\ \A s \in present :
       /\ IsFor(s, event.for)
       /\ socket[s].at = event.at => heard[s] = 1
       /\ heard[s] = 1 \/ socket[s].at \in transit \cup missed \/ IsMine(socket[s].at)
=============================================================================
