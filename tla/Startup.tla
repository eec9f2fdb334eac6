------------------------------- MODULE Startup -------------------------------
(* How a process of the API comes up and goes down: it waits for Postgres and *)
(* Redis, brings the schema up to date, listens, and closes what it opened.   *)
(* Sources: src/server/src/index.ts, db/migrate.ts, db/pool.ts,               *)
(* redis/client.ts, the command of server/Dockerfile.                         *)
(*                                                                            *)
(* A migration is a number, and its SQL an effect that happens once for each  *)
(* transaction that commits with it.  Two processes, of which one may have    *)
(* been built before the last migration was written, start whenever they      *)
(* like; a process that exits is started again.  The reward pool of the       *)
(* development stub and the exchange reward, which the boot sees to in the    *)
(* background, belong to SlotPool and ExchangeTerms.                          *)
EXTENDS Integers, FiniteSets

CONSTANTS
  Procs,
  MaxTrouble,   \* outages and kills
  None

VARIABLES
  proc,      \* what each does, its build's migrations, and those it found applied
  effects,   \* how often the SQL of each migration has taken effect
  recorded,  \* schema_migrations
  row,       \* whether the channel has its row
  up,        \* whether Postgres and Redis answer
  trouble

vars == <<proc, effects, recorded, row, up, trouble>>

Migrations == 1..2
Builds == {1..1, 1..2}
Off(build) == [at |-> "off", build |-> build, found |-> {}, tx |-> None]

Init ==
  /\ proc \in [Procs -> {Off(build) : build \in Builds}]
  /\ effects = [m \in Migrations |-> 0] /\ recorded = {} /\ row = FALSE
  /\ up = [postgres |-> TRUE, redis |-> TRUE] /\ trouble = 0

Exit(p) == proc' = [proc EXCEPT ![p] = Off(@.build)]
Goes(p, at) == proc' = [proc EXCEPT ![p].at = at]
Trouble == trouble < MaxTrouble /\ trouble' = trouble + 1

-----------------------------------------------------------------------------
(* bootstrap, and before it the container's npm run migrate, which does the *)
(* same up to the migrations and ends.                                      *)

Start(p) ==
  /\ proc[p].at = "off" /\ Goes(p, "waiting")
  /\ UNCHANGED <<effects, recorded, row, up, trouble>>

(* waitForDatabase and waitForRedis: thirty attempts, and then exit(1).     *)
GiveUp(p) ==
  /\ proc[p].at = "waiting" /\ ~(up.postgres /\ up.redis) /\ Exit(p)
  /\ UNCHANGED <<effects, recorded, row, up, trouble>>

ReadApplied(p) ==
  /\ proc[p].at = "waiting" /\ up.postgres /\ up.redis
  /\ proc' = [proc EXCEPT ![p].at = "migrating", ![p].found = recorded]
  /\ UNCHANGED <<effects, recorded, row, up, trouble>>

Left(p) == proc[p].build \ proc[p].found
Following(p) == CHOOSE m \in Left(p) : \A n \in Left(p) : m <= n

(* One transaction to each file, in the order of their names: its SQL, and  *)
(* its row, which the primary key refuses if another committed it since.    *)
RunSql(p) ==
  /\ proc[p].at = "migrating" /\ proc[p].tx = None /\ Left(p) # {}
  /\ proc' = [proc EXCEPT ![p].tx = Following(p)]
  /\ UNCHANGED <<effects, recorded, row, up, trouble>>

IsNew(m) == m \notin recorded

Commit(p) ==
  /\ proc[p].tx # None /\ up.postgres
  /\ LET m == proc[p].tx IN
     IF IsNew(m)
     THEN /\ effects' = [effects EXCEPT ![m] = @ + 1] /\ recorded' = recorded \cup {m}
          /\ proc' = [proc EXCEPT ![p].tx = None, ![p].found = @ \cup {m}]
     ELSE Exit(p) /\ UNCHANGED <<effects, recorded>>
  /\ UNCHANGED <<row, up, trouble>>

(* The row of the channel and its settings, and then requests are answered. *)
Listen(p) ==
  /\ proc[p].at = "migrating" /\ Left(p) = {} /\ up.postgres
  /\ row' = TRUE /\ Goes(p, "listening")
  /\ UNCHANGED <<effects, recorded, up, trouble>>

(* createRealtimeServer and startMaintenanceJobs come after the listener.   *)
GoLive(p) ==
  /\ proc[p].at = "listening" /\ Goes(p, "live")
  /\ UNCHANGED <<effects, recorded, row, up, trouble>>

BootFails(p) ==
  /\ proc[p].at = "migrating" /\ ~up.postgres /\ Exit(p)
  /\ UNCHANGED <<effects, recorded, row, up, trouble>>

-----------------------------------------------------------------------------
(* shutdown: the jobs and the transport stop, then the sockets, the request *)
(* log and the listener are closed, and last the pool and Redis.            *)
Sigterm(p) ==
  /\ proc[p].at = "live" /\ Goes(p, "closing")
  /\ UNCHANGED <<effects, recorded, row, up, trouble>>
CloseServers(p) ==
  /\ proc[p].at = "closing" /\ Goes(p, "closed")
  /\ UNCHANGED <<effects, recorded, row, up, trouble>>
ClosePools(p) ==
  /\ proc[p].at = "closed" /\ Exit(p)
  /\ UNCHANGED <<effects, recorded, row, up, trouble>>

(* Before the handlers of the signals are there, it kills.                  *)
Kill(p) ==
  /\ proc[p].at # "off" /\ Trouble /\ Exit(p)
  /\ UNCHANGED <<effects, recorded, row, up>>

(* A container is replaced by one of a newer build.                         *)
Deploy(p) ==
  /\ proc[p].at = "off" /\ proc[p].build # Migrations
  /\ proc' = [proc EXCEPT ![p] = Off(Migrations)]
  /\ UNCHANGED <<effects, recorded, row, up, trouble>>

Outage(service) ==
  /\ \/ up[service] /\ Trouble
     \/ ~up[service] /\ UNCHANGED trouble
  /\ up' = [up EXCEPT ![service] = ~@]
  /\ UNCHANGED <<proc, effects, recorded, row>>

Next ==
  \/ \E p \in Procs :
       \/ Start(p) \/ GiveUp(p) \/ ReadApplied(p) \/ RunSql(p) \/ Commit(p) \/ BootFails(p)
       \/ Listen(p) \/ GoLive(p) \/ Sigterm(p) \/ CloseServers(p) \/ ClosePools(p)
       \/ Kill(p) \/ Deploy(p)
  \/ \E service \in {"postgres", "redis"} : Outage(service)

Spec == Init /\ [][Next]_vars

-----------------------------------------------------------------------------
TypeOK ==
  /\ recorded \subseteq Migrations /\ row \in BOOLEAN
  /\ \A p \in Procs : proc[p].build \in Builds /\ proc[p].tx \in Migrations \cup {None}

Answers(p) == proc[p].at \in {"listening", "live", "closing"}

(* However two processes start, are killed and lose Postgres in between,    *)
(* each migration takes effect once and in order, and a process that        *)
(* answers requests has all that its build needs.                           *)
ServesWhole ==
  /\ \A m \in Migrations : effects[m] = (IF m \in recorded THEN 1 ELSE 0)
  /\ \A m \in recorded : 1..m \subseteq recorded
  /\ \A p \in Procs : Answers(p) => proc[p].build \subseteq recorded /\ row

(* Why: what a process found applied is applied, and of its build's         *)
(* migrations it runs the first that it has not found.                      *)
Process == [at : {"off", "waiting", "migrating", "listening", "live", "closing", "closed"},
            build : Builds, found : SUBSET Migrations, tx : Migrations \cup {None}]
MigratesInOrder ==
  /\ proc \in [Procs -> Process] /\ recorded \subseteq Migrations /\ row \in BOOLEAN
  /\ effects \in [Migrations -> Nat]
  /\ \A p \in Procs :
       /\ proc[p].found \subseteq recorded
       /\ proc[p].tx # None =>
            /\ proc[p].at = "migrating" /\ proc[p].tx \in Left(p)
            /\ \A n \in Left(p) : proc[p].tx <= n
=============================================================================
