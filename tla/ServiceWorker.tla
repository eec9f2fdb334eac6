--------------------------- MODULE ServiceWorker ---------------------------
(* The service worker that keeps the streamer's page on screen in a dead spot:*)
(* what it stores, and what a page is made of that it answers.                *)
(* Sources: src/web/public/sw.js and src/web/src/streamer/main.tsx.           *)
(*                                                                            *)
(* A build consists of its document, of one script whose name has its hash,   *)
(* and of one picture whose name has none; a deployment puts one build in the *)
(* place of another.  Requests to the API, which it never answers, HTTP's own *)
(* cache and the other pages of the origin are left out.                      *)
EXTENDS Integers, FiniteSets

CONSTANTS
  MaxBuild,   \* builds that may be deployed; 0 is of before the worker
  MaxMoves,   \* bound: deployments, and times that the connection changes
  None

VARIABLES
  build,      \* what the server has
  online,
  worker,     \* "none", "installed" or "active"
  earlier,    \* a cache by another name, older than this one
  cache,      \* per URL, what is stored
  puts,       \* what is on its way into the cache
  page,
  kept,       \* the URLs that the cache has ever had (history)
  moves

vars == <<build, online, worker, earlier, cache, puts, page, kept, moves>>
stores == <<worker, earlier, cache, puts, kept>>

Builds == 0..MaxBuild
Shell == <<"streamer.html", 0>>
Icon == <<"icon", 0>>
Script(b) == <<"script", b>>
Urls == {Shell, Icon} \cup {Script(b) : b \in Builds}
Empty == [u \in Urls |-> None]
Blank == [at |-> "none", from |-> None, then |-> None, shell |-> None, script |-> None,
          icon |-> None, controlled |-> FALSE, mayFail |-> TRUE]

Init ==
  /\ build = 1 /\ online = TRUE /\ worker = "none" /\ puts = {} /\ moves = 0
  /\ earlier \in {Empty, [Empty EXCEPT ![Shell] = 0, ![Script(0)] = 0, ![Icon] = 0]}
  /\ cache = Empty /\ page = Blank /\ kept = {}

-----------------------------------------------------------------------------
Moves == moves < MaxMoves /\ moves' = moves + 1

Deploy ==
  /\ Moves /\ \E b \in Builds \ {build, 0} : build' = b
  /\ UNCHANGED <<online, stores, page>>

Connection ==
  /\ Moves /\ online' = ~online
  /\ UNCHANGED <<build, stores, page>>

(* The server's file, None for its 404.                                     *)
Served(u) == IF u \in {Shell, Icon} \/ u = Script(build) THEN build ELSE None

(* caches.match asks every cache, the oldest first.                         *)
Match(u) == IF earlier[u] # None THEN earlier[u] ELSE cache[u]

(* What is to be put away of an answer: errors are not.                     *)
Stashed(u, response) == IF response = None THEN {} ELSE {<<u, response>>}

Store(c) == cache' = c /\ kept' = kept \cup {u \in Urls : c[u] # None}

Put(p) ==
  /\ Store([cache EXCEPT ![p[1]] = p[2]]) /\ puts' = puts \ {p}
  /\ UNCHANGED <<build, online, worker, earlier, page, moves>>

PutFails(p) ==
  /\ puts' = puts \ {p}
  /\ UNCHANGED <<build, online, worker, earlier, cache, page, kept, moves>>

-----------------------------------------------------------------------------
(* The worker.                                                              *)

(* The page registers it; of the paths of the shell some may fail.          *)
Install ==
  /\ worker = "none" /\ page.at = "running" /\ online
  /\ \E got \in SUBSET {Shell, Icon} :
       Store([u \in Urls |-> IF u \in got THEN Served(u) ELSE cache[u]])
  /\ worker' = "installed"
  /\ UNCHANGED <<build, online, earlier, puts, page, moves>>

(* Without waiting: other caches go, and the open page is claimed.          *)
Activate ==
  /\ worker = "installed" /\ worker' = "active"
  /\ earlier' = Empty
  /\ page' = [page EXCEPT !.controlled = TRUE]
  /\ UNCHANGED <<build, online, cache, puts, kept, moves>>

-----------------------------------------------------------------------------
(* A page: its document, then what that one refers to.                      *)

Controlled == worker = "active"
Stash(u) ==
  /\ puts' = IF Controlled THEN puts \cup Stashed(u, Served(u)) ELSE puts
  /\ UNCHANGED <<worker, earlier, cache, kept>>

(* networkFirst, or the browser itself.                                     *)
Navigate ==
  LET opened == [Blank EXCEPT !.at = "loading", !.controlled = Controlled, !.then = build,
                              !.mayFail = ~Controlled \/ Shell \notin kept]
      stored == IF Controlled THEN Match(Shell) ELSE None
  IN
  /\ page.at # "loading"
  /\ IF online
     THEN page' = [opened EXCEPT !.from = "network", !.shell = Served(Shell)] /\ Stash(Shell)
     ELSE /\ page' = IF stored = None THEN [opened EXCEPT !.at = "error"]
                     ELSE [opened EXCEPT !.from = "cache", !.shell = stored]
          /\ UNCHANGED stores
  /\ UNCHANGED <<build, online, moves>>

(* cacheFirst, or the browser itself.                                       *)
Get(u, response) ==
  LET stored == IF page.controlled THEN Match(u) ELSE None
  IN IF stored # None THEN response = stored /\ UNCHANGED stores
     ELSE IF online THEN response = Served(u) /\ Stash(u)
     ELSE response = None /\ UNCHANGED stores

LoadScript ==
  /\ page.at = "loading"
  /\ \E response \in Builds \cup {None} :
       /\ Get(Script(page.shell), response)
       /\ page' = [page EXCEPT !.script = response,
                               !.at = IF response = None THEN "broken" ELSE "running"]
  /\ UNCHANGED <<build, online, moves>>

LoadIcon ==
  /\ page.at = "running" /\ page.icon = None
  /\ \E response \in Builds :
       Get(Icon, response) /\ page' = [page EXCEPT !.icon = response]
  /\ UNCHANGED <<build, online, moves>>

Next ==
  \/ Deploy \/ Connection \/ Install \/ Activate \/ Navigate \/ LoadScript \/ LoadIcon
  \/ \E p \in puts : Put(p) \/ PutFails(p)

Spec == Init /\ [][Next]_vars

-----------------------------------------------------------------------------
TypeOK ==
  /\ build \in Builds /\ moves \in 0..MaxMoves /\ worker \in {"none", "installed", "active"}
  /\ cache \in [Urls -> Builds \cup {None}] /\ kept \subseteq Urls

(* A page runs the script of its own document, whatever was deployed and    *)
(* stored meanwhile; with the network it is the build of that moment; and   *)
(* once the document has ever been stored, no dead spot leaves the streamer *)
(* with the browser's error page, also if deployments, late puts and failed *)
(* ones come between.  A file that the server did not have is not stored.   *)
PageIsWhole ==
  /\ page.at = "running" => page.script = page.shell
  /\ page.from = "network" => page.shell = page.then
  /\ page.at = "error" => page.mayFail
  /\ worker = "active" => earlier = Empty
  /\ \A u \in Urls \ {Shell, Icon} : cache[u] # None => u = Script(cache[u])
  /\ kept = {u \in Urls : cache[u] # None}

(* Why: whatever is stored under a script's name is of its build, in either *)
(* cache and on the way into one.                                           *)
Response == Builds \cup {None}
Page == [at : {"none", "loading", "running", "broken", "error"}, from : {"network", "cache", None},
         then : Response, shell : Response, script : Response, icon : Response,
         controlled : BOOLEAN, mayFail : BOOLEAN]
StoresAreTyped ==
  /\ build \in Builds \ {0} /\ online \in BOOLEAN /\ worker \in {"none", "installed", "active"}
  /\ {earlier, cache} \subseteq [Urls -> Response] /\ kept \subseteq Urls /\ page \in Page
  /\ page.at \in {"loading", "running"} => page.shell # None
StoredIsOfItsBuild ==
  /\ \A p \in puts : p \in Urls \X Builds /\ (p[1] \notin {Shell, Icon} => p[1] = Script(p[2]))
  /\ \A u \in Urls \ {Shell, Icon} : earlier[u] # None => u = Script(earlier[u])
=============================================================================
