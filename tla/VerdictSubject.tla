--------------------------- MODULE VerdictSubject --------------------------
(* Which page load the admin's verdict is about, and when it says that a page *)
(* which Twitch asked for has not spoken: reads of two tables, beside the     *)
(* writers and the removal of what is old.                                    *)
(* Sources: src/server/src/diag/store.ts, diag/verdict.ts and                 *)
(* jobs/maintenance.ts.                                                       *)
(*                                                                            *)
(* What a session says of the button is Diagnostics'.  Time is in ticks; one  *)
(* that a browser, the web server and Postgres agree on.                      *)
EXTENDS Integers, FiniteSets

CONSTANTS
  Loads,      \* page loads, each a session
  Silent,     \* SILENT_AFTER_MS
  Retention,  \* DIAG_RETENTION_DAYS
  MaxRows,    \* DIAG_MAX_ROWS
  MaxTime,    \* bound: ticks
  MaxSaid,    \* bound: rows of one page load
  None

VARIABLES
  now,
  pages,      \* the page loads: their surface, when they spoke first and how often
  requests,   \* ext_request_log
  events,     \* ext_diag_events
  ids,        \* what the ids of their rows have come to
  expired,    \* page loads of which rows were removed (history)
  prune,      \* the table whose turn is next
  read        \* the read under way

vars == <<now, pages, requests, events, ids, expired, prune, read>>

Surfaces == <<"video_overlay", "mobile">>
Unasked == [surface |-> None, spoke |-> None, said |-> 0]
NoRead == [surface |-> 0, began |-> None, session |-> None, lastAt |-> None, request |-> None,
           rowsDone |-> FALSE, requestDone |-> FALSE]

Init ==
  /\ now = 0 /\ pages = [l \in Loads |-> Unasked] /\ requests = {} /\ events = {}
  /\ ids = [requests |-> 0, events |-> 0] /\ expired = {} /\ prune = "events" /\ read = NoRead

-----------------------------------------------------------------------------
(* The writers.                                                             *)

Row(table, l) == [id |-> ids[table] + 1, load |-> l, ts |-> now]

(* Twitch asks for a page; the line of the log may be lost.                 *)
Ask(l) ==
  /\ pages[l] = Unasked
  /\ \E s \in 1..2, logged \in BOOLEAN :
       /\ pages' = [pages EXCEPT ![l].surface = Surfaces[s]]
       /\ IF logged THEN requests' = requests \cup {Row("requests", l)} /\ ids' = [ids EXCEPT !.requests = @ + 1]
          ELSE UNCHANGED <<requests, ids>>
  /\ UNCHANGED <<now, events, expired, prune, read>>

Speak(l) ==
  /\ pages[l] # Unasked /\ pages[l].said < MaxSaid
  /\ pages' = [pages EXCEPT ![l].spoke = IF @ = None THEN now ELSE @, ![l].said = @ + 1]
  /\ events' = events \cup {Row("events", l)} /\ ids' = [ids EXCEPT !.events = @ + 1]
  /\ UNCHANGED <<now, requests, expired, prune, read>>

(* Reading takes less than SILENT_AFTER_MS by far.                          *)
Tick ==
  /\ now < MaxTime /\ now' = now + 1
  /\ read.began # None => now = read.began
  /\ UNCHANGED <<pages, requests, events, ids, expired, prune, read>>

(* pruneExtDiagnostics: by age, then by number; one table after the other.  *)
Kept(rows) ==
  LET young == {r \in rows : r.ts >= now - Retention}
  IN {r \in young : Cardinality({x \in young : x.id > r.id}) < MaxRows}

Prune ==
  /\ IF prune = "events"
     THEN /\ events' = Kept(events) /\ prune' = "requests" /\ UNCHANGED requests
          /\ expired' = expired \cup {r.load : r \in events \ Kept(events)}
     ELSE requests' = Kept(requests) /\ prune' = "events" /\ UNCHANGED <<events, expired>>
  /\ UNCHANGED <<now, pages, ids, read>>

-----------------------------------------------------------------------------
(* loadVerdictSubject: the surfaces in order of preference, and for each of *)
(* them both tables at the same time.                                       *)

Newest(rows) == IF rows = {} THEN None ELSE CHOOSE r \in rows : \A x \in rows : x.id <= r.id
IsSubject(l) == pages[l].surface = Surfaces[read.surface]
OfSurface(rows) == {r \in rows : IsSubject(r.load)}

Begin ==
  /\ read = NoRead
  /\ read' = [NoRead EXCEPT !.surface = 1, !.began = now]
  /\ UNCHANGED <<now, pages, requests, events, ids, expired, prune>>

(* loadLastSessionRows: the newest session,                                 *)
FindSession ==
  LET row == Newest(OfSurface(events)) IN
  /\ read.surface # 0 /\ read.session = None /\ ~read.rowsDone
  /\ read' = IF row = None THEN [read EXCEPT !.rowsDone = TRUE] ELSE [read EXCEPT !.session = row.load]
  /\ UNCHANGED <<now, pages, requests, events, ids, expired, prune>>

(* then its rows.                                                           *)
ReadRows ==
  LET rows == {r \in events : r.load = read.session} IN
  /\ read.session # None /\ ~read.rowsDone
  /\ read' = [read EXCEPT !.rowsDone = TRUE, !.lastAt = IF rows = {} THEN None ELSE Newest(rows).ts]
  /\ UNCHANGED <<now, pages, requests, events, ids, expired, prune>>

FindLastIframeRequest ==
  /\ read.surface # 0 /\ ~read.requestDone
  /\ read' = [read EXCEPT !.requestDone = TRUE, !.request = Newest(OfSurface(requests))]
  /\ UNCHANGED <<now, pages, requests, events, ids, expired, prune>>

IsRead == read.rowsDone /\ read.requestDone
HasNothing == read.lastAt = None /\ read.request = None

NextSurface ==
  /\ IsRead /\ HasNothing /\ read.surface = 1
  /\ read' = [NoRead EXCEPT !.surface = 2, !.began = read.began]
  /\ UNCHANGED <<now, pages, requests, events, ids, expired, prune>>

(* computeVerdict as far as the request goes.                               *)
Unanswered == read.lastAt = None \/ read.request.ts > read.lastAt + Silent
Code ==
  IF HasNothing THEN "no_data"
  ELSE IF read.request # None /\ Unanswered /\ now - read.request.ts >= Silent THEN "request_only"
  ELSE IF read.lastAt = None THEN "pending"
  ELSE "of_session"

Told == IsRead /\ (HasNothing => read.surface = 2)

Tell ==
  /\ Told /\ read' = NoRead
  /\ UNCHANGED <<now, pages, requests, events, ids, expired, prune>>

Next ==
  \/ (\E l \in Loads : Ask(l) \/ Speak(l)) \/ Tick \/ Prune
  \/ Begin \/ FindSession \/ ReadRows \/ FindLastIframeRequest \/ NextSurface \/ Tell

Spec == Init /\ [][Next]_vars

-----------------------------------------------------------------------------
TypeOK ==
  /\ now \in 0..MaxTime /\ prune \in {"events", "requests"} /\ expired \subseteq Loads
  /\ Told => Code \in {"no_data", "request_only", "pending", "of_session"}
  /\ \A l \in Loads : pages[l].said <= MaxSaid

(* The rows of a table are in the order of their ids.                       *)
Rows == [id : Nat, load : Loads, ts : Nat]
IsInOrder(rows, last) ==
  /\ IsFiniteSet(rows) /\ rows \subseteq Rows /\ last \in Nat
  /\ \A r \in rows : r.id <= last /\ r.ts <= now
  /\ \A r, x \in rows : r.id <= x.id => r.ts <= x.ts

(* A page is asked for, and then speaks.                                    *)
IsAskedFirst(r) == pages[r.load].surface # None /\ (pages[r.load].spoke # None => r.ts <= pages[r.load].spoke)
PagesAreInOrder ==
  /\ now \in Nat
  /\ pages \in [Loads -> [surface : {"video_overlay", "mobile", None}, spoke : Nat \cup {None}, said : Nat]]
  /\ \A l \in Loads :
       (pages[l].surface = None => pages[l] = Unasked) /\ (pages[l].spoke # None => pages[l].spoke <= now)
TablesAreInOrder ==
  /\ ids \in [requests : Nat, events : Nat]
  /\ IsInOrder(requests, ids.requests) /\ IsInOrder(events, ids.events)
  /\ \A r \in requests : IsAskedFirst(r)

(* Of a page that spoke the rows are there until some are removed.          *)
SpokenIsKept ==
  \A l \in Loads : pages[l].spoke # None /\ l \notin expired =>
    \E e \in events : e.load = l /\ pages[l].spoke <= e.ts

(* A page that had spoken when the read began is not passed over: the       *)
(* session that is found has a row no older, and so has what is read of it. *)
SpokeBefore(l) == pages[l].spoke # None /\ l \notin expired /\ pages[l].spoke < read.began
Reads ==
  [surface : 0..2, began : Nat \cup {None}, session : Loads \cup {None}, lastAt : Nat \cup {None},
   request : Rows \cup {None}, rowsDone : BOOLEAN, requestDone : BOOLEAN]
IsFoundAfter(l) ==
  /\ read.rowsDone => read.lastAt # None /\ pages[l].spoke <= read.lastAt
  /\ ~read.rowsDone /\ read.session # None =>
       \E e, x \in events :
         e.load = l /\ pages[l].spoke <= e.ts /\ e.id <= x.id /\ x.load = read.session
ReadMissesNone ==
  /\ read \in Reads /\ (read.surface = 0 => read = NoRead)
  /\ read.surface # 0 =>
       /\ read.began \in Nat /\ read.began <= now
       /\ read.request # None =>
            IsAskedFirst(read.request) /\ IsSubject(read.request.load) /\ read.request.ts <= now
       /\ \A l \in Loads : SpokeBefore(l) =>
            /\ IsSubject(l) => IsFoundAfter(l)
            /\ read.surface = 2 => pages[l].surface # Surfaces[1]

(* "Twitch asked for the page and it has not reported" is never said of a   *)
(* page that had, by the time the read began and in what SILENT_AFTER_MS    *)
(* gives it, whatever other pages did and however the reads of the tables   *)
(* fall between their writes; the mobile page is the subject only if no     *)
(* overlay had reported, and nothing at all only if no page had.  What was  *)
(* removed as too old is not known any more.                                *)
SilenceIsTrue ==
  Told =>
    /\ Code = "request_only" => ~SpokeBefore(read.request.load)
    /\ Code = "no_data" => \A l \in Loads : ~SpokeBefore(l)
    /\ read.surface = 2 => \A l \in Loads : SpokeBefore(l) => pages[l].surface # Surfaces[1]
=============================================================================
