---------------------------- MODULE PlaceSearch ----------------------------
(* The search for a place: a box that asks while one types, and the server's  *)
(* search with its cache and its two services at Mapbox.                      *)
(* Sources: src/web/src/viewer/SearchBox.tsx, GET search of                   *)
(* src/server/src/http/routes/ext.ts, searchPlaces of maps/mapbox.ts.         *)
(*                                                                            *)
(* A term stands for what is typed, and a place for one of its results; None  *)
(* is a term too short to ask for.  Distances, categories and the ranking     *)
(* near the streamer are left out.                                            *)
EXTENDS Integers, FiniteSets

CONSTANTS
  None,
  Terms,
  Places,         \* [Terms -> SUBSET Terms]: what there is, each named by a term
  MaxTyped,       \* bound: changes of the term
  MaxTrouble      \* bound: requests that are refused or fail

VARIABLES
  enabled,        \* Twitch has authorized the page
  query, results, loading, error, open,
  timer,          \* the debounce runs
  asks,           \* requests under way: number, term, aborted or not, answer
  typed,          \* changes so far, and the number of the current effect
  cache,          \* [Terms -> features at Redis, or None]
  picked,         \* onSelect: the place, and the term it was a result of
  trouble

vars == <<enabled, query, results, loading, error, open, timer, asks, typed, cache, picked, trouble>>

Asking == [said |-> "nothing", list |-> {}]
NoAnswer == [said |-> "failed", list |-> {}]
Found(list) == [said |-> "list", list |-> list]
NoResults == [of |-> None, list |-> {}]

Init ==
  /\ enabled = FALSE /\ query = None /\ results = NoResults
  /\ loading = FALSE /\ error = FALSE /\ open = FALSE
  /\ timer = FALSE /\ asks = {} /\ typed = 0
  /\ cache = [t \in Terms |-> None] /\ picked = None /\ trouble = 0

-----------------------------------------------------------------------------
(* The effect of [query, enabled]: its cleanup stops the debounce and       *)
(* aborts the request, then the new one waits, or there is nothing to ask.  *)
Aborted == {[a EXCEPT !.aborted = TRUE] : a \in asks}
KeepsAsking == asks

Effect(term, on, asksAfter) ==
  /\ asks' = asksAfter
  /\ IF term = None \/ ~on
     THEN results' = NoResults /\ loading' = FALSE /\ error' = FALSE /\ timer' = FALSE
     ELSE loading' = TRUE /\ timer' = TRUE /\ UNCHANGED <<results, error>>

CleanUp == Aborted
SetQuery(term) ==
  /\ query' = term
  /\ IF term = query THEN UNCHANGED <<asks, results, loading, error, timer, typed>>
     ELSE typed < MaxTyped /\ typed' = typed + 1 /\ Effect(term, enabled, CleanUp)

Authorize ==
  /\ ~enabled /\ enabled' = TRUE
  /\ Effect(query, TRUE, CleanUp)
  /\ UNCHANGED <<query, open, typed, cache, picked, trouble>>

(* The input's onChange, and the cross that empties it.                     *)
Type(term) ==
  /\ enabled /\ term # query
  /\ SetQuery(term) /\ open' = (term # None)
  /\ UNCHANGED <<enabled, cache, picked, trouble>>

(* Focus opens the list; Escape and a tap elsewhere close it.               *)
Toggle ==
  /\ enabled /\ open' = ~open
  /\ UNCHANGED <<enabled, query, results, loading, error, timer, asks, typed, cache, picked, trouble>>

(* choose: a row, or the first one with Enter, whether or not an answer to  *)
(* what stands in the box is still awaited.                                 *)
Choose(place) ==
  /\ place \in results.list
  /\ open' = FALSE /\ SetQuery(place)
  /\ picked' = [place |-> place, of |-> results.of]
  /\ UNCHANGED <<enabled, cache, trouble>>

(* The debounce is over.                                                    *)
Ask ==
  /\ timer /\ timer' = FALSE
  /\ asks' = asks \cup {[n |-> typed, term |-> query, aborted |-> FALSE, answer |-> Asking]}
  /\ UNCHANGED <<enabled, query, results, loading, error, open, typed, cache, picked, trouble>>

-----------------------------------------------------------------------------
(* The server, which does not hear of an abort.                             *)
Answer(a, answer) == asks' = (asks \ {a}) \cup {[a EXCEPT !.answer = answer]}

(* Search Box, and geocoding for what it does not know or if it fails; the  *)
(* one that fails last fails the request.  Geocoding knows no shops, so it  *)
(* may know nothing of what there is.                                       *)
SearchPlaces(a) ==
  /\ a \in asks /\ a.answer = Asking /\ cache[a.term] = None
  /\ \/ Answer(a, Found(Places[a.term]))
        /\ cache' = [cache EXCEPT ![a.term] = Places[a.term]] /\ UNCHANGED trouble
     \/ trouble < MaxTrouble /\ trouble' = trouble + 1        \* Search Box fails
        /\ \/ Answer(a, Found({})) /\ cache' = [cache EXCEPT ![a.term] = {}]
           \/ Answer(a, NoAnswer) /\ UNCHANGED cache
  /\ UNCHANGED <<enabled, query, results, loading, error, open, timer, typed, picked>>

CacheHit(a) ==
  /\ a \in asks /\ a.answer = Asking /\ cache[a.term] # None
  /\ Answer(a, Found(cache[a.term]))
  /\ UNCHANGED <<enabled, query, results, loading, error, open, timer, typed, cache, picked, trouble>>

(* searchesPerMinute is used up, or the network fails.                      *)
Refuse(a) ==
  /\ a \in asks /\ a.answer = Asking
  /\ trouble < MaxTrouble /\ trouble' = trouble + 1
  /\ Answer(a, NoAnswer)
  /\ UNCHANGED <<enabled, query, results, loading, error, open, timer, typed, cache, picked>>

CacheExpires(t) ==
  /\ cache[t] # None /\ cache' = [cache EXCEPT ![t] = None]
  /\ UNCHANGED <<enabled, query, results, loading, error, open, timer, asks, typed, picked, trouble>>

(* The promise of a request that was aborted changes nothing.               *)
TakeAnswer(a) ==
  /\ a \in asks /\ a.answer # Asking
  /\ asks' = asks \ {a}
  /\ IF a.aborted THEN UNCHANGED <<results, loading, error>>
     ELSE /\ loading' = FALSE
          /\ error' = (a.answer = NoAnswer)
          /\ results' = IF a.answer = NoAnswer THEN NoResults
                        ELSE [of |-> a.term, list |-> a.answer.list]
  /\ UNCHANGED <<enabled, query, open, timer, typed, cache, picked, trouble>>

(* What the open list shows; rows of before stay while the next are sought. *)
ShownRows == IF open /\ query # None THEN results.list ELSE {}
Note ==
  IF ~(open /\ query # None) THEN "none"
  ELSE IF loading THEN "searching" ELSE IF error THEN "error"
  ELSE IF results.list = {} THEN "nothing found" ELSE "none"

Next ==
  \/ Authorize \/ Toggle \/ Ask
  \/ \E t \in Terms \cup {None} : Type(t)
  \/ \E t \in Terms : Choose(t) \/ CacheExpires(t)
  \/ \E a \in asks : SearchPlaces(a) \/ CacheHit(a) \/ Refuse(a) \/ TakeAnswer(a)

Spec == Init /\ [][Next]_vars

-----------------------------------------------------------------------------
TypeOK ==
  /\ query \in Terms \cup {None} /\ results.list \subseteq Terms
  /\ {enabled, loading, error, open, timer} \subseteq BOOLEAN
  /\ typed \in 0..MaxTyped

(* Once the box has stopped searching, what it lists (or that there is      *)
(* nothing) is about what stands in it: an answer to an earlier term is     *)
(* never taken for one, however late it comes.                              *)
ListIsOfTheQuery ==
  /\ ~loading /\ results # NoResults => results.of = query
  /\ Note = "nothing found" => ~timer /\ \A a \in asks : a.aborted

(* Why: there is one request that was not aborted, for what stands in the   *)
(* box, and the box says that it searches until its answer is taken.        *)
AskIsOne ==
  /\ \A a \in asks : /\ DOMAIN a = {"n", "term", "aborted", "answer"} /\ a.aborted \in BOOLEAN
                     /\ ~a.aborted => a.term = query /\ loading /\ ~timer
  /\ \A a, b \in asks : ~a.aborted /\ ~b.aborted => a = b
  /\ timer => loading
  /\ {loading, error, open, timer, enabled} \subseteq BOOLEAN
=============================================================================
