----------------------------- MODULE RateLimit -----------------------------
(* The fixed window that keeps one viewer from spending the paid calls of a   *)
(* bucket: a counter at Redis that INCR creates and EXPIRE ends.              *)
(* Sources: src/server/src/http/rateLimit.ts.                                 *)
(*                                                                            *)
(* INCR and TTL are one MULTI, EXPIRE is a call of its own, and the process   *)
(* may die between the two.  Time is a count of ticks.                        *)
EXTENDS Integers

CONSTANTS
  Callers,        \* requests of the viewer that may be under way at once
  Limit, Window,
  MaxDeaths       \* bound: processes that die in a request

VARIABLES
  count,          \* of the key, 0 when there is no key
  ttl,            \* of the key, Forever when it has none
  call,           \* per request: where it is and what MULTI gave
  deaths

vars == <<count, ttl, call, deaths>>

Forever == 0 - 1
Idle == [at |-> "idle", count |-> 0, ttl |-> 0]
MostCalls == Limit + 1      \* bound: above the limit one count is like another

Init == count = 0 /\ ttl = Forever /\ call = [c \in Callers |-> Idle] /\ deaths = 0

(* The key's TTL, as the call read it, says that nobody has set it.         *)
FirstOnly(c) == call[c].count = 1 /\ call[c].ttl < 0
NeverEnds(c) == call[c].ttl < 0

(* MULTI: INCR keeps the TTL that there is, or makes a key without one.     *)
Increment(c) ==
  /\ call[c].at \in {"idle", "allowed", "refused"}
  /\ count' = IF count = MostCalls THEN count ELSE count + 1
  /\ call' = [call EXCEPT ![c] = [at |-> "counted", count |-> count', ttl |-> ttl]]
  /\ UNCHANGED <<ttl, deaths>>

(* EXPIRE on a key that has gone meanwhile does nothing.                    *)
Expire(c) ==
  /\ call[c].at = "counted" /\ NeverEnds(c)
  /\ ttl' = IF count = 0 THEN ttl ELSE Window
  /\ call' = [call EXCEPT ![c].ttl = Window]
  /\ UNCHANGED <<count, deaths>>

(* consumeRateLimit returns, enforceRateLimit throws or not.                *)
Enforce(c) ==
  /\ call[c].at = "counted" /\ ~NeverEnds(c)
  /\ call' = [call EXCEPT ![c].at = IF call[c].count <= Limit THEN "allowed" ELSE "refused"]
  /\ UNCHANGED <<count, ttl, deaths>>

Die(c) ==
  /\ deaths < MaxDeaths /\ deaths' = deaths + 1
  /\ call[c].at = "counted"
  /\ call' = [call EXCEPT ![c] = Idle]
  /\ UNCHANGED <<count, ttl>>

Tick ==
  /\ ttl # Forever
  /\ IF ttl = 1 THEN count' = 0 /\ ttl' = Forever ELSE ttl' = ttl - 1 /\ UNCHANGED count
  /\ UNCHANGED <<call, deaths>>

Next == Tick \/ \E c \in Callers : Increment(c) \/ Expire(c) \/ Enforce(c) \/ Die(c)

(* Time passes, Redis answers, and the viewer goes on asking.               *)
Proceed(c) == Increment(c) \/ Expire(c) \/ Enforce(c)
Fairness == WF_vars(Tick) /\ \A c \in Callers : WF_vars(Proceed(c))

Spec == Init /\ [][Next]_vars /\ Fairness

-----------------------------------------------------------------------------
TypeOK ==
  /\ count \in 0..MostCalls /\ ttl \in {Forever} \cup 1..Window /\ deaths \in 0..MaxDeaths
  /\ call \in [Callers -> [at : {"idle", "counted", "allowed", "refused"}, count : 0..MostCalls,
                           ttl : Forever..Window]]
  /\ count = 0 => ttl = Forever

(* A viewer is never locked out for good: whoever goes on asking is let     *)
(* through again and again, also after a process died and left a counter    *)
(* that nothing ends, and although a late EXPIRE may lengthen a window.     *)
LetThrough == \E c \in Callers : call[c].at = "allowed"
LetThroughAgain == []<>LetThrough
=============================================================================
