------------------------------ MODULE ApiCall ------------------------------
(* One call of a page to the API, from what a handler of the server throws to *)
(* the sentence that the viewer reads.                                        *)
(* Sources: src/web/src/shared/api.ts, errorText of src/web/src/viewer/App.tsx*)
(* and the error handler of src/server/src/app.ts.                            *)
(*                                                                            *)
(* Between them stand proxies, CDNs and captive portals that may answer       *)
(* instead.  Of a text only this is kept: whether it is JSON, and whether     *)
(* serverSentence takes it for Russian prose.  A page's token is at hand when *)
(* it is asked for, so an abort ends the call at once.                        *)
EXTENDS Integers

CONSTANT None

VARIABLES
  call,       \* at which step it is, and whether it has a deadline
  engine,     \* of the browser: a rejection has the reason of the abort, or is plain
  answer,     \* what was sent in answer, read to its end or not
  aborted,    \* the caller has aborted it (history)
  result      \* what request() gave its caller

vars == <<call, engine, answer, aborted, result>>

(* One code of each kind: by whether it is a question of who is asking, and *)
(* whether the page has a sentence for it.                                  *)
HttpStatus == [needs_login |-> 401, forbidden |-> 403, price_changed |-> 409,
               provider_error |-> 502, not_found |-> 404, invalid_request |-> 422,
               internal |-> 500]
Codes == DOMAIN HttpStatus
HasSentence == {"needs_login", "price_changed", "provider_error"}
IdentityCodes == {"needs_login", "forbidden"}
GatewayStatuses == {502, 503, 504}
Strange == "strange"        \* a code that is not the API's

Init ==
  /\ call = [at |-> "idle", timed |-> FALSE, purchase |-> FALSE]
  /\ engine \in {"reason", "plain"} /\ answer = None /\ aborted = FALSE /\ result = None

-----------------------------------------------------------------------------
(* The answers.                                                             *)

Reply(status, code, russian) ==
  [from |-> "api", status |-> status, text |-> "json", code |-> code, russian |-> russian]

(* What a handler returns, throws by intention, or runs into.               *)
Handled ==
  {Reply(200, None, FALSE), [Reply(204, None, FALSE) EXCEPT !.text = "empty"]}
  \cup {Reply(HttpStatus[c], c, russian) : c \in Codes, russian \in BOOLEAN}
Rejected(status) ==
  Reply(status, IF status >= 500 THEN "internal" ELSE "invalid_request", FALSE)
InvalidRequest == Reply(422, "invalid_request", TRUE)
NoRoute == Reply(404, "not_found", FALSE)
FromApi == Handled \cup {InvalidRequest, NoRoute} \cup {Rejected(s) : s \in {413, 500}}

(* Somebody in front of the API may say anything.                           *)
FromFront ==
  [from : {"front"}, status : {200, 204, 403, 500, 502}, text : {"empty", "prose", "json"},
   code : {None, Strange}, russian : {FALSE}]

-----------------------------------------------------------------------------
(* The call.                                                                *)

Settled(kind) ==
  [kind |-> kind, status |-> 0, code |-> None, foreign |-> FALSE, russian |-> FALSE]
IsOk(status) == status \in 200..299

(* send, of an answer that was read.                                        *)
Parsed(a) ==
  IF IsOk(a.status) THEN Settled("data")
  ELSE [kind |-> "failure", status |-> a.status,
        code |-> IF a.text # "json" \/ a.code = None THEN "internal" ELSE a.code,
        foreign |-> a.text # "json", russian |-> a.text = "json" /\ a.russian]

End(outcome) == call' = [call EXCEPT !.at = "ended"] /\ result' = outcome

Request ==
  /\ call.at = "idle"
  /\ \E timed, purchase \in BOOLEAN :
       call' = [at |-> "sent", timed |-> timed, purchase |-> purchase]
  /\ UNCHANGED <<engine, answer, aborted, result>>

(* The status and the headers arrive.                                       *)
Answer ==
  /\ call.at = "sent"
  /\ answer' \in FromApi \cup FromFront
  /\ IF answer'.status = 204 THEN End(Settled("data"))
     ELSE call' = [call EXCEPT !.at = "answered"] /\ UNCHANGED result
  /\ UNCHANGED <<engine, aborted>>

(* The rest arrives.                                                        *)
Read ==
  /\ call.at = "answered" /\ End(Parsed(answer))
  /\ UNCHANGED <<engine, answer, aborted>>

UnderWay == call.at \in {"sent", "answered"}

(* What fetch and text() reject with when the controller is aborted.        *)
Rejection(reason) == IF engine = "reason" THEN reason ELSE "AbortError"

Break ==
  /\ UnderWay /\ End(Settled("TypeError"))
  /\ UNCHANGED <<engine, answer, aborted>>

(* Callers abort without a reason of their own, also before the call.       *)
CallerAborts ==
  /\ UnderWay /\ End(Settled(Rejection("AbortError"))) /\ aborted' = TRUE
  /\ UNCHANGED <<engine, answer>>

(* A deadline is reported as one, whatever the engine rejects with.         *)
Reported(rejection, timedOut) == IF timedOut THEN "TimeoutError" ELSE rejection
Deadline ==
  /\ UnderWay /\ call.timed
  /\ End(Settled(Reported(Rejection("TimeoutError"), TRUE)))
  /\ UNCHANGED <<engine, answer, aborted>>

Next == Request \/ Answer \/ Read \/ Break \/ CallerAborts \/ Deadline

Spec == Init /\ [][Next]_vars

-----------------------------------------------------------------------------
(* What the viewer is told of a failure.                                    *)

IsNetworkFailure(r) ==
  IF r.kind = "failure"
  THEN r.code = "internal" /\ (r.status \in GatewayStatuses \/ (r.foreign /\ r.status >= 500))
  ELSE TRUE

IsUnexplained(r) ==
  /\ ~IsNetworkFailure(r)
  /\ r.code \notin Codes \/ (r.code \notin HasSentence /\ ~r.russian)

(* The first that fits.                                                     *)
ViewerMessage(r, purchase) ==
  IF IsNetworkFailure(r) THEN "network"
  ELSE IF r.code \notin Codes THEN "generic"
  ELSE IF purchase /\ r.code \in IdentityCodes THEN "identity"
  ELSE IF r.code \in HasSentence THEN r.code
  ELSE IF r.russian THEN "server" ELSE "generic"

-----------------------------------------------------------------------------
TypeOK ==
  /\ call.at \in {"idle", "sent", "answered", "ended"}
  /\ result # None => result.kind \in {"data", "failure", "TypeError", "AbortError", "TimeoutError"}

(* A call ends once, and has its answer from then on that it was answered.  *)
Response ==
  [from : {"api", "front"}, status : Nat, text : {"empty", "prose", "json"},
   code : Codes \cup {None, Strange}, russian : BOOLEAN]
EndsOnce ==
  /\ call \in [at : {"idle", "sent", "answered", "ended"}, timed : BOOLEAN, purchase : BOOLEAN]
  /\ call.at # "ended" => result = None /\ ~aborted
  /\ call.at \in {"idle", "sent"} => answer = None
  /\ call.at = "answered" => answer \in FromApi \cup FromFront

(* A call ends in what became of it.  "No connection" is said exactly when  *)
(* nothing that the API said was read, be it that its answer broke off, came*)
(* too late, or that a proxy failed in its place; a verdict of the API is   *)
(* never called one, not even the 502 of a provider.  Data means that a     *)
(* success was read, a refused purchase asks for Twitch when that is what is*)
(* missing, whatever is shown as the catch-all is also reported, and only   *)
(* the caller's own abort, which pages pass over in silence, looks like one.*)
ToldIsSo ==
  result # None =>
    LET told == ViewerMessage(result, call.purchase)
        isRead == answer # None /\ result.kind \in {"data", "failure"}
        apiSpoke == isRead /\ answer.from = "api"
    IN /\ result.kind = "AbortError" <=> aborted
       /\ result.kind = "data" => isRead /\ IsOk(answer.status)
       /\ result.kind # "data" =>
            /\ ~isRead => told = "network"
            /\ apiSpoke => told # "network" /\ result.code = answer.code
            /\ isRead /\ answer.from = "front" /\ answer.status = 502 /\ answer.code = None
                 => told = "network"
            /\ apiSpoke /\ call.purchase /\ answer.status \in {401, 403} => told = "identity"
            /\ told = "generic" => IsUnexplained(result)
=============================================================================
