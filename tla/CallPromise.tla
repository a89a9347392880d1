----------------------------- MODULE CallPromise -----------------------------
(***************************************************************************)
(* What the runtime (lualib/service.lua, service/root.lua,                 *)
(* service/timer.lua) promises of each ltask.call and ltask.sleep,         *)
(* whatever is sent again and whoever dies: a handler takes the request at *)
(* most once; an answer is only made of a request, and is lost only with   *)
(* a service that ends; and the caller goes on at most once, with such an  *)
(* answer.  A call is a service and a session of it.  One call promises    *)
(* nothing of another, so that a step is any step of each call.            *)
(***************************************************************************)
CONSTANTS Service, Session

VARIABLES
  ended,      \* the services that have died
  caller,     \* per call: "unused", "waits" or, when it has gone on, "over"
  request,    \* per call: "none", "asked" or "serving", by a handler or the timer
  answer      \* per call: an answer is on its way to the caller that waits

vars == <<ended, caller, request, answer>>

TypeOK ==
  /\ ended \subseteq Service
  /\ caller \in [Service -> [Session -> {"unused", "waits", "over"}]]
  /\ request \in [Service -> [Session -> {"none", "asked", "serving"}]]
  /\ answer \in [Service -> [Session -> BOOLEAN]]

Init ==
  /\ ended = {}
  /\ caller = [s \in Service |-> [k \in Session |-> "unused"]]
  /\ request = [s \in Service |-> [k \in Session |-> "none"]]
  /\ answer = [s \in Service |-> [k \in Session |-> FALSE]]

Becomes(s, k, c, r, a) ==
  caller'[s][k] = c /\ request'[s][k] = r /\ answer'[s][k] = a

Stays(s, k) == Becomes(s, k, caller[s][k], request[s][k], answer[s][k])

\* The request is posted, or its receiver dies as it is
Ask(s, k) ==
  /\ caller[s][k] = "unused" /\ request[s][k] = "none"
  /\ \E r \in {"none", "asked", "serving"} : Becomes(s, k, "waits", r, FALSE)

\* A session used up for something else
Use(s, k) ==
  caller[s][k] = "unused" /\ Becomes(s, k, "over", request[s][k], FALSE)

Serve(s, k) ==
  request[s][k] = "asked" /\ Becomes(s, k, caller[s][k], "serving", answer[s][k])

\* The handler may go on
Answer(s, k) ==
  /\ request[s][k] = "serving"
  /\ \E r \in {"none", "serving"} :
       Becomes(s, k, caller[s][k], r, caller[s][k] = "waits")

\* The service that has the request has died
Refuse(s, k) ==
  /\ request[s][k] = "asked"
  /\ Becomes(s, k, caller[s][k], "none", caller[s][k] = "waits")

\* The handler does not answer
NoAnswer(s, k) ==
  request[s][k] = "serving" /\ Becomes(s, k, caller[s][k], "none", answer[s][k])

Resume(s, k) ==
  /\ caller[s][k] = "waits" /\ answer[s][k]
  /\ Becomes(s, k, "over", request[s][k], FALSE)

\* What a service has when it ends, is lost; a request nobody has taken is not
End(s, k) ==
  /\ ended' # ended
  /\ caller'[s][k] = IF s \in ended' THEN "over" ELSE caller[s][k]
  /\ \/ request'[s][k] = request[s][k]
     \/ request[s][k] = "serving" /\ request'[s][k] = "none"
  /\ answer'[s][k] => answer[s][k] /\ s \notin ended'

Step(s, k) ==
  \/ Stays(s, k) \/ Ask(s, k) \/ Use(s, k) \/ Serve(s, k) \/ Answer(s, k)
  \/ Refuse(s, k) \/ NoAnswer(s, k) \/ Resume(s, k) \/ End(s, k)

Next ==
  /\ TypeOK' /\ ended \subseteq ended'
  /\ \A s \in Service, k \in Session : Step(s, k)

Spec == Init /\ [][Next]_vars
=============================================================================
