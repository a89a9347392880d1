------------------------------ MODULE Session ------------------------------
(***************************************************************************)
(* The Lua runtime of the services (lualib/service.lua): each message a    *)
(* service takes runs in a coroutine until it waits for something, and     *)
(* session ids say which coroutine an answer is for.  An answer that finds *)
(* a full inbox is handed over to root, which retries it (service/root.lua *)
(* 49-101); a service that quits answers its open sessions with an error,  *)
(* and root does so for the requests it left in its inbox (191-211).       *)
(*                                                                         *)
(* The scheduler is what module Scheduler shows it to be, seen from Lua:   *)
(* post_message() returns a receipt (operator Receipt), and the service    *)
(* does nothing else before it has it.  A step is what a service does from *)
(* one such point to the next.  What a handler does is its free choice; a  *)
(* pcall may catch any error, so that going on is always possible.         *)
(***************************************************************************)
EXTENDS Integers, Sequences, FiniteSets

CONSTANTS
  Service,      \* the services but root and timer
  Root,
  Co, Pool,     \* the coroutines, and those a service has at most, a bound
  none,         \* nil, where a coroutine or a service is expected
  QueueLen,     \* config.queueSending
  RootLen,      \* room in root's inbox for send_retry requests
  MaxSession,   \* bound of session_id, per service
  Caller,       \* <<s, t>>: s may call t
  Sender,       \* <<s, t>>: s may send to t
  Started,      \* who has a message of root to begin with
  Sleeper, Waiter, Forker, Quitter, Mute
                \* who may sleep; wait and wake up; fork; quit; no_response

Session == UNION {1 .. MaxSession[s] : s \in Service}
SESSION_SEND_MESSAGE == 0
nil == -1       \* a response session that was cleared

Message == [typ : {"request", "answer"}, from : Service \cup {Root, none},
            to : Service, session : Session \cup {SESSION_SEND_MESSAGE}]
NoMessage == [typ |-> "none"]

ASSUME SessionAssumption ==
  /\ none \notin Service \cup Co \cup {Root} /\ Root \notin Service
  /\ QueueLen \in Nat \ {0} /\ RootLen \in Nat \ {0} /\ MaxSession \in [Service -> Nat]
  /\ Pool \in [Service -> SUBSET Co]
  /\ Caller \cup Sender \subseteq Service \X Service
  /\ Started \cup Sleeper \cup Waiter \cup Forker \cup Quitter \cup Mute \subseteq Service

VARIABLES
  status,       \* "alive", "dead" or, when root has closed it, "closed"
  inbox,
  \* service.lua, per service
  running_thread, session_id,
  lookup,       \* session_coroutine_suspend_lookup
  waiting,      \* session_waiting: a coroutine waits for itself as token
  wakeup_queue,
  quit,
  kind,         \* per coroutine: "free", "session", "fork", "blocked", "quit"
  address, response,            \* session_coroutine_address, _response
  held,         \* the message a "blocked" coroutine has for root
  todo,         \* the open sessions ltask.quit() has still to answer
  \* outside
  timer,        \* the sessions with a time to come, per service
  blocked, turn,    \* the timer service's blocked queues, and where it is in one
  rootbox,      \* the send_retry requests in root's inbox
  retry, at,    \* retry_queue, and where root is in one of its queues
  raises, forked,   \* errors root has to send, and to hand over to itself
  lost          \* the calls whose request or answer nobody has: see Lose

coVars == <<kind, address, response, held>>
loopVars == <<running_thread, lookup, session_id, waiting, wakeup_queue>>
quitVars == <<quit, todo>>
timerVars == <<timer, blocked, turn>>
rootVars == <<rootbox, retry, at, raises, forked>>
vars == <<status, inbox, loopVars, quitVars, coVars, timerVars, rootVars, lost>>

Alive(s) == status[s] = "alive"
Full(s) == Len(inbox[s]) >= QueueLen
Idle(s) == Alive(s) /\ running_thread[s] = none
Runs(s, k) == Alive(s) /\ running_thread[s] # none /\ kind[s][running_thread[s]] \in k
Handles(s) == Runs(s, {"session", "fork"})

\* new_thread: a coroutine of the pool, or a new one; which, tells nothing apart
Free(s) == {c \in Pool[s] : kind[s][c] = "free"}
NewThread(s) == IF Free(s) = {} THEN {} ELSE {CHOOSE c \in Free(s) : TRUE}

\* table.move(queue, i, n, 1): the places after the last one moved keep what
\* they had
Moved(q, i) == SubSeq(q, i, Len(q)) \o SubSeq(q, Len(q) - i + 2, Len(q))

\* No place in any queue
NoPlace == [to |-> none, i |-> 0]

At(f, s, c, x) == [f EXCEPT ![s] = [@ EXCEPT ![c] = x]]

----------------------------------------------------------------------------
(* post_message *)

\* The receipt for a message to t.  A service that is dead but not yet closed
\* may have died after dispatchOutMessage looked (Scheduler!PushMessage).
Receipt(t) ==
  IF Alive(t) THEN IF Full(t) THEN {"block"} ELSE {"done"}
  ELSE IF status[t] = "dead" THEN {"error", "done"} ELSE {"error"}

\* The inbox of m.to takes m, if the receipt is done and it is alive
Deliver(m, r) ==
  inbox' = IF r = "done" /\ Alive(m.to)
           THEN [inbox EXCEPT ![m.to] = Append(@, m)] ELSE inbox

AnswerTo(s, k) == [typ |-> "answer", from |-> none, to |-> s, session |-> k]

\* The open sessions of s: whom it owes an answer
Open(s) == {c \in Co : address[s][c] # none /\ response[s][c] # SESSION_SEND_MESSAGE}
Lose(C) == lost' = lost \cup C

\* Coroutine c is done; it goes to the pool, or is closed
Finish(s, c) ==
  /\ kind' = At(kind, s, c, "free")
  /\ address' = At(address, s, c, none)
  /\ response' = At(response, s, c, nil)
  /\ held' = At(held, s, c, NoMessage)

\* post_response_message by coroutine c, which ends with it unless `stays`.
\* An answer that is blocked goes to a coroutine of its own.
PostResponse(s, c, m, ends) ==
  \E r \in Receipt(m.to) :
    /\ Deliver(m, r)
    /\ IF r = "block"
       THEN \E d \in NewThread(s) :
              /\ kind' = [kind EXCEPT ![s] =
                   [x \in Co |-> IF x = d THEN "blocked"
                                 ELSE IF x = c /\ ends THEN "free" ELSE @[x]]]
              /\ held' = At(held, s, d, m)
              /\ wakeup_queue' = [wakeup_queue EXCEPT ![s] = Append(@, d)]
       ELSE /\ kind' = IF ends THEN At(kind, s, c, "free") ELSE kind
            /\ UNCHANGED <<held, wakeup_queue>>
    /\ address' = IF ends THEN At(address, s, c, none) ELSE address
    /\ response' = IF ends THEN At(response, s, c, nil) ELSE response

----------------------------------------------------------------------------
(* schedule_message: the next message, then the wakeup queue *)

Receives(s) == Idle(s) /\ wakeup_queue[s] = <<>> /\ ~quit[s] /\ inbox[s] # <<>>

\* mutant of RecvRequest: the request stays in the inbox
RecvRequestPeeks(s) ==
  LET m == Head(inbox[s]) IN
  /\ Receives(s) /\ m.typ = "request"
  /\ \E c \in NewThread(s) :
       /\ kind' = At(kind, s, c, "session")
       /\ address' = At(address, s, c, m.from)
       /\ response' = At(response, s, c, m.session)
       /\ running_thread' = [running_thread EXCEPT ![s] = c]
  /\ UNCHANGED <<status, inbox, session_id, lookup, waiting, wakeup_queue, quitVars,
       held, timerVars, rootVars, lost>>

\* new_session
RecvRequest(s) ==
  LET m == Head(inbox[s]) IN
  /\ Receives(s) /\ m.typ = "request"
  /\ \E c \in NewThread(s) :
       /\ kind' = At(kind, s, c, "session")
       /\ address' = At(address, s, c, m.from)
       /\ response' = At(response, s, c, m.session)
       /\ running_thread' = [running_thread EXCEPT ![s] = c]
  /\ inbox' = [inbox EXCEPT ![s] = Tail(@)]
  /\ UNCHANGED <<status, session_id, lookup, waiting, wakeup_queue, quitVars,
       held, timerVars, rootVars, lost>>

\* An answer nobody waits for is only printed
RecvAnswer(s) ==
  LET m == Head(inbox[s]) IN
  /\ Receives(s) /\ m.typ = "answer"
  /\ running_thread' = [running_thread EXCEPT ![s] = lookup[s][m.session]]
  /\ lookup' = At(lookup, s, m.session, none)
  /\ inbox' = [inbox EXCEPT ![s] = Tail(@)]
  /\ UNCHANGED <<status, session_id, waiting, wakeup_queue, quitVars, coVars,
       timerVars, rootVars, lost>>

WakeupNext(s) ==
  LET c == Head(wakeup_queue[s]) IN
  /\ Idle(s) /\ wakeup_queue[s] # <<>>
  /\ running_thread' = [running_thread EXCEPT ![s] = c]
  /\ wakeup_queue' = [wakeup_queue EXCEPT ![s] = Tail(@)]
  /\ todo' = IF kind[s][c] = "quit"
             THEN [todo EXCEPT ![s] = {d \in Co : address[s][d] # none}] ELSE todo
  /\ UNCHANGED <<status, inbox, session_id, lookup, waiting, quit, coVars,
       timerVars, rootVars, lost>>

\* Nothing of the Lua state of s is used again, and its timers reach nobody
Die(s) ==
  /\ status' = [status EXCEPT ![s] = "dead"]
  /\ running_thread' = [running_thread EXCEPT ![s] = none]
  /\ session_id' = [session_id EXCEPT ![s] = 1]
  /\ lookup' = [lookup EXCEPT ![s] = [k \in Session |-> none]]
  /\ waiting' = [waiting EXCEPT ![s] = {}]
  /\ wakeup_queue' = [wakeup_queue EXCEPT ![s] = <<>>]
  /\ quit' = [quit EXCEPT ![s] = FALSE]
  /\ todo' = [todo EXCEPT ![s] = {}]
  /\ kind' = [kind EXCEPT ![s] = [c \in Co |-> "free"]]
  /\ address' = [address EXCEPT ![s] = [c \in Co |-> none]]
  /\ response' = [response EXCEPT ![s] = [c \in Co |-> nil]]
  /\ held' = [held EXCEPT ![s] = [c \in Co |-> NoMessage]]
  /\ timer' = [timer EXCEPT ![s] = {}]
  /\ blocked' = [blocked EXCEPT ![s] = <<>>]
  /\ turn' = IF turn.to = s THEN NoPlace ELSE turn
  /\ UNCHANGED <<inbox, rootVars>>

\* The answers s has still to hand over to root
Holds(s) == {<<held[s][c].to, held[s][c].session>> : c \in {d \in Co : kind[s][d] = "blocked"}}

\* mainloop returns
Exit(s) ==
  /\ Idle(s) /\ wakeup_queue[s] = <<>> /\ quit[s]
  /\ Die(s)
  /\ Lose(Holds(s))

----------------------------------------------------------------------------
(* What a handler, or a function it forked, may do *)

\* mutant of Suspend: the session id is used again
SuspendSame(s) ==
  /\ session_id[s] <= MaxSession[s]
  /\ lookup' = At(lookup, s, session_id[s], running_thread[s])
  /\ running_thread' = [running_thread EXCEPT ![s] = none]
  /\ UNCHANGED session_id

\* The coroutine waits for the answer to the next session
Suspend(s) ==
  /\ session_id[s] <= MaxSession[s]
  /\ lookup' = At(lookup, s, session_id[s], running_thread[s])
  /\ session_id' = [session_id EXCEPT ![s] = @ + 1]
  /\ running_thread' = [running_thread EXCEPT ![s] = none]

\* ltask.timer_add
AddTimer(s, k) ==
  /\ timer' = [timer EXCEPT ![s] = @ \cup {k}]
  /\ UNCHANGED <<blocked, turn>>

\* ltask.call; with any other receipt it throws an error
Call(s, t) ==
  /\ Handles(s) /\ <<s, t>> \in Caller /\ "done" \in Receipt(t)
  /\ Suspend(s)
  /\ Deliver([typ |-> "request", from |-> s, to |-> t,
              session |-> session_id[s]], "done")
  /\ Lose(IF Alive(t) THEN {} ELSE {<<s, session_id[s]>>})
  /\ UNCHANGED <<status, waiting, wakeup_queue, quitVars, coVars, timerVars, rootVars>>

\* ltask.send goes on whatever the receipt says
Send(s, t) ==
  /\ Handles(s) /\ <<s, t>> \in Sender /\ Alive(t) /\ ~Full(t)
  /\ Deliver([typ |-> "request", from |-> s, to |-> t,
              session |-> SESSION_SEND_MESSAGE], "done")
  /\ UNCHANGED <<status, loopVars, quitVars, coVars, timerVars, rootVars, lost>>

Sleep(s) ==
  /\ Handles(s) /\ s \in Sleeper
  /\ Suspend(s)
  /\ AddTimer(s, session_id[s])
  /\ UNCHANGED <<status, inbox, waiting, wakeup_queue, quitVars, coVars,
       rootVars, lost>>

\* ltask.wait on its own token uses up a session id
Wait(s) ==
  /\ Handles(s) /\ s \in Waiter /\ session_id[s] <= MaxSession[s]
  /\ waiting' = [waiting EXCEPT ![s] = @ \cup {running_thread[s]}]
  /\ session_id' = [session_id EXCEPT ![s] = @ + 1]
  /\ running_thread' = [running_thread EXCEPT ![s] = none]
  /\ UNCHANGED <<status, inbox, lookup, wakeup_queue, quitVars, coVars, timerVars,
       rootVars, lost>>

\* mutant of Wakeup: the token is not cleared
WakeupKeeps(s, d) ==
  /\ Handles(s) /\ d \in waiting[s]
  /\ wakeup_queue' = [wakeup_queue EXCEPT ![s] = Append(@, d)]
  /\ UNCHANGED <<status, inbox, running_thread, session_id, lookup, waiting,
       quitVars, coVars, timerVars, rootVars, lost>>

\* ltask.wakeup and ltask.interrupt
Wakeup(s, d) ==
  /\ Handles(s) /\ d \in waiting[s]
  /\ waiting' = [waiting EXCEPT ![s] = @ \ {d}]
  /\ wakeup_queue' = [wakeup_queue EXCEPT ![s] = Append(@, d)]
  /\ UNCHANGED <<status, inbox, running_thread, session_id, lookup, quitVars,
       coVars, timerVars, rootVars, lost>>

\* ltask.fork, and ltask.quit, which forks its work
Fork(s, k) ==
  /\ Handles(s)
  /\ \/ k = "fork" /\ s \in Forker
     \/ k = "quit" /\ s \in Quitter
  /\ \E d \in NewThread(s) :
       /\ kind' = At(kind, s, d, k)
       /\ wakeup_queue' = [wakeup_queue EXCEPT ![s] = Append(@, d)]
  /\ UNCHANGED <<status, inbox, running_thread, session_id, lookup, waiting,
       quitVars, address, response, held, timerVars, rootVars, lost>>

\* It is now the handler that has to answer, or not
NoResponse(s) ==
  LET c == running_thread[s] IN
  /\ Runs(s, {"session"}) /\ s \in Mute
  /\ response' = At(response, s, c, nil)
  /\ Lose({<<address[s][c], response[s][c]>>})
  /\ UNCHANGED <<status, inbox, loopVars, quitVars, kind, address, held,
       timerVars, rootVars>>

\* send_response at the end of a handler, and resume_session when it failed
Answer(s) ==
  LET c == running_thread[s] IN
  /\ c \in Open(s) /\ response[s][c] # nil
  /\ PostResponse(s, c, AnswerTo(address[s][c], response[s][c]), TRUE)

Respond(s) ==
  /\ Handles(s)
  /\ Answer(s)
  /\ running_thread' = [running_thread EXCEPT ![s] = none]
  /\ UNCHANGED <<status, session_id, lookup, waiting, quitVars, timerVars,
       rootVars, lost>>

\* The end of what nobody waits for
End(s) ==
  /\ Handles(s) /\ running_thread[s] \notin Open(s)
  /\ Finish(s, running_thread[s])
  /\ running_thread' = [running_thread EXCEPT ![s] = none]
  /\ UNCHANGED <<status, inbox, session_id, lookup, waiting, wakeup_queue,
       quitVars, timerVars, rootVars, lost>>

\* send_message takes no nil session: the handler fails, and then the main
\* loop, which wants to answer with the error
Crash(s) ==
  /\ Handles(s) /\ running_thread[s] \in Open(s)
  /\ response[s][running_thread[s]] = nil
  /\ Die(s)
  /\ Lose({<<address[s][c], response[s][c]>> : c \in Open(s)} \cup Holds(s))

----------------------------------------------------------------------------
(* The coroutines of the runtime: ltask.quit and send_blocked_message *)

Quits(s) == Runs(s, {"quit"})

QuitRaise(s, c) ==
  /\ Quits(s) /\ c \in todo[s] \cap Open(s) /\ response[s][c] # nil
  /\ PostResponse(s, c, AnswerTo(address[s][c], response[s][c]), FALSE)
  /\ todo' = [todo EXCEPT ![s] = @ \ {c}]
  /\ UNCHANGED <<status, running_thread, session_id, lookup, waiting, quit,
       timerVars, rootVars, lost>>

\* A nil session makes it fail; else, when all are answered, it sets quit
QuitDone(s) ==
  /\ Quits(s)
  /\ \/ /\ \E c \in todo[s] \cap Open(s) : response[s][c] = nil
        /\ UNCHANGED quit
     \/ /\ todo[s] \cap Open(s) = {}
        /\ quit' = [quit EXCEPT ![s] = TRUE]
  /\ todo' = [todo EXCEPT ![s] = {}]
  /\ Finish(s, running_thread[s])
  /\ running_thread' = [running_thread EXCEPT ![s] = none]
  /\ UNCHANGED <<status, inbox, session_id, lookup, waiting, wakeup_queue,
       timerVars, rootVars, lost>>

\* send_blocked_message gives the answer to root, or sleeps and tries again
HandOver(s) ==
  /\ Runs(s, {"blocked"}) /\ Len(rootbox) < RootLen
  /\ rootbox' = Append(rootbox, held[s][running_thread[s]])
  /\ Finish(s, running_thread[s])
  /\ running_thread' = [running_thread EXCEPT ![s] = none]
  /\ UNCHANGED <<status, inbox, session_id, lookup, waiting, wakeup_queue,
       quitVars, timerVars, retry, at, raises, forked, lost>>

HandOverBlocked(s) ==
  /\ Runs(s, {"blocked"}) /\ Len(rootbox) >= RootLen
  /\ Suspend(s)
  /\ AddTimer(s, session_id[s])
  /\ UNCHANGED <<status, inbox, waiting, wakeup_queue, quitVars, coVars,
       rootVars, lost>>

----------------------------------------------------------------------------
(* The timer service (service/timer.lua) *)

\* send_all_messages, for one session whose time has come
SendTimer(s, k) ==
  /\ turn = NoPlace /\ k \in timer[s]
  /\ timer' = [timer EXCEPT ![s] = @ \ {k}]
  /\ \/ /\ blocked[s] # <<>>
        /\ blocked' = [blocked EXCEPT ![s] = Append(@, k)]
        /\ UNCHANGED inbox
     \/ /\ blocked[s] = <<>>
        /\ \E r \in Receipt(s) :
             /\ Deliver(AnswerTo(s, k), r)
             /\ blocked' = IF r = "block" THEN [blocked EXCEPT ![s] = <<k>>]
                           ELSE blocked
  /\ UNCHANGED <<status, loopVars, quitVars, coVars, turn, rootVars, lost>>

\* send_blocked_queue, a session at a time; whose queue is next is left open
SendBlocked(s) ==
  LET q == blocked[s]
      i == IF turn = NoPlace THEN 1 ELSE turn.i
  IN
  /\ turn.to \in {none, s} /\ q # <<>>
  /\ \E r \in Receipt(s) :
       /\ Deliver(AnswerTo(s, q[i]), r)
       /\ blocked' = [blocked EXCEPT ![s] =
            IF r = "block" THEN Moved(q, i) ELSE IF i = Len(q) THEN <<>> ELSE q]
       /\ turn' = IF r # "block" /\ i < Len(q) THEN [to |-> s, i |-> i + 1]
                  ELSE NoPlace
  /\ UNCHANGED <<status, loopVars, quitVars, coVars, timer, rootVars, lost>>

----------------------------------------------------------------------------
(* root *)

\* S.send_retry
SendRetry ==
  /\ at = NoPlace /\ rootbox # <<>>
  /\ retry' = [retry EXCEPT ![Head(rootbox).to] = Append(@, Head(rootbox))]
  /\ rootbox' = Tail(rootbox)
  /\ UNCHANGED <<status, inbox, loopVars, quitVars, coVars, timerVars, at,
       raises, forked, lost>>

\* mutant of Unsent: the messages that were not sent are forgotten
UnsentNone(q, i) == <<>>
Unsent(q, i) == Moved(q, i)

\* send_retry_queue, a message at a time; root does nothing else meanwhile
SendRetryQueue(t) ==
  LET q == retry[t]
      i == IF at = NoPlace THEN 1 ELSE at.i
  IN
  /\ at.to \in {none, t} /\ q # <<>>
  /\ \E r \in Receipt(t) :
       /\ Deliver(q[i], r)
       /\ retry' = [retry EXCEPT ![t] =
            IF r = "block" THEN Unsent(q, i)
            ELSE IF r = "error" \/ i = Len(q) THEN <<>> ELSE q]
       /\ at' = IF r = "done" /\ i < Len(q) THEN [to |-> t, i |-> i + 1] ELSE NoPlace
  /\ UNCHANGED <<status, loopVars, quitVars, coVars, timerVars, rootbox, raises,
       forked, lost>>

\* mutant of CloseService: the answers in the inbox are answered as well
CloseServiceAll(t) ==
  /\ at = NoPlace /\ status[t] = "dead"
  /\ status' = [status EXCEPT ![t] = "closed"]
  /\ raises' = raises \cup
       {AnswerTo(inbox[t][i].from, inbox[t][i].session) : i \in DOMAIN inbox[t]}
  /\ inbox' = [inbox EXCEPT ![t] = <<>>]
  /\ UNCHANGED <<loopVars, quitVars, coVars, timerVars, rootbox, retry, at,
       forked, lost>>

\* del_service with close_service: the requests in the inbox get an error
CloseService(t) ==
  /\ at = NoPlace /\ status[t] = "dead"
  /\ status' = [status EXCEPT ![t] = "closed"]
  /\ raises' = raises \cup
       {AnswerTo(inbox[t][i].from, inbox[t][i].session) :
          i \in {j \in DOMAIN inbox[t] :
                   /\ inbox[t][j].typ = "request"
                   /\ inbox[t][j].session # SESSION_SEND_MESSAGE}}
  /\ inbox' = [inbox EXCEPT ![t] = <<>>]
  /\ UNCHANGED <<loopVars, quitVars, coVars, timerVars, rootbox, retry, at,
       forked, lost>>

\* rasie_error by root, and what it hands over to itself
RaiseError(m) ==
  /\ at = NoPlace /\ m \in raises
  /\ raises' = raises \ {m}
  /\ \E r \in Receipt(m.to) :
       /\ Deliver(m, r)
       /\ forked' = IF r = "block" THEN forked \cup {m} ELSE forked
  /\ UNCHANGED <<status, loopVars, quitVars, coVars, timerVars, rootbox, retry,
       at, lost>>

HandOverToSelf(m) ==
  /\ at = NoPlace /\ m \in forked /\ Len(rootbox) < RootLen
  /\ forked' = forked \ {m}
  /\ rootbox' = Append(rootbox, m)
  /\ UNCHANGED <<status, inbox, loopVars, quitVars, coVars, timerVars, retry, at,
       raises, lost>>

----------------------------------------------------------------------------

\* Root has sent the started services one message
Init ==
  /\ status = [s \in Service |-> "alive"]
  /\ inbox = [s \in Service |-> IF s \notin Started THEN <<>>
       ELSE <<[typ |-> "request", from |-> Root, to |-> s,
               session |-> SESSION_SEND_MESSAGE]>>]
  /\ running_thread = [s \in Service |-> none]
  /\ session_id = [s \in Service |-> 1]
  /\ lookup = [s \in Service |-> [k \in Session |-> none]]
  /\ waiting = [s \in Service |-> {}]
  /\ wakeup_queue = [s \in Service |-> <<>>]
  /\ quit = [s \in Service |-> FALSE]
  /\ todo = [s \in Service |-> {}]
  /\ kind = [s \in Service |-> [c \in Co |-> "free"]]
  /\ address = [s \in Service |-> [c \in Co |-> none]]
  /\ response = [s \in Service |-> [c \in Co |-> nil]]
  /\ held = [s \in Service |-> [c \in Co |-> NoMessage]]
  /\ timer = [s \in Service |-> {}]
  /\ blocked = [s \in Service |-> <<>>]
  /\ turn = NoPlace
  /\ rootbox = <<>>
  /\ retry = [s \in Service |-> <<>>]
  /\ at = NoPlace
  /\ raises = {} /\ forked = {}
  /\ lost = {}

Handler(s) ==
  \/ \E t \in Service : Call(s, t) \/ Send(s, t)
  \/ Sleep(s) \/ Wait(s) \/ (\E d \in Co : Wakeup(s, d))
  \/ (\E k \in {"fork", "quit"} : Fork(s, k))
  \/ NoResponse(s) \/ Respond(s) \/ End(s) \/ Crash(s)

Runtime(s) ==
  \/ RecvRequest(s) \/ RecvAnswer(s) \/ WakeupNext(s) \/ Exit(s)
  \/ (\E c \in Co : QuitRaise(s, c)) \/ QuitDone(s)
  \/ HandOver(s) \/ HandOverBlocked(s)

RootStep ==
  \/ SendRetry
  \/ \E t \in Service : SendRetryQueue(t) \/ CloseService(t)
  \/ (\E m \in raises : RaiseError(m)) \/ (\E m \in forked : HandOverToSelf(m))

Next ==
  \/ \E s \in Service : \/ Handler(s) \/ Runtime(s)
                        \/ (\E k \in Session : SendTimer(s, k)) \/ SendBlocked(s)
  \/ RootStep

Spec == Init /\ [][Next]_vars

----------------------------------------------------------------------------

Kind == {"free", "session", "fork", "blocked", "quit"}
Response == Session \cup {SESSION_SEND_MESSAGE, nil}

\* The type invariant (lualib/service.lua:49-55, 634; service/root.lua:19-20, 51).
TypeOK ==
  /\ status \in [Service -> {"alive", "dead", "closed"}]
  /\ inbox \in [Service -> Seq(Message)]
  /\ running_thread \in [Service -> Co \cup {none}]
  /\ \A s \in Service : session_id[s] \in 1 .. MaxSession[s] + 1
  /\ lookup \in [Service -> [Session -> Co \cup {none}]]
  /\ waiting \in [Service -> SUBSET Co]
  /\ wakeup_queue \in [Service -> Seq(Co)]
  /\ quit \in [Service -> BOOLEAN]
  /\ kind \in [Service -> [Co -> Kind]]
  /\ address \in [Service -> [Co -> Service \cup {Root, none}]]
  /\ response \in [Service -> [Co -> Response]]
  /\ held \in [Service -> [Co -> Message \cup {NoMessage}]]
  /\ todo \in [Service -> SUBSET Co]
  /\ timer \in [Service -> SUBSET Session]
  /\ blocked \in [Service -> Seq(Session)]
  /\ rootbox \in Seq(Message)
  /\ retry \in [Service -> Seq(Message)]
  /\ {at, turn} \subseteq [to : Service \cup {none}, i : Nat]
  /\ raises \subseteq Message /\ forked \subseteq Message
  /\ lost \subseteq (Service \cup {Root}) \X Response

\* Who can resume coroutine c of s: the main loop, which is in it; an answer;
\* a wakeup of its token; or its turn in the wakeup queue.
Wakers(s, c) ==
  {<<"running", 0>> : x \in {running_thread[s]} \cap {c}}
    \cup {<<"answer", k>> : k \in {j \in Session : lookup[s][j] = c}}
    \cup {<<"token", 0>> : x \in waiting[s] \cap {c}}
    \cup {<<"queue", i>> : i \in {j \in DOMAIN wakeup_queue[s] : wakeup_queue[s][j] = c}}

\* A coroutine is never resumed by two and never forgotten: one that is in use
\* has exactly one waker, one in the pool has none, so that a late answer or
\* wakeup does not resume the next user of a pooled coroutine
\* (lualib/service.lua:299-326, 345-356, 485-515, 804-829).
OneWaker == \A s \in Service : Alive(s) =>
  \A c \in Co : Cardinality(Wakers(s, c)) = IF kind[s][c] = "free" THEN 0 ELSE 1

\* What is under way to service t, or about to be
Underway(t) ==
  {inbox[t][i] : i \in DOMAIN inbox[t]} \cup {retry[t][i] : i \in DOMAIN retry[t]}
    \cup {m \in {rootbox[i] : i \in DOMAIN rootbox} \cup raises \cup forked : m.to = t}
    \cup UNION {{held[s][c] : c \in {d \in Co : kind[s][d] = "blocked" /\ held[s][d].to = t}}
                  : s \in {u \in Service : Alive(u)}}
Answers(s) ==
  {m.session : m \in {n \in Underway(s) : n.typ = "answer"}}
    \cup timer[s] \cup {blocked[s][i] : i \in DOMAIN blocked[s]}
Requests(s) ==
  UNION {{m.session : m \in {n \in Underway(t) : n.typ = "request" /\ n.from = s}}
           : t \in {u \in Service : status[u] # "closed"}}
Handled(s) ==
  UNION {{response[t][c] : c \in {d \in Co : address[t][d] = s}}
           : t \in {u \in Service : Alive(u)}}

\* The session id a service is going to use is nowhere: no answer to an
\* earlier request, whoever has it and however often root repeats it, can be
\* taken for the answer to the next one (lualib/service.lua:345-348).
FreshSession == \A s \in Service : Alive(s) =>
  \A k \in Answers(s) \cup Requests(s) \cup Handled(s) \cup {j \in Session : lookup[s][j] # none} :
    k < session_id[s]

\* A call never waits in vain: as long as the caller waits, its request or an
\* answer to it is in an inbox, in a handler, with the timer, or with root,
\* through deaths, full inboxes and retries.  Lost are: a request whose handler
\* said no_response; a request to a service that dies as it is posted, the open
\* sessions of one that crashes, and an answer that still waits for room at
\* root when its service quits (lualib/service.lua:221-259, 636-646;
\* service/root.lua:53-101, 191-211; root.go:27-41).
CallNotOrphaned == \A s \in Service : Alive(s) =>
  \A k \in Session : lookup[s][k] # none =>
    k \in Answers(s) \cup Requests(s) \cup Handled(s) \/ <<s, k>> \in lost

----------------------------------------------------------------------------
(* The promise of a call (module CallPromise), read off this state *)

Asking(s, t, k) == [typ |-> "request", from |-> s, to |-> t, session |-> k]

CallerOf(s, k) ==
  IF ~Alive(s) THEN "over"
  ELSE IF lookup[s][k] # none THEN "waits"
  ELSE IF k >= session_id[s] THEN "unused" ELSE "over"

\* Where the request is: in the inboxes, at these places; with these handlers
InInbox(s, k) ==
  UNION {{<<t, i>> : i \in {j \in DOMAIN inbox[t] : inbox[t][j] = Asking(s, t, k)}}
           : t \in Service}
WithHandler(s, k) ==
  {x \in Service \X Co : address[x[1]][x[2]] = s /\ response[x[1]][x[2]] = k}

Lone(S) == \A x, y \in S : x = y

Stage(asked, serving, timed) ==
  IF asked = {} /\ serving = {} /\ ~timed THEN "none"
  ELSE IF Lone(asked) /\ serving = {} /\ ~timed THEN "asked"
  ELSE IF asked = {} /\ Lone(serving) /\ (serving = {} \/ ~timed) THEN "serving"
  ELSE "twice"
RequestOf(s, k) == Stage(InInbox(s, k), WithHandler(s, k), k \in timer[s])

\* Sequence q has x
In(q, x) == \E i \in DOMAIN q : q[i] = x

\* An answer to the call is in the inbox; with a coroutine; in one of the queues
\* of the timer and of root
Posted(s, k) == In(inbox[s], AnswerTo(s, k))
HeldBy(t, c, s, k) == Alive(t) /\ kind[t][c] = "blocked" /\ held[t][c] = AnswerTo(s, k)
Answered(s, k) ==
  \/ Posted(s, k)
  \/ \E t \in Service, c \in Co : HeldBy(t, c, s, k)
  \/ In(blocked[s], k)
  \/ In(retry[s], AnswerTo(s, k)) \/ In(rootbox, AnswerTo(s, k))
  \/ AnswerTo(s, k) \in raises \cup forked

Promise == INSTANCE CallPromise WITH
  ended <- {s \in Service : ~Alive(s)},
  caller <- [s \in Service |-> [k \in Session |-> CallerOf(s, k)]],
  request <- [s \in Service |-> [k \in Session |-> RequestOf(s, k)]],
  answer <- [s \in Service |-> [k \in Session |->
               CallerOf(s, k) = "waits" /\ Answered(s, k)]]

\* Each call keeps the promise of module CallPromise: the request is handled at
\* most once, the caller goes on once and only with an answer made of that
\* request, and only the end of a service loses an answer that was given, even
\* though root and the timer send some messages again, and a handler may answer
\* a second time after ltask.quit has answered for it (lualib/service.lua:221-326,
\* 345-356, 636-646, 752-800; service/root.lua:53-101, 191-211; service/timer.lua:25-41).
Implements == Promise!Spec
=============================================================================
