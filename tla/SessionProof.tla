---------------------------- MODULE SessionProof ----------------------------
(***************************************************************************)
(* Proofs about the session runtime: its types, and that session ids are   *)
(* fresh, for any number of services, coroutines and sessions and whatever *)
(* rooms there are in the inboxes.                                         *)
(*                                                                         *)
(* A session id of s is past when s has counted on beyond it, and it stays *)
(* past.  The invariant says of every place where a session of s may be,   *)
(* a message, a handler, a table of s or of the timer, that it is past.    *)
(***************************************************************************)
EXTENDS Session, SequenceTheorems, TLAPS

Past(s, k) == Alive(s) => k < session_id[s]

\* The answers and requests that there may be
Reply == {m \in Message : /\ m.typ = "answer" /\ m.from = none /\ m.session \in Session
                          /\ Past(m.to, m.session)}
Question == {m \in Message : /\ m.typ = "request" /\ m.from # none
                             /\ m.from = Root => m.session = SESSION_SEND_MESSAGE
                             /\ m.from # Root => Past(m.from, m.session)}
ReplyTo(t) == {m \in Reply : m.to = t}
Mail(t) == ReplyTo(t) \cup {m \in Question : m.to = t}
PastOf(s) == {k \in Session : Past(s, k)}

Statuses ==
  /\ status \in [Service -> {"alive", "dead", "closed"}]
  /\ session_id \in [Service -> Nat]
  /\ \A s \in Service : session_id[s] \in 1 .. MaxSession[s] + 1

Loops ==
  /\ running_thread \in [Service -> Co \cup {none}]
  /\ waiting \in [Service -> SUBSET Co]
  /\ wakeup_queue \in [Service -> Seq(Co)]
  /\ quit \in [Service -> BOOLEAN]
  /\ todo \in [Service -> SUBSET Co]

Lookups ==
  /\ lookup \in [Service -> [Session -> Co \cup {none}]]
  /\ \A s \in Service, k \in Session : lookup[s][k] # none => Past(s, k)

\* A handler knows who asked; root asks for nothing
Coroutines ==
  /\ kind \in [Service -> [Co -> Kind]]
  /\ address \in [Service -> [Co -> Service \cup {Root, none}]]
  /\ response \in [Service -> [Co -> Response]]
  /\ held \in [Service -> [Co -> Message \cup {NoMessage}]]
  /\ \A s \in Service, c \in Co :
       /\ kind[s][c] = "session" => address[s][c] # none
       /\ kind[s][c] = "blocked" => held[s][c] \in Reply
       /\ address[s][c] = Root => response[s][c] \in {SESSION_SEND_MESSAGE, nil}
       /\ address[s][c] \in Service => Past(address[s][c], response[s][c])

Inboxes ==
  /\ inbox = [x \in Service |-> inbox[x]]    \* a table with one inbox for each
  /\ \A t \in Service : inbox[t] \in Seq(Mail(t))

Place(p, queue) ==
  /\ p \in [to : Service \cup {none}, i : Nat]
  /\ p = NoPlace \/ (p.to \in Service /\ p.i \in 1 .. Len(queue[p.to]))

Timers ==
  /\ timer \in [Service -> SUBSET Session]
  /\ blocked = [x \in Service |-> blocked[x]]
  /\ \A s \in Service : timer[s] \subseteq PastOf(s) /\ blocked[s] \in Seq(PastOf(s))
  /\ Place(turn, blocked)

Roots ==
  /\ rootbox \in Seq(Reply)
  /\ retry = [x \in Service |-> retry[x]]
  /\ \A t \in Service : retry[t] \in Seq(ReplyTo(t))
  /\ Place(at, retry)
  /\ raises \subseteq Reply /\ forked \subseteq Reply

Lost == lost \subseteq (Service \cup {Root}) \X Response

Inv == Statuses /\ Loops /\ Lookups /\ Coroutines /\ Inboxes /\ Timers /\ Roots /\ Lost

\* What every step does to the services: they do not come back, and a living
\* one counts its sessions up (service.lua:345-348).
Aged == \A s \in Service : Alive(s)' => Alive(s) /\ session_id[s] <= session_id'[s]

----------------------------------------------------------------------------
(* Constants, sequences and nested tables *)

\* Sessions are positive; nobody is both a service and root or nil.
LEMMA Sessions ==
  /\ \A k \in Session : k \in Int /\ k > 0
  /\ SESSION_SEND_MESSAGE = 0 /\ nil = -1
  BY SessionAssumption DEF Session, SESSION_SEND_MESSAGE, nil

LEMMA Constants ==
  /\ \A s \in Service : 1 .. MaxSession[s] \subseteq Session /\ MaxSession[s] \in Nat
  /\ none \notin Service /\ none \notin Co /\ none # Root /\ Root \notin Service
  /\ NoMessage \notin Message
  BY SessionAssumption DEF Session, NoMessage, Message

LEMMA MessageFields ==
  ASSUME NEW m \in Message
  PROVE  /\ m.to \in Service /\ m.from \in Service \cup {Root, none}
         /\ m.session \in Session \cup {SESSION_SEND_MESSAGE} /\ m.session \in Int
  <1>1. /\ m.to \in Service /\ m.from \in Service \cup {Root, none}
        /\ m.session \in Session \cup {SESSION_SEND_MESSAGE}
    BY DEF Message
  <1> QED BY <1>1, Sessions

\* What a queue keeps when its blocked rest is moved to the front was in it
\* before, and it is as long (service/root.lua:58, service/timer.lua:37).
LEMMA MovedIsSeq ==
  ASSUME NEW S, NEW q \in Seq(S), NEW i \in 1 .. Len(q)
  PROVE  Moved(q, i) \in Seq(S) /\ Len(Moved(q, i)) = Len(q)
  <1> DEFINE a == SubSeq(q, i, Len(q))
             b == SubSeq(q, Len(q) - i + 2, Len(q))
  <1>1. a \in Seq(S) /\ Len(a) = Len(q) - i + 1 BY SubSeqProperties
  <1>2. b \in Seq(S) /\ Len(b) = i - 1 BY SubSeqProperties
  <1>3. Moved(q, i) = a \o b BY DEF Moved
  <1> HIDE DEF a, b
  <1> QED BY <1>1, <1>2, <1>3

----------------------------------------------------------------------------
(* What a step leaves alone stays right, since what is past stays past *)

LEMMA PastStays ==
  ASSUME Statuses, Statuses', Aged, NEW s \in Service, NEW k \in Int, Past(s, k)
  PROVE  Past(s, k)'
  BY DEF Past, Aged, Statuses

LEMMA SetsGrow ==
  ASSUME Statuses, Statuses', Aged
  PROVE  /\ Reply \subseteq Reply' /\ Question \subseteq Question'
         /\ \A t \in Service : /\ ReplyTo(t) \subseteq ReplyTo(t)'
                               /\ Mail(t) \subseteq Mail(t)'
                               /\ PastOf(t) \subseteq PastOf(t)'
  <1>1. ASSUME NEW m \in Reply PROVE m \in Reply'
    <2>1. m \in Message /\ Past(m.to, m.session) BY DEF Reply
    <2>2. m.to \in Service /\ m.session \in Int BY <2>1, MessageFields
    <2>3. Past(m.to, m.session)' BY <2>1, <2>2, PastStays
    <2> QED BY <2>3 DEF Reply
  <1>2. ASSUME NEW m \in Question PROVE m \in Question'
    <2>1. m \in Message /\ m.from # none BY DEF Question
    <2>2. m.from \in Service \cup {Root} /\ m.session \in Int
      BY <2>1, MessageFields
    <2>3. m.from # Root => Past(m.from, m.session)' BY <2>2, PastStays DEF Question
    <2> QED BY <2>3 DEF Question
  <1>3. \A t \in Service : PastOf(t) \subseteq PastOf(t)'
    BY PastStays, Sessions DEF PastOf
  <1> QED BY <1>1, <1>2, <1>3 DEF ReplyTo, Mail

LEMMA SameLookups ==
  ASSUME Statuses, Statuses', Aged, Lookups, UNCHANGED lookup PROVE Lookups'
  BY PastStays, Sessions DEF Lookups

LEMMA SameCoroutines ==
  ASSUME Statuses, Statuses', Aged, Coroutines, UNCHANGED coVars PROVE Coroutines'
  <1> USE DEF Coroutines, coVars
  <1>1. Reply \subseteq Reply' BY SetsGrow
  <1>2. ASSUME NEW s \in Service, NEW c \in Co, address'[s][c] \in Service
        PROVE  Past(address[s][c], response[s][c])'
    <2>1. response[s][c] \in Int BY Sessions DEF Response
    <2> QED BY <1>2, <2>1, PastStays
  <1> QED BY <1>1, <1>2

LEMMA SameInboxes ==
  ASSUME Statuses, Statuses', Aged, Inboxes, UNCHANGED inbox PROVE Inboxes'
  BY SetsGrow, SeqMonotonic DEF Inboxes

LEMMA SameTimers ==
  ASSUME Statuses, Statuses', Aged, Timers, UNCHANGED timerVars PROVE Timers'
  <1>1. ASSUME NEW s \in Service
        PROVE  timer'[s] \subseteq PastOf(s)' /\ blocked'[s] \in Seq(PastOf(s)')
    BY SetsGrow, SeqMonotonic DEF Timers, timerVars
  <1> QED BY <1>1 DEF Timers, timerVars, Place

LEMMA SameRoots ==
  ASSUME Statuses, Statuses', Aged, Roots, UNCHANGED rootVars PROVE Roots'
  <1>1. ASSUME NEW t \in Service PROVE retry'[t] \in Seq(ReplyTo(t)')
    BY SetsGrow, SeqMonotonic DEF Roots, rootVars
  <1>2. rootbox' \in Seq(Reply') BY SetsGrow, SeqMonotonic DEF Roots, rootVars
  <1>3. raises' \subseteq Reply' /\ forked' \subseteq Reply' BY SetsGrow DEF Roots, rootVars
  <1> QED BY <1>1, <1>2, <1>3 DEF Roots, rootVars, Place

\* A step that lets nobody use a session or die.
LEMMA Still ==
  ASSUME Statuses, UNCHANGED <<status, session_id>> PROVE Statuses' /\ Aged
  BY DEF Statuses, Aged, Alive

----------------------------------------------------------------------------
(* The operators of Session *)

LEMMA Threads ==
  ASSUME NEW s \in Service, NEW d \in NewThread(s)
  PROVE  d \in Co /\ kind[s][d] = "free"
  <1>1. Free(s) # {} BY DEF NewThread
  <1>2. NewThread(s) = {CHOOSE c \in Free(s) : TRUE} BY <1>1 DEF NewThread
  <1>3. d \in Free(s) BY <1>1, <1>2
  <1> QED BY <1>3, SessionAssumption DEF Free

LEMMA Running ==
  ASSUME Loops, NEW s \in Service, NEW k, Runs(s, k)
  PROVE  running_thread[s] \in Co /\ Alive(s) /\ kind[s][running_thread[s]] \in k
  BY Constants DEF Loops, Runs

\* An answer to whoever waits for session k of s.
LEMMA AnswerIsReply ==
  ASSUME Statuses, NEW s \in Service, NEW k \in PastOf(s)
  PROVE  AnswerTo(s, k) \in Reply /\ AnswerTo(s, k).to = s
  BY DEF AnswerTo, Reply, PastOf, Message

\* Who answers may answer.
LEMMA OpenIsReply ==
  ASSUME Statuses, Coroutines, NEW s \in Service, NEW c \in Open(s), response[s][c] # nil
  PROVE  c \in Co /\ AnswerTo(address[s][c], response[s][c]) \in Reply
  <1>1. c \in Co /\ address[s][c] # none /\ response[s][c] # SESSION_SEND_MESSAGE
    BY DEF Open
  <1>2. address[s][c] \in Service \cup {Root, none} /\ response[s][c] \in Response
    BY <1>1 DEF Coroutines
  <1>3. address[s][c] \in Service BY <1>1, <1>2 DEF Coroutines
  <1>4. response[s][c] \in PastOf(address[s][c])
    BY <1>1, <1>2, <1>3 DEF Coroutines, PastOf, Response
  <1> QED BY <1>1, <1>3, <1>4, AnswerIsReply

LEMMA DeliverKeeps ==
  ASSUME Statuses, Statuses', Aged, Inboxes, NEW m \in Message, NEW r,
         m \in Mail(m.to)', Deliver(m, r)
  PROVE  Inboxes'
  <1>1. m.to \in Service BY MessageFields
  <1>2. \A t \in Service : inbox[t] \in Seq(Mail(t)') BY SetsGrow, SeqMonotonic DEF Inboxes
  <1>3. CASE UNCHANGED inbox BY <1>2, <1>3 DEF Inboxes
  <1>4. CASE inbox' = [inbox EXCEPT ![m.to] = Append(@, m)]
    <2>1. inbox' = [x \in Service |-> inbox'[x]] BY <1>4 DEF Inboxes
    <2>2. ASSUME NEW t \in Service PROVE inbox'[t] \in Seq(Mail(t)')
      <3>1. CASE t = m.to
        <4>1. inbox'[t] = Append(inbox[t], m) BY <1>1, <1>4, <3>1 DEF Inboxes
        <4> QED BY <1>2, <3>1, <4>1, AppendProperties
      <3>2. CASE t # m.to BY <1>2, <1>4, <3>2 DEF Inboxes
      <3> QED BY <3>1, <3>2
    <2> QED BY <2>1, <2>2 DEF Inboxes
  <1> QED BY <1>3, <1>4 DEF Deliver

\* The first message of an inbox is taken.
LEMMA TakeKeeps ==
  ASSUME Statuses, Statuses', Aged, Inboxes, NEW s \in Service, inbox[s] # <<>>,
         inbox' = [inbox EXCEPT ![s] = Tail(@)]
  PROVE  Inboxes' /\ Head(inbox[s]) \in Mail(s)
  <1>1. \A t \in Service : inbox[t] \in Seq(Mail(t)') BY SetsGrow, SeqMonotonic DEF Inboxes
  <1>2. Tail(inbox[s]) \in Seq(Mail(s)') BY <1>1, HeadTailProperties
  <1>3. Head(inbox[s]) \in Mail(s) BY HeadTailProperties DEF Inboxes
  <1> QED BY <1>1, <1>2, <1>3 DEF Inboxes

LEMMA FinishKeeps ==
  ASSUME Statuses, Statuses', Aged, Coroutines, NEW s \in Service, NEW c \in Co, Finish(s, c)
  PROVE  Coroutines'
  <1>0. /\ kind \in [Service -> [Co -> Kind]]
        /\ address \in [Service -> [Co -> Service \cup {Root, none}]]
        /\ response \in [Service -> [Co -> Response]]
        /\ held \in [Service -> [Co -> Message \cup {NoMessage}]]
    BY DEF Coroutines
  <1>1. /\ "free" \in Kind /\ none \in Service \cup {Root, none} /\ nil \in Response
        /\ NoMessage \in Message \cup {NoMessage}
    BY DEF Kind, Response
  <1>2. Reply \subseteq Reply' BY SetsGrow
  <1>kind. /\ kind' \in [Service -> [Co -> Kind]]
        /\ \A t \in Service, d \in Co :
             kind'[t][d] = IF t = s /\ d = c THEN "free" ELSE kind[t][d]
    BY <1>0, <1>1 DEF Finish, At
  <1>address. /\ address' \in [Service -> [Co -> Service \cup {Root, none}]]
        /\ \A t \in Service, d \in Co :
             address'[t][d] = IF t = s /\ d = c THEN none ELSE address[t][d]
    BY <1>0, <1>1 DEF Finish, At
  <1>response. /\ response' \in [Service -> [Co -> Response]]
        /\ \A t \in Service, d \in Co :
             response'[t][d] = IF t = s /\ d = c THEN nil ELSE response[t][d]
    BY <1>0, <1>1 DEF Finish, At
  <1>held. /\ held' \in [Service -> [Co -> Message \cup {NoMessage}]]
        /\ \A t \in Service, d \in Co :
             held'[t][d] = IF t = s /\ d = c THEN NoMessage ELSE held[t][d]
    BY <1>0, <1>1 DEF Finish, At
  <1>5. ASSUME NEW t \in Service, NEW d \in Co, address'[t][d] \in Service
        PROVE  Past(address[t][d], response[t][d])'
    <2>1. response[t][d] \in Int BY Sessions DEF Response, Coroutines
    <2>2. address'[t][d] = address[t][d] /\ response'[t][d] = response[t][d]
      BY <1>address, <1>response, <1>5, Constants
    <2> QED BY <1>5, <2>1, <2>2, PastStays DEF Coroutines
  <1>6. ASSUME NEW t \in Service, NEW d \in Co
        PROVE  /\ kind'[t][d] = "session" => address'[t][d] # none
               /\ kind'[t][d] = "blocked" => held'[t][d] \in Reply'
               /\ address'[t][d] = Root => response'[t][d] \in {SESSION_SEND_MESSAGE, nil}
    BY <1>2, <1>kind, <1>address, <1>response, <1>held, Constants DEF Coroutines
  <1> QED BY <1>kind, <1>address, <1>response, <1>held, <1>5, <1>6 DEF Coroutines

\* An answer is posted, or goes to a coroutine of its own (service.lua:221-259).
LEMMA PostKeeps ==
  ASSUME Statuses, UNCHANGED <<status, session_id>>, Loops, Coroutines, Inboxes,
         NEW s \in Service, NEW c \in Co, NEW m \in Reply, NEW ends \in BOOLEAN,
         PostResponse(s, c, m, ends)
  PROVE  Coroutines' /\ Inboxes' /\ wakeup_queue' \in [Service -> Seq(Co)]
  <1>1. Statuses' /\ Aged BY Still
  <1>2. Reply \subseteq Reply' BY <1>1, SetsGrow
  <1>3. m \in Message BY DEF Reply
  <1>4. m \in Mail(m.to)' BY <1>2, <1>3, MessageFields DEF Mail, ReplyTo
  <1>5. PICK r \in Receipt(m.to) :
          /\ Deliver(m, r)
          /\ IF r = "block"
             THEN \E d \in NewThread(s) :
                    /\ kind' = [kind EXCEPT ![s] =
                         [x \in Co |-> IF x = d THEN "blocked"
                                       ELSE IF x = c /\ ends THEN "free" ELSE @[x]]]
                    /\ held' = At(held, s, d, m)
                    /\ wakeup_queue' = [wakeup_queue EXCEPT ![s] = Append(@, d)]
             ELSE /\ kind' = IF ends THEN At(kind, s, c, "free") ELSE kind
                  /\ UNCHANGED <<held, wakeup_queue>>
    BY DEF PostResponse
  <1>6. Inboxes' BY <1>1, <1>3, <1>4, <1>5, DeliverKeeps
  <1>7. /\ kind \in [Service -> [Co -> Kind]]
        /\ held \in [Service -> [Co -> Message \cup {NoMessage}]]
        /\ wakeup_queue \in [Service -> Seq(Co)]
        /\ {"free", "blocked"} \subseteq Kind
    BY DEF Coroutines, Loops, Kind
  \* Only c, which ends, and d, which has m, have changed
  <1>8. /\ wakeup_queue' \in [Service -> Seq(Co)]
        /\ kind' \in [Service -> [Co -> Kind]]
        /\ held' \in [Service -> [Co -> Message \cup {NoMessage}]]
        /\ \A t \in Service, x \in Co :
             \/ kind'[t][x] = "blocked" /\ held'[t][x] = m
             \/ kind'[t][x] = "free"
             \/ /\ kind'[t][x] = kind[t][x] /\ held'[t][x] = held[t][x]
                /\ ~(ends /\ t = s /\ x = c)
    <2>1. CASE r = "block"
      <3>1. PICK d \in NewThread(s) :
              /\ kind' = [kind EXCEPT ![s] =
                   [x \in Co |-> IF x = d THEN "blocked"
                                 ELSE IF x = c /\ ends THEN "free" ELSE @[x]]]
              /\ held' = At(held, s, d, m)
              /\ wakeup_queue' = [wakeup_queue EXCEPT ![s] = Append(@, d)]
        BY <1>5, <2>1
      <3>2. d \in Co BY Threads
      <3>3. wakeup_queue' \in [Service -> Seq(Co)] BY <1>7, <3>1, <3>2
      <3>4. /\ kind' \in [Service -> [Co -> Kind]]
            /\ \A t \in Service, x \in Co :
                 kind'[t][x] = IF t = s /\ x = d THEN "blocked"
                               ELSE IF t = s /\ x = c /\ ends THEN "free" ELSE kind[t][x]
        BY <1>7, <3>1, <3>2
      <3>5. /\ held' \in [Service -> [Co -> Message \cup {NoMessage}]]
            /\ \A t \in Service, x \in Co :
                 held'[t][x] = IF t = s /\ x = d THEN m ELSE held[t][x]
        BY <1>3, <1>7, <3>1, <3>2 DEF At
      <3> QED BY <3>3, <3>4, <3>5
    <2>2. CASE r # "block"
      <3>1. /\ UNCHANGED <<held, wakeup_queue>>
            /\ kind' = IF ends THEN At(kind, s, c, "free") ELSE kind
        BY <1>5, <2>2
      <3>2. /\ kind' \in [Service -> [Co -> Kind]]
            /\ \A t \in Service, x \in Co :
                 kind'[t][x] = IF t = s /\ x = c /\ ends THEN "free" ELSE kind[t][x]
        BY <1>7, <3>1 DEF At
      <3> QED BY <1>7, <3>1, <3>2
    <2> QED BY <2>1, <2>2
  <1>9. /\ address' \in [Service -> [Co -> Service \cup {Root, none}]]
        /\ response' \in [Service -> [Co -> Response]]
        /\ \A t \in Service, x \in Co :
             \/ ends /\ t = s /\ x = c /\ address'[t][x] = none
             \/ address'[t][x] = address[t][x] /\ response'[t][x] = response[t][x]
    <2>1. /\ address \in [Service -> [Co -> Service \cup {Root, none}]]
          /\ response \in [Service -> [Co -> Response]] /\ nil \in Response
      BY DEF Coroutines, Response
    <2>2. /\ address' = IF ends THEN At(address, s, c, none) ELSE address
          /\ response' = IF ends THEN At(response, s, c, nil) ELSE response
      BY DEF PostResponse
    <2> QED BY <2>1, <2>2 DEF At
  <1>10. ASSUME NEW t \in Service, NEW x \in Co
         PROVE  /\ kind'[t][x] = "session" => address'[t][x] # none
                /\ kind'[t][x] = "blocked" => held'[t][x] \in Reply'
                /\ address'[t][x] = Root => response'[t][x] \in {SESSION_SEND_MESSAGE, nil}
    <2>1. /\ kind[t][x] = "session" => address[t][x] # none
          /\ kind[t][x] = "blocked" => held[t][x] \in Reply
          /\ address[t][x] = Root => response[t][x] \in {SESSION_SEND_MESSAGE, nil}
      BY DEF Coroutines
    <2>2. \/ kind'[t][x] = "blocked" /\ held'[t][x] = m
          \/ kind'[t][x] = "free"
          \/ /\ kind'[t][x] = kind[t][x] /\ held'[t][x] = held[t][x]
             /\ ~(ends /\ t = s /\ x = c)
      BY <1>8
    <2>3. \/ ends /\ t = s /\ x = c /\ address'[t][x] = none
          \/ address'[t][x] = address[t][x] /\ response'[t][x] = response[t][x]
      BY <1>9
    <2> QED BY <1>2, <2>1, <2>2, <2>3, Constants
  <1>11. ASSUME NEW t \in Service, NEW x \in Co, address'[t][x] \in Service
         PROVE  Past(address[t][x], response[t][x])'
    <2>1. address'[t][x] = address[t][x] /\ response'[t][x] = response[t][x]
      BY <1>9, <1>11, Constants
    <2>2. response[t][x] \in Int BY Sessions DEF Response, Coroutines
    <2> QED BY <1>1, <1>11, <2>1, <2>2, PastStays DEF Coroutines
  <1> QED BY <1>6, <1>8, <1>9, <1>10, <1>11 DEF Coroutines

\* A service is gone with all its tables, and nobody's sessions become new
\* (service.lua:860-880).
LEMMA DieKeeps ==
  ASSUME Inv, NEW s \in Service, Die(s)
  PROVE  /\ Statuses' /\ Loops' /\ Lookups' /\ Coroutines' /\ Inboxes' /\ Timers' /\ Roots'
  <1> USE DEF Inv
  <1>1. Statuses' /\ Aged
    BY Constants DEF Statuses, Aged, Alive, Die
  <1>2. Loops' BY DEF Loops, Die
  <1>3. Lookups'
    <2>1. /\ lookup' \in [Service -> [Session -> Co \cup {none}]]
          /\ \A t \in Service, k \in Session : lookup'[t][k] # none => lookup[t][k] # none
      BY DEF Lookups, Die
    <2> QED BY <1>1, <2>1, PastStays, Sessions DEF Lookups
  <1>4. Coroutines'
    <2>1. /\ "free" \in Kind /\ nil \in Response /\ Reply \subseteq Reply'
      BY <1>1, SetsGrow DEF Kind, Response
    <2>2. /\ kind' \in [Service -> [Co -> Kind]]
          /\ address' \in [Service -> [Co -> Service \cup {Root, none}]]
          /\ response' \in [Service -> [Co -> Response]]
          /\ held' \in [Service -> [Co -> Message \cup {NoMessage}]]
      BY <2>1 DEF Coroutines, Die
    <2>3. \A t \in Service, c \in Co :
            \/ kind'[t][c] = "free" /\ address'[t][c] = none
            \/ /\ kind'[t][c] = kind[t][c] /\ address'[t][c] = address[t][c]
               /\ response'[t][c] = response[t][c] /\ held'[t][c] = held[t][c]
      BY DEF Coroutines, Die
    <2>4. ASSUME NEW t \in Service, NEW c \in Co
          PROVE  /\ kind'[t][c] = "session" => address'[t][c] # none
                 /\ kind'[t][c] = "blocked" => held'[t][c] \in Reply'
                 /\ address'[t][c] = Root => response'[t][c] \in {SESSION_SEND_MESSAGE, nil}
      BY <2>1, <2>3, Constants DEF Coroutines
    <2>5. ASSUME NEW t \in Service, NEW c \in Co, address'[t][c] \in Service
          PROVE  Past(address[t][c], response[t][c])'
      <3>1. address'[t][c] = address[t][c] /\ response'[t][c] = response[t][c]
        BY <2>3, <2>5, Constants
      <3>2. response[t][c] \in Int BY Sessions DEF Response, Coroutines
      <3> QED BY <1>1, <2>5, <3>1, <3>2, PastStays DEF Coroutines
    <2> QED BY <2>2, <2>4, <2>5 DEF Coroutines
  <1>5. Inboxes' BY <1>1, SameInboxes DEF Die
  <1>6. Timers'
    <2>1. ASSUME NEW t \in Service
          PROVE  timer'[t] \in SUBSET Session /\ timer'[t] \subseteq PastOf(t)'
                 /\ blocked'[t] \in Seq(PastOf(t)')
      <3>1. blocked[t] \in Seq(PastOf(t)') /\ timer[t] \subseteq PastOf(t)'
        BY <1>1, SetsGrow, SeqMonotonic DEF Timers
      <3> QED BY <3>1 DEF Timers, Die
    <2>2. Place(turn, blocked)'
      BY Constants DEF Timers, Place, Die, NoPlace
    <2>3. timer' \in [Service -> SUBSET Session] /\ blocked' = [x \in Service |-> blocked'[x]]
      BY DEF Timers, Die
    <2> QED BY <2>1, <2>2, <2>3 DEF Timers
  <1>7. Roots' BY <1>1, SameRoots DEF Die
  <1> QED BY <1>1, <1>2, <1>3, <1>4, <1>5, <1>6, <1>7

\* A coroutine waits for its next session, which is past from then on
\* (service.lua:345-356).
LEMMA SuspendKeeps ==
  ASSUME Statuses, Loops, Lookups, UNCHANGED status,
         NEW s \in Service, running_thread[s] \in Co, Suspend(s)
  PROVE  /\ Statuses' /\ Aged /\ Lookups'
         /\ running_thread' \in [Service -> Co \cup {none}]
         /\ session_id[s] \in Session /\ session_id[s] \in PastOf(s)'
  <1>1. session_id[s] \in 1 .. MaxSession[s] /\ session_id[s] \in Session
    BY Constants DEF Statuses, Suspend
  <1>2. session_id' \in [Service -> Nat] /\ session_id'[s] = session_id[s] + 1
        /\ \A t \in Service : t # s => session_id'[t] = session_id[t]
    BY DEF Statuses, Suspend
  <1>3. Statuses' /\ Aged
    BY <1>1, <1>2, Constants DEF Statuses, Aged, Alive
  <1>4. session_id[s] \in PastOf(s)' BY <1>1, <1>2 DEF PastOf, Past, Statuses
  <1>5. Lookups'
    <2>1. lookup \in [Service -> [Session -> Co \cup {none}]] BY DEF Lookups
    <2>2. lookup' = At(lookup, s, session_id[s], running_thread[s]) BY DEF Suspend
    <2>3. /\ lookup' \in [Service -> [Session -> Co \cup {none}]]
          /\ \A t \in Service, k \in Session :
               lookup'[t][k] = IF t = s /\ k = session_id[s]
                               THEN running_thread[s] ELSE lookup[t][k]
      BY <1>1, <2>1, <2>2 DEF At
    <2>4. ASSUME NEW t \in Service, NEW k \in Session, lookup'[t][k] # none
          PROVE  Past(t, k)'
      <3>1. CASE t = s /\ k = session_id[s] BY <1>4, <3>1 DEF PastOf
      <3>2. CASE ~(t = s /\ k = session_id[s])
        <4>1. Past(t, k) /\ k \in Int BY <2>3, <2>4, <3>2, Sessions DEF Lookups
        <4> QED BY <1>3, <4>1, PastStays
      <3> QED BY <3>1, <3>2
    <2> QED BY <2>3, <2>4 DEF Lookups
  <1>6. running_thread' \in [Service -> Co \cup {none}] BY DEF Suspend, Loops
  <1> QED BY <1>1, <1>3, <1>4, <1>5, <1>6

LEMMA AddTimerKeeps ==
  ASSUME Statuses, Statuses', Aged, Timers, NEW s \in Service, NEW k \in Session,
         k \in PastOf(s)', AddTimer(s, k)
  PROVE  Timers'
  <1>1. /\ timer \in [Service -> SUBSET Session] /\ UNCHANGED <<blocked, turn>>
        /\ timer' = [timer EXCEPT ![s] = @ \cup {k}]
    BY DEF Timers, AddTimer
  <1>2. ASSUME NEW t \in Service
        PROVE  timer[t] \subseteq PastOf(t)' /\ blocked[t] \in Seq(PastOf(t)')
    BY SetsGrow, SeqMonotonic DEF Timers
  <1> QED BY <1>1, <1>2 DEF Timers, Place

----------------------------------------------------------------------------
(* The main loop and the coroutines of the runtime *)

LEMMA RecvRequestKeeps ==
  ASSUME Inv, NEW s \in Service, RecvRequest(s) PROVE Inv'
  <1> USE DEF Inv
  <1>1. Statuses' /\ Aged BY Still DEF RecvRequest
  <1>2. Inboxes' /\ Head(inbox[s]) \in Mail(s)
    BY <1>1, TakeKeeps DEF RecvRequest, Receives
  <1> DEFINE m == Head(inbox[s])
  <1>3. m \in Question
    BY <1>2 DEF RecvRequest, Mail, ReplyTo, Reply
  <1>4. /\ m.from # none /\ (m.from = Root => m.session = SESSION_SEND_MESSAGE)
        /\ m.from \in Service \cup {Root} /\ m.session \in Response
        /\ m.from \in Service => Past(m.from, m.session)
    <2>1. m \in Message BY <1>3 DEF Question
    <2>2. m.from \in Service \cup {Root, none} /\ m.session \in Session \cup {SESSION_SEND_MESSAGE}
      BY <2>1, MessageFields
    <2> QED BY <1>3, <2>2, Constants DEF Question, Response
  <1>5. PICK c \in NewThread(s) :
          /\ kind' = At(kind, s, c, "session")
          /\ address' = At(address, s, c, m.from)
          /\ response' = At(response, s, c, m.session)
          /\ running_thread' = [running_thread EXCEPT ![s] = c]
    BY DEF RecvRequest
  <1>6. c \in Co BY Threads
  <1>7. Coroutines'
    <2> HIDE DEF m
    <2>1. /\ kind \in [Service -> [Co -> Kind]] /\ "session" \in Kind
          /\ address \in [Service -> [Co -> Service \cup {Root, none}]]
          /\ response \in [Service -> [Co -> Response]]
          /\ held \in [Service -> [Co -> Message \cup {NoMessage}]]
      BY DEF Coroutines, Kind
    <2>2. held' = held /\ Reply \subseteq Reply' BY <1>1, SetsGrow DEF RecvRequest
    <2>3. /\ kind' \in [Service -> [Co -> Kind]]
          /\ \A t \in Service, d \in Co :
               kind'[t][d] = IF t = s /\ d = c THEN "session" ELSE kind[t][d]
      BY <1>5, <1>6, <2>1 DEF At
    <2>4. /\ address' \in [Service -> [Co -> Service \cup {Root, none}]]
          /\ \A t \in Service, d \in Co :
               address'[t][d] = IF t = s /\ d = c THEN m.from ELSE address[t][d]
      BY <1>4, <1>5, <1>6, <2>1 DEF At
    <2>5. /\ response' \in [Service -> [Co -> Response]]
          /\ \A t \in Service, d \in Co :
               response'[t][d] = IF t = s /\ d = c THEN m.session ELSE response[t][d]
      BY <1>4, <1>5, <1>6, <2>1 DEF At
    <2>6. ASSUME NEW t \in Service, NEW d \in Co
          PROVE  /\ kind'[t][d] = "session" => address'[t][d] # none
                 /\ kind'[t][d] = "blocked" => held'[t][d] \in Reply'
                 /\ address'[t][d] = Root => response'[t][d] \in {SESSION_SEND_MESSAGE, nil}
      <3>1. CASE t = s /\ d = c BY <1>4, <2>3, <2>4, <2>5, <3>1
      <3>2. CASE ~(t = s /\ d = c)
        <4>1. /\ kind[t][d] = "session" => address[t][d] # none
              /\ kind[t][d] = "blocked" => held[t][d] \in Reply
              /\ address[t][d] = Root => response[t][d] \in {SESSION_SEND_MESSAGE, nil}
          BY DEF Coroutines
        <4> QED BY <2>2, <2>3, <2>4, <2>5, <3>2, <4>1
      <3> QED BY <3>1, <3>2
    <2>7. ASSUME NEW t \in Service, NEW d \in Co, address'[t][d] \in Service
          PROVE  Past(address[t][d], response[t][d])'
      <3>1. address'[t][d] \in Service /\ response'[t][d] \in Int
        BY <2>5, <2>7, Sessions DEF Response
      <3>2. Past(address'[t][d], response'[t][d])
        <4>1. CASE t = s /\ d = c BY <1>4, <2>4, <2>5, <2>7, <4>1
        <4>2. CASE ~(t = s /\ d = c)
          <5>1. address[t][d] \in Service => Past(address[t][d], response[t][d])
            BY DEF Coroutines
          <5> QED BY <2>4, <2>5, <2>7, <4>2, <5>1
        <4> QED BY <4>1, <4>2
      <3> QED BY <1>1, <3>1, <3>2, PastStays
    <2> QED BY <2>1, <2>2, <2>3, <2>4, <2>5, <2>6, <2>7 DEF Coroutines
  <1>8. Loops' BY <1>5, <1>6 DEF Loops, RecvRequest, quitVars
  <1>9. Lookups' BY <1>1, SameLookups DEF RecvRequest
  <1>10. Timers' /\ Roots' BY <1>1, SameTimers, SameRoots DEF RecvRequest
  <1> QED BY <1>1, <1>2, <1>7, <1>8, <1>9, <1>10 DEF RecvRequest, Lost

LEMMA RecvAnswerKeeps ==
  ASSUME Inv, NEW s \in Service, RecvAnswer(s) PROVE Inv'
  <1> USE DEF Inv
  <1>1. Statuses' /\ Aged BY Still DEF RecvAnswer
  <1>2. Inboxes' /\ Head(inbox[s]) \in Mail(s)
    BY <1>1, TakeKeeps DEF RecvAnswer, Receives
  <1> DEFINE k == Head(inbox[s]).session
  <1>3. k \in Session
    BY <1>2 DEF RecvAnswer, Mail, ReplyTo, Reply, Question
  <1>4. /\ running_thread' = [running_thread EXCEPT ![s] = lookup[s][k]]
        /\ lookup' = At(lookup, s, k, none)
    BY DEF RecvAnswer
  <1> HIDE DEF k
  <1>5. lookup \in [Service -> [Session -> Co \cup {none}]] BY DEF Lookups
  <1>6. Loops'
    <2>1. lookup[s][k] \in Co \cup {none} BY <1>3, <1>5
    <2>2. UNCHANGED <<waiting, wakeup_queue, quit, todo>> BY DEF RecvAnswer, quitVars
    <2> QED BY <1>4, <2>1, <2>2 DEF Loops
  <1>7. Lookups'
    <2>1. /\ lookup' \in [Service -> [Session -> Co \cup {none}]]
          /\ \A t \in Service, j \in Session :
               lookup'[t][j] = IF t = s /\ j = k THEN none ELSE lookup[t][j]
      BY <1>3, <1>4, <1>5 DEF At
    <2> QED BY <1>1, <2>1, PastStays, Sessions DEF Lookups
  <1>8. Coroutines' /\ Timers' /\ Roots'
    BY <1>1, SameCoroutines, SameTimers, SameRoots DEF RecvAnswer
  <1> QED BY <1>1, <1>2, <1>6, <1>7, <1>8 DEF RecvAnswer, Lost

LEMMA WakeupNextKeeps ==
  ASSUME Inv, NEW s \in Service, WakeupNext(s) PROVE Inv'
  <1> USE DEF Inv
  <1>1. Statuses' /\ Aged BY Still DEF WakeupNext
  <1>2. Head(wakeup_queue[s]) \in Co /\ Tail(wakeup_queue[s]) \in Seq(Co)
    BY HeadTailProperties DEF WakeupNext, Loops
  <1>3. Loops' BY <1>2 DEF Loops, WakeupNext
  <1>4. Lookups' /\ Inboxes' BY <1>1, SameLookups, SameInboxes DEF WakeupNext
  <1>5. Coroutines' /\ Timers' /\ Roots'
    BY <1>1, SameCoroutines, SameTimers, SameRoots DEF WakeupNext
  <1> QED BY <1>1, <1>3, <1>4, <1>5 DEF WakeupNext, Lost

\* What a dead service had not handed over are calls (service.lua:221-235).
LEMMA HoldsIsLost ==
  ASSUME Statuses, Coroutines, NEW s \in Service
  PROVE  Holds(s) \subseteq (Service \cup {Root}) \X Response
  <1>1. ASSUME NEW c \in Co, kind[s][c] = "blocked"
        PROVE  <<held[s][c].to, held[s][c].session>> \in (Service \cup {Root}) \X Response
    <2>1. held[s][c] \in Reply BY <1>1 DEF Coroutines
    <2>2. held[s][c].to \in Service /\ held[s][c].session \in Session
      BY <2>1, MessageFields DEF Reply
    <2> QED BY <2>2 DEF Response
  <1> QED BY <1>1 DEF Holds

LEMMA ExitKeeps ==
  ASSUME Inv, NEW s \in Service, Exit(s) PROVE Inv'
  <1> USE DEF Inv
  <1>1. /\ Statuses' /\ Loops' /\ Lookups' /\ Coroutines' /\ Inboxes' /\ Timers' /\ Roots'
    BY DieKeeps DEF Exit
  <1>2. Lost' BY HoldsIsLost DEF Exit, Lose, Lost
  <1> QED BY <1>1, <1>2

LEMMA QuitRaiseKeeps ==
  ASSUME Inv, NEW s \in Service, NEW c \in Co, QuitRaise(s, c) PROVE Inv'
  <1> USE DEF Inv
  <1>1. Statuses' /\ Aged BY Still DEF QuitRaise
  <1>2. UNCHANGED <<status, session_id>> BY DEF QuitRaise
  <1>3. AnswerTo(address[s][c], response[s][c]) \in Reply BY OpenIsReply DEF QuitRaise
  <1>4. Coroutines' /\ Inboxes' /\ wakeup_queue' \in [Service -> Seq(Co)]
    BY <1>2, <1>3, PostKeeps DEF QuitRaise
  <1>5. Loops' BY <1>4 DEF Loops, QuitRaise
  <1>6. Lookups' /\ Timers' /\ Roots'
    BY <1>1, SameLookups, SameTimers, SameRoots DEF QuitRaise
  <1> QED BY <1>1, <1>4, <1>5, <1>6 DEF QuitRaise, Lost

LEMMA QuitDoneKeeps ==
  ASSUME Inv, NEW s \in Service, QuitDone(s) PROVE Inv'
  <1> USE DEF Inv
  <1>1. Statuses' /\ Aged BY Still DEF QuitDone
  <1>2. running_thread[s] \in Co BY Running DEF QuitDone, Quits
  <1>3. Coroutines' BY <1>1, <1>2, FinishKeeps DEF QuitDone
  <1>4. Loops' BY DEF Loops, QuitDone
  <1>5. Lookups' /\ Inboxes' BY <1>1, SameLookups, SameInboxes DEF QuitDone
  <1>6. Timers' /\ Roots' BY <1>1, SameTimers, SameRoots DEF QuitDone
  <1> QED BY <1>1, <1>3, <1>4, <1>5, <1>6 DEF QuitDone, Lost

LEMMA HandOverKeeps ==
  ASSUME Inv, NEW s \in Service, HandOver(s) PROVE Inv'
  <1> USE DEF Inv
  <1>1. Statuses' /\ Aged BY Still DEF HandOver
  <1>2. running_thread[s] \in Co /\ kind[s][running_thread[s]] = "blocked"
    BY Running DEF HandOver
  <1>3. Coroutines' BY <1>1, <1>2, FinishKeeps DEF HandOver
  <1>4. Loops' BY DEF Loops, HandOver, quitVars
  <1>5. Lookups' /\ Inboxes' BY <1>1, SameLookups, SameInboxes DEF HandOver
  <1>6. Timers' BY <1>1, SameTimers DEF HandOver
  <1>7. Roots'
    <2>1. held[s][running_thread[s]] \in Reply' BY <1>1, <1>2, SetsGrow DEF Coroutines
    <2>2. rootbox \in Seq(Reply') BY <1>1, SetsGrow, SeqMonotonic DEF Roots
    <2>3. rootbox' \in Seq(Reply') BY <2>1, <2>2, AppendProperties DEF HandOver
    <2>4. ASSUME NEW t \in Service PROVE retry[t] \in Seq(ReplyTo(t)')
      BY <1>1, SetsGrow, SeqMonotonic DEF Roots
    <2>5. raises \subseteq Reply' /\ forked \subseteq Reply' BY <1>1, SetsGrow DEF Roots
    <2> QED BY <2>3, <2>4, <2>5 DEF Roots, Place, HandOver
  <1> QED BY <1>1, <1>3, <1>4, <1>5, <1>6, <1>7 DEF HandOver, Lost

LEMMA HandOverBlockedKeeps ==
  ASSUME Inv, NEW s \in Service, HandOverBlocked(s) PROVE Inv'
  <1> USE DEF Inv
  <1>1. running_thread[s] \in Co BY Running DEF HandOverBlocked
  <1>2. /\ Statuses' /\ Aged /\ Lookups'
        /\ running_thread' \in [Service -> Co \cup {none}]
        /\ session_id[s] \in Session /\ session_id[s] \in PastOf(s)'
    BY <1>1, SuspendKeeps DEF HandOverBlocked
  <1>3. Loops' BY <1>2 DEF Loops, HandOverBlocked, quitVars
  <1>4. Timers' BY <1>2, AddTimerKeeps DEF HandOverBlocked
  <1>5. Coroutines' /\ Inboxes' /\ Roots'
    BY <1>2, SameCoroutines, SameInboxes, SameRoots DEF HandOverBlocked
  <1> QED BY <1>2, <1>3, <1>4, <1>5 DEF HandOverBlocked, Lost

----------------------------------------------------------------------------
(* What handlers do *)

LEMMA CallKeeps ==
  ASSUME Inv, NEW s \in Service, NEW t \in Service, Call(s, t) PROVE Inv'
  <1> USE DEF Inv
  <1> DEFINE m == [typ |-> "request", from |-> s, to |-> t, session |-> session_id[s]]
  <1>1. running_thread[s] \in Co BY Running DEF Call, Handles
  <1>2. /\ Statuses' /\ Aged /\ Lookups'
        /\ running_thread' \in [Service -> Co \cup {none}]
        /\ session_id[s] \in Session /\ session_id[s] \in PastOf(s)'
    BY <1>1, SuspendKeeps DEF Call
  <1>3. m \in Message /\ m.to = t BY <1>2 DEF Message
  <1>4. m \in Mail(t)' BY <1>2, Constants, MessageFields DEF Mail, Question, PastOf, Message
  <1>5. Inboxes' BY <1>2, <1>3, <1>4, DeliverKeeps DEF Call
  <1>6. Loops' BY <1>2 DEF Loops, Call, quitVars
  <1>7. Coroutines' /\ Timers' /\ Roots'
    BY <1>2, SameCoroutines, SameTimers, SameRoots DEF Call
  <1>8. Lost' BY <1>2 DEF Call, Lose, Lost, Response
  <1> QED BY <1>2, <1>5, <1>6, <1>7, <1>8

LEMMA SendKeeps ==
  ASSUME Inv, NEW s \in Service, NEW t \in Service, Send(s, t) PROVE Inv'
  <1> USE DEF Inv
  <1> DEFINE m == [typ |-> "request", from |-> s, to |-> t, session |-> SESSION_SEND_MESSAGE]
  <1>1. Statuses' /\ Aged BY Still DEF Send, loopVars
  <1>2. m \in Message /\ m.to = t BY DEF Message
  <1>3. Past(s, SESSION_SEND_MESSAGE)' BY <1>1, Sessions DEF Past, Statuses
  <1>4. m \in Mail(t)' BY <1>2, <1>3, Constants DEF Mail, Question
  <1>5. Inboxes' BY <1>1, <1>2, <1>4, DeliverKeeps DEF Send
  <1>6. Loops' BY DEF Loops, Send, loopVars, quitVars
  <1>7. Lookups' /\ Coroutines' BY <1>1, SameLookups, SameCoroutines DEF Send, loopVars
  <1>8. Timers' /\ Roots' BY <1>1, SameTimers, SameRoots DEF Send
  <1> QED BY <1>1, <1>5, <1>6, <1>7, <1>8 DEF Send, Lost

LEMMA SleepKeeps ==
  ASSUME Inv, NEW s \in Service, Sleep(s) PROVE Inv'
  <1> USE DEF Inv
  <1>1. running_thread[s] \in Co BY Running DEF Sleep, Handles
  <1>2. /\ Statuses' /\ Aged /\ Lookups'
        /\ running_thread' \in [Service -> Co \cup {none}]
        /\ session_id[s] \in Session /\ session_id[s] \in PastOf(s)'
    BY <1>1, SuspendKeeps DEF Sleep
  <1>3. Loops' BY <1>2 DEF Loops, Sleep, quitVars
  <1>4. Timers' BY <1>2, AddTimerKeeps DEF Sleep
  <1>5. Coroutines' /\ Inboxes' /\ Roots'
    BY <1>2, SameCoroutines, SameInboxes, SameRoots DEF Sleep
  <1> QED BY <1>2, <1>3, <1>4, <1>5 DEF Sleep, Lost

LEMMA WaitKeeps ==
  ASSUME Inv, NEW s \in Service, Wait(s) PROVE Inv'
  <1> USE DEF Inv
  <1>1. Statuses' /\ Aged
    BY Constants DEF Statuses, Aged, Alive, Wait
  <1>2. running_thread[s] \in Co BY Running DEF Wait, Handles
  <1>3. Loops' BY <1>2 DEF Loops, Wait, quitVars
  <1>4. Lookups' /\ Coroutines' BY <1>1, SameLookups, SameCoroutines DEF Wait
  <1>5. Inboxes' /\ Timers' /\ Roots'
    BY <1>1, SameInboxes, SameTimers, SameRoots DEF Wait
  <1> QED BY <1>1, <1>3, <1>4, <1>5 DEF Wait, Lost

LEMMA WakeupKeepsInv ==
  ASSUME Inv, NEW s \in Service, NEW d \in Co, Wakeup(s, d) PROVE Inv'
  <1> USE DEF Inv
  <1>1. Statuses' /\ Aged BY Still DEF Wakeup
  <1>2. Loops' BY DEF Loops, Wakeup, quitVars
  <1>3. Lookups' /\ Coroutines' BY <1>1, SameLookups, SameCoroutines DEF Wakeup
  <1>4. Inboxes' /\ Timers' /\ Roots'
    BY <1>1, SameInboxes, SameTimers, SameRoots DEF Wakeup
  <1> QED BY <1>1, <1>2, <1>3, <1>4 DEF Wakeup, Lost

LEMMA ForkKeeps ==
  ASSUME Inv, NEW s \in Service, NEW k \in {"fork", "quit"}, Fork(s, k) PROVE Inv'
  <1> USE DEF Inv
  <1>1. Statuses' /\ Aged BY Still DEF Fork
  <1>2. PICK d \in NewThread(s) :
          /\ kind' = At(kind, s, d, k)
          /\ wakeup_queue' = [wakeup_queue EXCEPT ![s] = Append(@, d)]
    BY DEF Fork
  <1>3. d \in Co BY Threads
  <1>4. Loops' BY <1>2, <1>3 DEF Loops, Fork, quitVars
  <1>5. Coroutines'
    <2>1. kind \in [Service -> [Co -> Kind]] /\ k \in Kind BY DEF Coroutines, Kind
    <2>2. /\ kind' \in [Service -> [Co -> Kind]]
          /\ \A t \in Service, x \in Co :
               kind'[t][x] = IF t = s /\ x = d THEN k ELSE kind[t][x]
      BY <1>2, <1>3, <2>1 DEF At
    <2>3. UNCHANGED <<address, response, held>> BY DEF Fork
    <2>4. ASSUME NEW t \in Service, NEW x \in Co
          PROVE  /\ kind'[t][x] = "session" => address[t][x] # none
                 /\ kind'[t][x] = "blocked" => held[t][x] \in Reply'
                 /\ address[t][x] = Root => response[t][x] \in {SESSION_SEND_MESSAGE, nil}
      <3>1. /\ kind[t][x] = "session" => address[t][x] # none
            /\ kind[t][x] = "blocked" => held[t][x] \in Reply
            /\ address[t][x] = Root => response[t][x] \in {SESSION_SEND_MESSAGE, nil}
        BY DEF Coroutines
      <3> QED BY <1>1, <2>2, <3>1, SetsGrow
    <2>5. ASSUME NEW t \in Service, NEW x \in Co, address[t][x] \in Service
          PROVE  Past(address[t][x], response[t][x])'
      <3>1. response[t][x] \in Int BY Sessions DEF Response, Coroutines
      <3>2. Past(address[t][x], response[t][x]) BY <2>5 DEF Coroutines
      <3> QED BY <1>1, <2>3, <2>5, <3>1, <3>2, PastStays
    <2> QED BY <2>2, <2>3, <2>4, <2>5 DEF Coroutines
  <1>6. Lookups' /\ Inboxes' BY <1>1, SameLookups, SameInboxes DEF Fork
  <1>7. Timers' /\ Roots' BY <1>1, SameTimers, SameRoots DEF Fork
  <1> QED BY <1>1, <1>4, <1>5, <1>6, <1>7 DEF Fork, Lost

LEMMA NoResponseKeeps ==
  ASSUME Inv, NEW s \in Service, NoResponse(s) PROVE Inv'
  <1> USE DEF Inv
  <1> DEFINE c == running_thread[s]
  <1>1. Statuses' /\ Aged BY Still DEF NoResponse, loopVars
  <1>2. c \in Co /\ kind[s][c] = "session" BY Running DEF NoResponse
  <1>3. UNCHANGED <<kind, address, held>> /\ response' = At(response, s, c, nil)
    BY DEF NoResponse
  <1>4. Coroutines'
    <2> HIDE DEF c
    <2>1. response \in [Service -> [Co -> Response]] /\ nil \in Response
      BY DEF Coroutines, Response
    <2>2. /\ response' \in [Service -> [Co -> Response]]
          /\ \A t \in Service, x \in Co :
               response'[t][x] = IF t = s /\ x = c THEN nil ELSE response[t][x]
      BY <1>2, <1>3, <2>1 DEF At
    <2>3. ASSUME NEW t \in Service, NEW x \in Co
          PROVE  /\ kind[t][x] = "session" => address[t][x] # none
                 /\ kind[t][x] = "blocked" => held[t][x] \in Reply'
                 /\ address[t][x] = Root => response'[t][x] \in {SESSION_SEND_MESSAGE, nil}
      <3>1. /\ kind[t][x] = "session" => address[t][x] # none
            /\ kind[t][x] = "blocked" => held[t][x] \in Reply
            /\ address[t][x] = Root => response[t][x] \in {SESSION_SEND_MESSAGE, nil}
        BY DEF Coroutines
      <3> QED BY <1>1, <2>2, <3>1, SetsGrow
    <2>4. ASSUME NEW t \in Service, NEW x \in Co, address[t][x] \in Service
          PROVE  Past(address[t][x], response[t][x])'
      <3>1. response'[t][x] \in Int BY <2>2, Sessions DEF Response
      <3>2. Past(address[t][x], response'[t][x])
        <4>1. Past(address[t][x], response[t][x]) BY <2>4 DEF Coroutines
        <4>2. Past(address[t][x], nil) BY <2>4, Sessions DEF Past, Statuses
        <4> QED BY <2>2, <4>1, <4>2
      <3> QED BY <1>1, <1>3, <2>4, <3>1, <3>2, PastStays
    <2> QED BY <1>3, <2>2, <2>3, <2>4 DEF Coroutines
  <1>5. Lost'
    <2>1. address[s][c] \in Service \cup {Root} /\ response[s][c] \in Response
      BY <1>2 DEF Coroutines
    <2> QED BY <2>1 DEF NoResponse, Lose, Lost
  <1>6. Loops' BY DEF Loops, NoResponse, loopVars, quitVars
  <1>7. Lookups' /\ Inboxes' BY <1>1, SameLookups, SameInboxes DEF NoResponse, loopVars
  <1>8. Timers' /\ Roots' BY <1>1, SameTimers, SameRoots DEF NoResponse
  <1> QED BY <1>1, <1>4, <1>5, <1>6, <1>7, <1>8

LEMMA RespondKeeps ==
  ASSUME Inv, NEW s \in Service, Respond(s) PROVE Inv'
  <1> USE DEF Inv
  <1> DEFINE c == running_thread[s]
  <1>1. UNCHANGED <<status, session_id>> BY DEF Respond
  <1>2. Statuses' /\ Aged BY <1>1, Still
  <1>3. c \in Open(s) /\ response[s][c] # nil
        /\ PostResponse(s, c, AnswerTo(address[s][c], response[s][c]), TRUE)
    BY DEF Respond, Answer
  <1>4. c \in Co /\ AnswerTo(address[s][c], response[s][c]) \in Reply
    BY <1>3, OpenIsReply
  <1>5. Coroutines' /\ Inboxes' /\ wakeup_queue' \in [Service -> Seq(Co)]
    BY <1>1, <1>3, <1>4, PostKeeps
  <1>6. Loops' BY <1>5 DEF Loops, Respond, quitVars
  <1>7. Lookups' /\ Timers' /\ Roots'
    BY <1>2, SameLookups, SameTimers, SameRoots DEF Respond
  <1> QED BY <1>2, <1>5, <1>6, <1>7 DEF Respond, Lost

LEMMA EndKeeps ==
  ASSUME Inv, NEW s \in Service, End(s) PROVE Inv'
  <1> USE DEF Inv
  <1>1. Statuses' /\ Aged BY Still DEF End
  <1>2. running_thread[s] \in Co BY Running DEF End, Handles
  <1>3. Coroutines' BY <1>1, <1>2, FinishKeeps DEF End
  <1>4. Loops' BY DEF Loops, End, quitVars
  <1>5. Lookups' /\ Inboxes' BY <1>1, SameLookups, SameInboxes DEF End
  <1>6. Timers' /\ Roots' BY <1>1, SameTimers, SameRoots DEF End
  <1> QED BY <1>1, <1>3, <1>4, <1>5, <1>6 DEF End, Lost

LEMMA CrashKeeps ==
  ASSUME Inv, NEW s \in Service, Crash(s) PROVE Inv'
  <1> USE DEF Inv
  <1>1. /\ Statuses' /\ Loops' /\ Lookups' /\ Coroutines' /\ Inboxes' /\ Timers' /\ Roots'
    BY DieKeeps DEF Crash
  <1>2. {<<address[s][c], response[s][c]>> : c \in Open(s)}
          \subseteq (Service \cup {Root}) \X Response
    BY DEF Open, Coroutines
  <1>3. Lost' BY <1>2, HoldsIsLost DEF Crash, Lose, Lost
  <1> QED BY <1>1, <1>3

----------------------------------------------------------------------------
(* The timer service *)

\* The answer the timer sends is mail of the sleeper.
LEMMA TimerAnswer ==
  ASSUME Statuses, Statuses', Aged, NEW s \in Service, NEW k \in PastOf(s)
  PROVE  /\ AnswerTo(s, k) \in Message /\ AnswerTo(s, k).to = s
         /\ AnswerTo(s, k) \in Mail(s)'
  BY AnswerIsReply, SetsGrow DEF Mail, ReplyTo, Reply

LEMMA SendTimerKeeps ==
  ASSUME Inv, NEW s \in Service, NEW k \in Session, SendTimer(s, k) PROVE Inv'
  <1> USE DEF Inv
  <1>1. Statuses' /\ Aged BY Still DEF SendTimer, loopVars
  <1>2. k \in PastOf(s) BY DEF SendTimer, Timers
  <1>3. Inboxes'
    <2>1. CASE UNCHANGED inbox BY <1>1, <2>1, SameInboxes
    <2>2. CASE \E r \in Receipt(s) : Deliver(AnswerTo(s, k), r)
      BY <1>1, <1>2, <2>2, TimerAnswer, DeliverKeeps
    <2> QED BY <2>1, <2>2 DEF SendTimer
  <1>4. \A t \in Service : /\ timer[t] \subseteq PastOf(t)'
                           /\ blocked[t] \in Seq(PastOf(t)')
                           /\ PastOf(t) \subseteq PastOf(t)'
    BY <1>1, SetsGrow, SeqMonotonic DEF Timers
  <1>5. Timers'
    <2>1. turn' = turn /\ turn = NoPlace BY DEF SendTimer
    <2>2. timer' \in [Service -> SUBSET Session]
          /\ \A t \in Service : timer'[t] \subseteq PastOf(t)'
      BY <1>4 DEF SendTimer, Timers
    <2>3. \/ blocked' = [blocked EXCEPT ![s] = Append(@, k)]
          \/ blocked' = [blocked EXCEPT ![s] = <<k>>]
          \/ blocked' = blocked
      BY DEF SendTimer
    <2>4. Append(blocked[s], k) \in Seq(PastOf(s)') /\ <<k>> \in Seq(PastOf(s)')
      <3>1. k \in PastOf(s)' BY <1>2, <1>4
      <3> QED BY <1>4, <3>1
    <2>5. /\ blocked' = [x \in Service |-> blocked'[x]]
          /\ \A t \in Service : blocked'[t] \in Seq(PastOf(t)')
      BY <1>4, <2>3, <2>4 DEF Timers
    <2> QED BY <2>1, <2>2, <2>5 DEF Timers, Place
  <1>6. Loops' BY DEF Loops, SendTimer, loopVars, quitVars
  <1>7. Lookups' /\ Coroutines' BY <1>1, SameLookups, SameCoroutines DEF SendTimer, loopVars
  <1>8. Roots' BY <1>1, SameRoots DEF SendTimer
  <1> QED BY <1>1, <1>3, <1>5, <1>6, <1>7, <1>8 DEF SendTimer, Lost

\* The place in a queue that is being sent is one of the queue's.
LEMMA PlaceInQueue ==
  ASSUME NEW p, NEW queue, Place(p, queue), NEW s \in Service, p.to \in {none, s},
         NEW S, queue[s] \in Seq(S), queue[s] # <<>>
  PROVE  (IF p = NoPlace THEN 1 ELSE p.i) \in 1 .. Len(queue[s])
  <1>1. CASE p = NoPlace BY <1>1
  <1>2. CASE p # NoPlace BY <1>2, Constants DEF Place
  <1> QED BY <1>1, <1>2

LEMMA SendBlockedKeeps ==
  ASSUME Inv, NEW s \in Service, SendBlocked(s) PROVE Inv'
  <1> USE DEF Inv
  <1> DEFINE q == blocked[s]
             i == IF turn = NoPlace THEN 1 ELSE turn.i
  <1>1. Statuses' /\ Aged BY Still DEF SendBlocked, loopVars
  <1>2. q \in Seq(PastOf(s)) BY DEF Timers
  <1>3. i \in 1 .. Len(q) BY <1>2, PlaceInQueue DEF SendBlocked, Timers
  <1>4. q[i] \in PastOf(s) BY <1>2, <1>3
  <1>5. PICK r \in Receipt(s) :
          /\ Deliver(AnswerTo(s, q[i]), r)
          /\ blocked' = [blocked EXCEPT ![s] =
               IF r = "block" THEN Moved(q, i) ELSE IF i = Len(q) THEN <<>> ELSE q]
          /\ turn' = IF r # "block" /\ i < Len(q) THEN [to |-> s, i |-> i + 1] ELSE NoPlace
    BY DEF SendBlocked
  <1>6. Inboxes' BY <1>1, <1>4, <1>5, TimerAnswer, DeliverKeeps
  <1>7. \A t \in Service : timer[t] \subseteq PastOf(t)' /\ blocked[t] \in Seq(PastOf(t)')
    BY <1>1, SetsGrow, SeqMonotonic DEF Timers
  <1>8. Moved(q, i) \in Seq(PastOf(s)') BY <1>3, <1>7, MovedIsSeq
  <1> HIDE DEF q, i
  <1>9. Timers'
    <2>1. timer' = timer BY DEF SendBlocked
    <2>a. blocked = [x \in Service |-> blocked[x]] BY DEF Timers
    <2>b. \E new \in Seq(PastOf(s)') : blocked' = [blocked EXCEPT ![s] = new]
      <3>1. <<>> \in Seq(PastOf(s)') /\ q \in Seq(PastOf(s)') BY <1>7 DEF q
      <3> QED BY <1>5, <1>8, <3>1
    <2>2. /\ blocked' = [x \in Service |-> blocked'[x]]
          /\ \A t \in Service : blocked'[t] \in Seq(PastOf(t)')
      BY <1>7, <2>a, <2>b
    <2>3. Place(turn, blocked)'
      <3>1. CASE r # "block" /\ i < Len(q)
        <4>1. turn' = [to |-> s, i |-> i + 1] /\ blocked'[s] = q
          BY <1>5, <3>1 DEF Timers, q
        <4>2. i + 1 \in 1 .. Len(q) BY <1>2, <1>3, <3>1
        <4> QED BY <4>1, <4>2 DEF Place
      <3>2. CASE ~(r # "block" /\ i < Len(q))
        BY <1>5, <3>2 DEF Place, NoPlace
      <3> QED BY <3>1, <3>2
    <2> QED BY <1>7, <2>1, <2>2, <2>3 DEF Timers
  <1>10. Loops' BY DEF Loops, SendBlocked, loopVars, quitVars
  <1>11. Lookups' /\ Coroutines' BY <1>1, SameLookups, SameCoroutines DEF SendBlocked, loopVars
  <1>12. Roots' BY <1>1, SameRoots DEF SendBlocked
  <1> QED BY <1>1, <1>6, <1>9, <1>10, <1>11, <1>12 DEF SendBlocked, Lost

----------------------------------------------------------------------------
(* root *)

\* What root holds stays what it may hold.
LEMMA RootsGrow ==
  ASSUME Statuses, Statuses', Aged, Roots
  PROVE  /\ rootbox \in Seq(Reply') /\ raises \subseteq Reply' /\ forked \subseteq Reply'
         /\ \A t \in Service : retry[t] \in Seq(ReplyTo(t)')
  BY SetsGrow, SeqMonotonic DEF Roots

LEMMA SendRetryKeeps ==
  ASSUME Inv, SendRetry PROVE Inv'
  <1> USE DEF Inv
  <1>1. Statuses' /\ Aged BY Still DEF SendRetry, loopVars
  <1>2. rootbox \in Seq(Reply') /\ rootbox # <<>> /\ rootbox \in Seq(Reply)
    BY <1>1, RootsGrow DEF SendRetry, Roots
  <1>a. Head(rootbox) \in Reply /\ Tail(rootbox) \in Seq(Reply')
    BY <1>2, HeadTailProperties
  <1>b. PICK m \in Reply : m = Head(rootbox) BY <1>a
  <1>3. m \in Reply' /\ Tail(rootbox) \in Seq(Reply') BY <1>1, <1>a, SetsGrow
  <1>4. m.to \in Service BY MessageFields DEF Reply
  <1>5. /\ retry' = [retry EXCEPT ![m.to] = Append(@, m)]
        /\ rootbox' = Tail(rootbox) /\ at' = at /\ at = NoPlace
        /\ UNCHANGED <<raises, forked>>
    BY <1>b DEF SendRetry
  <1>6. Roots'
    <2>1. m \in ReplyTo(m.to)' BY <1>3 DEF ReplyTo
    <2>2. \A t \in Service : retry[t] \in Seq(ReplyTo(t)') BY <1>1, RootsGrow
    <2>3. Append(retry[m.to], m) \in Seq(ReplyTo(m.to)')
      BY <1>4, <2>1, <2>2, AppendProperties
    <2>4. /\ retry' = [x \in Service |-> retry'[x]]
          /\ \A t \in Service : retry'[t] \in Seq(ReplyTo(t)')
      BY <1>4, <1>5, <2>2, <2>3 DEF Roots
    <2>5. Place(at, retry)' BY <1>5 DEF Roots, Place
    <2> QED BY <1>1, <1>3, <1>5, <2>4, <2>5, RootsGrow DEF Roots
  <1>7. Loops' BY DEF Loops, SendRetry, loopVars, quitVars
  <1>8. Lookups' /\ Coroutines' BY <1>1, SameLookups, SameCoroutines DEF SendRetry, loopVars
  <1>9. Inboxes' /\ Timers' BY <1>1, SameInboxes, SameTimers DEF SendRetry
  <1> QED BY <1>1, <1>6, <1>7, <1>8, <1>9 DEF SendRetry, Lost

LEMMA SendRetryQueueKeeps ==
  ASSUME Inv, NEW t \in Service, SendRetryQueue(t) PROVE Inv'
  <1> USE DEF Inv
  <1> DEFINE q == retry[t]
             i == IF at = NoPlace THEN 1 ELSE at.i
  <1>1. Statuses' /\ Aged BY Still DEF SendRetryQueue, loopVars
  <1>2. q \in Seq(ReplyTo(t)) BY DEF Roots
  <1>3. i \in 1 .. Len(q) BY <1>2, PlaceInQueue DEF SendRetryQueue, Roots
  <1>4. q[i] \in Message /\ q[i].to = t /\ q[i] \in Mail(t)'
    <2>1. q[i] \in ReplyTo(t) BY <1>2, <1>3
    <2> QED BY <1>1, <2>1, SetsGrow DEF ReplyTo, Reply, Mail
  <1>5. PICK r \in Receipt(t) :
          /\ Deliver(q[i], r)
          /\ retry' = [retry EXCEPT ![t] =
               IF r = "block" THEN Unsent(q, i)
               ELSE IF r = "error" \/ i = Len(q) THEN <<>> ELSE q]
          /\ at' = IF r = "done" /\ i < Len(q) THEN [to |-> t, i |-> i + 1] ELSE NoPlace
    BY DEF SendRetryQueue
  <1>6. Inboxes' BY <1>1, <1>4, <1>5, DeliverKeeps
  <1>7. \A u \in Service : retry[u] \in Seq(ReplyTo(u)') BY <1>1, RootsGrow
  <1>8. Unsent(q, i) \in Seq(ReplyTo(t)') BY <1>3, <1>7, MovedIsSeq DEF Unsent
  <1> HIDE DEF q, i
  <1>9. Roots'
    <2>1. /\ retry' = [x \in Service |-> retry'[x]]
          /\ \A u \in Service : retry'[u] \in Seq(ReplyTo(u)')
      BY <1>5, <1>7, <1>8 DEF Roots, q
    <2>2. Place(at, retry)'
      <3>1. CASE r = "done" /\ i < Len(q)
        <4>1. at' = [to |-> t, i |-> i + 1] /\ retry'[t] = q
          BY <1>2, <1>3, <1>5, <3>1 DEF Roots, q
        <4>2. i + 1 \in 1 .. Len(q) BY <1>2, <1>3, <3>1
        <4> QED BY <4>1, <4>2 DEF Place
      <3>2. CASE ~(r = "done" /\ i < Len(q))
        BY <1>5, <3>2 DEF Place, NoPlace
      <3> QED BY <3>1, <3>2
    <2>3. UNCHANGED <<rootbox, raises, forked>> BY DEF SendRetryQueue
    <2> QED BY <1>1, <2>1, <2>2, <2>3, RootsGrow DEF Roots
  <1>10. Loops' BY DEF Loops, SendRetryQueue, loopVars, quitVars
  <1>11. Lookups' /\ Coroutines'
    BY <1>1, SameLookups, SameCoroutines DEF SendRetryQueue, loopVars
  <1>12. Timers' BY <1>1, SameTimers DEF SendRetryQueue
  <1> QED BY <1>1, <1>6, <1>9, <1>10, <1>11, <1>12 DEF SendRetryQueue, Lost

LEMMA CloseServiceKeeps ==
  ASSUME Inv, NEW t \in Service, CloseService(t) PROVE Inv'
  <1> USE DEF Inv
  <1>1. UNCHANGED session_id /\ status' = [status EXCEPT ![t] = "closed"]
    BY DEF CloseService, loopVars
  <1>2. Statuses' /\ Aged BY <1>1 DEF Statuses, Aged, Alive
  <1>3. \A u \in Service : inbox[u] \in Seq(Mail(u)')
    BY <1>2, SetsGrow, SeqMonotonic DEF Inboxes
  <1>4. Inboxes' BY <1>3 DEF Inboxes, CloseService
  <1>5. ASSUME NEW i \in DOMAIN inbox[t], inbox[t][i].typ = "request",
               inbox[t][i].session # SESSION_SEND_MESSAGE
        PROVE  AnswerTo(inbox[t][i].from, inbox[t][i].session) \in Reply
    <2> DEFINE m == inbox[t][i]
    <2>1. m \in Mail(t) BY ElementOfSeq DEF Inboxes
    <2>2. m \in Question BY <1>5, <2>1 DEF Mail, ReplyTo, Reply
    <2>3. m \in Message /\ m.from # none /\ m.from # Root /\ Past(m.from, m.session)
      BY <1>5, <2>2 DEF Question
    <2>4. m.from \in Service /\ m.session \in PastOf(m.from)
      BY <1>5, <2>3, MessageFields DEF PastOf
    <2> QED BY <2>4, AnswerIsReply
  <1>6. raises' \subseteq Reply'
    <2>1. raises' \subseteq Reply BY <1>5 DEF CloseService, Roots
    <2> QED BY <1>2, <2>1, SetsGrow
  <1>7. Roots' BY <1>2, <1>6, RootsGrow DEF Roots, CloseService, Place
  <1>8. Loops' BY DEF Loops, CloseService, loopVars, quitVars
  <1>9. Lookups' /\ Coroutines' BY <1>2, SameLookups, SameCoroutines DEF CloseService, loopVars
  <1>10. Timers' BY <1>2, SameTimers DEF CloseService
  <1> QED BY <1>2, <1>4, <1>7, <1>8, <1>9, <1>10 DEF CloseService, Lost

LEMMA RaiseErrorKeeps ==
  ASSUME Inv, NEW m \in raises, RaiseError(m) PROVE Inv'
  <1> USE DEF Inv
  <1>1. Statuses' /\ Aged BY Still DEF RaiseError, loopVars
  <1>2. m \in Reply /\ m \in Reply' /\ m \in Message
    BY <1>1, SetsGrow DEF Roots, Reply
  <1>3. m \in Mail(m.to)' BY <1>2, MessageFields DEF Mail, ReplyTo
  <1>4. Inboxes' BY <1>1, <1>2, <1>3, DeliverKeeps DEF RaiseError
  <1>5. Roots' BY <1>1, <1>2, RootsGrow DEF Roots, RaiseError, Place
  <1>6. Loops' BY DEF Loops, RaiseError, loopVars, quitVars
  <1>7. Lookups' /\ Coroutines' BY <1>1, SameLookups, SameCoroutines DEF RaiseError, loopVars
  <1>8. Timers' BY <1>1, SameTimers DEF RaiseError
  <1> QED BY <1>1, <1>4, <1>5, <1>6, <1>7, <1>8 DEF RaiseError, Lost

LEMMA HandOverToSelfKeeps ==
  ASSUME Inv, NEW m \in forked, HandOverToSelf(m) PROVE Inv'
  <1> USE DEF Inv
  <1>1. Statuses' /\ Aged BY Still DEF HandOverToSelf, loopVars
  <1>2. m \in Reply' BY <1>1, SetsGrow DEF Roots
  <1>3. rootbox' \in Seq(Reply') BY <1>1, <1>2, RootsGrow, AppendProperties DEF HandOverToSelf
  <1>4. Roots' BY <1>1, <1>3, RootsGrow DEF Roots, HandOverToSelf, Place
  <1>5. Loops' BY DEF Loops, HandOverToSelf, loopVars, quitVars
  <1>6. Lookups' /\ Coroutines'
    BY <1>1, SameLookups, SameCoroutines DEF HandOverToSelf, loopVars
  <1>7. Inboxes' /\ Timers' BY <1>1, SameInboxes, SameTimers DEF HandOverToSelf
  <1> QED BY <1>1, <1>4, <1>5, <1>6, <1>7 DEF HandOverToSelf, Lost

----------------------------------------------------------------------------
(* The invariant *)

LEMMA Initially == Init => Inv
  <1> SUFFICES ASSUME Init PROVE Inv OBVIOUS
  <1> USE DEF Init
  <1>1. Statuses BY Constants DEF Statuses
  <1>2. Loops BY DEF Loops
  <1>3. Lookups BY DEF Lookups
  <1>4. Coroutines BY Constants DEF Coroutines, Kind, Response
  <1>5. Inboxes
    <2>1. ASSUME NEW t \in Service
          PROVE  [typ |-> "request", from |-> Root, to |-> t,
                  session |-> SESSION_SEND_MESSAGE] \in Mail(t)
      BY Constants DEF Mail, Question, Message
    <2>2. ASSUME NEW t \in Service PROVE inbox[t] \in Seq(Mail(t)) BY <2>1
    <2> QED BY <2>2 DEF Inboxes
  <1>6. Timers BY DEF Timers, Place, NoPlace
  <1>7. Roots BY DEF Roots, Place, NoPlace
  <1>8. Lost BY DEF Lost
  <1> QED BY <1>1, <1>2, <1>3, <1>4, <1>5, <1>6, <1>7, <1>8 DEF Inv

LEMMA Inductive == Inv /\ [Next]_vars => Inv'
  <1>1. ASSUME Inv, UNCHANGED vars PROVE Inv'
    <2> USE <1>1 DEF Inv
    <2>1. Statuses' /\ Aged BY Still DEF vars, loopVars
    <2>2. Loops' BY DEF Loops, vars, loopVars, quitVars
    <2>3. Lookups' /\ Coroutines' BY <2>1, SameLookups, SameCoroutines DEF vars, loopVars
    <2>4. Inboxes' /\ Timers' /\ Roots'
      BY <2>1, SameInboxes, SameTimers, SameRoots DEF vars
    <2> QED BY <2>1, <2>2, <2>3, <2>4 DEF vars, Lost
  <1>2. ASSUME Inv, NEW s \in Service, Handler(s) PROVE Inv'
    BY <1>2, CallKeeps, SendKeeps, SleepKeeps, WaitKeeps, WakeupKeepsInv, ForkKeeps,
       NoResponseKeeps, RespondKeeps, EndKeeps, CrashKeeps
    DEF Handler
  <1>3. ASSUME Inv, NEW s \in Service, Runtime(s) PROVE Inv'
    BY <1>3, RecvRequestKeeps, RecvAnswerKeeps, WakeupNextKeeps, ExitKeeps,
       QuitRaiseKeeps, QuitDoneKeeps, HandOverKeeps, HandOverBlockedKeeps
    DEF Runtime
  <1>4. ASSUME Inv, RootStep PROVE Inv'
    BY <1>4, SendRetryKeeps, SendRetryQueueKeeps, CloseServiceKeeps, RaiseErrorKeeps,
       HandOverToSelfKeeps
    DEF RootStep
  <1> QED BY <1>1, <1>2, <1>3, <1>4, SendTimerKeeps, SendBlockedKeeps DEF Next

LEMMA Always == Spec => []Inv
  BY Initially, Inductive, PTL DEF Spec

----------------------------------------------------------------------------

LEMMA InvTypes == ASSUME Inv PROVE TypeOK
  <1> USE DEF Inv
  <1>1. Reply \subseteq Message /\ \A t \in Service : Mail(t) \subseteq Message
    BY DEF Reply, Question, Mail, ReplyTo
  <1>2. inbox \in [Service -> Seq(Message)]
    <2>1. ASSUME NEW t \in Service PROVE inbox[t] \in Seq(Message)
      BY <1>1, SeqMonotonic DEF Inboxes
    <2> QED BY <2>1 DEF Inboxes
  <1>3. /\ rootbox \in Seq(Message) /\ retry \in [Service -> Seq(Message)]
        /\ raises \subseteq Message /\ forked \subseteq Message
    <2>1. ASSUME NEW t \in Service PROVE retry[t] \in Seq(Message)
      <3>1. ReplyTo(t) \subseteq Message /\ retry[t] \in Seq(ReplyTo(t))
        BY <1>1 DEF Roots, ReplyTo
      <3> QED BY <3>1, SeqMonotonic
    <2>2. rootbox \in Seq(Message) BY <1>1, SeqMonotonic DEF Roots
    <2> QED BY <1>1, <2>1, <2>2 DEF Roots
  <1>4. blocked \in [Service -> Seq(Session)]
    <2>1. ASSUME NEW t \in Service PROVE blocked[t] \in Seq(Session)
      BY SeqMonotonic DEF Timers, PastOf
    <2> QED BY <2>1 DEF Timers
  <1>5. {at, turn} \subseteq [to : Service \cup {none}, i : Nat]
    BY DEF Timers, Roots, Place
  <1>6. /\ status \in [Service -> {"alive", "dead", "closed"}]
        /\ \A s \in Service : session_id[s] \in 1 .. MaxSession[s] + 1
    BY DEF Statuses
  <1>7. timer \in [Service -> SUBSET Session] BY DEF Timers
  <1> QED BY <1>2, <1>3, <1>4, <1>5, <1>6, <1>7
      DEF TypeOK, Loops, Lookups, Coroutines, Lost

\* The next session is nowhere: each place is one of a past session.
LEMMA InvFresh == ASSUME Inv PROVE FreshSession
  <1> USE DEF Inv
  <1>1. SUFFICES ASSUME NEW s \in Service, Alive(s),
                        NEW k \in Answers(s) \cup Requests(s) \cup Handled(s)
                                    \cup {j \in Session : lookup[s][j] # none}
                 PROVE  k < session_id[s]
    BY DEF FreshSession
  <1>2. CASE k \in Answers(s)
    <2>1. CASE k \in timer[s] BY <1>1, <2>1 DEF Timers, PastOf, Past
    <2>2. CASE k \in {blocked[s][i] : i \in DOMAIN blocked[s]}
      <3>1. PICK i \in DOMAIN blocked[s] : k = blocked[s][i] BY <2>2
      <3>2. blocked[s] \in Seq(PastOf(s)) BY DEF Timers
      <3>3. k \in PastOf(s) BY <3>1, <3>2, ElementOfSeq
      <3> QED BY <1>1, <3>3 DEF PastOf, Past
    <2>3. CASE k \in {m.session : m \in {n \in Underway(s) : n.typ = "answer"}}
      <3>1. PICK m \in Underway(s) : m.typ = "answer" /\ k = m.session BY <2>3
      <3>2. m \in Reply /\ m.to = s
        <4>1. CASE m \in {inbox[s][i] : i \in DOMAIN inbox[s]}
          <5>1. m \in Mail(s) BY <4>1, ElementOfSeq DEF Inboxes
          <5> QED BY <3>1, <5>1 DEF Mail, ReplyTo, Question
        <4>2. CASE m \in {retry[s][i] : i \in DOMAIN retry[s]}
          <5>1. m \in ReplyTo(s) BY <4>2, ElementOfSeq DEF Roots
          <5> QED BY <5>1 DEF ReplyTo
        <4>3. CASE m \in {n \in {rootbox[i] : i \in DOMAIN rootbox} \cup raises \cup forked :
                            n.to = s}
          BY <4>3, ElementOfSeq DEF Roots
        <4>4. CASE m \in UNION {{held[u][c] : c \in {d \in Co :
                              kind[u][d] = "blocked" /\ held[u][d].to = s}}
                                : u \in {v \in Service : Alive(v)}}
          BY <4>4 DEF Coroutines
        <4> QED BY <3>1, <4>1, <4>2, <4>3, <4>4 DEF Underway
      <3> QED BY <1>1, <3>1, <3>2 DEF Reply, Past
    <2> QED BY <1>2, <2>1, <2>2, <2>3 DEF Answers
  <1>3. CASE k \in Requests(s)
    <2>0. PICK t \in Service : \E m \in Underway(t) :
            m.typ = "request" /\ m.from = s /\ k = m.session
      BY <1>3 DEF Requests
    <2>1. PICK m \in Underway(t) : m.typ = "request" /\ m.from = s /\ k = m.session
      BY <2>0
    <2>2. m \in Question
      <3>1. CASE m \in {inbox[t][i] : i \in DOMAIN inbox[t]}
        <4>1. m \in Mail(t) BY <3>1, ElementOfSeq DEF Inboxes
        <4> QED BY <2>1, <4>1 DEF Mail, ReplyTo, Reply
      <3>2. CASE m \in {retry[t][i] : i \in DOMAIN retry[t]}
        <4>1. m \in ReplyTo(t) BY <3>2, ElementOfSeq DEF Roots
        <4> QED BY <2>1, <4>1 DEF ReplyTo, Reply
      <3>3. CASE m \in {n \in {rootbox[i] : i \in DOMAIN rootbox} \cup raises \cup forked :
                          n.to = t}
        BY <2>1, <3>3, ElementOfSeq DEF Roots, Reply
      <3>4. CASE m \in UNION {{held[u][c] : c \in {d \in Co :
                            kind[u][d] = "blocked" /\ held[u][d].to = t}}
                              : u \in {v \in Service : Alive(v)}}
        BY <2>1, <3>4 DEF Coroutines, Reply
      <3> QED BY <2>1, <3>1, <3>2, <3>3, <3>4 DEF Underway
    <2> QED BY <1>1, <2>1, <2>2, Constants DEF Question, Past
  <1>4. CASE k \in Handled(s)
    <2>1. PICK t \in Service, c \in Co : address[t][c] = s /\ k = response[t][c]
      BY <1>4 DEF Handled
    <2> QED BY <1>1, <2>1 DEF Coroutines, Past
  <1>5. CASE k \in {j \in Session : lookup[s][j] # none}
    BY <1>1, <1>5 DEF Lookups, Past
  <1> QED BY <1>1, <1>2, <1>3, <1>4, <1>5

\* The types of all tables of the runtime, the timer and root.
THEOREM TypeCorrect == Spec => []TypeOK
  BY Always, InvTypes, PTL

\* No answer to an earlier request can be taken for one to a later one, for any
\* number of services, coroutines and sessions, any room in the inboxes, and
\* however often root and the timer repeat what they have sent
\* (service.lua:345-348).
THEOREM SessionsAreFresh == Spec => []FreshSession
  BY Always, InvFresh, PTL
=============================================================================
