----------------------------- MODULE WakerProof -----------------------------
(***************************************************************************)
(* Proofs that every coroutine in use has exactly one waker, that the      *)
(* answer a caller waits for is under way, and that each call keeps the    *)
(* promise of module CallPromise, for any number of services, coroutines   *)
(* and sessions.                                                           *)
(*                                                                         *)
(* A coroutine is in one of four places: it runs, it waits for an answer,  *)
(* it waits with its token, or it is in the wakeup queue; a free one is in *)
(* none.  Each step moves at most two coroutines of one service from one   *)
(* place to the next.  That a new session has no coroutine yet, so that    *)
(* none is overwritten in the lookup table, is the invariant of module     *)
(* SessionProof.                                                           *)
(*                                                                         *)
(* A call has one place after the other, an inbox, a handler, the timer,   *)
(* root.  Each step that takes it from one puts it into the next, or adds  *)
(* it to what is lost.                                                     *)
(*                                                                         *)
(* For the promise, a request is in one place at most (Single), and what   *)
(* the loop of a retry queue has passed has reached its caller (Arrived),  *)
(* so that it makes no difference to a call that waits whether the queue   *)
(* keeps, drops or repeats it.                                             *)
(***************************************************************************)
EXTENDS SessionProof, FiniteSetTheorems

Awaits(s, c) == \E k \in Session : lookup[s][k] = c
Queued(s, c) == \E i \in DOMAIN wakeup_queue[s] : wakeup_queue[s][i] = c

\* No coroutine is twice in one table
NoDoubles(s) ==
  /\ \A j, k \in Session : lookup[s][j] = lookup[s][k] /\ lookup[s][j] # none => j = k
  /\ \A i, j \in DOMAIN wakeup_queue[s] : wakeup_queue[s][i] = wakeup_queue[s][j] => i = j

\* Coroutine c is in one place, or free and in none
InOnePlace(s, c) ==
  /\ kind[s][c] = "free" <=>
       running_thread[s] # c /\ ~Awaits(s, c) /\ c \notin waiting[s] /\ ~Queued(s, c)
  /\ running_thread[s] = c => ~Awaits(s, c) /\ c \notin waiting[s] /\ ~Queued(s, c)
  /\ Awaits(s, c) => c \notin waiting[s] /\ ~Queued(s, c)
  /\ c \in waiting[s] => ~Queued(s, c)

Once(s) == NoDoubles(s) /\ \A c \in Co : InOnePlace(s, c)

OnceInv == \A s \in Service : Alive(s) => Once(s)

Unmoved(s) ==
  /\ running_thread'[s] = running_thread[s] /\ lookup'[s] = lookup[s]
  /\ waiting'[s] = waiting[s] /\ wakeup_queue'[s] = wakeup_queue[s]
  /\ kind'[s] = kind[s]

----------------------------------------------------------------------------
(* The moves of a coroutine *)

LEMMA NoMove ==
  ASSUME NEW s \in Service, Once(s), Unmoved(s) PROVE Once(s)'
  BY DEF Once, NoDoubles, InOnePlace, Awaits, Queued, Unmoved

\* It suffices to look at the service that steps.
LEMMA OneMoves ==
  ASSUME OnceInv, NEW s \in Service, \A t \in Service \ {s} : Unmoved(t),
         \A t \in Service : Alive(t)' => Alive(t), Alive(s)' => Once(s)'
  PROVE  OnceInv'
  <1>1. ASSUME NEW t \in Service, t # s, Alive(t)' PROVE Once(t)'
    BY <1>1, NoMove DEF OnceInv
  <1> QED BY <1>1 DEF OnceInv

\* From running to waiting for session k (service.lua:345-356).
LEMMA ToAnswer ==
  ASSUME NEW s \in Service, Inv, Once(s), NEW c \in Co, running_thread[s] = c,
         NEW k \in Session, lookup[s][k] = none,
         running_thread'[s] = none, lookup'[s] = [lookup[s] EXCEPT ![k] = c],
         waiting'[s] = waiting[s], wakeup_queue'[s] = wakeup_queue[s], kind'[s] = kind[s]
  PROVE  Once(s)'
  <1>1. lookup[s] \in [Session -> Co \cup {none}] BY DEF Inv, Lookups
  <1>2. \A j \in Session : lookup'[s][j] = IF j = k THEN c ELSE lookup[s][j] BY <1>1
  <1>3. \A x \in Co : Awaits(s, x)' <=> Awaits(s, x) \/ x = c
    BY <1>2, Constants DEF Awaits
  <1>4. \A x \in Co : Queued(s, x)' <=> Queued(s, x) BY DEF Queued
  <1>5. \A x \in Co : InOnePlace(s, x)'
    BY <1>3, <1>4, Constants DEF Once, InOnePlace
  <1>6. ~Awaits(s, c) BY DEF Once, InOnePlace
  <1>7. NoDoubles(s)' BY <1>2, <1>6 DEF Once, NoDoubles, Awaits
  <1> QED BY <1>5, <1>7 DEF Once

\* From running to its token (service.lua:485-491).
LEMMA ToToken ==
  ASSUME NEW s \in Service, Once(s), NEW c \in Co, running_thread[s] = c,
         running_thread'[s] = none, lookup'[s] = lookup[s],
         waiting'[s] = waiting[s] \cup {c}, wakeup_queue'[s] = wakeup_queue[s],
         kind'[s] = kind[s]
  PROVE  Once(s)'
  <1>1. \A x \in Co : (Awaits(s, x)' <=> Awaits(s, x)) /\ (Queued(s, x)' <=> Queued(s, x))
    BY DEF Awaits, Queued
  <1>2. \A x \in Co : InOnePlace(s, x)' BY <1>1, Constants DEF Once, InOnePlace
  <1> QED BY <1>2 DEF Once, NoDoubles

\* From running to the pool (service.lua:299-326).
LEMMA ToPool ==
  ASSUME NEW s \in Service, Inv, Once(s), NEW c \in Co, running_thread[s] = c,
         running_thread'[s] = none, lookup'[s] = lookup[s], waiting'[s] = waiting[s],
         wakeup_queue'[s] = wakeup_queue[s], kind'[s] = [kind[s] EXCEPT ![c] = "free"]
  PROVE  Once(s)'
  <1>1. \A x \in Co : (Awaits(s, x)' <=> Awaits(s, x)) /\ (Queued(s, x)' <=> Queued(s, x))
    BY DEF Awaits, Queued
  <1>2. kind[s] \in [Co -> Kind] BY DEF Inv, Coroutines
  <1>3. \A x \in Co : kind'[s][x] = IF x = c THEN "free" ELSE kind[s][x] BY <1>2
  <1>4. \A x \in Co : InOnePlace(s, x)' BY <1>1, <1>3, Constants DEF Once, InOnePlace
  <1> QED BY <1>4 DEF Once, NoDoubles

\* The wakeup queue has one more, d, at its end.
LEMMA Appended ==
  ASSUME NEW s \in Service, Inv, NEW d \in Co, NoDoubles(s), ~Queued(s, d),
         wakeup_queue'[s] = Append(wakeup_queue[s], d), lookup'[s] = lookup[s]
  PROVE  /\ NoDoubles(s)'
         /\ \A x \in Co : (Awaits(s, x)' <=> Awaits(s, x))
                          /\ (Queued(s, x)' <=> Queued(s, x) \/ x = d)
  <1> DEFINE q == wakeup_queue[s]
             r == wakeup_queue'[s]
  <1>1. q \in Seq(Co) BY DEF Inv, Loops
  <1>2. /\ DOMAIN q = 1 .. Len(q) /\ DOMAIN r = 1 .. Len(q) + 1
        /\ Len(q) \in Nat
        /\ \A i \in 1 .. Len(q) : r[i] = q[i]
        /\ r[Len(q) + 1] = d
    BY <1>1, AppendProperties
  <1> HIDE DEF q, r
  <1>3. \A x \in Co : (\E i \in DOMAIN r : r[i] = x) <=> (\E i \in DOMAIN q : q[i] = x) \/ x = d
    <2> DEFINE n == Len(q)
    <2>1. n \in Nat BY <1>2
    <2>2. DOMAIN q = 1 .. n /\ DOMAIN r = 1 .. n + 1
          /\ (\A i \in 1 .. n : r[i] = q[i]) /\ r[n + 1] = d
      BY <1>2
    <2> HIDE DEF n
    <2>3. \A i \in 1 .. n + 1 : i \in 1 .. n \/ i = n + 1 BY <2>1
    <2>4. n + 1 \in 1 .. n + 1 /\ \A i \in 1 .. n : i \in 1 .. n + 1 BY <2>1
    <2> QED BY <2>2, <2>3, <2>4
  <1>4. \A i, j \in DOMAIN r : r[i] = r[j] => i = j
    BY <1>2 DEF NoDoubles, Queued, q
  <1>5. NoDoubles(s)' BY <1>4 DEF NoDoubles, r
  <1> QED BY <1>3, <1>5 DEF Queued, Awaits, q, r

\* From its token to the queue (service.lua:493-515).
LEMMA ToQueue ==
  ASSUME NEW s \in Service, Inv, Once(s), NEW d \in waiting[s], d \in Co,
         running_thread'[s] = running_thread[s], lookup'[s] = lookup[s],
         waiting'[s] = waiting[s] \ {d}, kind'[s] = kind[s],
         wakeup_queue'[s] = Append(wakeup_queue[s], d)
  PROVE  Once(s)'
  <1>1. ~Queued(s, d) /\ NoDoubles(s) BY DEF Once, InOnePlace
  <1>2. /\ NoDoubles(s)'
        /\ \A x \in Co : (Awaits(s, x)' <=> Awaits(s, x))
                         /\ (Queued(s, x)' <=> Queued(s, x) \/ x = d)
    BY <1>1, Appended
  <1>3. \A x \in Co : InOnePlace(s, x)' BY <1>2 DEF Once, InOnePlace
  <1> QED BY <1>2, <1>3 DEF Once

\* From the pool to the queue (service.lua:221-235, 517-525).
LEMMA FromPool ==
  ASSUME NEW s \in Service, Inv, Once(s), NEW d \in Co, kind[s][d] = "free",
         NEW k \in Kind \ {"free"},
         running_thread'[s] = running_thread[s], lookup'[s] = lookup[s],
         waiting'[s] = waiting[s], kind'[s] = [kind[s] EXCEPT ![d] = k],
         wakeup_queue'[s] = Append(wakeup_queue[s], d)
  PROVE  Once(s)'
  <1>1. ~Queued(s, d) /\ NoDoubles(s) BY DEF Once, InOnePlace
  <1>2. /\ NoDoubles(s)'
        /\ \A x \in Co : (Awaits(s, x)' <=> Awaits(s, x))
                         /\ (Queued(s, x)' <=> Queued(s, x) \/ x = d)
    BY <1>1, Appended
  <1>3. kind[s] \in [Co -> Kind] BY DEF Inv, Coroutines
  <1>4. \A x \in Co : kind'[s][x] = IF x = d THEN k ELSE kind[s][x] BY <1>3
  <1>5. \A x \in Co : InOnePlace(s, x)' BY <1>2, <1>4 DEF Once, InOnePlace
  <1> QED BY <1>2, <1>5 DEF Once

\* The one that runs ends in the pool, and its answer, for which root has no
\* room yet, gets d (service.lua:250-259).
LEMMA PassOn ==
  ASSUME NEW s \in Service, Inv, Once(s), NEW c \in Co, running_thread[s] = c,
         NEW d \in Co, kind[s][d] = "free",
         running_thread'[s] = none, lookup'[s] = lookup[s], waiting'[s] = waiting[s],
         \A x \in Co : kind'[s][x] = IF x = d THEN "blocked"
                                     ELSE IF x = c THEN "free" ELSE kind[s][x],
         wakeup_queue'[s] = Append(wakeup_queue[s], d)
  PROVE  Once(s)'
  <1>1. ~Queued(s, d) /\ NoDoubles(s) /\ d # c BY DEF Once, InOnePlace
  <1>2. /\ NoDoubles(s)'
        /\ \A x \in Co : (Awaits(s, x)' <=> Awaits(s, x))
                         /\ (Queued(s, x)' <=> Queued(s, x) \/ x = d)
    BY <1>1, Appended
  <1>3. \A x \in Co : InOnePlace(s, x)' BY <1>1, <1>2, Constants DEF Once, InOnePlace
  <1> QED BY <1>2, <1>3 DEF Once

\* From the head of the queue to running (service.lua:804-829).
LEMMA FromQueue ==
  ASSUME NEW s \in Service, Inv, Once(s), running_thread[s] = none,
         wakeup_queue[s] # <<>>, running_thread'[s] = Head(wakeup_queue[s]),
         lookup'[s] = lookup[s], waiting'[s] = waiting[s], kind'[s] = kind[s],
         wakeup_queue'[s] = Tail(wakeup_queue[s])
  PROVE  Once(s)'
  <1> DEFINE q == wakeup_queue[s]
             r == wakeup_queue'[s]
  <1>1. q \in Seq(Co) /\ q # <<>> BY DEF Inv, Loops
  <1>2. DOMAIN q = 1 .. Len(q) /\ DOMAIN r = 1 .. Len(q) - 1
        /\ Len(q) \in Nat /\ Len(q) > 0
        /\ (\A i \in 1 .. Len(q) - 1 : r[i] = q[i + 1])
        /\ Head(q) = q[1] /\ q[1] \in Co
    BY <1>1, HeadTailProperties
  <1> HIDE DEF q, r
  <1>3. \A i, j \in DOMAIN q : q[i] = q[j] => i = j BY DEF Once, NoDoubles, q
  <1>4. \A x \in Co : (\E i \in DOMAIN r : r[i] = x)
                      <=> (\E i \in DOMAIN q : q[i] = x) /\ x # q[1]
    <2>1. ASSUME NEW i \in DOMAIN r PROVE i + 1 \in DOMAIN q /\ r[i] = q[i + 1] /\ q[i + 1] # q[1]
      BY <1>2, <1>3
    <2>2. ASSUME NEW i \in DOMAIN q, q[i] # q[1] PROVE i - 1 \in DOMAIN r /\ r[i - 1] = q[i]
      BY <1>2, <2>2
    <2> QED BY <2>1, <2>2
  <1>5. ASSUME NEW i \in DOMAIN r, NEW j \in DOMAIN r, r[i] = r[j] PROVE i = j
    <2>1. i + 1 \in DOMAIN q /\ j + 1 \in DOMAIN q /\ q[i + 1] = q[j + 1] BY <1>2, <1>5
    <2>2. i \in Int /\ j \in Int BY <1>2
    <2> QED BY <1>3, <2>1, <2>2
  <1>6. \A x \in Co : (Awaits(s, x)' <=> Awaits(s, x))
                      /\ (Queued(s, x)' <=> Queued(s, x) /\ x # q[1])
    BY <1>4 DEF Awaits, Queued, q, r
  <1>7. running_thread'[s] = q[1] /\ Queued(s, q[1]) BY <1>2 DEF q, Queued
  <1>8. \A x \in Co : InOnePlace(s, x)' BY <1>2, <1>6, <1>7, Constants DEF Once, InOnePlace
  <1> QED BY <1>5, <1>8 DEF Once, NoDoubles, r

\* The one that waits for session k runs, if there is one (service.lua:790-800).
LEMMA FromAnswer ==
  ASSUME NEW s \in Service, Inv, Once(s), running_thread[s] = none, NEW k \in Session,
         running_thread'[s] = lookup[s][k], lookup'[s] = [lookup[s] EXCEPT ![k] = none],
         waiting'[s] = waiting[s], wakeup_queue'[s] = wakeup_queue[s], kind'[s] = kind[s]
  PROVE  Once(s)'
  <1>1. lookup[s] \in [Session -> Co \cup {none}] BY DEF Inv, Lookups
  <1>2. \A j \in Session : lookup'[s][j] = IF j = k THEN none ELSE lookup[s][j] BY <1>1
  <1>3. \A x \in Co : Awaits(s, x)' <=> Awaits(s, x) /\ x # lookup[s][k]
    BY <1>1, <1>2, Constants DEF Awaits, Once, NoDoubles
  <1>4. \A x \in Co : Queued(s, x)' <=> Queued(s, x) BY DEF Queued
  <1>5. \A x \in Co : x = lookup[s][k] => Awaits(s, x) BY DEF Awaits
  <1>6. \A x \in Co : InOnePlace(s, x)' BY <1>3, <1>4, <1>5, Constants DEF Once, InOnePlace
  <1>7. NoDoubles(s)' BY <1>2 DEF Once, NoDoubles
  <1> QED BY <1>6, <1>7 DEF Once

\* From the pool to running (service.lua:752-770).
LEMMA Starts ==
  ASSUME NEW s \in Service, Inv, Once(s), running_thread[s] = none,
         NEW c \in Co, kind[s][c] = "free",
         running_thread'[s] = c, kind'[s] = [kind[s] EXCEPT ![c] = "session"],
         lookup'[s] = lookup[s], waiting'[s] = waiting[s],
         wakeup_queue'[s] = wakeup_queue[s]
  PROVE  Once(s)'
  <1>1. \A x \in Co : (Awaits(s, x)' <=> Awaits(s, x)) /\ (Queued(s, x)' <=> Queued(s, x))
    BY DEF Awaits, Queued
  <1>2. kind[s] \in [Co -> Kind] BY DEF Inv, Coroutines
  <1>3. \A x \in Co : kind'[s][x] = IF x = c THEN "session" ELSE kind[s][x] BY <1>2
  <1>4. \A x \in Co : InOnePlace(s, x)' BY <1>1, <1>3, Constants DEF Once, InOnePlace
  <1> QED BY <1>4 DEF Once, NoDoubles

----------------------------------------------------------------------------
(* The steps *)

\* The tables have an entry for each service.
LEMMA Tables ==
  ASSUME Inv
  PROVE  /\ running_thread \in [Service -> Co \cup {none}]
         /\ waiting \in [Service -> SUBSET Co]
         /\ wakeup_queue \in [Service -> Seq(Co)]
         /\ kind \in [Service -> [Co -> Kind]]
         /\ lookup \in [Service -> [Session -> Co \cup {none}]]
         /\ status \in [Service -> {"alive", "dead", "closed"}]
  BY DEF Inv, Loops, Coroutines, Lookups, Statuses

LEMMA NobodyMoves ==
  ASSUME OnceInv, UNCHANGED <<running_thread, lookup, waiting, wakeup_queue, kind>>,
         \A t \in Service : Alive(t)' => Alive(t)
  PROVE  OnceInv'
  BY NoMove DEF OnceInv, Unmoved

LEMMA SuspendOnce ==
  ASSUME Inv, OnceInv, NEW s \in Service, Alive(s), running_thread[s] \in Co, Suspend(s),
         UNCHANGED <<status, waiting, wakeup_queue, kind>>
  PROVE  OnceInv'
  <1> DEFINE k == session_id[s]
             c == running_thread[s]
  <1>1. k \in Session BY Constants DEF Inv, Statuses, Suspend
  <1>2. lookup[s][k] = none
    <2>1. k \in Int /\ ~Past(s, k) BY <1>1, Sessions DEF Past
    <2> QED BY <1>1, <2>1 DEF Inv, Lookups
  <1>3. /\ running_thread' = [running_thread EXCEPT ![s] = none]
        /\ lookup' = [lookup EXCEPT ![s] = [lookup[s] EXCEPT ![k] = c]]
    BY DEF Suspend, At
  <1> HIDE DEF k, c
  <1>4. running_thread'[s] = none /\ lookup'[s] = [lookup[s] EXCEPT ![k] = c]
        /\ \A t \in Service \ {s} : Unmoved(t)
    BY <1>3, Tables DEF Unmoved
  <1>5. Once(s)'
    <2>1. Once(s) /\ c \in Co /\ running_thread[s] = c BY DEF OnceInv, c
    <2>2. waiting'[s] = waiting[s] /\ wakeup_queue'[s] = wakeup_queue[s] /\ kind'[s] = kind[s]
      OBVIOUS
    <2> QED BY <1>1, <1>2, <1>4, <2>1, <2>2, ToAnswer
  <1> QED BY <1>4, <1>5, OneMoves DEF Alive

LEMMA FinishOnce ==
  ASSUME Inv, OnceInv, NEW s \in Service, Alive(s), running_thread[s] \in Co,
         Finish(s, running_thread[s]),
         running_thread' = [running_thread EXCEPT ![s] = none],
         UNCHANGED <<status, lookup, waiting, wakeup_queue>>
  PROVE  OnceInv'
  <1> DEFINE c == running_thread[s]
  <1>1. kind' = [kind EXCEPT ![s] = [kind[s] EXCEPT ![c] = "free"]] BY DEF Finish, At
  <1> HIDE DEF c
  <1>2. running_thread'[s] = none /\ kind'[s] = [kind[s] EXCEPT ![c] = "free"]
        /\ \A t \in Service \ {s} : Unmoved(t)
    BY <1>1, Tables DEF Unmoved
  <1>3. Once(s)'
    <2>1. Once(s) /\ c \in Co /\ running_thread[s] = c BY DEF OnceInv, c
    <2>2. lookup'[s] = lookup[s] /\ waiting'[s] = waiting[s] /\ wakeup_queue'[s] = wakeup_queue[s]
      OBVIOUS
    <2> QED BY <1>2, <2>1, <2>2, ToPool
  <1> QED BY <1>2, <1>3, OneMoves DEF Alive

LEMMA DieOnce ==
  ASSUME Inv, OnceInv, NEW s \in Service, Die(s) PROVE OnceInv'
  <1>1. /\ ~Alive(s)'
        /\ \A t \in Service : Alive(t)' => Alive(t)
        /\ \A t \in Service \ {s} : Unmoved(t)
    BY Tables DEF Die, Alive, Unmoved
  <1> QED BY <1>1, OneMoves

LEMMA RecvRequestOnce ==
  ASSUME Inv, OnceInv, NEW s \in Service, RecvRequest(s) PROVE OnceInv'
  <1>1. PICK c \in NewThread(s) :
          /\ kind' = At(kind, s, c, "session")
          /\ running_thread' = [running_thread EXCEPT ![s] = c]
    BY DEF RecvRequest
  <1>2. c \in Co /\ kind[s][c] = "free" BY Threads
  <1>3. Alive(s) /\ running_thread[s] = none /\ UNCHANGED <<status, lookup, waiting, wakeup_queue>>
    BY DEF RecvRequest, Receives, Idle
  <1>4. running_thread'[s] = c /\ kind'[s] = [kind[s] EXCEPT ![c] = "session"]
        /\ \A t \in Service \ {s} : Unmoved(t)
    BY <1>1, <1>3, Tables DEF Unmoved, At
  <1>5. Once(s)' BY <1>2, <1>3, <1>4, Starts DEF OnceInv
  <1> QED BY <1>3, <1>4, <1>5, OneMoves DEF Alive

LEMMA RecvAnswerOnce ==
  ASSUME Inv, OnceInv, NEW s \in Service, RecvAnswer(s) PROVE OnceInv'
  <1> DEFINE k == Head(inbox[s]).session
  <1>1. k \in Session
    <2>1. Head(inbox[s]) \in Mail(s)
      BY HeadTailProperties DEF RecvAnswer, Receives, Inv, Inboxes
    <2> QED BY <2>1 DEF RecvAnswer, Mail, ReplyTo, Reply, Question
  <1>2. /\ running_thread' = [running_thread EXCEPT ![s] = lookup[s][k]]
        /\ lookup' = [lookup EXCEPT ![s] = [lookup[s] EXCEPT ![k] = none]]
    BY DEF RecvAnswer, At
  <1>3. Alive(s) /\ running_thread[s] = none /\ UNCHANGED <<status, kind, waiting, wakeup_queue>>
    BY DEF RecvAnswer, Receives, Idle, coVars
  <1> HIDE DEF k
  <1>4. running_thread'[s] = lookup[s][k] /\ lookup'[s] = [lookup[s] EXCEPT ![k] = none]
        /\ \A t \in Service \ {s} : Unmoved(t)
    BY <1>2, <1>3, Tables DEF Unmoved
  <1>5. Once(s)' BY <1>1, <1>3, <1>4, FromAnswer DEF OnceInv
  <1> QED BY <1>3, <1>4, <1>5, OneMoves DEF Alive

LEMMA WakeupNextOnce ==
  ASSUME Inv, OnceInv, NEW s \in Service, WakeupNext(s) PROVE OnceInv'
  <1>1. /\ running_thread' = [running_thread EXCEPT ![s] = Head(wakeup_queue[s])]
        /\ wakeup_queue' = [wakeup_queue EXCEPT ![s] = Tail(@)]
        /\ UNCHANGED <<status, kind, waiting, lookup>>
        /\ Alive(s) /\ running_thread[s] = none /\ wakeup_queue[s] # <<>>
    BY DEF WakeupNext, Idle, coVars
  <1>2. /\ running_thread'[s] = Head(wakeup_queue[s])
        /\ wakeup_queue'[s] = Tail(wakeup_queue[s])
        /\ \A t \in Service \ {s} : Unmoved(t)
    BY <1>1, Tables DEF Unmoved
  <1>3. Once(s)' BY <1>1, <1>2, FromQueue DEF OnceInv
  <1> QED BY <1>1, <1>2, <1>3, OneMoves DEF Alive

LEMMA WaitOnce ==
  ASSUME Inv, OnceInv, NEW s \in Service, Wait(s) PROVE OnceInv'
  <1> DEFINE c == running_thread[s]
  <1>1. c \in Co /\ Alive(s) BY Running DEF Wait, Handles, Inv
  <1>2. /\ running_thread' = [running_thread EXCEPT ![s] = none]
        /\ waiting' = [waiting EXCEPT ![s] = @ \cup {c}]
        /\ UNCHANGED <<status, kind, wakeup_queue, lookup>>
    BY DEF Wait, coVars
  <1> HIDE DEF c
  <1>3. running_thread'[s] = none /\ waiting'[s] = waiting[s] \cup {c}
        /\ \A t \in Service \ {s} : Unmoved(t)
    BY <1>2, Tables DEF Unmoved
  <1>4. Once(s)'
    <2>1. Once(s) /\ running_thread[s] = c BY <1>1 DEF OnceInv, c
    <2> QED BY <1>1, <1>2, <1>3, <2>1, ToToken
  <1> QED BY <1>1, <1>2, <1>3, <1>4, OneMoves DEF Alive

LEMMA WakeupOnce ==
  ASSUME Inv, OnceInv, NEW s \in Service, NEW d \in Co, Wakeup(s, d) PROVE OnceInv'
  <1>1. /\ waiting' = [waiting EXCEPT ![s] = @ \ {d}]
        /\ wakeup_queue' = [wakeup_queue EXCEPT ![s] = Append(@, d)]
        /\ UNCHANGED <<status, kind, running_thread, lookup>>
        /\ Alive(s) /\ d \in waiting[s]
    BY DEF Wakeup, Handles, Runs, coVars
  <1>2. /\ waiting'[s] = waiting[s] \ {d}
        /\ wakeup_queue'[s] = Append(wakeup_queue[s], d)
        /\ \A t \in Service \ {s} : Unmoved(t)
    BY <1>1, Tables DEF Unmoved
  <1>3. Once(s)' BY <1>1, <1>2, ToQueue DEF OnceInv
  <1> QED BY <1>1, <1>2, <1>3, OneMoves DEF Alive

LEMMA ForkOnce ==
  ASSUME Inv, OnceInv, NEW s \in Service, NEW k \in {"fork", "quit"}, Fork(s, k)
  PROVE  OnceInv'
  <1>1. PICK d \in NewThread(s) :
          /\ kind' = At(kind, s, d, k)
          /\ wakeup_queue' = [wakeup_queue EXCEPT ![s] = Append(@, d)]
    BY DEF Fork
  <1>2. d \in Co /\ kind[s][d] = "free" /\ k \in Kind \ {"free"} BY Threads DEF Kind
  <1>3. Alive(s) /\ UNCHANGED <<status, running_thread, lookup, waiting>>
    BY DEF Fork, Handles, Runs
  <1>4. /\ kind'[s] = [kind[s] EXCEPT ![d] = k]
        /\ wakeup_queue'[s] = Append(wakeup_queue[s], d)
        /\ \A t \in Service \ {s} : Unmoved(t)
    BY <1>1, <1>3, Tables DEF Unmoved, At
  <1>5. Once(s)' BY <1>2, <1>3, <1>4, FromPool DEF OnceInv
  <1> QED BY <1>3, <1>4, <1>5, OneMoves DEF Alive

\* An answer that is blocked takes a coroutine; the one that ends gives its back.
LEMMA PostOnce ==
  ASSUME Inv, OnceInv, NEW s \in Service, Alive(s), NEW c \in Co, NEW m, NEW ends \in BOOLEAN,
         PostResponse(s, c, m, ends), UNCHANGED <<status, lookup, waiting>>,
         running_thread' = IF ends THEN [running_thread EXCEPT ![s] = none] ELSE running_thread,
         ends => running_thread[s] = c
  PROVE  OnceInv'
  <1>1. PICK r \in Receipt(m.to) :
          IF r = "block"
          THEN \E d \in NewThread(s) :
                 /\ kind' = [kind EXCEPT ![s] =
                      [x \in Co |-> IF x = d THEN "blocked"
                                    ELSE IF x = c /\ ends THEN "free" ELSE @[x]]]
                 /\ wakeup_queue' = [wakeup_queue EXCEPT ![s] = Append(@, d)]
          ELSE /\ kind' = IF ends THEN At(kind, s, c, "free") ELSE kind
               /\ UNCHANGED wakeup_queue
    BY DEF PostResponse
  <1>2. Once(s) BY DEF OnceInv
  <1>3. CASE r = "block"
    <2>1. PICK d \in NewThread(s) :
            /\ kind' = [kind EXCEPT ![s] =
                 [x \in Co |-> IF x = d THEN "blocked"
                               ELSE IF x = c /\ ends THEN "free" ELSE @[x]]]
            /\ wakeup_queue' = [wakeup_queue EXCEPT ![s] = Append(@, d)]
      BY <1>1, <1>3
    <2>2. d \in Co /\ kind[s][d] = "free" BY Threads
    <2>3. /\ kind'[s] = [x \in Co |-> IF x = d THEN "blocked"
                                      ELSE IF x = c /\ ends THEN "free" ELSE kind[s][x]]
          /\ wakeup_queue'[s] = Append(wakeup_queue[s], d)
          /\ running_thread'[s] = IF ends THEN none ELSE running_thread[s]
          /\ \A t \in Service \ {s} : Unmoved(t)
      BY <2>1, Tables DEF Unmoved
    <2>4. Once(s)'
      <3>1. CASE ends
        <4>1. \A x \in Co : kind'[s][x] = IF x = d THEN "blocked"
                                          ELSE IF x = c THEN "free" ELSE kind[s][x]
          BY <2>3, <3>1
        <4> QED BY <1>2, <2>2, <2>3, <3>1, <4>1, PassOn
      <3>2. CASE ~ends
        <4>1. kind'[s] = [kind[s] EXCEPT ![d] = "blocked"] BY <2>2, <2>3, <3>2, Tables
        <4>2. "blocked" \in Kind \ {"free"} BY DEF Kind
        <4> QED BY <1>2, <2>2, <2>3, <3>2, <4>1, <4>2, FromPool
      <3> QED BY <3>1, <3>2
    <2> QED BY <2>3, <2>4, OneMoves DEF Alive
  <1>4. CASE r # "block" /\ ends
    <2>1. /\ kind' = At(kind, s, c, "free") /\ wakeup_queue' = wakeup_queue
          /\ running_thread' = [running_thread EXCEPT ![s] = none]
      BY <1>1, <1>4
    <2>2. /\ kind'[s] = [kind[s] EXCEPT ![c] = "free"] /\ running_thread'[s] = none
          /\ \A t \in Service \ {s} : Unmoved(t)
      BY <2>1, Tables DEF Unmoved, At
    <2>3. running_thread[s] = c BY <1>4
    <2>4. Once(s)' BY <1>2, <2>1, <2>2, <2>3, ToPool
    <2> QED BY <2>2, <2>4, OneMoves DEF Alive
  <1>5. CASE r # "block" /\ ~ends
    BY <1>1, <1>5, NobodyMoves DEF Alive
  <1> QED BY <1>3, <1>4, <1>5

----------------------------------------------------------------------------

LEMMA HandlerOnce ==
  ASSUME Inv, OnceInv, NEW s \in Service, Handler(s) PROVE OnceInv'
  <1> USE DEF Inv
  <1>1. ASSUME NEW t \in Service, Call(s, t) PROVE OnceInv'
    BY <1>1, Running, SuspendOnce DEF Call, Handles, coVars
  <1>2. ASSUME NEW t \in Service, Send(s, t) PROVE OnceInv'
    BY <1>2, NobodyMoves DEF Send, loopVars, coVars, Alive
  <1>3. CASE Sleep(s) BY <1>3, Running, SuspendOnce DEF Sleep, Handles, coVars
  <1>4. CASE NoResponse(s) BY <1>4, NobodyMoves DEF NoResponse, loopVars, Alive
  <1>5. CASE Respond(s)
    <2> DEFINE c == running_thread[s]
    <2>1. c \in Co /\ Alive(s) BY <1>5, Running DEF Respond, Handles
    <2>2. PostResponse(s, c, AnswerTo(address[s][c], response[s][c]), TRUE)
      BY <1>5 DEF Respond, Answer
    <2>3. /\ running_thread' = [running_thread EXCEPT ![s] = none]
          /\ UNCHANGED <<status, lookup, waiting>>
      BY <1>5 DEF Respond
    <2> QED BY <2>1, <2>2, <2>3, PostOnce
  <1>6. CASE End(s) BY <1>6, Running, FinishOnce DEF End, Handles
  <1>7. CASE Crash(s) BY <1>7, DieOnce DEF Crash
  <1> QED BY <1>1, <1>2, <1>3, <1>4, <1>5, <1>6, <1>7, WaitOnce, WakeupOnce, ForkOnce
      DEF Handler

LEMMA RuntimeOnce ==
  ASSUME Inv, OnceInv, NEW s \in Service, Runtime(s) PROVE OnceInv'
  <1> USE DEF Inv
  <1>1. CASE Exit(s) BY <1>1, DieOnce DEF Exit
  <1>2. ASSUME NEW c \in Co, QuitRaise(s, c) PROVE OnceInv'
    BY <1>2, PostOnce DEF QuitRaise, Quits, Runs
  <1>3. CASE QuitDone(s) BY <1>3, Running, FinishOnce DEF QuitDone, Quits
  <1>4. CASE HandOver(s) BY <1>4, Running, FinishOnce DEF HandOver
  <1>5. CASE HandOverBlocked(s) BY <1>5, Running, SuspendOnce DEF HandOverBlocked, coVars
  <1> QED BY <1>1, <1>2, <1>3, <1>4, <1>5, RecvRequestOnce, RecvAnswerOnce, WakeupNextOnce
      DEF Runtime

\* What root and the timer do moves no coroutine.
LEMMA OutsideOnce ==
  ASSUME Inv, OnceInv,
         \/ RootStep
         \/ \E s \in Service : (\E k \in Session : SendTimer(s, k)) \/ SendBlocked(s)
  PROVE  OnceInv'
  <1>1. UNCHANGED <<loopVars, coVars>>
    BY DEF RootStep, SendRetry, SendRetryQueue, CloseService, RaiseError, HandOverToSelf,
           SendTimer, SendBlocked
  <1>2. UNCHANGED status \/ \E t \in Service : CloseService(t)
    BY DEF RootStep, SendRetry, SendRetryQueue, RaiseError, HandOverToSelf, SendTimer, SendBlocked
  <1>3. \A t \in Service : Alive(t)' => Alive(t)
    BY <1>2, Tables DEF CloseService, Alive
  <1> QED BY <1>1, <1>3, NobodyMoves DEF loopVars, coVars

LEMMA OnceInitially == Init => OnceInv
  <1> SUFFICES ASSUME Init, NEW s \in Service PROVE Once(s) BY DEF OnceInv
  <1>1. /\ running_thread[s] = none /\ waiting[s] = {} /\ wakeup_queue[s] = <<>>
        /\ \A k \in Session : lookup[s][k] = none
        /\ \A c \in Co : kind[s][c] = "free"
    BY DEF Init
  <1> QED BY <1>1, Constants DEF Once, NoDoubles, InOnePlace, Awaits, Queued

LEMMA OnceInductive == Inv /\ OnceInv /\ [Next]_vars => OnceInv'
  <1>1. ASSUME OnceInv, UNCHANGED vars PROVE OnceInv'
    BY <1>1, NobodyMoves DEF vars, loopVars, coVars, Alive
  <1> QED BY <1>1, HandlerOnce, RuntimeOnce, OutsideOnce DEF Next

LEMMA AlwaysOnce == Spec => []OnceInv
  BY Always, OnceInitially, OnceInductive, PTL DEF Spec

----------------------------------------------------------------------------

\* A coroutine in one place has one waker, a free one none.
LEMMA OnceImplies == Inv /\ OnceInv => OneWaker
  <1> SUFFICES ASSUME Inv, OnceInv, NEW s \in Service, Alive(s), NEW c \in Co
               PROVE  Cardinality(Wakers(s, c)) = IF kind[s][c] = "free" THEN 0 ELSE 1
    BY DEF OneWaker
  <1>1. NoDoubles(s) /\ InOnePlace(s, c) BY DEF OnceInv, Once
  <1>2. CASE kind[s][c] = "free"
    <2>1. Wakers(s, c) = {}
      BY <1>1, <1>2 DEF InOnePlace, Awaits, Queued, Wakers
    <2> QED BY <2>1, <1>2, FS_EmptySet
  <1>3. CASE kind[s][c] # "free"
    <2> SUFFICES \E w : Wakers(s, c) = {w} BY <1>3, FS_Singleton
    <2>1. CASE running_thread[s] = c
      <3>1. Wakers(s, c) = {<<"running", 0>>}
        BY <1>1, <2>1 DEF InOnePlace, Awaits, Queued, Wakers
      <3> QED BY <3>1
    <2>2. CASE Awaits(s, c)
      <3>1. PICK k \in Session : lookup[s][k] = c BY <2>2 DEF Awaits
      <3>2. {j \in Session : lookup[s][j] = c} = {k}
        BY <1>1, <3>1, Constants DEF NoDoubles
      <3>3. Wakers(s, c) = {<<"answer", k>>}
        BY <1>1, <2>2, <3>2 DEF InOnePlace, Awaits, Queued, Wakers
      <3> QED BY <3>3
    <2>3. CASE c \in waiting[s]
      <3>1. Wakers(s, c) = {<<"token", 0>>}
        BY <1>1, <2>3 DEF InOnePlace, Awaits, Queued, Wakers
      <3> QED BY <3>1
    <2>4. CASE Queued(s, c)
      <3>1. PICK i \in DOMAIN wakeup_queue[s] : wakeup_queue[s][i] = c BY <2>4 DEF Queued
      <3>2. {j \in DOMAIN wakeup_queue[s] : wakeup_queue[s][j] = c} = {i}
        BY <1>1, <3>1 DEF NoDoubles
      <3>3. Wakers(s, c) = {<<"queue", i>>}
        BY <1>1, <2>4, <3>2 DEF InOnePlace, Awaits, Queued, Wakers
      <3> QED BY <3>3
    <2> QED BY <1>1, <1>3, <2>1, <2>2, <2>3, <2>4 DEF InOnePlace
  <1> QED BY <1>2, <1>3

\* A coroutine in use is always woken by exactly one, and a free one by none,
\* for any number of services, coroutines and sessions, whatever the handlers
\* do, also when they die, and however often root and the timer repeat what
\* they have sent (service.lua:299-326, 345-356, 485-515, 804-829).
THEOREM EachHasOneWaker == Spec => []OneWaker
  BY Always, AlwaysOnce, OnceImplies, PTL

----------------------------------------------------------------------------
(***************************************************************************)
(* Whoever waits for an answer gets one, or its call is lost: the places   *)
(* where a call may be.  Each is one that leads to the caller: of a queue  *)
(* in the midst of a loop, only what the loop has not sent yet; of the     *)
(* sessions of a service that quits, only what it has not answered yet.    *)
(***************************************************************************)

\* Sequence q has x at place i or later
InFrom(q, i, x) == \E j \in DOMAIN q : j >= i /\ q[j] = x

\* Where the loop over the queue of t is: what is before it has been sent
From(p, t) == IF p.to = t THEN p.i ELSE 1

\* Where the call k of s may be, if its answer is not in an inbox (Posted) or with
\* a coroutine, as an answer that was blocked (HeldBy): itself in an inbox;
Asked(s, k) == \E t \in Service : status[t] # "closed" /\ In(inbox[t], Asking(s, t, k))
\* with coroutine c of t, as the call it handles and which ltask.quit has not yet answered for it;
Passed(t, c) == quit[t] \/ (Quits(t) /\ c \notin todo[t])
HandledBy(t, c, s, k) ==
  /\ Alive(t) /\ kind[t][c] = "session" /\ address[t][c] = s /\ response[t][c] = k
  /\ ~Passed(t, c)
InService(s, k) == \E t \in Service, c \in Co : HeldBy(t, c, s, k) \/ HandledBy(t, c, s, k)
\* with the timer; with root
WithTimer(s, k) == k \in timer[s] \/ InFrom(blocked[s], From(turn, s), k)
WithRoot(s, k) ==
  \/ InFrom(retry[s], From(at, s), AnswerTo(s, k))
  \/ In(rootbox, AnswerTo(s, k))
  \/ AnswerTo(s, k) \in raises \cup forked

Comes(s, k) ==
  \/ Posted(s, k) \/ Asked(s, k) \/ InService(s, k) \/ WithTimer(s, k) \/ WithRoot(s, k)
  \/ <<s, k>> \in lost

NoOrphan == \A s \in Service : Alive(s) =>
  \A k \in Session : lookup[s][k] # none => Comes(s, k)

\* The work of ltask.quit waits for no answer
QuitAwake == \A t \in Service, c \in Co :
  Alive(t) /\ kind[t][c] = "quit" => ~Awaits(t, c)

Stays(s, k) == Comes(s, k) => Comes(s, k)'

----------------------------------------------------------------------------
(* Sequences *)

LEMMA AppendIn ==
  ASSUME NEW S, NEW q \in Seq(S), NEW x \in S, NEW y
  PROVE  In(Append(q, x), y) <=> In(q, y) \/ y = x
  <1> DEFINE r == Append(q, x)
             n == Len(q)
  <1>1. /\ DOMAIN q = 1 .. n /\ DOMAIN r = 1 .. n + 1 /\ n \in Nat
        /\ \A i \in 1 .. n : r[i] = q[i]
        /\ r[n + 1] = x
    BY AppendProperties
  <1> HIDE DEF r, n
  <1>2. n + 1 \in 1 .. n + 1 /\ \A i \in 1 .. n + 1 : i \in 1 .. n \/ i = n + 1 BY <1>1
  <1>3. \A i \in 1 .. n : i \in 1 .. n + 1 BY <1>1
  <1>4. In(r, y) <=> In(q, y) \/ y = x BY <1>1, <1>2, <1>3 DEF In
  <1> QED BY <1>4 DEF r

LEMMA TailIn ==
  ASSUME NEW S, NEW q \in Seq(S), q # <<>>, NEW y, In(q, y)
  PROVE  y = Head(q) \/ In(Tail(q), y)
  <1> DEFINE r == Tail(q)
             n == Len(q)
  <1>1. /\ DOMAIN q = 1 .. n /\ DOMAIN r = 1 .. n - 1 /\ n \in Nat /\ n > 0
        /\ \A i \in 1 .. n - 1 : r[i] = q[i + 1]
        /\ Head(q) = q[1]
    BY HeadTailProperties
  <1> HIDE DEF r, n
  <1>2. PICK i \in 1 .. n : q[i] = y BY <1>1 DEF In
  <1>3. CASE i = 1 BY <1>1, <1>2, <1>3
  <1>4. CASE i # 1
    <2>1. i - 1 \in 1 .. n - 1 /\ (i - 1) + 1 = i BY <1>1, <1>4
    <2>2. r[i - 1] = y BY <1>1, <1>2, <2>1
    <2>3. In(r, y) BY <1>1, <2>1, <2>2 DEF In
    <2> QED BY <2>3 DEF r
  <1> QED BY <1>3, <1>4

LEMMA FromFirst ==
  ASSUME NEW S, NEW q \in Seq(S), NEW y PROVE InFrom(q, 1, y) <=> In(q, y)
  BY DEF In, InFrom

LEMMA FromNext ==
  ASSUME NEW S, NEW q \in Seq(S), NEW i \in 1 .. Len(q), NEW y, InFrom(q, i, y)
  PROVE  y = q[i] \/ (i < Len(q) /\ InFrom(q, i + 1, y))
  <1>1. PICK j \in 1 .. Len(q) : j >= i /\ q[j] = y BY DEF InFrom
  <1>2. CASE j = i BY <1>1, <1>2
  <1>3. CASE j # i
    <2>1. j \in DOMAIN q /\ j >= i + 1 /\ i < Len(q) BY <1>1, <1>3
    <2> QED BY <1>1, <2>1 DEF InFrom
  <1> QED BY <1>2, <1>3

\* What is still to be sent is kept (service/root.lua:58, service/timer.lua:37).
LEMMA FromMoved ==
  ASSUME NEW S, NEW q \in Seq(S), NEW i \in 1 .. Len(q), NEW y, InFrom(q, i, y)
  PROVE  In(Moved(q, i), y)
  <1> DEFINE a == SubSeq(q, i, Len(q))
             b == SubSeq(q, Len(q) - i + 2, Len(q))
             n == Len(q)
  <1>1. a \in Seq(S) /\ Len(a) = n - i + 1 /\ \A j \in 1 .. n - i + 1 : a[j] = q[i + j - 1]
    BY SubSeqProperties
  <1>2. b \in Seq(S) BY SubSeqProperties
  <1>3. Moved(q, i) = a \o b BY DEF Moved
  <1>4. n \in Nat OBVIOUS
  <1>5. PICK j \in 1 .. n : j >= i /\ q[j] = y BY DEF InFrom
  <1> HIDE DEF a, b, n
  <1>6. j - i + 1 \in 1 .. n - i + 1 BY <1>4, <1>5
  <1>7. a[j - i + 1] = y
    <2>1. i + (j - i + 1) - 1 = j BY <1>4, <1>5
    <2> QED BY <1>1, <1>5, <1>6, <2>1
  <1>8. DOMAIN (a \o b) = 1 .. Len(a) + Len(b) /\ Len(b) \in Nat
        /\ \A l \in 1 .. Len(a) : (a \o b)[l] = a[l]
    BY <1>1, <1>2, ConcatProperties
  <1>9. j - i + 1 \in 1 .. Len(a) + Len(b) BY <1>1, <1>4, <1>6, <1>8
  <1> QED BY <1>1, <1>3, <1>6, <1>7, <1>8, <1>9 DEF In

----------------------------------------------------------------------------
(* What a step leaves alone stays *)

LEMMA Fields ==
  /\ \A s, k : AnswerTo(s, k).to = s /\ AnswerTo(s, k).session = k /\ AnswerTo(s, k).typ = "answer"
  /\ \A s, t, k : /\ Asking(s, t, k).to = t /\ Asking(s, t, k).session = k
                  /\ Asking(s, t, k).from = s /\ Asking(s, t, k).typ = "request"
  /\ \A s \in Service, t \in Service, k \in Session :
       AnswerTo(s, k) \in Message /\ Asking(s, t, k) \in Message
  BY DEF AnswerTo, Asking, Message

\* The tables of the coroutines, and the queues, have an entry for each service.
LEMMA Columns ==
  ASSUME Inv
  PROVE  /\ kind \in [Service -> [Co -> Kind]]
         /\ address \in [Service -> [Co -> Service \cup {Root, none}]]
         /\ response \in [Service -> [Co -> Response]]
         /\ held \in [Service -> [Co -> Message \cup {NoMessage}]]
         /\ running_thread \in [Service -> Co \cup {none}]
         /\ quit \in [Service -> BOOLEAN] /\ todo \in [Service -> SUBSET Co]
         /\ status \in [Service -> {"alive", "dead", "closed"}]
         /\ wakeup_queue \in [Service -> Seq(Co)]
  BY DEF Inv, Loops, Coroutines, Statuses

LEMMA Queues ==
  ASSUME Inv
  PROVE  /\ inbox = [x \in Service |-> inbox[x]] /\ retry = [x \in Service |-> retry[x]]
         /\ blocked = [x \in Service |-> blocked[x]]
         /\ timer \in [Service -> SUBSET Session]
         /\ \A t \in Service : /\ inbox[t] \in Seq(Message) /\ retry[t] \in Seq(Message)
                               /\ blocked[t] \in Seq(Session)
         /\ rootbox \in Seq(Message)
         /\ Place(at, retry) /\ Place(turn, blocked)
  <1> USE DEF Inv
  <1>1. \A t \in Service : Mail(t) \subseteq Message /\ ReplyTo(t) \subseteq Message
                           /\ PastOf(t) \subseteq Session /\ Reply \subseteq Message
    BY DEF Mail, ReplyTo, Reply, Question, PastOf
  <1>2. \A t \in Service : inbox[t] \in Seq(Message) BY <1>1, SeqMonotonic DEF Inboxes
  <1>3. \A t \in Service : retry[t] \in Seq(Message) BY <1>1, SeqMonotonic DEF Roots
  <1>4. \A t \in Service : blocked[t] \in Seq(Session) BY <1>1, SeqMonotonic DEF Timers
  <1>5. Reply \subseteq Message BY DEF Reply
  <1>6. rootbox \in Seq(Message) BY <1>5, SeqMonotonic DEF Roots
  <1> QED BY <1>2, <1>3, <1>4, <1>6 DEF Inboxes, Roots, Timers

LEMMA SamePost ==
  ASSUME UNCHANGED inbox, \A t \in Service : status[t] # "closed" => status'[t] # "closed",
         NEW s \in Service, NEW k \in Session
  PROVE  (Posted(s, k) => Posted(s, k)') /\ (Asked(s, k) => Asked(s, k)')
  BY DEF Posted, Asked

LEMMA SameTimer ==
  ASSUME UNCHANGED timerVars, NEW s \in Service, NEW k \in Session, WithTimer(s, k)
  PROVE  WithTimer(s, k)'
  BY DEF WithTimer, timerVars, From

LEMMA SameRoot ==
  ASSUME UNCHANGED rootVars, NEW s \in Service, NEW k \in Session, WithRoot(s, k)
  PROVE  WithRoot(s, k)'
  BY DEF WithRoot, rootVars, From

\* Service u does nothing.
Rests(u) ==
  /\ status'[u] = status[u] /\ running_thread'[u] = running_thread[u]
  /\ kind'[u] = kind[u] /\ address'[u] = address[u] /\ response'[u] = response[u]
  /\ held'[u] = held[u] /\ quit'[u] = quit[u] /\ todo'[u] = todo[u]

LEMMA RestsStays ==
  ASSUME NEW u \in Service, Rests(u), NEW c \in Co, NEW s \in Service, NEW k \in Session
  PROVE  (HeldBy(u, c, s, k) => HeldBy(u, c, s, k)')
         /\ (HandledBy(u, c, s, k) => HandledBy(u, c, s, k)')
  BY DEF Rests, HeldBy, HandledBy, Passed, Quits, Runs, Alive

\* It suffices to look at the coroutines of the service that steps.
LEMMA OneSteps ==
  ASSUME NEW t \in Service, \A u \in Service \ {t} : Rests(u),
         NEW s \in Service, NEW k \in Session,
         \A c \in Co : HeldBy(t, c, s, k) => Comes(s, k)',
         \A c \in Co : HandledBy(t, c, s, k) => Comes(s, k)',
         InService(s, k)
  PROVE  Comes(s, k)'
  <1>1. PICK u \in Service, c \in Co : HeldBy(u, c, s, k) \/ HandledBy(u, c, s, k)
    BY DEF InService
  <1>2. CASE u = t BY <1>1, <1>2
  <1>3. CASE u # t
    <2>1. HeldBy(u, c, s, k)' \/ HandledBy(u, c, s, k)' BY <1>1, <1>3, RestsStays
    <2>2. InService(s, k)' BY <2>1 DEF InService
    <2> QED BY <2>2 DEF Comes
  <1> QED BY <1>2, <1>3

LEMMA NobodySteps ==
  ASSUME \A u \in Service : Rests(u),
         NEW s \in Service, NEW k \in Session, InService(s, k)
  PROVE  InService(s, k)'
  BY RestsStays DEF InService

\* Coroutines that go on with what they have, in a service where another runs
\* that is not at ltask.quit.
LEMMA GoesOn ==
  ASSUME Inv, NEW t \in Service, UNCHANGED <<status, coVars, quitVars>>,
         NEW x \in Co \cup {none}, x # none => kind[t][x] # "quit",
         running_thread' = [running_thread EXCEPT ![t] = x],
         NEW s \in Service, NEW k \in Session, InService(s, k)
  PROVE  Comes(s, k)'
  <1> USE Columns
  <1>1. \A u \in Service \ {t} : Rests(u) BY DEF Rests, coVars, quitVars
  <1>2. running_thread'[t] = x OBVIOUS
  <1>3. ~Quits(t)' BY <1>2 DEF Quits, Runs, coVars
  <1>4. ASSUME NEW c \in Co, HeldBy(t, c, s, k) PROVE Comes(s, k)'
    <2>1. HeldBy(t, c, s, k)' BY <1>4 DEF HeldBy, coVars, Alive
    <2> QED BY <2>1 DEF InService, Comes
  <1>5. ASSUME NEW c \in Co, HandledBy(t, c, s, k) PROVE Comes(s, k)'
    <2>1. HandledBy(t, c, s, k)' BY <1>3, <1>5 DEF HandledBy, Passed, coVars, quitVars, Alive
    <2> QED BY <2>1 DEF InService, Comes
  <1> QED BY <1>1, <1>4, <1>5, OneSteps

LEMMA DeliverStays ==
  ASSUME Inv, NEW m \in Message, NEW r, Deliver(m, r), UNCHANGED status,
         NEW s \in Service, NEW k \in Session
  PROVE  /\ Posted(s, k) => Posted(s, k)'
         /\ Asked(s, k) => Asked(s, k)'
         /\ r = "done" /\ Alive(m.to) => In(inbox'[m.to], m)
  <1>1. m.to \in Service BY MessageFields
  <1>2. CASE UNCHANGED inbox /\ ~(r = "done" /\ Alive(m.to)) BY <1>2, SamePost
  <1>3. CASE inbox' = [inbox EXCEPT ![m.to] = Append(@, m)]
    <2>1. \A u \in Service : u # m.to => inbox'[u] = inbox[u] BY <1>3, Queues
    <2>2. inbox'[m.to] = Append(inbox[m.to], m) /\ inbox[m.to] \in Seq(Message)
      BY <1>1, <1>3, Queues
    <2>3. \A y : In(inbox'[m.to], y) <=> In(inbox[m.to], y) \/ y = m
      BY <2>2, AppendIn
    <2>4. \A u \in Service : \A y : In(inbox[u], y) => In(inbox'[u], y) BY <2>1, <2>3
    <2> QED BY <2>3, <2>4 DEF Posted, Asked
  <1> QED BY <1>2, <1>3 DEF Deliver

\* The first message of an inbox is taken.
LEMMA TakeStays ==
  ASSUME Inv, NEW t \in Service, inbox[t] # <<>>, inbox' = [inbox EXCEPT ![t] = Tail(@)],
         UNCHANGED status, NEW s \in Service, NEW k \in Session
  PROVE  /\ Posted(s, k) => Posted(s, k)' \/ (s = t /\ Head(inbox[t]) = AnswerTo(s, k))
         /\ Asked(s, k) => Asked(s, k)' \/ Head(inbox[t]) = Asking(s, t, k)
  <1>1. \A u \in Service : u # t => inbox'[u] = inbox[u] BY Queues
  <1>2. inbox'[t] = Tail(inbox[t]) /\ inbox[t] \in Seq(Message) BY Queues
  <1>3. \A y : In(inbox[t], y) => y = Head(inbox[t]) \/ In(inbox'[t], y) BY <1>2, TailIn
  <1> QED BY <1>1, <1>3 DEF Posted, Asked

\* A living service gets what is posted to it, if it has room (root.go:27-41).
LEMMA LivingReceipt ==
  ASSUME NEW s \in Service, Alive(s), NEW r \in Receipt(s) PROVE r \in {"block", "done"}
  BY DEF Receipt

----------------------------------------------------------------------------
(* The steps of a service *)

\* Service t has posted the answer to call j of x by coroutine c, which has
\* ended with it or goes on.
PostedBy(t, c, x, j, ends, s, k) ==
  /\ Posted(s, k) => Posted(s, k)'
  /\ Asked(s, k) => Asked(s, k)'
  /\ x = s /\ j = k => Comes(s, k)'
  /\ \A d \in Co : HeldBy(t, d, s, k) => HeldBy(t, d, s, k)'
  /\ \A d \in Co : kind[t][d] = "session" /\ ~(ends /\ d = c) =>
       /\ kind'[t][d] = "session"
       /\ address'[t][d] = address[t][d] /\ response'[t][d] = response[t][d]
  /\ \A u \in Service \ {t} :
       /\ kind'[u] = kind[u] /\ address'[u] = address[u]
       /\ response'[u] = response[u] /\ held'[u] = held[u]

\* An answer that is posted has arrived, or a coroutine has it
\* (service.lua:221-259).
LEMMA PostStays ==
  ASSUME Inv, NEW t \in Service, Alive(t), NEW c \in Co, NEW x \in Service, NEW j \in Session,
         NEW ends \in BOOLEAN, ends => kind[t][c] # "blocked",
         PostResponse(t, c, AnswerTo(x, j), ends), UNCHANGED status,
         NEW s \in Service, NEW k \in Session, Alive(s)
  PROVE  PostedBy(t, c, x, j, ends, s, k)
  <1> USE Columns
  <1> DEFINE m == AnswerTo(x, j)
  <1>1. m \in Message /\ m.to = x BY Fields
  <1>2. PICK r \in Receipt(m.to) :
          /\ Deliver(m, r)
          /\ IF r = "block"
             THEN \E d \in NewThread(t) :
                    /\ kind' = [kind EXCEPT ![t] =
                         [y \in Co |-> IF y = d THEN "blocked"
                                       ELSE IF y = c /\ ends THEN "free" ELSE @[y]]]
                    /\ held' = At(held, t, d, m)
             ELSE /\ kind' = IF ends THEN At(kind, t, c, "free") ELSE kind
                  /\ UNCHANGED held
    BY DEF PostResponse
  <1>3. /\ address' = IF ends THEN At(address, t, c, none) ELSE address
        /\ response' = IF ends THEN At(response, t, c, nil) ELSE response
    BY DEF PostResponse
  <1>4. /\ Posted(s, k) => Posted(s, k)'
        /\ Asked(s, k) => Asked(s, k)'
        /\ r = "done" /\ Alive(x) => In(inbox'[x], m)
    BY <1>1, <1>2, DeliverStays
  <1>5. \A u \in Service \ {t} : address'[u] = address[u] /\ response'[u] = response[u]
    BY <1>3 DEF At
  <1>6. \A d \in Co : ~(ends /\ d = c) =>
          address'[t][d] = address[t][d] /\ response'[t][d] = response[t][d]
    BY <1>3 DEF At
  <1>7. CASE r = "block"
    <2>1. PICK d \in NewThread(t) :
            /\ kind' = [kind EXCEPT ![t] =
                 [y \in Co |-> IF y = d THEN "blocked"
                               ELSE IF y = c /\ ends THEN "free" ELSE @[y]]]
            /\ held' = At(held, t, d, m)
      BY <1>2, <1>7
    <2>2. d \in Co /\ kind[t][d] = "free" BY Threads
    <2>3. /\ \A y \in Co : kind'[t][y] = IF y = d THEN "blocked"
                             ELSE IF y = c /\ ends THEN "free" ELSE kind[t][y]
          /\ \A y \in Co : held'[t][y] = IF y = d THEN m ELSE held[t][y]
          /\ \A u \in Service \ {t} : kind'[u] = kind[u] /\ held'[u] = held[u]
      BY <2>1, <2>2 DEF At
    <2>4. \A y \in Co : HeldBy(t, y, s, k) => HeldBy(t, y, s, k)'
      BY <2>2, <2>3 DEF HeldBy, Alive
    <2>5. ASSUME x = s, j = k PROVE Comes(s, k)'
      <3>1. HeldBy(t, d, s, k)' BY <2>2, <2>3, <2>5 DEF HeldBy, Alive
      <3> QED BY <2>2, <3>1 DEF Comes, InService
    <2>6. \A y \in Co : kind[t][y] = "session" /\ ~(ends /\ y = c) => kind'[t][y] = "session"
      BY <2>2, <2>3
    <2> QED BY <1>4, <1>5, <1>6, <2>3, <2>4, <2>5, <2>6 DEF PostedBy
  <1>8. CASE r # "block"
    <2>1. /\ held' = held
          /\ \A y \in Co : kind'[t][y] = IF ends /\ y = c THEN "free" ELSE kind[t][y]
          /\ \A u \in Service \ {t} : kind'[u] = kind[u]
      BY <1>2, <1>8 DEF At
    <2>2. \A y \in Co : HeldBy(t, y, s, k) => HeldBy(t, y, s, k)'
      BY <2>1 DEF HeldBy, Alive
    <2>3. ASSUME x = s, j = k PROVE Comes(s, k)'
      <3>1. r = "done" BY <1>1, <1>8, <2>3, LivingReceipt
      <3>2. In(inbox'[s], AnswerTo(s, k)) BY <1>4, <2>3, <3>1
      <3> QED BY <3>2 DEF Comes, Posted
    <2> QED BY <1>4, <1>5, <1>6, <2>1, <2>2, <2>3 DEF PostedBy
  <1> QED BY <1>7, <1>8

\* The handler answers, or fails and answers with the error (service.lua:299-326).
LEMMA RespondStays ==
  ASSUME Inv, NEW t \in Service, Respond(t),
         NEW s \in Service, NEW k \in Session, Alive(s)
  PROVE  Stays(s, k)
  <1>1. PICK c : c = running_thread[t] OBVIOUS
  <1>2. c \in Co /\ Alive(t) /\ kind[t][c] \in {"session", "fork"}
    BY <1>1, Running DEF Respond, Handles, Inv
  <1>3. PICK x, j : x = address[t][c] /\ j = response[t][c] OBVIOUS
  <1>4. x \in Service /\ j \in Session
    <2>1. c \in Open(t) /\ response[t][c] # nil BY <1>1 DEF Respond, Answer
    <2>2. AnswerTo(x, j) \in Reply BY <1>3, <2>1, OpenIsReply DEF Inv
    <2>3. AnswerTo(x, j).to \in Service /\ AnswerTo(x, j).session \in Session
      BY <2>2, MessageFields DEF Reply
    <2> QED BY <2>3, Fields
  <1>5. PostResponse(t, c, AnswerTo(x, j), TRUE) BY <1>1, <1>3 DEF Respond, Answer
  <1>6. /\ running_thread' = [running_thread EXCEPT ![t] = none]
        /\ UNCHANGED <<status, quitVars, timerVars, rootVars, lost>>
    BY DEF Respond
  <1>7. PostedBy(t, c, x, j, TRUE, s, k)
    <2>1. kind[t][c] # "blocked" /\ Alive(t) /\ TRUE \in BOOLEAN BY <1>2
    <2>2. UNCHANGED status BY <1>6
    <2> QED BY <1>2, <1>4, <1>5, <2>1, <2>2, PostStays
  <1>8. \A u \in Service \ {t} : Rests(u) BY <1>6, <1>7, Columns DEF PostedBy, Rests, quitVars
  <1>9. \A d \in Co : HeldBy(t, d, s, k) => Comes(s, k)' BY <1>7 DEF PostedBy, Comes, InService
  <1>10. ASSUME NEW d \in Co, HandledBy(t, d, s, k) PROVE Comes(s, k)'
    <2>1. CASE d = c BY <1>3, <1>7, <1>10, <2>1 DEF PostedBy, HandledBy
    <2>2. CASE d # c
      <3>1. ~Quits(t)' BY <1>6, Columns, Constants DEF Quits, Runs
      <3>2. HandledBy(t, d, s, k)'
        BY <1>6, <1>7, <1>10, <2>2, <3>1, Columns DEF PostedBy, HandledBy, Passed, quitVars, Alive
      <3> QED BY <3>2 DEF Comes, InService
    <2> QED BY <2>1, <2>2
  <1>11. WithTimer(s, k) \/ WithRoot(s, k) \/ <<s, k>> \in lost => Comes(s, k)'
    BY <1>6, SameTimer, SameRoot DEF Comes
  <1> QED BY <1>7, <1>8, <1>9, <1>10, <1>11, OneSteps DEF PostedBy, Stays, Comes

\* ltask.quit answers an open session with an error (service.lua:636-646).
LEMMA QuitRaiseStays ==
  ASSUME Inv, NEW t \in Service, NEW c \in Co, QuitRaise(t, c),
         NEW s \in Service, NEW k \in Session, Alive(s)
  PROVE  Stays(s, k)
  <1>1. Alive(t) /\ Quits(t) /\ c \in todo[t] \cap Open(t) /\ response[t][c] # nil
    BY DEF QuitRaise, Quits, Runs
  <1>2. PICK x, j : x = address[t][c] /\ j = response[t][c] OBVIOUS
  <1>3. x \in Service /\ j \in Session
    <2>1. c \in Open(t) BY <1>1
    <2>2. AnswerTo(x, j) \in Reply BY <1>1, <1>2, <2>1, OpenIsReply DEF Inv
    <2>3. AnswerTo(x, j).to \in Service /\ AnswerTo(x, j).session \in Session
      BY <2>2, MessageFields DEF Reply
    <2> QED BY <2>3, Fields
  <1>4. PostResponse(t, c, AnswerTo(x, j), FALSE) BY <1>2 DEF QuitRaise
  <1>5. /\ todo' = [todo EXCEPT ![t] = @ \ {c}]
        /\ UNCHANGED <<status, running_thread, quit, timerVars, rootVars, lost>>
    BY DEF QuitRaise
  <1>6. PostedBy(t, c, x, j, FALSE, s, k)
    <2>1. UNCHANGED status BY <1>5
    <2> QED BY <1>1, <1>3, <1>4, <2>1, PostStays
  <1>7. \A u \in Service \ {t} : Rests(u) BY <1>5, <1>6, Columns DEF PostedBy, Rests
  <1>8. \A d \in Co : HeldBy(t, d, s, k) => Comes(s, k)' BY <1>6 DEF PostedBy, Comes, InService
  <1>9. ASSUME NEW d \in Co, HandledBy(t, d, s, k) PROVE Comes(s, k)'
    <2>1. CASE d = c BY <1>2, <1>6, <1>9, <2>1 DEF PostedBy, HandledBy
    <2>2. CASE d # c
      <3>1. ~quit[t] /\ d \in todo[t] BY <1>1, <1>9 DEF HandledBy, Passed
      <3>2. ~quit'[t] /\ d \in todo'[t] BY <1>5, <2>2, <3>1, Columns
      <3>3. HandledBy(t, d, s, k)'
        BY <1>5, <1>6, <1>9, <3>2 DEF PostedBy, HandledBy, Passed, Alive
      <3> QED BY <3>3 DEF Comes, InService
    <2> QED BY <2>1, <2>2
  <1>10. WithTimer(s, k) \/ WithRoot(s, k) \/ <<s, k>> \in lost => Comes(s, k)'
    BY <1>5, SameTimer, SameRoot DEF Comes
  <1> QED BY <1>6, <1>7, <1>8, <1>9, <1>10, OneSteps DEF PostedBy, Stays, Comes

\* Coroutine c of t ends, which is not a handler that has to answer
\* (service.lua:299-326).
LEMMA FinishStays ==
  ASSUME Inv, NEW t \in Service, NEW c \in Co, Finish(t, c), UNCHANGED <<status, quit>>,
         NEW s \in Service, NEW k \in Session,
         running_thread' = [running_thread EXCEPT ![t] = none],
         \A u \in Service \ {t} : todo'[u] = todo[u],
         kind[t][c] # "session" \/ c \notin Open(t),
         kind[t][c] # "blocked" \/ (held[t][c] = AnswerTo(s, k) => Comes(s, k)'),
         InService(s, k)
  PROVE  Comes(s, k)'
  <1>1. /\ \A d \in Co : d # c =>
             /\ kind'[t][d] = kind[t][d] /\ address'[t][d] = address[t][d]
             /\ response'[t][d] = response[t][d] /\ held'[t][d] = held[t][d]
        /\ \A u \in Service \ {t} :
             /\ kind'[u] = kind[u] /\ address'[u] = address[u]
             /\ response'[u] = response[u] /\ held'[u] = held[u]
    BY Columns DEF Finish, At
  <1>2. \A u \in Service \ {t} : Rests(u) BY <1>1, Columns DEF Rests
  <1>3. ASSUME NEW d \in Co, HeldBy(t, d, s, k) PROVE Comes(s, k)'
    <2>1. CASE d = c BY <1>3, <2>1 DEF HeldBy
    <2>2. CASE d # c
      <3>1. HeldBy(t, d, s, k)' BY <1>1, <1>3, <2>2 DEF HeldBy, Alive
      <3> QED BY <3>1 DEF Comes, InService
    <2> QED BY <2>1, <2>2
  <1>4. ASSUME NEW d \in Co, HandledBy(t, d, s, k) PROVE Comes(s, k)'
    <2>1. d # c
      <3>1. address[t][d] # none /\ response[t][d] # SESSION_SEND_MESSAGE
        BY <1>4, Constants, Sessions DEF HandledBy
      <3>2. d \in Open(t) BY <3>1 DEF Open
      <3> QED BY <1>4, <3>2 DEF HandledBy
    <2>2. ~Quits(t)' BY Columns, Constants DEF Quits, Runs
    <2>3. HandledBy(t, d, s, k)' BY <1>1, <1>4, <2>1, <2>2 DEF HandledBy, Passed, Alive
    <2> QED BY <2>3 DEF Comes, InService
  <1> QED BY <1>2, <1>3, <1>4, OneSteps

LEMMA EndStays ==
  ASSUME Inv, NEW t \in Service, End(t), NEW s \in Service, NEW k \in Session, Alive(s)
  PROVE  Stays(s, k)
  <1>1. PICK c : c = running_thread[t] OBVIOUS
  <1>2. c \in Co /\ kind[t][c] \in {"session", "fork"} /\ c \notin Open(t) /\ Finish(t, c)
    BY <1>1, Running DEF End, Handles, Inv
  <1>3. /\ running_thread' = [running_thread EXCEPT ![t] = none]
        /\ UNCHANGED <<status, inbox, quitVars, timerVars, rootVars, lost>>
    BY DEF End
  <1>4. InService(s, k) => Comes(s, k)' BY <1>2, <1>3, FinishStays DEF quitVars
  <1>5. Posted(s, k) \/ Asked(s, k) => Comes(s, k)' BY <1>3, SamePost DEF Comes
  <1>6. WithTimer(s, k) \/ WithRoot(s, k) \/ <<s, k>> \in lost => Comes(s, k)'
    BY <1>3, SameTimer, SameRoot DEF Comes
  <1> QED BY <1>4, <1>5, <1>6 DEF Stays, Comes

LEMMA HandOverStays ==
  ASSUME Inv, NEW t \in Service, HandOver(t), NEW s \in Service, NEW k \in Session, Alive(s)
  PROVE  Stays(s, k)
  <1>1. PICK c : c = running_thread[t] OBVIOUS
  <1>2. c \in Co /\ kind[t][c] = "blocked" /\ Finish(t, c)
    BY <1>1, Running DEF HandOver, Inv
  <1>3. /\ running_thread' = [running_thread EXCEPT ![t] = none]
        /\ rootbox' = Append(rootbox, held[t][c])
        /\ UNCHANGED <<status, inbox, quitVars, timerVars, retry, at, raises, forked, lost>>
    BY <1>1 DEF HandOver
  <1>4. PICK m : m = held[t][c] OBVIOUS
  <1>5. m \in Message BY <1>2, <1>4 DEF Inv, Coroutines, Reply
  <1>6. \A y : In(rootbox', y) <=> In(rootbox, y) \/ y = m
    BY <1>3, <1>4, <1>5, AppendIn, Queues
  <1>7. held[t][c] = AnswerTo(s, k) => Comes(s, k)' BY <1>4, <1>6 DEF Comes, WithRoot
  <1>8. InService(s, k) => Comes(s, k)' BY <1>2, <1>3, <1>7, FinishStays DEF quitVars
  <1>9. Posted(s, k) \/ Asked(s, k) => Comes(s, k)' BY <1>3, SamePost DEF Comes
  <1>10. WithRoot(s, k) => Comes(s, k)' BY <1>3, <1>6 DEF WithRoot, From, Comes
  <1>11. WithTimer(s, k) \/ <<s, k>> \in lost => Comes(s, k)' BY <1>3, SameTimer DEF Comes
  <1> QED BY <1>8, <1>9, <1>10, <1>11 DEF Stays, Comes

\* ltask.quit is done when it has answered all (service.lua:636-646).
LEMMA QuitDoneStays ==
  ASSUME Inv, NEW t \in Service, QuitDone(t), NEW s \in Service, NEW k \in Session, Alive(s)
  PROVE  Stays(s, k)
  <1>1. PICK c : c = running_thread[t] OBVIOUS
  <1>2. c \in Co /\ kind[t][c] = "quit" /\ Finish(t, c) /\ Quits(t)
    BY <1>1, Running DEF QuitDone, Quits, Inv
  <1>3. /\ running_thread' = [running_thread EXCEPT ![t] = none]
        /\ todo' = [todo EXCEPT ![t] = {}]
        /\ UNCHANGED <<status, inbox, timerVars, rootVars, lost>>
    BY DEF QuitDone
  <1>4. InService(s, k) => Comes(s, k)'
    <2>1. CASE UNCHANGED quit BY <1>2, <1>3, <2>1, FinishStays, Columns
    <2>2. CASE todo[t] \cap Open(t) = {} /\ quit' = [quit EXCEPT ![t] = TRUE]
      <3>1. /\ \A d \in Co : d # c =>
                 /\ kind'[t][d] = kind[t][d] /\ held'[t][d] = held[t][d]
            /\ \A u \in Service \ {t} :
                 /\ kind'[u] = kind[u] /\ address'[u] = address[u]
                 /\ response'[u] = response[u] /\ held'[u] = held[u]
        BY <1>2, Columns DEF Finish, At
      <3>2. \A u \in Service \ {t} : Rests(u) BY <1>3, <2>2, <3>1, Columns DEF Rests
      <3>3. ASSUME NEW d \in Co, HeldBy(t, d, s, k) PROVE Comes(s, k)'
        <4>1. HeldBy(t, d, s, k)' BY <1>2, <1>3, <3>1, <3>3 DEF HeldBy, Alive
        <4> QED BY <4>1 DEF Comes, InService
      <3>4. ASSUME NEW d \in Co, HandledBy(t, d, s, k) PROVE FALSE
        <4>1. address[t][d] # none /\ response[t][d] # SESSION_SEND_MESSAGE
          BY <3>4, Constants, Sessions DEF HandledBy
        <4>2. d \in Open(t) /\ d \in todo[t]
          BY <1>2, <3>4, <4>1 DEF Open, HandledBy, Passed
        <4> QED BY <2>2, <4>2
      <3> QED BY <3>2, <3>3, <3>4, OneSteps
    <2> QED BY <2>1, <2>2 DEF QuitDone
  <1>5. Posted(s, k) \/ Asked(s, k) => Comes(s, k)' BY <1>3, SamePost DEF Comes
  <1>6. WithTimer(s, k) \/ WithRoot(s, k) \/ <<s, k>> \in lost => Comes(s, k)'
    BY <1>3, SameTimer, SameRoot DEF Comes
  <1> QED BY <1>4, <1>5, <1>6 DEF Stays, Comes

\* A request becomes a handler (service.lua:752-770).
LEMMA RecvRequestStays ==
  ASSUME Inv, NEW t \in Service, RecvRequest(t), NEW s \in Service, NEW k \in Session
  PROVE  Stays(s, k)
  <1>1. PICK m : m = Head(inbox[t]) OBVIOUS
  <1>2. m \in Message
    <2>1. inbox[t] \in Seq(Message) /\ inbox[t] # <<>> BY Queues DEF RecvRequest, Receives
    <2> QED BY <1>1, <2>1, HeadTailProperties
  <1>3. /\ Alive(t) /\ ~quit[t] /\ inbox[t] # <<>> /\ m.typ = "request"
        /\ inbox' = [inbox EXCEPT ![t] = Tail(@)]
        /\ UNCHANGED <<status, held, quitVars, timerVars, rootVars, lost>>
    BY <1>1 DEF RecvRequest, Receives, Idle
  <1>4. PICK c \in NewThread(t) :
          /\ kind' = At(kind, t, c, "session")
          /\ address' = At(address, t, c, m.from)
          /\ response' = At(response, t, c, m.session)
          /\ running_thread' = [running_thread EXCEPT ![t] = c]
    BY <1>1 DEF RecvRequest
  <1>5. c \in Co /\ kind[t][c] = "free" BY Threads
  <1>6. /\ kind'[t][c] = "session" /\ address'[t][c] = m.from /\ response'[t][c] = m.session
        /\ running_thread'[t] = c
        /\ \A d \in Co : d # c =>
             /\ kind'[t][d] = kind[t][d] /\ address'[t][d] = address[t][d]
             /\ response'[t][d] = response[t][d]
        /\ \A u \in Service \ {t} :
             /\ kind'[u] = kind[u] /\ address'[u] = address[u]
             /\ response'[u] = response[u] /\ running_thread'[u] = running_thread[u]
    BY <1>4, <1>5, Columns DEF At
  <1>7. \A u \in Service \ {t} : Rests(u) BY <1>3, <1>6 DEF Rests, quitVars
  <1>8. \A d \in Co : ~Passed(t, d)'
    BY <1>3, <1>6 DEF Passed, Quits, Runs, quitVars
  <1>9. ASSUME NEW d \in Co, HeldBy(t, d, s, k) PROVE Comes(s, k)'
    <2>1. HeldBy(t, d, s, k)' BY <1>3, <1>5, <1>6, <1>9 DEF HeldBy, Alive
    <2> QED BY <2>1 DEF Comes, InService
  <1>10. ASSUME NEW d \in Co, HandledBy(t, d, s, k) PROVE Comes(s, k)'
    <2>1. HandledBy(t, d, s, k)' BY <1>3, <1>5, <1>6, <1>8, <1>10 DEF HandledBy, Alive
    <2> QED BY <2>1 DEF Comes, InService
  <1>11. /\ Posted(s, k) => Posted(s, k)' \/ m = AnswerTo(s, k)
         /\ Asked(s, k) => Asked(s, k)' \/ m = Asking(s, t, k)
    BY <1>1, <1>3, TakeStays
  <1>12. m # AnswerTo(s, k) BY <1>3, Fields
  <1>13. ASSUME m = Asking(s, t, k) PROVE Comes(s, k)'
    <2>1. m.from = s /\ m.session = k BY <1>13, Fields
    <2>2. HandledBy(t, c, s, k)' BY <1>3, <1>5, <1>6, <1>8, <2>1 DEF HandledBy, Alive
    <2> QED BY <1>5, <2>2 DEF Comes, InService
  <1>14. WithTimer(s, k) \/ WithRoot(s, k) \/ <<s, k>> \in lost => Comes(s, k)'
    BY <1>3, SameTimer, SameRoot DEF Comes
  <1> QED BY <1>7, <1>9, <1>10, <1>11, <1>12, <1>13, <1>14, OneSteps DEF Stays, Comes

\* The one who waited for the answer has it (service.lua:790-800).
LEMMA RecvAnswerStays ==
  ASSUME Inv, QuitAwake, NEW t \in Service, RecvAnswer(t),
         NEW s \in Service, NEW k \in Session, lookup'[s][k] # none
  PROVE  Stays(s, k)
  <1>1. PICK m : m = Head(inbox[t]) OBVIOUS
  <1>2. m.session \in Session
    <2>1. m \in Mail(t)
      BY <1>1, HeadTailProperties DEF RecvAnswer, Receives, Inv, Inboxes
    <2> QED BY <1>1, <2>1 DEF RecvAnswer, Mail, ReplyTo, Reply, Question
  <1>3. PICK x : x = lookup[t][m.session] OBVIOUS
  <1>4. /\ Alive(t) /\ inbox[t] # <<>> /\ m.typ = "answer"
        /\ inbox' = [inbox EXCEPT ![t] = Tail(@)]
        /\ running_thread' = [running_thread EXCEPT ![t] = x]
        /\ lookup' = At(lookup, t, m.session, none)
        /\ UNCHANGED <<status, coVars, quitVars, timerVars, rootVars, lost>>
    BY <1>1, <1>3 DEF RecvAnswer, Receives, Idle
  <1>5. x \in Co \cup {none} BY <1>2, <1>3 DEF Inv, Lookups
  <1>6. x # none => kind[t][x] # "quit" BY <1>2, <1>3, <1>4, <1>5 DEF QuitAwake, Awaits
  <1>7. InService(s, k) => Comes(s, k)' BY <1>4, <1>5, <1>6, GoesOn
  <1>8. m # AnswerTo(s, k) \/ s # t
    BY <1>2, <1>4, Fields DEF At, Inv, Lookups
  <1>9. m # Asking(s, t, k) BY <1>4, Fields
  <1>10. /\ Posted(s, k) => Posted(s, k)' \/ (s = t /\ m = AnswerTo(s, k))
         /\ Asked(s, k) => Asked(s, k)' \/ m = Asking(s, t, k)
    BY <1>1, <1>4, TakeStays
  <1>11. WithTimer(s, k) \/ WithRoot(s, k) \/ <<s, k>> \in lost => Comes(s, k)'
    BY <1>4, SameTimer, SameRoot DEF Comes
  <1> QED BY <1>7, <1>8, <1>9, <1>10, <1>11 DEF Stays, Comes

\* When it is the turn of ltask.quit, it has all open sessions to answer.
LEMMA WakeupNextStays ==
  ASSUME Inv, NEW t \in Service, WakeupNext(t), NEW s \in Service, NEW k \in Session
  PROVE  Stays(s, k)
  <1>1. PICK c : c = Head(wakeup_queue[t]) OBVIOUS
  <1>2. /\ Alive(t)
        /\ running_thread' = [running_thread EXCEPT ![t] = c]
        /\ todo' = IF kind[t][c] = "quit"
                   THEN [todo EXCEPT ![t] = {d \in Co : address[t][d] # none}] ELSE todo
        /\ UNCHANGED <<status, inbox, quit, coVars, timerVars, rootVars, lost>>
    BY <1>1 DEF WakeupNext, Idle
  <1>3. \A u \in Service \ {t} : Rests(u) BY <1>2, Columns DEF Rests, coVars
  <1>4. ASSUME NEW d \in Co, HeldBy(t, d, s, k) PROVE Comes(s, k)'
    <2>1. HeldBy(t, d, s, k)' BY <1>2, <1>4 DEF HeldBy, Alive, coVars
    <2> QED BY <2>1 DEF Comes, InService
  <1>5. ASSUME NEW d \in Co, HandledBy(t, d, s, k) PROVE Comes(s, k)'
    <2>1. address[t][d] # none /\ ~quit[t] BY <1>5, Constants DEF HandledBy, Passed
    <2>2. running_thread'[t] = c BY <1>2, Columns
    <2>3. kind[t][c] = "quit" => d \in todo'[t] BY <1>2, <2>1, Columns
    <2>4. ~Passed(t, d)' BY <1>2, <2>1, <2>2, <2>3 DEF Passed, Quits, Runs, coVars
    <2>5. HandledBy(t, d, s, k)' BY <1>2, <1>5, <2>4 DEF HandledBy, Alive, coVars
    <2> QED BY <2>5 DEF Comes, InService
  <1>6. Posted(s, k) \/ Asked(s, k) => Comes(s, k)' BY <1>2, SamePost DEF Comes
  <1>7. WithTimer(s, k) \/ WithRoot(s, k) \/ <<s, k>> \in lost => Comes(s, k)'
    BY <1>2, SameTimer, SameRoot DEF Comes
  <1> QED BY <1>3, <1>4, <1>5, <1>6, <1>7, OneSteps DEF Stays, Comes

\* What a service has when it ends is lost (service.lua:860-880).
LEMMA DieStays ==
  ASSUME Inv, NEW t \in Service, Die(t), NEW C, Lose(C), Holds(t) \subseteq C,
         NEW s \in Service, NEW k \in Session, s # t,
         \A c \in Co : HandledBy(t, c, s, k) => <<s, k>> \in C
  PROVE  Stays(s, k)
  <1> USE DEF Lose
  <1>1. \A u \in Service \ {t} : Rests(u) BY Columns DEF Die, Rests
  <1>2. ASSUME NEW c \in Co, HeldBy(t, c, s, k) PROVE Comes(s, k)'
    <2>1. <<held[t][c].to, held[t][c].session>> \in Holds(t) BY <1>2 DEF Holds, HeldBy
    <2>2. held[t][c].to = s /\ held[t][c].session = k BY <1>2, Fields DEF HeldBy
    <2> QED BY <2>1, <2>2 DEF Comes
  <1>3. \A c \in Co : HandledBy(t, c, s, k) => Comes(s, k)' BY DEF Comes
  <1>4. Posted(s, k) \/ Asked(s, k) => Comes(s, k)'
    <2>1. UNCHANGED inbox /\ \A u \in Service : status[u] # "closed" => status'[u] # "closed"
      BY Columns DEF Die
    <2> QED BY <2>1, SamePost DEF Comes
  <1>5. WithTimer(s, k) => Comes(s, k)'
    <2>1. timer'[s] = timer[s] /\ blocked'[s] = blocked[s] BY Queues DEF Die
    <2>2. From(turn, s)' = From(turn, s) BY Constants DEF Die, From, NoPlace
    <2> QED BY <2>1, <2>2 DEF WithTimer, Comes
  <1>6. WithRoot(s, k) \/ <<s, k>> \in lost => Comes(s, k)' BY SameRoot DEF Die, Comes
  <1> QED BY <1>1, <1>2, <1>3, <1>4, <1>5, <1>6, OneSteps DEF Stays, Comes

LEMMA DeadStays ==
  ASSUME NEW t \in Service, Inv, Die(t), NEW s \in Service, Alive(s)' PROVE s # t
  BY Columns DEF Die, Alive

LEMMA ExitStays ==
  ASSUME Inv, NEW t \in Service, Exit(t), NEW s \in Service, NEW k \in Session, Alive(s)'
  PROVE  Stays(s, k)
  <1>1. PICK C : C = Holds(t) OBVIOUS
  <1>2. Die(t) /\ Lose(C) /\ quit[t] BY <1>1 DEF Exit
  <1>3. s # t BY <1>2, DeadStays
  <1>4. \A c \in Co : ~HandledBy(t, c, s, k) BY <1>2 DEF HandledBy, Passed
  <1> QED BY <1>1, <1>2, <1>3, <1>4, DieStays

LEMMA CrashStays ==
  ASSUME Inv, NEW t \in Service, Crash(t), NEW s \in Service, NEW k \in Session, Alive(s)'
  PROVE  Stays(s, k)
  <1>1. PICK C : C = {<<address[t][c], response[t][c]>> : c \in Open(t)} \cup Holds(t) OBVIOUS
  <1>2. Die(t) /\ Lose(C) BY <1>1 DEF Crash
  <1>3. s # t BY <1>2, DeadStays
  <1>4. ASSUME NEW c \in Co, HandledBy(t, c, s, k) PROVE <<s, k>> \in C
    <2>1. c \in Open(t) BY <1>4, Constants, Sessions DEF HandledBy, Open
    <2> QED BY <1>1, <1>4, <2>1 DEF HandledBy
  <1> QED BY <1>1, <1>2, <1>3, <1>4, DieStays

\* What goes on when a coroutine of t waits, or another goes on.
LEMMA QuietStays ==
  ASSUME Inv, NEW t \in Service,
         UNCHANGED <<status, inbox, coVars, quitVars, rootVars, lost>>,
         running_thread' = running_thread \/ running_thread' = [running_thread EXCEPT ![t] = none],
         NEW s \in Service, NEW k \in Session
  PROVE  /\ Posted(s, k) \/ Asked(s, k) \/ InService(s, k) => Comes(s, k)'
         /\ WithRoot(s, k) \/ <<s, k>> \in lost => Comes(s, k)'
  <1>1. Posted(s, k) \/ Asked(s, k) => Comes(s, k)' BY SamePost DEF Comes
  <1>2. WithRoot(s, k) \/ <<s, k>> \in lost => Comes(s, k)' BY SameRoot DEF Comes
  <1>3. InService(s, k) => Comes(s, k)'
    <2>1. CASE running_thread' = running_thread
      <3>1. \A u \in Service : Rests(u) BY <2>1 DEF Rests, coVars, quitVars
      <3> QED BY <3>1, NobodySteps DEF Comes
    <2>2. CASE running_thread' = [running_thread EXCEPT ![t] = none]
      BY <2>2, GoesOn
    <2> QED BY <2>1, <2>2
  <1> QED BY <1>1, <1>2, <1>3

LEMMA CallStays ==
  ASSUME Inv, NEW t \in Service, NEW u \in Service, Call(t, u),
         NEW s \in Service, NEW k \in Session
  PROVE  Stays(s, k) /\ (s = t /\ k = session_id[t] => Comes(s, k)')
  <1>1. PICK j : j = session_id[t] OBVIOUS
  <1>2. PICK m : m = Asking(t, u, j) OBVIOUS
  <1>3. /\ j \in Session
        /\ running_thread' = [running_thread EXCEPT ![t] = none]
        /\ Deliver(m, "done")
        /\ Lose(IF Alive(u) THEN {} ELSE {<<t, j>>})
        /\ UNCHANGED <<status, coVars, quitVars, timerVars, rootVars>>
    BY <1>1, <1>2, Constants DEF Call, Suspend, Asking, Inv, Statuses
  <1>4. m \in Message /\ m.to = u BY <1>2, <1>3, Fields
  <1>5. /\ Posted(s, k) => Posted(s, k)'
        /\ Asked(s, k) => Asked(s, k)'
        /\ Alive(u) => In(inbox'[u], m)
    BY <1>3, <1>4, DeliverStays
  <1>6. InService(s, k) => Comes(s, k)' BY <1>3, GoesOn
  <1>7. WithTimer(s, k) \/ WithRoot(s, k) \/ <<s, k>> \in lost => Comes(s, k)'
    BY <1>3, SameTimer, SameRoot DEF Comes, Lose
  <1>8. ASSUME s = t, k = j PROVE Comes(s, k)'
    <2>1. CASE Alive(u)
      <3>1. status'[u] # "closed" BY <1>3, <2>1 DEF Alive
      <3> QED BY <1>2, <1>5, <1>8, <2>1, <3>1 DEF Asked, Comes
    <2>2. CASE ~Alive(u) BY <1>3, <1>8, <2>2 DEF Lose, Comes
    <2> QED BY <2>1, <2>2
  <1> QED BY <1>1, <1>5, <1>6, <1>7, <1>8 DEF Stays, Comes

LEMMA SendStays ==
  ASSUME Inv, NEW t \in Service, NEW u \in Service, Send(t, u),
         NEW s \in Service, NEW k \in Session
  PROVE  Stays(s, k)
  <1>1. PICK m : m = [typ |-> "request", from |-> t, to |-> u, session |-> SESSION_SEND_MESSAGE]
    OBVIOUS
  <1>2. /\ Deliver(m, "done")
        /\ UNCHANGED <<status, running_thread, coVars, quitVars, timerVars, rootVars, lost>>
    BY <1>1 DEF Send, loopVars
  <1>3. m \in Message BY <1>1 DEF Message
  <1>4. Posted(s, k) \/ Asked(s, k) => Comes(s, k)' BY <1>2, <1>3, DeliverStays DEF Comes
  <1>5. \A x \in Service : Rests(x) BY <1>2 DEF Rests, coVars, quitVars
  <1>6. InService(s, k) => Comes(s, k)' BY <1>5, NobodySteps DEF Comes
  <1>7. WithTimer(s, k) \/ WithRoot(s, k) \/ <<s, k>> \in lost => Comes(s, k)'
    BY <1>2, SameTimer, SameRoot DEF Comes
  <1> QED BY <1>4, <1>6, <1>7 DEF Stays, Comes

\* A coroutine that waits for a time (service.lua:458-467, 237-248).
LEMMA AddTimerStays ==
  ASSUME Inv, NEW t \in Service, NEW j \in Session, AddTimer(t, j),
         running_thread' = [running_thread EXCEPT ![t] = none],
         UNCHANGED <<status, inbox, coVars, quitVars, rootVars, lost>>,
         NEW s \in Service, NEW k \in Session
  PROVE  Stays(s, k) /\ (s = t /\ k = j => Comes(s, k)')
  <1>1. /\ Posted(s, k) \/ Asked(s, k) \/ InService(s, k) => Comes(s, k)'
        /\ WithRoot(s, k) \/ <<s, k>> \in lost => Comes(s, k)'
    BY QuietStays
  <1>2. /\ timer'[t] = timer[t] \cup {j} /\ \A x \in Service \ {t} : timer'[x] = timer[x]
        /\ UNCHANGED <<blocked, turn>>
    BY Queues DEF AddTimer
  <1>3. WithTimer(s, k) \/ (s = t /\ k = j) => WithTimer(s, k)' BY <1>2 DEF WithTimer, From
  <1> QED BY <1>1, <1>3 DEF Stays, Comes

LEMMA SleepStays ==
  ASSUME Inv, NEW t \in Service, Sleep(t) \/ HandOverBlocked(t),
         NEW s \in Service, NEW k \in Session
  PROVE  Stays(s, k) /\ (s = t /\ k = session_id[t] => Comes(s, k)')
  <1>1. PICK j : j = session_id[t] OBVIOUS
  <1>2. /\ j \in Session /\ AddTimer(t, j)
        /\ running_thread' = [running_thread EXCEPT ![t] = none]
        /\ UNCHANGED <<status, inbox, coVars, quitVars, rootVars, lost>>
    BY <1>1, Constants DEF Sleep, HandOverBlocked, Suspend, Inv, Statuses
  <1> QED BY <1>1, <1>2, AddTimerStays

LEMMA WaitStays ==
  ASSUME Inv, NEW t \in Service, Wait(t) \/ \E d \in Co : Wakeup(t, d),
         NEW s \in Service, NEW k \in Session
  PROVE  Stays(s, k)
  <1>1. /\ UNCHANGED <<status, inbox, coVars, quitVars, timerVars, rootVars, lost>>
        /\ running_thread' = running_thread \/ running_thread' = [running_thread EXCEPT ![t] = none]
    BY DEF Wait, Wakeup
  <1>2. /\ Posted(s, k) \/ Asked(s, k) \/ InService(s, k) => Comes(s, k)'
        /\ WithRoot(s, k) \/ <<s, k>> \in lost => Comes(s, k)'
    BY <1>1, QuietStays
  <1>3. WithTimer(s, k) => Comes(s, k)' BY <1>1, SameTimer DEF Comes
  <1> QED BY <1>2, <1>3 DEF Stays, Comes

LEMMA ForkStays ==
  ASSUME Inv, NEW t \in Service, NEW y \in {"fork", "quit"}, Fork(t, y),
         NEW s \in Service, NEW k \in Session
  PROVE  Stays(s, k)
  <1>1. PICK d \in NewThread(t) : kind' = At(kind, t, d, y) BY DEF Fork
  <1>2. d \in Co /\ kind[t][d] = "free" BY Threads
  <1>3. UNCHANGED <<status, inbox, running_thread, quitVars, address, response, held,
                    timerVars, rootVars, lost>> /\ Handles(t)
    BY DEF Fork
  <1>4. /\ \A c \in Co : c # d => kind'[t][c] = kind[t][c]
        /\ \A u \in Service \ {t} : kind'[u] = kind[u]
    BY <1>1, <1>2, Columns DEF At
  <1>5. \A u \in Service \ {t} : Rests(u) BY <1>3, <1>4 DEF Rests, quitVars
  <1>6. ASSUME NEW c \in Co, HeldBy(t, c, s, k) PROVE Comes(s, k)'
    <2>1. HeldBy(t, c, s, k)' BY <1>2, <1>3, <1>4, <1>6 DEF HeldBy, Alive
    <2> QED BY <2>1 DEF Comes, InService
  <1>7. ASSUME NEW c \in Co, HandledBy(t, c, s, k) PROVE Comes(s, k)'
    <2>1. running_thread[t] \in Co /\ kind[t][running_thread[t]] \in {"session", "fork"}
      BY <1>3, Running DEF Handles, Inv
    <2>2. kind'[t][running_thread[t]] # "quit" BY <1>2, <1>4, <2>1
    <2>3. ~Passed(t, c)' BY <1>3, <1>7, <2>2 DEF Passed, Quits, Runs, quitVars, HandledBy
    <2>4. HandledBy(t, c, s, k)' BY <1>2, <1>3, <1>4, <1>7, <2>3 DEF HandledBy, Alive
    <2> QED BY <2>4 DEF Comes, InService
  <1>8. Posted(s, k) \/ Asked(s, k) => Comes(s, k)' BY <1>3, SamePost DEF Comes
  <1>9. WithTimer(s, k) \/ WithRoot(s, k) \/ <<s, k>> \in lost => Comes(s, k)'
    BY <1>3, SameTimer, SameRoot DEF Comes
  <1> QED BY <1>5, <1>6, <1>7, <1>8, <1>9, OneSteps DEF Stays, Comes

\* A handler that says no_response takes its caller's answer with it.
LEMMA NoResponseStays ==
  ASSUME Inv, NEW t \in Service, NoResponse(t), NEW s \in Service, NEW k \in Session
  PROVE  Stays(s, k)
  <1>1. PICK c : c = running_thread[t] OBVIOUS
  <1>2. /\ c \in Co
        /\ response' = At(response, t, c, nil)
        /\ Lose({<<address[t][c], response[t][c]>>})
        /\ UNCHANGED <<status, inbox, running_thread, quitVars, kind, address, held,
                       timerVars, rootVars>>
    BY <1>1, Running DEF NoResponse, loopVars, Inv
  <1>3. /\ \A d \in Co : d # c => response'[t][d] = response[t][d]
        /\ \A u \in Service \ {t} : response'[u] = response[u]
    BY <1>2, Columns DEF At
  <1>4. \A u \in Service \ {t} : Rests(u) BY <1>2, <1>3 DEF Rests, quitVars
  <1>5. ASSUME NEW d \in Co, HeldBy(t, d, s, k) PROVE Comes(s, k)'
    <2>1. HeldBy(t, d, s, k)' BY <1>2, <1>5 DEF HeldBy, Alive
    <2> QED BY <2>1 DEF Comes, InService
  <1>6. ASSUME NEW d \in Co, HandledBy(t, d, s, k) PROVE Comes(s, k)'
    <2>1. CASE d = c BY <1>2, <1>6, <2>1 DEF HandledBy, Lose, Comes
    <2>2. CASE d # c
      <3>1. HandledBy(t, d, s, k)'
        BY <1>2, <1>3, <1>6, <2>2 DEF HandledBy, Passed, Quits, Runs, Alive, quitVars
      <3> QED BY <3>1 DEF Comes, InService
    <2> QED BY <2>1, <2>2
  <1>7. Posted(s, k) \/ Asked(s, k) => Comes(s, k)' BY <1>2, SamePost DEF Comes
  <1>8. WithTimer(s, k) \/ WithRoot(s, k) \/ <<s, k>> \in lost => Comes(s, k)'
    BY <1>2, SameTimer, SameRoot DEF Comes, Lose
  <1> QED BY <1>4, <1>5, <1>6, <1>7, <1>8, OneSteps DEF Stays, Comes

----------------------------------------------------------------------------
(* The timer and root *)

\* A loop is at a place of its queue, or at none (Place).
LEMMA FromPlace ==
  ASSUME NEW p, NEW t \in Service, p = NoPlace \/ p.to \in Service, p.to \in {none, t}
  PROVE  /\ From(p, t) = IF p = NoPlace THEN 1 ELSE p.i
         /\ \A u \in Service \ {t} : From(p, u) = 1
  BY Constants DEF From, NoPlace

LEMMA FromNone == ASSUME NEW t \in Service PROVE From(NoPlace, t) = 1
  BY Constants DEF From, NoPlace

LEMMA SendTimerStays ==
  ASSUME Inv, NEW t \in Service, NEW j \in Session, SendTimer(t, j),
         NEW s \in Service, NEW k \in Session, Alive(s)
  PROVE  Stays(s, k)
  <1>1. /\ turn = NoPlace /\ turn' = NoPlace
        /\ timer' = [timer EXCEPT ![t] = @ \ {j}]
        /\ UNCHANGED <<status, running_thread, coVars, quitVars, rootVars, lost>>
    BY DEF SendTimer, loopVars
  <1>2. From(turn, s) = 1 /\ From(turn, s)' = 1 BY <1>1, FromNone
  <1>3. \A x \in Service : Rests(x) BY <1>1 DEF Rests, coVars, quitVars
  <1>4. InService(s, k) => Comes(s, k)' BY <1>3, NobodySteps DEF Comes
  <1>5. WithRoot(s, k) \/ <<s, k>> \in lost => Comes(s, k)' BY <1>1, SameRoot DEF Comes
  <1>6. k \in timer[s] => k \in timer'[s] \/ (s = t /\ k = j) BY <1>1, Queues
  <1>7. WithTimer(s, k) <=> k \in timer[s] \/ In(blocked[s], k)
    BY <1>2, Queues, FromFirst DEF WithTimer
  <1>8. CASE blocked' = [blocked EXCEPT ![t] = Append(@, j)] /\ UNCHANGED inbox
    <2>1. \A x \in Service \ {t} : blocked'[x] = blocked[x] BY <1>8, Queues
    <2>2. blocked'[t] = Append(blocked[t], j) /\ blocked[t] \in Seq(Session) BY <1>8, Queues
    <2>3. \A y : In(blocked'[t], y) <=> In(blocked[t], y) \/ y = j BY <2>2, AppendIn
    <2>4. WithTimer(s, k) => k \in timer'[s] \/ In(blocked'[s], k) BY <1>6, <1>7, <2>1, <2>3
    <2>5. blocked'[s] \in Seq(Session)
      <3>1. blocked[s] \in Seq(Session) BY Queues
      <3>2. blocked'[t] \in Seq(Session) BY <2>2, AppendProperties
      <3> QED BY <2>1, <3>1, <3>2
    <2>6. WithTimer(s, k) => WithTimer(s, k)' BY <1>2, <2>4, <2>5, FromFirst DEF WithTimer
    <2>7. Posted(s, k) \/ Asked(s, k) => Comes(s, k)' BY <1>1, <1>8, SamePost DEF Comes
    <2> QED BY <1>4, <1>5, <2>6, <2>7 DEF Stays, Comes
  <1>9. CASE blocked[t] = <<>> /\ \E r \in Receipt(t) :
               /\ Deliver(AnswerTo(t, j), r)
               /\ blocked' = IF r = "block" THEN [blocked EXCEPT ![t] = <<j>>] ELSE blocked
    <2>1. PICK r \in Receipt(t) :
               /\ Deliver(AnswerTo(t, j), r)
               /\ blocked' = IF r = "block" THEN [blocked EXCEPT ![t] = <<j>>] ELSE blocked
      BY <1>9
    <2>2. AnswerTo(t, j) \in Message /\ AnswerTo(t, j).to = t BY Fields
    <2>3. /\ Posted(s, k) => Posted(s, k)'
          /\ Asked(s, k) => Asked(s, k)'
          /\ r = "done" /\ Alive(t) => In(inbox'[t], AnswerTo(t, j))
      BY <1>1, <2>1, <2>2, DeliverStays
    <2>4. \A y : ~In(blocked[t], y) BY <1>9 DEF In
    <2>5. ASSUME s = t, k = j PROVE Comes(s, k)'
      <3>1. r \in {"block", "done"} BY <2>1, <2>5, LivingReceipt
      <3>2. CASE r = "done" BY <2>3, <2>5, <3>2 DEF Posted, Comes
      <3>3. CASE r = "block"
        <4>1. blocked'[t] = <<j>> BY <2>1, <3>3, Queues
        <4>2. InFrom(blocked'[s], 1, k) BY <2>5, <4>1 DEF InFrom
        <4> QED BY <1>2, <4>2 DEF WithTimer, Comes
      <3> QED BY <3>1, <3>2, <3>3
    <2>6. ASSUME WithTimer(s, k), ~(s = t /\ k = j) PROVE Comes(s, k)'
      <3>1. blocked'[s] = blocked[s] \/ s = t BY <2>1, Queues
      <3>2. k \in timer'[s] \/ (s # t /\ InFrom(blocked[s], From(turn, s), k))
        BY <1>6, <1>7, <2>4, <2>6 DEF WithTimer
      <3> QED BY <1>2, <3>1, <3>2 DEF WithTimer, Comes
    <2> QED BY <1>4, <1>5, <2>3, <2>5, <2>6 DEF Stays, Comes
  <1> QED BY <1>8, <1>9 DEF SendTimer

LEMMA SendBlockedStays ==
  ASSUME Inv, NEW t \in Service, SendBlocked(t),
         NEW s \in Service, NEW k \in Session, Alive(s)
  PROVE  Stays(s, k)
  <1>1. PICK q, i : q = blocked[t] /\ i = IF turn = NoPlace THEN 1 ELSE turn.i OBVIOUS
  <1>2. PICK r \in Receipt(t) :
          /\ Deliver(AnswerTo(t, q[i]), r)
          /\ blocked' = [blocked EXCEPT ![t] =
               IF r = "block" THEN Moved(q, i) ELSE IF i = Len(q) THEN <<>> ELSE q]
          /\ turn' = IF r # "block" /\ i < Len(q) THEN [to |-> t, i |-> i + 1] ELSE NoPlace
    BY <1>1 DEF SendBlocked
  <1>3. /\ turn.to \in {none, t} /\ q # <<>>
        /\ UNCHANGED <<status, running_thread, coVars, quitVars, timer, rootVars, lost>>
    BY <1>1 DEF SendBlocked, loopVars
  <1>4. From(turn, t) = i /\ \A u \in Service \ {t} : From(turn, u) = 1
    BY <1>1, <1>3, FromPlace, Queues DEF Place
  <1>5. q \in Seq(Session) /\ i \in 1 .. Len(q)
    BY <1>1, <1>3, Queues, EmptySeq, Constants DEF Place, NoPlace
  <1>6. \A x \in Service : Rests(x) BY <1>3 DEF Rests, coVars, quitVars
  <1>7. InService(s, k) => Comes(s, k)' BY <1>6, NobodySteps DEF Comes
  <1>8. WithRoot(s, k) \/ <<s, k>> \in lost => Comes(s, k)' BY <1>3, SameRoot DEF Comes
  <1>9. AnswerTo(t, q[i]) \in Message /\ AnswerTo(t, q[i]).to = t
    <2>1. q[i] \in Session BY <1>5
    <2> QED BY <2>1, Fields
  <1>10. /\ Posted(s, k) => Posted(s, k)'
         /\ Asked(s, k) => Asked(s, k)'
         /\ r = "done" /\ Alive(t) => In(inbox'[t], AnswerTo(t, q[i]))
    BY <1>2, <1>3, <1>9, DeliverStays
  <1>11. CASE s # t
    <2>1. blocked'[s] = blocked[s] /\ timer'[s] = timer[s] BY <1>2, <1>3, <1>11, Queues
    <2>2. From(turn', s) = 1
      <3>1. turn' = NoPlace \/ turn' = [to |-> t, i |-> i + 1] BY <1>2
      <3> QED BY <1>11, <3>1, FromNone DEF From
    <2>3. WithTimer(s, k) => WithTimer(s, k)' BY <1>4, <1>11, <2>1, <2>2 DEF WithTimer
    <2> QED BY <1>7, <1>8, <1>10, <2>3 DEF Stays, Comes
  <1>12. CASE s = t
    <2>1. r \in {"block", "done"} BY <1>2, <1>12, LivingReceipt
    <2>2. ASSUME InFrom(q, i, k) PROVE Comes(s, k)'
      <3>1. CASE r = "block"
        <4>1. blocked'[t] = Moved(q, i) /\ turn' = NoPlace BY <1>2, <3>1, Queues
        <4>2. In(Moved(q, i), k) BY <1>5, <2>2, FromMoved
        <4>3. InFrom(Moved(q, i), 1, k) BY <1>5, <4>2, MovedIsSeq, FromFirst
        <4>4. From(turn', s) = 1 BY <4>1, FromNone
        <4> QED BY <1>12, <4>1, <4>3, <4>4 DEF WithTimer, Comes
      <3>2. CASE r = "done"
        <4>1. k = q[i] \/ (i < Len(q) /\ InFrom(q, i + 1, k)) BY <1>5, <2>2, FromNext
        <4>2. CASE k = q[i] BY <1>10, <1>12, <3>2, <4>2 DEF Posted, Comes
        <4>3. CASE i < Len(q) /\ InFrom(q, i + 1, k)
          <5>1. i # Len(q) BY <4>3, <1>5
          <5>2. blocked'[t] = q /\ turn' = [to |-> t, i |-> i + 1]
            BY <1>2, <3>2, <4>3, <5>1, Queues
          <5> QED BY <1>12, <4>3, <5>2 DEF WithTimer, From, Comes
        <4> QED BY <4>1, <4>2, <4>3
      <3> QED BY <2>1, <3>1, <3>2
    <2>3. WithTimer(s, k) => k \in timer'[s] \/ InFrom(q, i, k)
      BY <1>1, <1>3, <1>4, <1>12 DEF WithTimer
    <2>4. WithTimer(s, k) => Comes(s, k)' BY <2>2, <2>3 DEF WithTimer, Comes
    <2> QED BY <1>7, <1>8, <1>10, <2>4 DEF Stays, Comes
  <1> QED BY <1>11, <1>12

LEMMA SendRetryStays ==
  ASSUME Inv, SendRetry, NEW s \in Service, NEW k \in Session
  PROVE  Stays(s, k)
  <1>1. PICK m : m = Head(rootbox) OBVIOUS
  <1>2. /\ at = NoPlace /\ rootbox # <<>> /\ rootbox' = Tail(rootbox)
        /\ retry' = [retry EXCEPT ![m.to] = Append(@, m)]
        /\ UNCHANGED <<status, inbox, running_thread, coVars, quitVars, timerVars, at,
                       raises, forked, lost>>
    BY <1>1 DEF SendRetry, loopVars
  <1>3. rootbox \in Seq(Message) BY Queues
  <1>4. m \in Message /\ m.to \in Service
    BY <1>1, <1>2, <1>3, HeadTailProperties, MessageFields
  <1>5. \A y : In(rootbox, y) => y = m \/ In(rootbox', y) BY <1>1, <1>2, <1>3, TailIn
  <1>6. From(at, s) = 1 /\ From(at', s) = 1 BY <1>2, FromNone
  <1>7. /\ \A x \in Service \ {m.to} : retry'[x] = retry[x]
        /\ retry'[m.to] = Append(retry[m.to], m)
        /\ \A x \in Service : retry[x] \in Seq(Message)
    BY <1>2, <1>4, Queues
  <1>8. \A y : In(retry'[m.to], y) <=> In(retry[m.to], y) \/ y = m BY <1>4, <1>7, AppendIn
  <1>9. retry'[s] \in Seq(Message)
    <2>1. retry'[m.to] \in Seq(Message) BY <1>4, <1>7, AppendProperties
    <2> QED BY <1>7, <2>1
  <1>10. \A y : InFrom(retry[s], From(at, s), y) => InFrom(retry'[s], From(at', s), y)
    BY <1>6, <1>7, <1>8, <1>9, FromFirst
  <1>11. ASSUME AnswerTo(s, k) = m PROVE Comes(s, k)'
    <2>1. m.to = s BY <1>11, Fields
    <2>2. InFrom(retry'[s], From(at', s), m) BY <1>6, <1>8, <1>9, <2>1, FromFirst
    <2> QED BY <1>11, <2>2 DEF WithRoot, Comes
  <1>12. WithRoot(s, k) => Comes(s, k)'
    BY <1>2, <1>5, <1>10, <1>11 DEF WithRoot, Comes
  <1>13. \A x \in Service : Rests(x) BY <1>2 DEF Rests, coVars, quitVars
  <1>14. InService(s, k) => Comes(s, k)' BY <1>13, NobodySteps DEF Comes
  <1>15. Posted(s, k) \/ Asked(s, k) => Comes(s, k)' BY <1>2, SamePost DEF Comes
  <1>16. WithTimer(s, k) \/ <<s, k>> \in lost => Comes(s, k)' BY <1>2, SameTimer DEF Comes
  <1> QED BY <1>12, <1>14, <1>15, <1>16 DEF Stays, Comes

\* Of a queue that is blocked root keeps what it has not sent (root.lua:53-83).
LEMMA SendRetryQueueStays ==
  ASSUME Inv, NEW t \in Service, SendRetryQueue(t),
         NEW s \in Service, NEW k \in Session, Alive(s)
  PROVE  Stays(s, k)
  <1>1. PICK q, i : q = retry[t] /\ i = IF at = NoPlace THEN 1 ELSE at.i OBVIOUS
  <1>2. PICK r \in Receipt(t) :
          /\ Deliver(q[i], r)
          /\ retry' = [retry EXCEPT ![t] =
               IF r = "block" THEN Moved(q, i)
               ELSE IF r = "error" \/ i = Len(q) THEN <<>> ELSE q]
          /\ at' = IF r = "done" /\ i < Len(q) THEN [to |-> t, i |-> i + 1] ELSE NoPlace
    BY <1>1 DEF SendRetryQueue, Unsent
  <1>3. /\ at.to \in {none, t} /\ q # <<>>
        /\ UNCHANGED <<status, running_thread, coVars, quitVars, timerVars, rootbox, raises,
                       forked, lost>>
    BY <1>1 DEF SendRetryQueue, loopVars
  <1>4. From(at, t) = i /\ \A u \in Service \ {t} : From(at, u) = 1
    BY <1>1, <1>3, FromPlace, Queues DEF Place
  <1>5. q \in Seq(ReplyTo(t)) /\ i \in 1 .. Len(q)
    BY <1>1, <1>3, Queues, EmptySeq, Constants DEF Place, NoPlace, Inv, Roots
  <1>6. q[i] \in Message /\ q[i].to = t
    <2>1. q[i] \in ReplyTo(t) BY <1>5
    <2> QED BY <2>1 DEF ReplyTo, Reply
  <1>7. \A x \in Service : Rests(x) BY <1>3 DEF Rests, coVars, quitVars
  <1>8. InService(s, k) => Comes(s, k)' BY <1>7, NobodySteps DEF Comes
  <1>9. WithTimer(s, k) \/ <<s, k>> \in lost => Comes(s, k)' BY <1>3, SameTimer DEF Comes
  <1>10. /\ Posted(s, k) => Posted(s, k)'
         /\ Asked(s, k) => Asked(s, k)'
         /\ r = "done" /\ Alive(t) => In(inbox'[t], q[i])
    BY <1>2, <1>3, <1>6, DeliverStays
  <1>11. CASE s # t
    <2>1. retry'[s] = retry[s] BY <1>2, <1>11, Queues
    <2>2. From(at', s) = 1
      <3>1. at' = NoPlace \/ at' = [to |-> t, i |-> i + 1] BY <1>2
      <3> QED BY <1>11, <3>1, FromNone DEF From
    <2>3. WithRoot(s, k) => WithRoot(s, k)' BY <1>3, <1>4, <1>11, <2>1, <2>2 DEF WithRoot
    <2> QED BY <1>8, <1>9, <1>10, <2>3 DEF Stays, Comes
  <1>12. CASE s = t
    <2>1. r \in {"block", "done"} BY <1>2, <1>12, LivingReceipt
    <2>2. PICK y : y = AnswerTo(s, k) OBVIOUS
    <2>3. ASSUME InFrom(q, i, y) PROVE Comes(s, k)'
      <3>1. CASE r = "block"
        <4>1. retry'[t] = Moved(q, i) /\ at' = NoPlace BY <1>2, <3>1, Queues
        <4>2. In(Moved(q, i), y) BY <1>5, <2>3, FromMoved
        <4>3. InFrom(Moved(q, i), 1, y) BY <1>5, <4>2, MovedIsSeq, FromFirst
        <4>4. From(at', s) = 1 BY <4>1, FromNone
        <4> QED BY <1>12, <2>2, <4>1, <4>3, <4>4 DEF WithRoot, Comes
      <3>2. CASE r = "done"
        <4>1. y = q[i] \/ (i < Len(q) /\ InFrom(q, i + 1, y)) BY <1>5, <2>3, FromNext
        <4>2. CASE y = q[i] BY <1>10, <1>12, <2>2, <3>2, <4>2 DEF Posted, Comes
        <4>3. CASE i < Len(q) /\ InFrom(q, i + 1, y)
          <5>1. i # Len(q) BY <4>3, <1>5
          <5>2. retry'[t] = q /\ at' = [to |-> t, i |-> i + 1]
            BY <1>2, <3>2, <4>3, <5>1, Queues
          <5> QED BY <1>12, <2>2, <4>3, <5>2 DEF WithRoot, From, Comes
        <4> QED BY <4>1, <4>2, <4>3
      <3> QED BY <2>1, <3>1, <3>2
    <2>4. WithRoot(s, k) => Comes(s, k)'
      BY <1>1, <1>3, <1>4, <1>12, <2>2, <2>3 DEF WithRoot, Comes
    <2> QED BY <1>8, <1>9, <1>10, <2>4 DEF Stays, Comes
  <1> QED BY <1>11, <1>12

\* The requests in the inbox of a service that is gone are answered with an
\* error (root.lua:191-211).
LEMMA CloseServiceStays ==
  ASSUME Inv, NEW t \in Service, CloseService(t),
         NEW s \in Service, NEW k \in Session, Alive(s)
  PROVE  Stays(s, k)
  <1>1. /\ status[t] = "dead" /\ status'[t] = "closed"
        /\ \A u \in Service \ {t} : status'[u] = status[u] /\ inbox'[u] = inbox[u]
        /\ UNCHANGED <<running_thread, coVars, quitVars, timerVars, rootbox, retry, at,
                       forked, lost>>
    BY Columns, Queues DEF CloseService, loopVars
  <1>2. raises' = raises \cup {AnswerTo(inbox[t][i].from, inbox[t][i].session) :
          i \in {j \in DOMAIN inbox[t] : /\ inbox[t][j].typ = "request"
                                         /\ inbox[t][j].session # SESSION_SEND_MESSAGE}}
    BY DEF CloseService
  <1>3. s # t BY <1>1 DEF Alive
  <1>4. Posted(s, k) => Comes(s, k)' BY <1>1, <1>3 DEF Posted, Comes
  <1>5. ASSUME Asked(s, k) PROVE Comes(s, k)'
    <2>1. PICK u \in Service : status[u] # "closed" /\ In(inbox[u], Asking(s, u, k))
      BY <1>5 DEF Asked
    <2>2. CASE u # t BY <1>1, <2>1, <2>2 DEF Asked, Comes
    <2>3. CASE u = t
      <3>1. PICK i \in DOMAIN inbox[t] : inbox[t][i] = Asking(s, t, k) BY <2>1, <2>3 DEF In
      <3>2. /\ inbox[t][i].typ = "request" /\ inbox[t][i].session # SESSION_SEND_MESSAGE
            /\ AnswerTo(inbox[t][i].from, inbox[t][i].session) = AnswerTo(s, k)
        BY <3>1, Fields, Sessions
      <3>3. AnswerTo(s, k) \in raises' BY <1>2, <3>1, <3>2
      <3> QED BY <3>3 DEF WithRoot, Comes
    <2> QED BY <2>2, <2>3
  <1>6. ASSUME InService(s, k) PROVE Comes(s, k)'
    <2>1. PICK u \in Service, c \in Co : HeldBy(u, c, s, k) \/ HandledBy(u, c, s, k)
      BY <1>6 DEF InService
    <2>2. u # t BY <1>1, <2>1 DEF HeldBy, HandledBy, Alive
    <2>3. Rests(u) BY <1>1, <2>2 DEF Rests, coVars, quitVars
    <2>4. HeldBy(u, c, s, k)' \/ HandledBy(u, c, s, k)' BY <2>1, <2>3, RestsStays
    <2> QED BY <2>4 DEF InService, Comes
  <1>7. WithRoot(s, k) => Comes(s, k)' BY <1>1, <1>2 DEF WithRoot, From, Comes
  <1>8. WithTimer(s, k) \/ <<s, k>> \in lost => Comes(s, k)' BY <1>1, SameTimer DEF Comes
  <1> QED BY <1>4, <1>5, <1>6, <1>7, <1>8 DEF Stays, Comes

LEMMA RaiseErrorStays ==
  ASSUME Inv, NEW m \in raises, RaiseError(m),
         NEW s \in Service, NEW k \in Session, Alive(s)
  PROVE  Stays(s, k)
  <1>1. m \in Message /\ m.to \in Service BY MessageFields DEF Inv, Roots, Reply
  <1>2. PICK r \in Receipt(m.to) :
          /\ Deliver(m, r)
          /\ forked' = IF r = "block" THEN forked \cup {m} ELSE forked
    BY DEF RaiseError
  <1>3. /\ raises' = raises \ {m}
        /\ UNCHANGED <<status, running_thread, coVars, quitVars, timerVars, rootbox, retry,
                       at, lost>>
    BY DEF RaiseError, loopVars
  <1>4. /\ Posted(s, k) => Posted(s, k)'
        /\ Asked(s, k) => Asked(s, k)'
        /\ r = "done" /\ Alive(m.to) => In(inbox'[m.to], m)
    BY <1>1, <1>2, <1>3, DeliverStays
  <1>5. ASSUME m = AnswerTo(s, k) PROVE Comes(s, k)'
    <2>1. m.to = s BY <1>5, Fields
    <2>2. CASE r = "done" BY <1>4, <1>5, <2>1, <2>2 DEF Posted, Comes
    <2>3. CASE r = "block" BY <1>2, <1>5, <2>3 DEF WithRoot, Comes
    <2> QED BY <1>2, <2>1, <2>2, <2>3, LivingReceipt
  <1>6. WithRoot(s, k) => Comes(s, k)' BY <1>2, <1>3, <1>5 DEF WithRoot, From, Comes
  <1>7. \A x \in Service : Rests(x) BY <1>3 DEF Rests, coVars, quitVars
  <1>8. InService(s, k) => Comes(s, k)' BY <1>7, NobodySteps DEF Comes
  <1>9. WithTimer(s, k) \/ <<s, k>> \in lost => Comes(s, k)' BY <1>3, SameTimer DEF Comes
  <1> QED BY <1>4, <1>6, <1>8, <1>9 DEF Stays, Comes

LEMMA HandOverToSelfStays ==
  ASSUME Inv, NEW m \in forked, HandOverToSelf(m), NEW s \in Service, NEW k \in Session
  PROVE  Stays(s, k)
  <1>1. m \in Message BY DEF Inv, Roots, Reply
  <1>2. /\ forked' = forked \ {m} /\ rootbox' = Append(rootbox, m)
        /\ UNCHANGED <<status, inbox, running_thread, coVars, quitVars, timerVars, retry, at,
                       raises, lost>>
    BY DEF HandOverToSelf, loopVars
  <1>3. \A y : In(rootbox', y) <=> In(rootbox, y) \/ y = m BY <1>1, <1>2, Queues, AppendIn
  <1>4. WithRoot(s, k) => Comes(s, k)' BY <1>2, <1>3 DEF WithRoot, From, Comes
  <1>5. \A x \in Service : Rests(x) BY <1>2 DEF Rests, coVars, quitVars
  <1>6. InService(s, k) => Comes(s, k)' BY <1>5, NobodySteps DEF Comes
  <1>7. Posted(s, k) \/ Asked(s, k) => Comes(s, k)' BY <1>2, SamePost DEF Comes
  <1>8. WithTimer(s, k) \/ <<s, k>> \in lost => Comes(s, k)' BY <1>2, SameTimer DEF Comes
  <1> QED BY <1>4, <1>6, <1>7, <1>8 DEF Stays, Comes

----------------------------------------------------------------------------
(* The calls a service waits for *)

\* Service t begins to wait for its next session.
Suspends(t) == (\E u \in Service : Call(t, u)) \/ Sleep(t) \/ HandOverBlocked(t)

LEMMA LivesOn == ASSUME Inv, Next PROVE \A t \in Service : Alive(t)' => Alive(t)
  <1>1. CASE UNCHANGED status BY <1>1 DEF Alive
  <1>2. ASSUME NEW t \in Service, Die(t) \/ CloseService(t)
        PROVE  \A u \in Service : Alive(u)' => Alive(u)
    BY <1>2, Columns DEF Die, CloseService, Alive
  <1>3. ASSUME NEW t \in Service, Handler(t) PROVE UNCHANGED status \/ Die(t)
    BY <1>3 DEF Handler, Call, Send, Sleep, Wait, Wakeup, Fork, NoResponse, Respond, End, Crash
  <1>4. ASSUME NEW t \in Service, Runtime(t) PROVE UNCHANGED status \/ Die(t)
    BY <1>4 DEF Runtime, RecvRequest, RecvAnswer, WakeupNext, Exit, QuitRaise, QuitDone,
                HandOver, HandOverBlocked
  <1>5. ASSUME RootStep PROVE UNCHANGED status \/ \E t \in Service : CloseService(t)
    BY <1>5 DEF RootStep, SendRetry, SendRetryQueue, RaiseError, HandOverToSelf
  <1>6. ASSUME NEW t \in Service, SendBlocked(t) \/ \E k \in Session : SendTimer(t, k)
        PROVE  UNCHANGED status
    BY <1>6 DEF SendBlocked, SendTimer
  <1> QED BY <1>1, <1>2, <1>3, <1>4, <1>5, <1>6 DEF Next

\* The lookup table only gets the session that the running coroutine now waits
\* for (service.lua:345-356).
LEMMA LookupStep ==
  ASSUME Inv, Next, NEW s \in Service, NEW k \in Session
  PROVE  \/ lookup'[s][k] \in {lookup[s][k], none}
         \/ Suspends(s) /\ k = session_id[s] /\ lookup'[s][k] = running_thread[s]
  <1> DEFINE Result == \/ lookup'[s][k] \in {lookup[s][k], none}
                       \/ Suspends(s) /\ k = session_id[s] /\ lookup'[s][k] = running_thread[s]
  <1> HIDE DEF Result
  <1>0. lookup \in [Service -> [Session -> Co \cup {none}]] BY DEF Inv, Lookups
  <1>1. ASSUME UNCHANGED lookup PROVE Result BY <1>1 DEF Result
  <1>2. ASSUME NEW t \in Service, Suspends(t) PROVE Result
    <2>1. lookup' = At(lookup, t, session_id[t], running_thread[t])
      BY <1>2 DEF Suspends, Call, Sleep, HandOverBlocked, Suspend
    <2>2. \/ lookup'[s][k] = lookup[s][k]
          \/ t = s /\ k = session_id[s] /\ lookup'[s][k] = running_thread[s]
      BY <1>0, <2>1 DEF At
    <2> QED BY <1>2, <2>2 DEF Result
  <1>3. ASSUME NEW t \in Service, Die(t) PROVE Result BY <1>0, <1>3 DEF Die, Result
  <1>4. ASSUME NEW t \in Service, RecvAnswer(t) PROVE Result
    BY <1>0, <1>4 DEF RecvAnswer, At, Result
  <1>5. ASSUME NEW t \in Service, Handler(t) PROVE UNCHANGED lookup \/ Die(t) \/ Suspends(t)
    BY <1>5 DEF Handler, Suspends, Send, Wait, Wakeup, Fork, NoResponse, Respond, End, Crash,
                loopVars
  <1>6. ASSUME NEW t \in Service, Runtime(t)
        PROVE  UNCHANGED lookup \/ Die(t) \/ Suspends(t) \/ RecvAnswer(t)
    BY <1>6 DEF Runtime, Suspends, RecvRequest, WakeupNext, Exit, QuitRaise, QuitDone, HandOver
  <1>7. ASSUME RootStep PROVE UNCHANGED lookup
    BY <1>7 DEF RootStep, SendRetry, SendRetryQueue, CloseService, RaiseError, HandOverToSelf,
                loopVars
  <1>8. ASSUME NEW t \in Service, SendBlocked(t) \/ \E j \in Session : SendTimer(t, j)
        PROVE  UNCHANGED lookup
    BY <1>8 DEF SendBlocked, SendTimer, loopVars
  <1>9. \A t \in Service : Handler(t) \/ Runtime(t) => Result
    BY <1>1, <1>2, <1>3, <1>4, <1>5, <1>6
  <1>10. Result BY <1>1, <1>7, <1>8, <1>9 DEF Next
  <1> QED BY <1>10 DEF Result

\* Only a free coroutine gets the work of ltask.quit (service.lua:636-646).
LEMMA KindStep ==
  ASSUME Inv, Next, NEW s \in Service, NEW x \in Co, kind'[s][x] = "quit"
  PROVE  kind[s][x] \in {"quit", "free"}
  <1> USE Columns
  <1>1. CASE UNCHANGED kind BY <1>1
  <1>2. ASSUME NEW t \in Service, NEW c \in Co, Finish(t, c) PROVE kind[s][x] = "quit"
    BY <1>2 DEF Finish, At
  <1>3. ASSUME NEW t \in Service, NEW c \in Co, NEW m, NEW ends, PostResponse(t, c, m, ends)
        PROVE  kind[s][x] = "quit"
    <2>1. \/ \E d \in NewThread(t) : kind' = [kind EXCEPT ![t] =
                         [y \in Co |-> IF y = d THEN "blocked"
                                       ELSE IF y = c /\ ends THEN "free" ELSE @[y]]]
          \/ kind' = At(kind, t, c, "free") \/ kind' = kind
      BY <1>3 DEF PostResponse
    <2>2. CASE kind' = At(kind, t, c, "free") BY <2>2 DEF At
    <2>3. ASSUME NEW d \in NewThread(t), kind' = [kind EXCEPT ![t] =
                         [y \in Co |-> IF y = d THEN "blocked"
                                       ELSE IF y = c /\ ends THEN "free" ELSE @[y]]]
          PROVE  kind[s][x] = "quit"
      <3>1. kind'[s][x] = kind[s][x] \/ kind'[s][x] \in {"blocked", "free"} BY <2>3
      <3> QED BY <3>1
    <2> QED BY <1>1, <2>1, <2>2, <2>3
  <1>4. ASSUME NEW t \in Service, Die(t) PROVE kind[s][x] = "quit" BY <1>4 DEF Die
  <1>5. ASSUME NEW t \in Service, NEW c \in NewThread(t), NEW y, kind' = At(kind, t, c, y)
        PROVE  kind[s][x] \in {"quit", "free"}
    <2>1. c \in Co /\ kind[t][c] = "free" BY Threads
    <2> QED BY <1>5, <2>1 DEF At
  <1>6. ASSUME NEW t \in Service, Handler(t) PROVE kind[s][x] \in {"quit", "free"}
    <2>1. CASE End(t) BY <1>2, <2>1, Running DEF End, Handles, Inv
    <2>2. CASE Respond(t) BY <1>3, <2>2, Running DEF Respond, Answer, Handles, Inv
    <2>3. CASE Crash(t) BY <1>4, <2>3 DEF Crash
    <2>4. ASSUME NEW y, Fork(t, y) PROVE kind[s][x] \in {"quit", "free"}
      BY <1>5, <2>4 DEF Fork
    <2> QED BY <1>1, <1>6, <2>1, <2>2, <2>3, <2>4
            DEF Handler, Call, Send, Sleep, Wait, Wakeup, NoResponse, coVars
  <1>7. ASSUME NEW t \in Service, Runtime(t) PROVE kind[s][x] \in {"quit", "free"}
    <2>1. CASE QuitDone(t) BY <1>2, <2>1, Running DEF QuitDone, Quits, Inv
    <2>2. CASE HandOver(t) BY <1>2, <2>2, Running DEF HandOver, Inv
    <2>3. CASE Exit(t) BY <1>4, <2>3 DEF Exit
    <2>4. CASE RecvRequest(t) BY <1>5, <2>4 DEF RecvRequest
    <2>5. ASSUME NEW c \in Co, QuitRaise(t, c) PROVE kind[s][x] \in {"quit", "free"}
      BY <1>3, <2>5 DEF QuitRaise
    <2> QED BY <1>1, <1>7, <2>1, <2>2, <2>3, <2>4, <2>5
            DEF Runtime, RecvAnswer, WakeupNext, HandOverBlocked, coVars
  <1>8. ASSUME RootStep PROVE UNCHANGED kind
    BY <1>8 DEF RootStep, SendRetry, SendRetryQueue, CloseService, RaiseError, HandOverToSelf,
                coVars
  <1>9. ASSUME NEW t \in Service, SendBlocked(t) \/ \E j \in Session : SendTimer(t, j)
        PROVE  UNCHANGED kind
    BY <1>9 DEF SendBlocked, SendTimer, coVars
  <1> QED BY <1>1, <1>6, <1>7, <1>8, <1>9 DEF Next

LEMMA QuitStaysAwake ==
  ASSUME Inv, OnceInv, QuitAwake, Next PROVE QuitAwake'
  <1> SUFFICES ASSUME NEW t \in Service, NEW c \in Co, Alive(t)', kind'[t][c] = "quit",
                      NEW k \in Session, lookup'[t][k] = c
               PROVE  FALSE
    BY DEF QuitAwake, Awaits
  <1>1. Alive(t) BY LivesOn
  <1>2. kind[t][c] \in {"quit", "free"} BY KindStep
  <1>3. ~Awaits(t, c) BY <1>1, <1>2 DEF QuitAwake, OnceInv, Once, InOnePlace
  <1>4. Suspends(t) /\ c = running_thread[t] BY <1>3, LookupStep, Constants DEF Awaits
  <1>5. kind[t][c] \in {"session", "fork", "blocked"}
    BY <1>4, Running DEF Suspends, Call, Sleep, HandOverBlocked, Handles, Inv
  <1> QED BY <1>2, <1>5

----------------------------------------------------------------------------
(* The invariant *)

LEMMA HandlerStays ==
  ASSUME Inv, NEW t \in Service, Handler(t), NEW s \in Service, NEW k \in Session,
         Alive(s), Alive(s)'
  PROVE  Stays(s, k)
  BY CallStays, SendStays, SleepStays, WaitStays, ForkStays, NoResponseStays, RespondStays,
     EndStays, CrashStays
  DEF Handler

LEMMA RuntimeStays ==
  ASSUME Inv, QuitAwake, NEW t \in Service, Runtime(t), NEW s \in Service, NEW k \in Session,
         Alive(s), Alive(s)', lookup'[s][k] # none
  PROVE  Stays(s, k)
  BY RecvRequestStays, RecvAnswerStays, WakeupNextStays, ExitStays, QuitRaiseStays,
     QuitDoneStays, HandOverStays, SleepStays
  DEF Runtime

LEMMA OutsideStays ==
  ASSUME Inv, NEW s \in Service, NEW k \in Session, Alive(s),
         \/ RootStep
         \/ \E t \in Service : (\E j \in Session : SendTimer(t, j)) \/ SendBlocked(t)
  PROVE  Stays(s, k)
  BY SendTimerStays, SendBlockedStays, SendRetryStays, SendRetryQueueStays, CloseServiceStays,
     RaiseErrorStays, HandOverToSelfStays
  DEF RootStep

LEMMA NoOrphanStep ==
  ASSUME Inv, QuitAwake, NoOrphan, Next PROVE NoOrphan'
  <1> SUFFICES ASSUME NEW s \in Service, Alive(s)', NEW k \in Session, lookup'[s][k] # none
               PROVE  Comes(s, k)'
    BY DEF NoOrphan
  <1>1. Alive(s) BY LivesOn
  <1>2. CASE lookup[s][k] # none
    <2>1. Comes(s, k) BY <1>1, <1>2 DEF NoOrphan
    <2>2. Stays(s, k) BY <1>1, HandlerStays, RuntimeStays, OutsideStays DEF Next
    <2> QED BY <2>1, <2>2 DEF Stays
  <1>3. CASE lookup[s][k] = none
    <2>1. Suspends(s) /\ k = session_id[s] BY <1>3, LookupStep
    <2> QED BY <2>1, CallStays, SleepStays DEF Suspends
  <1> QED BY <1>2, <1>3

OrphanInv == QuitAwake /\ NoOrphan

LEMMA OrphanInitially == Init => OrphanInv
  BY DEF Init, OrphanInv, QuitAwake, NoOrphan

LEMMA OrphanInductive == Inv /\ OnceInv /\ OrphanInv /\ [Next]_vars => OrphanInv'
  <1>1. ASSUME OrphanInv, UNCHANGED vars PROVE OrphanInv'
    BY <1>1 DEF OrphanInv, QuitAwake, NoOrphan, Comes, Posted, Asked, InService, HeldBy,
                HandledBy, Passed, Quits, Runs, WithTimer, WithRoot, From, Awaits, Alive,
                vars, loopVars, coVars, quitVars, timerVars, rootVars
  <1> QED BY <1>1, QuitStaysAwake, NoOrphanStep DEF OrphanInv

LEMMA AlwaysComes == Spec => []OrphanInv
  BY Always, AlwaysOnce, OrphanInitially, OrphanInductive, PTL DEF Spec

\* Whatever is in one of the places is what CallNotOrphaned looks for.
LEMMA OrphanImplies == ASSUME Inv, NoOrphan PROVE CallNotOrphaned
  <1> SUFFICES ASSUME NEW s \in Service, Alive(s), NEW k \in Session, lookup[s][k] # none,
                      <<s, k>> \notin lost
               PROVE  k \in Answers(s) \cup Requests(s) \cup Handled(s)
    BY DEF CallNotOrphaned
  <1>1. Comes(s, k) BY DEF NoOrphan
  <1>2. ASSUME AnswerTo(s, k) \in Underway(s) PROVE k \in Answers(s)
    BY <1>2, Fields DEF Answers
  <1>3. CASE Posted(s, k)
    <2>1. AnswerTo(s, k) \in Underway(s) BY <1>3 DEF Posted, In, Underway
    <2> QED BY <1>2, <2>1
  <1>4. CASE Asked(s, k)
    <2>1. PICK t \in Service : status[t] # "closed" /\ In(inbox[t], Asking(s, t, k))
      BY <1>4 DEF Asked
    <2>2. Asking(s, t, k) \in Underway(t) BY <2>1 DEF In, Underway
    <2>3. k \in {m.session : m \in {n \in Underway(t) : n.typ = "request" /\ n.from = s}}
      BY <2>2, Fields
    <2> QED BY <2>1, <2>3 DEF Requests
  <1>5. CASE InService(s, k)
    <2>1. PICK t \in Service, c \in Co : HeldBy(t, c, s, k) \/ HandledBy(t, c, s, k)
      BY <1>5 DEF InService
    <2>2. CASE HeldBy(t, c, s, k)
      <3>1. AnswerTo(s, k) \in
              {held[t][d] : d \in {e \in Co : kind[t][e] = "blocked" /\ held[t][e].to = s}}
        BY <2>2, Fields DEF HeldBy
      <3>2. AnswerTo(s, k) \in Underway(s) BY <2>2, <3>1 DEF HeldBy, Underway
      <3> QED BY <1>2, <3>2
    <2>3. CASE HandledBy(t, c, s, k)
      <3>1. k \in {response[t][d] : d \in {e \in Co : address[t][e] = s}}
        BY <2>3 DEF HandledBy
      <3> QED BY <2>3, <3>1 DEF HandledBy, Handled
    <2> QED BY <2>1, <2>2, <2>3
  <1>6. CASE WithTimer(s, k) BY <1>6 DEF WithTimer, InFrom, Answers
  <1>7. CASE WithRoot(s, k)
    <2>1. AnswerTo(s, k).to = s BY Fields
    <2>2. AnswerTo(s, k) \in Underway(s) BY <1>7, <2>1 DEF WithRoot, In, InFrom, Underway
    <2> QED BY <1>2, <2>2
  <1> QED BY <1>1, <1>3, <1>4, <1>5, <1>6, <1>7 DEF Comes

\* Nobody waits in vain: as long as a call is waited for, the request or an answer
\* is somewhere it will come from, or it is one of the calls the code gives up,
\* whoever dies, whichever inbox is full and however often root and the timer try
\* again (service.lua:221-259, 636-646, 752-800; root.lua:53-101, 191-211).
THEOREM NobodyWaitsInVain == Spec => []CallNotOrphaned
  BY Always, AlwaysComes, OrphanImplies, PTL DEF OrphanInv

----------------------------------------------------------------------------
(***************************************************************************)
(* Each call keeps the promise of module CallPromise.  Two invariants are  *)
(* needed: of a request there is one at most, and what is before the place *)
(* a loop of root or of the timer has come to in its queue has arrived, so *)
(* that sending it again or dropping it changes nothing for who waits.     *)
(***************************************************************************)

Single(s, k) ==
  /\ Lone(InInbox(s, k)) /\ Lone(WithHandler(s, k))
  /\ InInbox(s, k) = {} \/ WithHandler(s, k) = {}
  /\ k \in timer[s] => InInbox(s, k) = {} /\ WithHandler(s, k) = {}

SingleInv == \A s \in Service, k \in Session : Single(s, k)

Arrived(s, k) ==
  /\ In(retry[s], AnswerTo(s, k)) =>
       Posted(s, k) \/ InFrom(retry[s], From(at, s), AnswerTo(s, k))
  /\ In(blocked[s], k) => Posted(s, k) \/ InFrom(blocked[s], From(turn, s), k)

Waits(s, k) == Alive(s) /\ lookup[s][k] # none

ArrivedInv == \A s \in Service, k \in Session : Waits(s, k) => Arrived(s, k)

PromiseInv == SingleInv /\ ArrivedInv

----------------------------------------------------------------------------
(* The steps of the promise, in the terms of Session *)

LEMMA RequestIs ==
  ASSUME NEW s, NEW k, Single(s, k)
  PROVE  RequestOf(s, k) = IF InInbox(s, k) # {} THEN "asked"
                           ELSE IF WithHandler(s, k) # {} \/ k \in timer[s] THEN "serving"
                           ELSE "none"
  BY DEF Single, RequestOf, Stage

LEMMA RequestIsNext ==
  ASSUME NEW s, NEW k, Single(s, k)'
  PROVE  RequestOf(s, k)' = IF InInbox(s, k)' # {} THEN "asked"
                            ELSE IF WithHandler(s, k)' # {} \/ k \in timer'[s] THEN "serving"
                            ELSE "none"
  BY DEF Single, RequestOf, Stage

LEMMA CallersWait ==
  ASSUME NEW s, NEW k
  PROVE  /\ CallerOf(s, k) = "waits" <=> Waits(s, k)
         /\ CallerOf(s, k)' = "waits" <=> Waits(s, k)'
  BY DEF CallerOf, Waits

\* Nothing happens to the call, or its handler does not answer.
LEMMA QuietStep ==
  ASSUME NEW s \in Service, NEW k \in Session,
         CallerOf(s, k)' = CallerOf(s, k),
         \/ RequestOf(s, k)' = RequestOf(s, k)
         \/ RequestOf(s, k) = "serving" /\ RequestOf(s, k)' = "none",
         Waits(s, k) => (Answered(s, k)' <=> Answered(s, k))
  PROVE  Promise!Step(s, k)
  <1>1. CASE RequestOf(s, k)' = RequestOf(s, k)
    <2>1. Promise!Stays(s, k)
      BY <1>1, CallersWait DEF Promise!Stays, Promise!Becomes
    <2> QED BY <2>1 DEF Promise!Step
  <1>2. CASE RequestOf(s, k) = "serving" /\ RequestOf(s, k)' = "none"
    <2>1. Promise!NoAnswer(s, k)
      BY <1>2, CallersWait DEF Promise!NoAnswer, Promise!Becomes
    <2> QED BY <2>1 DEF Promise!Step
  <1> QED BY <1>1, <1>2

LEMMA AskStep ==
  ASSUME NEW s \in Service, NEW k \in Session,
         CallerOf(s, k) = "unused", CallerOf(s, k)' = "waits", RequestOf(s, k) = "none",
         RequestOf(s, k)' \in {"none", "asked", "serving"}, ~Answered(s, k)'
  PROVE  Promise!Step(s, k)
  <1>1. Promise!Ask(s, k) BY DEF Promise!Ask, Promise!Becomes
  <1> QED BY <1>1 DEF Promise!Step

LEMMA UseStep ==
  ASSUME NEW s \in Service, NEW k \in Session,
         CallerOf(s, k) = "unused", CallerOf(s, k)' = "over",
         RequestOf(s, k)' = RequestOf(s, k)
  PROVE  Promise!Step(s, k)
  <1>1. Promise!Use(s, k) BY DEF Promise!Use, Promise!Becomes
  <1> QED BY <1>1 DEF Promise!Step

LEMMA ServeStep ==
  ASSUME NEW s \in Service, NEW k \in Session,
         CallerOf(s, k)' = CallerOf(s, k), RequestOf(s, k) = "asked",
         RequestOf(s, k)' = "serving", Waits(s, k) => (Answered(s, k)' <=> Answered(s, k))
  PROVE  Promise!Step(s, k)
  <1>1. Promise!Serve(s, k) BY CallersWait DEF Promise!Serve, Promise!Becomes
  <1> QED BY <1>1 DEF Promise!Step

LEMMA AnswerStep ==
  ASSUME NEW s \in Service, NEW k \in Session,
         CallerOf(s, k)' = CallerOf(s, k), RequestOf(s, k) = "serving",
         RequestOf(s, k)' \in {"none", "serving"}, Waits(s, k) => Answered(s, k)'
  PROVE  Promise!Step(s, k)
  <1>1. Promise!Answer(s, k) BY CallersWait DEF Promise!Answer, Promise!Becomes
  <1> QED BY <1>1 DEF Promise!Step

LEMMA RefuseStep ==
  ASSUME NEW s \in Service, NEW k \in Session,
         CallerOf(s, k)' = CallerOf(s, k), RequestOf(s, k) = "asked",
         RequestOf(s, k)' = "none", Waits(s, k) => Answered(s, k)'
  PROVE  Promise!Step(s, k)
  <1>1. Promise!Refuse(s, k) BY CallersWait DEF Promise!Refuse, Promise!Becomes
  <1> QED BY <1>1 DEF Promise!Step

LEMMA ResumeStep ==
  ASSUME NEW s \in Service, NEW k \in Session,
         CallerOf(s, k) = "waits", Answered(s, k), CallerOf(s, k)' = "over",
         RequestOf(s, k)' = RequestOf(s, k)
  PROVE  Promise!Step(s, k)
  <1>1. Promise!Resume(s, k) BY DEF Promise!Resume, Promise!Becomes
  <1> QED BY <1>1 DEF Promise!Step

LEMMA EndStep ==
  ASSUME NEW s \in Service, NEW k \in Session, NEW t \in Service, Alive(t), ~Alive(t)',
         Alive(s)' => CallerOf(s, k)' = CallerOf(s, k),
         \/ RequestOf(s, k)' = RequestOf(s, k)
         \/ RequestOf(s, k) = "serving" /\ RequestOf(s, k)' = "none",
         Waits(s, k)' => (Answered(s, k)' => Answered(s, k))
  PROVE  Promise!Step(s, k)
  <1>1. {u \in Service : ~Alive(u)}' # {u \in Service : ~Alive(u)} OBVIOUS
  <1>2. ~Alive(s)' => CallerOf(s, k)' = "over" BY DEF CallerOf
  <1>3. Waits(s, k)' => Alive(s)' BY DEF Waits
  <1>4. Promise!End(s, k) BY <1>1, <1>2, <1>3, CallersWait DEF Promise!End
  <1> QED BY <1>4 DEF Promise!Step

----------------------------------------------------------------------------
(* Where the request and the answer of a call are after a step *)

\* The step keeps the two invariants for call k of s, and its promise.
Keeps(s, k) ==
  /\ Single(s, k)' /\ (Waits(s, k)' => Arrived(s, k)')
  /\ Promise!Step(s, k)

\* The request stays where it is, or its handler ends, or its time has come.
RequestKept(s, k) ==
  /\ Lone(InInbox(s, k)) => Lone(InInbox(s, k)')
  /\ InInbox(s, k)' = {} <=> InInbox(s, k) = {}
  /\ WithHandler(s, k)' \subseteq WithHandler(s, k)
  /\ k \in timer'[s] => k \in timer[s]

LEMMA KeptRequest ==
  ASSUME NEW s, NEW k, Single(s, k), RequestKept(s, k)
  PROVE  /\ Single(s, k)'
         /\ \/ RequestOf(s, k)' = RequestOf(s, k)
            \/ RequestOf(s, k) = "serving" /\ RequestOf(s, k)' = "none"
  <1>1. Single(s, k)' BY DEF Single, RequestKept, Lone
  <1> QED BY <1>1, RequestIs, RequestIsNext DEF RequestKept

\* Nothing happens to the call.
LEMMA Calm ==
  ASSUME PromiseInv, NEW s \in Service, NEW k \in Session,
         CallerOf(s, k)' = CallerOf(s, k), RequestKept(s, k),
         Waits(s, k) => (Answered(s, k)' <=> Answered(s, k)),
         Waits(s, k) /\ Arrived(s, k) => Arrived(s, k)'
  PROVE  Keeps(s, k)
  <1>1. Single(s, k) /\ (Waits(s, k) => Arrived(s, k))
    BY DEF PromiseInv, SingleInv, ArrivedInv
  <1>2. Waits(s, k)' <=> Waits(s, k) BY CallersWait
  <1> QED BY <1>1, <1>2, KeptRequest, QuietStep DEF Keeps

LEMMA SameCaller ==
  ASSUME UNCHANGED <<status, lookup, session_id>>, NEW s \in Service, NEW k \in Session
  PROVE  CallerOf(s, k)' = CallerOf(s, k)
  BY DEF CallerOf, Alive

LEMMA SameInbox ==
  ASSUME UNCHANGED inbox, NEW s \in Service, NEW k \in Session
  PROVE  InInbox(s, k)' = InInbox(s, k) /\ (Posted(s, k)' <=> Posted(s, k))
  BY DEF InInbox, Posted

LEMMA SameHandlers ==
  ASSUME UNCHANGED <<address, response>>, NEW s \in Service, NEW k \in Session
  PROVE  WithHandler(s, k)' = WithHandler(s, k)
  BY DEF WithHandler

LEMMA SameHeld ==
  ASSUME UNCHANGED <<status, held>>,
         \A t \in Service, c \in Co : kind'[t][c] = "blocked" <=> kind[t][c] = "blocked",
         NEW s \in Service, NEW k \in Session
  PROVE  \A t \in Service, c \in Co : HeldBy(t, c, s, k)' <=> HeldBy(t, c, s, k)
  BY DEF HeldBy, Alive

\* The answer is where it was, if the inbox and the coroutines have it as before.
LEMMA SameAnswered ==
  ASSUME UNCHANGED <<blocked, retry, rootbox, raises, forked>>,
         NEW s \in Service, NEW k \in Session, Posted(s, k)' <=> Posted(s, k),
         \A t \in Service, c \in Co : HeldBy(t, c, s, k)' <=> HeldBy(t, c, s, k)
  PROVE  Answered(s, k)' <=> Answered(s, k)
  BY DEF Answered

LEMMA SameArrived ==
  ASSUME UNCHANGED <<blocked, turn, retry, at>>,
         NEW s \in Service, NEW k \in Session, Posted(s, k) => Posted(s, k)', Arrived(s, k)
  PROVE  Arrived(s, k)'
  BY DEF Arrived, From

\* A message is its fields.
LEMMA MessageIs ==
  ASSUME NEW m \in Message
  PROVE  /\ m.typ = "request" => m = Asking(m.from, m.to, m.session)
         /\ m \in Reply => m = AnswerTo(m.to, m.session)
  BY DEF Message, Asking, AnswerTo, Reply

LEMMA InboxGets ==
  ASSUME Inv, NEW m \in Message, NEW r, Deliver(m, r),
         NEW s \in Service, NEW k \in Session
  PROVE  /\ Posted(s, k)' <=>
              Posted(s, k) \/ (r = "done" /\ Alive(m.to) /\ m = AnswerTo(s, k))
         /\ m # Asking(s, m.to, k) => InInbox(s, k)' = InInbox(s, k)
         /\ InInbox(s, k) = {} => Lone(InInbox(s, k)')
  <1>1. m.to \in Service BY MessageFields
  <1>2. CASE UNCHANGED inbox /\ ~(r = "done" /\ Alive(m.to))
    BY <1>2, SameInbox DEF Lone
  <1>3. CASE inbox' = [inbox EXCEPT ![m.to] = Append(@, m)] /\ r = "done" /\ Alive(m.to)
    <2> DEFINE n == Len(inbox[m.to])
    <2>1. \A u \in Service : u # m.to => inbox'[u] = inbox[u] BY <1>3, Queues
    <2>2. inbox'[m.to] = Append(inbox[m.to], m) /\ inbox[m.to] \in Seq(Message)
      BY <1>1, <1>3, Queues
    <2>3. \A y : In(inbox'[m.to], y) <=> In(inbox[m.to], y) \/ y = m BY <2>2, AppendIn
    <2>4. Posted(s, k)' <=> Posted(s, k) \/ m = AnswerTo(s, k)
      <3>1. AnswerTo(s, k).to = s BY Fields
      <3> QED BY <2>1, <2>3, <3>1 DEF Posted
    <2>5. /\ n \in Nat /\ DOMAIN inbox[m.to] = 1 .. n /\ DOMAIN inbox'[m.to] = 1 .. n + 1
          /\ \A i \in 1 .. n : inbox'[m.to][i] = inbox[m.to][i]
          /\ inbox'[m.to][n + 1] = m
      BY <2>2, AppendProperties
    <2> HIDE DEF n
    <2>6. \A i \in 1 .. n + 1 : i \in 1 .. n \/ i = n + 1 BY <2>5
    <2>7. 1 .. n \subseteq 1 .. n + 1 BY <2>5
    <2>8. InInbox(s, k)' \subseteq InInbox(s, k) \cup {<<m.to, n + 1>>}
      BY <2>1, <2>5, <2>6 DEF InInbox
    <2>9. InInbox(s, k) \subseteq InInbox(s, k)'
      BY <2>1, <2>5, <2>7 DEF InInbox
    <2>10. <<m.to, n + 1>> \in InInbox(s, k)' => m = Asking(s, m.to, k)
      BY <2>5 DEF InInbox
    <2> QED BY <1>3, <2>4, <2>8, <2>9, <2>10 DEF Lone
  <1> QED BY <1>2, <1>3 DEF Deliver

\* The first message of an inbox is taken.
LEMMA InboxGives ==
  ASSUME Inv, NEW t \in Service, inbox[t] # <<>>, inbox' = [inbox EXCEPT ![t] = Tail(@)],
         NEW s \in Service, NEW k \in Session
  PROVE  /\ Posted(s, k)' => Posted(s, k)
         /\ Posted(s, k) => Posted(s, k)' \/ (s = t /\ Head(inbox[t]) = AnswerTo(s, k))
         /\ Lone(InInbox(s, k)) => Lone(InInbox(s, k)')
         /\ InInbox(s, k) = {} => InInbox(s, k)' = {}
         /\ Head(inbox[t]) # Asking(s, t, k) /\ InInbox(s, k) # {} => InInbox(s, k)' # {}
         /\ Head(inbox[t]) = Asking(s, t, k) =>
              InInbox(s, k) # {} /\ (Lone(InInbox(s, k)) => InInbox(s, k)' = {})
  <1> DEFINE n == Len(inbox[t])
  <1>1. \A u \in Service : u # t => inbox'[u] = inbox[u] BY Queues
  <1>2. inbox'[t] = Tail(inbox[t]) /\ inbox[t] \in Seq(Message) BY Queues
  <1>3. /\ n \in Nat /\ n > 0 /\ DOMAIN inbox[t] = 1 .. n /\ DOMAIN inbox'[t] = 1 .. n - 1
        /\ \A i \in 1 .. n - 1 : inbox'[t][i] = inbox[t][i + 1]
        /\ Head(inbox[t]) = inbox[t][1]
    <2>1. PICK q : q = inbox[t] OBVIOUS
    <2>2. q \in Seq(Message) /\ q # <<>> BY <1>2, <2>1
    <2>3. /\ Len(q) \in Nat /\ Len(q) > 0 /\ DOMAIN q = 1 .. Len(q)
          /\ DOMAIN Tail(q) = 1 .. Len(q) - 1
          /\ \A i \in 1 .. Len(q) - 1 : Tail(q)[i] = q[i + 1]
          /\ Head(q) = q[1]
      BY <2>2, HeadTailProperties
    <2> QED BY <1>2, <2>1, <2>3
  <1> HIDE DEF n
  <1>4. \A i \in 1 .. n - 1 : i + 1 \in 1 .. n /\ i + 1 # 1 BY <1>3
  <1>5. \A i \in 1 .. n : i = 1 \/ (i - 1 \in 1 .. n - 1 /\ (i - 1) + 1 = i) BY <1>3
  <1>6. 1 \in 1 .. n /\ \A i, j \in 1 .. n - 1 : i + 1 = j + 1 => i = j BY <1>3
  <1>7. \A y : In(inbox'[t], y) => In(inbox[t], y)
    BY <1>3, <1>4 DEF In
  <1>8. Posted(s, k)' => Posted(s, k) BY <1>1, <1>7 DEF Posted
  <1>9. Posted(s, k) => Posted(s, k)' \/ (s = t /\ Head(inbox[t]) = AnswerTo(s, k))
    BY <1>1, <1>2, TailIn DEF Posted
  <1>10. ASSUME NEW x \in InInbox(s, k)'
         PROVE  \/ x[1] # t /\ x \in InInbox(s, k)
                \/ x[1] = t /\ x[2] \in 1 .. n - 1 /\ x = <<t, x[2]>>
                   /\ <<t, x[2] + 1>> \in InInbox(s, k)
    <2>1. PICK u \in Service : \E i \in DOMAIN inbox'[u] :
            x = <<u, i>> /\ inbox'[u][i] = Asking(s, u, k)
      BY <1>10 DEF InInbox
    <2>2. CASE u # t BY <1>1, <2>1, <2>2 DEF InInbox
    <2>3. CASE u = t BY <1>3, <1>4, <2>1, <2>3 DEF InInbox
    <2> QED BY <2>2, <2>3
  <1>11. InInbox(s, k) = {} => InInbox(s, k)' = {} BY <1>10
  <1>12. Lone(InInbox(s, k)) => Lone(InInbox(s, k)')
    <2> SUFFICES ASSUME Lone(InInbox(s, k)), NEW x \in InInbox(s, k)', NEW y \in InInbox(s, k)'
                 PROVE  x = y
      BY DEF Lone
    <2>1. CASE x[1] # t /\ y[1] # t BY <1>10, <2>1 DEF Lone
    <2>2. CASE x[1] = t /\ y[1] = t
      <3>1. <<t, x[2] + 1>> = <<t, y[2] + 1>> BY <1>10, <2>2 DEF Lone
      <3>2. x[2] \in 1 .. n - 1 /\ y[2] \in 1 .. n - 1 /\ x = <<t, x[2]>> /\ y = <<t, y[2]>>
        BY <1>10, <2>2
      <3> QED BY <1>6, <3>1, <3>2
    <2>3. ASSUME NEW v \in InInbox(s, k)', NEW w \in InInbox(s, k)', v[1] # t, w[1] = t
          PROVE  FALSE
      <3>1. v \in InInbox(s, k) /\ <<t, w[2] + 1>> \in InInbox(s, k) BY <1>10, <2>3
      <3>2. v = <<t, w[2] + 1>> BY <3>1 DEF Lone
      <3> QED BY <2>3, <3>2
    <2> QED BY <2>1, <2>2, <2>3
  <1>13. ASSUME Head(inbox[t]) # Asking(s, t, k), InInbox(s, k) # {} PROVE InInbox(s, k)' # {}
    <2>0. PICK u \in Service : \E i \in DOMAIN inbox[u] : inbox[u][i] = Asking(s, u, k)
      BY <1>13 DEF InInbox
    <2>1. PICK i \in DOMAIN inbox[u] : inbox[u][i] = Asking(s, u, k) BY <2>0
    <2>2. CASE u # t
      <3>1. <<u, i>> \in InInbox(s, k)' BY <1>1, <2>1, <2>2 DEF InInbox
      <3> QED BY <3>1
    <2>3. CASE u = t
      <3>1. i # 1 BY <1>3, <1>13, <2>1, <2>3
      <3>2. i - 1 \in DOMAIN inbox'[t] /\ inbox'[t][i - 1] = Asking(s, t, k)
        BY <1>3, <1>5, <2>1, <2>3, <3>1
      <3>3. <<t, i - 1>> \in InInbox(s, k)' BY <3>2 DEF InInbox
      <3> QED BY <3>3
    <2> QED BY <2>2, <2>3
  <1>14. ASSUME Head(inbox[t]) = Asking(s, t, k)
         PROVE  InInbox(s, k) # {} /\ (Lone(InInbox(s, k)) => InInbox(s, k)' = {})
    <2>1. <<t, 1>> \in InInbox(s, k) BY <1>3, <1>6, <1>14 DEF InInbox
    <2>2. ASSUME Lone(InInbox(s, k)), NEW x \in InInbox(s, k)' PROVE FALSE
      <3>1. CASE x[1] # t
        <4>1. x = <<t, 1>> BY <1>10, <2>1, <2>2, <3>1 DEF Lone
        <4> QED BY <3>1, <4>1
      <3>2. CASE x[1] = t
        <4>1. x[2] \in 1 .. n - 1 /\ <<t, x[2] + 1>> = <<t, 1>>
          BY <1>10, <2>1, <2>2, <3>2 DEF Lone
        <4> QED BY <1>4, <4>1
      <3> QED BY <3>1, <3>2
    <2> QED BY <2>1, <2>2
  <1> QED BY <1>8, <1>9, <1>11, <1>12, <1>13, <1>14

\* Of the session a service is going to use there is nothing anywhere.
LEMMA NothingYet ==
  ASSUME Inv, NEW s \in Service, Alive(s), NEW k \in Session, ~(k < session_id[s])
  PROVE  /\ InInbox(s, k) = {} /\ WithHandler(s, k) = {} /\ k \notin timer[s]
         /\ lookup[s][k] = none /\ ~Answered(s, k)
         /\ ~In(retry[s], AnswerTo(s, k)) /\ ~In(blocked[s], k)
  <1> USE DEF Inv
  <1>1. ~Past(s, k) BY DEF Past
  <1>2. AnswerTo(s, k) \notin Reply BY <1>1, Fields DEF Reply
  <1>3. \A t \in Service : Asking(s, t, k) \notin Question
    BY <1>1, Fields, Constants DEF Question
  <1>4. \A t \in Service : ~In(inbox[t], Asking(s, t, k)) /\ ~In(inbox[t], AnswerTo(s, k))
    <2> SUFFICES ASSUME NEW t \in Service, NEW i \in DOMAIN inbox[t]
                 PROVE  inbox[t][i] \notin {Asking(s, t, k), AnswerTo(s, k)}
      BY DEF In
    <2>1. inbox[t][i] \in Mail(t) BY DEF Inboxes
    <2>2. inbox[t][i] \in Reply \cup Question BY <2>1 DEF Mail, ReplyTo
    <2>3. Asking(s, t, k) \notin Reply /\ AnswerTo(s, k) \notin Question
      BY Fields DEF Reply, Question
    <2> QED BY <1>2, <1>3, <2>2, <2>3
  <1>5. InInbox(s, k) = {} BY <1>4 DEF InInbox, In
  <1>6. WithHandler(s, k) = {} BY <1>1 DEF WithHandler, Coroutines
  <1>7. k \notin timer[s] BY <1>1 DEF Timers, PastOf
  <1>8. lookup[s][k] = none BY <1>1 DEF Lookups
  <1>9. ~In(retry[s], AnswerTo(s, k))
    <2>1. retry[s] \in Seq(ReplyTo(s)) BY DEF Roots
    <2>2. \A i \in DOMAIN retry[s] : retry[s][i] \in Reply BY <2>1 DEF ReplyTo
    <2> QED BY <1>2, <2>2 DEF In
  <1>10. ~In(rootbox, AnswerTo(s, k)) BY <1>2 DEF In, Roots
  <1>11. AnswerTo(s, k) \notin raises \cup forked BY <1>2 DEF Roots
  <1>12. \A t \in Service, c \in Co : ~HeldBy(t, c, s, k) BY <1>2 DEF HeldBy, Coroutines
  <1>13. ~In(blocked[s], k)
    <2>1. blocked[s] \in Seq(PastOf(s)) BY DEF Timers
    <2>2. \A i \in DOMAIN blocked[s] : blocked[s][i] \in PastOf(s) BY <2>1
    <2> QED BY <1>1, <2>2 DEF In, PastOf
  <1>14. ~Posted(s, k) BY <1>4 DEF Posted
  <1> QED BY <1>5, <1>6, <1>7, <1>8, <1>9, <1>10, <1>11, <1>12, <1>13, <1>14 DEF Answered

\* The one that runs now waits for the next session (service.lua:345-348).
LEMMA Suspended ==
  ASSUME Inv, NEW t \in Service, Alive(t), running_thread[t] \in Co, Suspend(t),
         UNCHANGED status, NEW s \in Service, NEW k \in Session
  PROVE  /\ s = t /\ k = session_id[t] =>
              CallerOf(s, k) = "unused" /\ CallerOf(s, k)' = "waits"
         /\ ~(s = t /\ k = session_id[t]) => CallerOf(s, k)' = CallerOf(s, k)
  <1>1. /\ session_id \in [Service -> Nat]
        /\ lookup \in [Service -> [Session -> Co \cup {none}]]
        /\ session_id[t] \in Session
    BY Constants DEF Inv, Statuses, Lookups, Suspend
  <1>2. /\ lookup' = [lookup EXCEPT ![t] = [lookup[t] EXCEPT ![session_id[t]] = running_thread[t]]]
        /\ session_id' = [session_id EXCEPT ![t] = @ + 1]
    BY DEF Suspend, At
  <1>3. CASE s = t /\ k = session_id[t]
    <2>1. lookup[s][k] = none BY <1>1, <1>3, NothingYet
    <2>2. lookup'[s][k] = running_thread[t] BY <1>1, <1>2, <1>3
    <2>3. k \in Int /\ k >= session_id[s] BY <1>3, Sessions
    <2>4. running_thread[t] # none BY Constants
    <2>5. Alive(s) /\ Alive(s)' BY <1>3 DEF Alive
    <2>6. CallerOf(s, k) = "unused" BY <2>1, <2>3, <2>5 DEF CallerOf
    <2>7. CallerOf(s, k)' = "waits" BY <2>2, <2>4, <2>5 DEF CallerOf
    <2> QED BY <1>3, <2>6, <2>7
  <1>4. CASE ~(s = t /\ k = session_id[t])
    <2>1. lookup'[s][k] = lookup[s][k] BY <1>1, <1>2, <1>4
    <2>2. k >= session_id'[s] <=> k >= session_id[s]
      <3>1. CASE s # t BY <1>1, <1>2, <3>1
      <3>2. CASE s = t
        <4>1. session_id'[s] = session_id[s] + 1 /\ session_id[s] \in Nat BY <1>1, <1>2, <3>2
        <4>2. k \in Int /\ k # session_id[s] BY <1>4, <3>2, Sessions
        <4> QED BY <4>1, <4>2
      <3> QED BY <3>1, <3>2
    <2>3. Alive(s)' <=> Alive(s) BY DEF Alive
    <2>4. CallerOf(s, k)' = CallerOf(s, k) BY <2>1, <2>2, <2>3 DEF CallerOf
    <2> QED BY <1>4, <2>4
  <1> QED BY <1>3, <1>4

----------------------------------------------------------------------------
(* The steps of a service *)

\* The queues of the timer and of root are as they were.
OutsideSame == UNCHANGED <<timerVars, rootVars>>

\* Neither the caller, nor its request, nor an answer are touched.
LEMMA CalmStep ==
  ASSUME PromiseInv, NEW s \in Service, NEW k \in Session,
         CallerOf(s, k)' = CallerOf(s, k), InInbox(s, k)' = InInbox(s, k),
         Posted(s, k)' <=> Posted(s, k), WithHandler(s, k)' \subseteq WithHandler(s, k),
         \A t \in Service, c \in Co : HeldBy(t, c, s, k)' <=> HeldBy(t, c, s, k),
         OutsideSame
  PROVE  Keeps(s, k)
  <1> USE DEF OutsideSame, timerVars, rootVars
  <1>1. RequestKept(s, k) BY DEF RequestKept
  <1>2. Answered(s, k)' <=> Answered(s, k) BY SameAnswered
  <1>3. Arrived(s, k) => Arrived(s, k)' BY SameArrived
  <1> QED BY <1>1, <1>2, <1>3, Calm

LEMMA SendPromised ==
  ASSUME Inv, PromiseInv, NEW t \in Service, NEW u \in Service, Send(t, u),
         NEW s \in Service, NEW k \in Session
  PROVE  Keeps(s, k)
  <1>1. PICK m : m = [typ |-> "request", from |-> t, to |-> u, session |-> SESSION_SEND_MESSAGE]
    OBVIOUS
  <1>2. Deliver(m, "done") /\ UNCHANGED <<status, loopVars, coVars, timerVars, rootVars>>
    BY <1>1 DEF Send
  <1>3. m \in Message BY <1>1 DEF Message
  <1>4. m # AnswerTo(s, k) /\ m # Asking(s, m.to, k) BY <1>1, Fields, Sessions
  <1>5. InInbox(s, k)' = InInbox(s, k) /\ (Posted(s, k)' <=> Posted(s, k))
    BY <1>2, <1>3, <1>4, InboxGets
  <1>6. CallerOf(s, k)' = CallerOf(s, k) BY <1>2, SameCaller DEF loopVars
  <1>7. WithHandler(s, k)' = WithHandler(s, k) BY <1>2, SameHandlers DEF coVars
  <1>8. \A v \in Service, c \in Co : HeldBy(v, c, s, k)' <=> HeldBy(v, c, s, k)
    BY <1>2, SameHeld DEF coVars
  <1> QED BY <1>2, <1>5, <1>6, <1>7, <1>8, CalmStep DEF OutsideSame

\* A new call or sleep of t; it keeps what there is of the others.
LEMMA AskPromised ==
  ASSUME Inv, PromiseInv, NEW t \in Service, Alive(t), running_thread[t] \in Co, Suspend(t),
         UNCHANGED <<status, address, response, kind, held, blocked, turn, rootVars>>,
         NEW s \in Service, NEW k \in Session,
         Posted(s, k)' <=> Posted(s, k),
         IF s = t /\ k = session_id[t]
         THEN Lone(InInbox(s, k)') /\ (k \in timer'[s] => InInbox(s, k)' = {})
         ELSE InInbox(s, k)' = InInbox(s, k) /\ (k \in timer'[s] <=> k \in timer[s])
  PROVE  Keeps(s, k)
  <1>1. WithHandler(s, k)' = WithHandler(s, k) BY SameHandlers
  <1>2. \A v \in Service, c \in Co : HeldBy(v, c, s, k)' <=> HeldBy(v, c, s, k)
    BY SameHeld
  <1>3. Answered(s, k)' <=> Answered(s, k) BY <1>2, SameAnswered DEF rootVars
  <1>4. CASE s = t /\ k = session_id[t]
    <2>1. /\ InInbox(s, k) = {} /\ WithHandler(s, k) = {} /\ k \notin timer[s]
          /\ ~Answered(s, k)
          /\ ~In(retry[s], AnswerTo(s, k)) /\ ~In(blocked[s], k)
      BY <1>4, NothingYet, Sessions
    <2>2. Single(s, k) /\ Single(s, k)' BY <1>1, <1>4, <2>1 DEF Single, Lone
    <2>3. RequestOf(s, k) = "none" /\ RequestOf(s, k)' \in {"none", "asked", "serving"}
      BY <2>1, <2>2, RequestIs, RequestIsNext
    <2>4. Arrived(s, k)' BY <2>1 DEF Arrived, rootVars
    <2>5. Promise!Step(s, k) BY <1>3, <1>4, <2>1, <2>3, Suspended, AskStep
    <2> QED BY <2>2, <2>4, <2>5 DEF Keeps
  <1>5. CASE ~(s = t /\ k = session_id[t])
    <2>1. CallerOf(s, k)' = CallerOf(s, k) BY <1>5, Suspended
    <2>2. RequestKept(s, k) BY <1>1, <1>5 DEF RequestKept
    <2>3. Arrived(s, k) => Arrived(s, k)' BY SameArrived DEF rootVars
    <2> QED BY <1>3, <2>1, <2>2, <2>3, Calm
  <1> QED BY <1>4, <1>5

LEMMA CallPromised ==
  ASSUME Inv, PromiseInv, NEW t \in Service, NEW u \in Service, Call(t, u),
         NEW s \in Service, NEW k \in Session
  PROVE  Keeps(s, k)
  <1>1. PICK m : m = Asking(t, u, session_id[t]) OBVIOUS
  <1>2. /\ Suspend(t) /\ Deliver(m, "done")
        /\ UNCHANGED <<status, coVars, timerVars, rootVars>>
    BY <1>1 DEF Call, Asking
  <1>3. Alive(t) /\ running_thread[t] \in Co BY Running DEF Call, Handles, Inv
  <1>4. session_id[t] \in Session BY <1>2, Constants DEF Suspend, Inv, Statuses
  <1>5. m \in Message /\ m.from = t /\ m.session = session_id[t] /\ m.typ = "request"
    BY <1>1, <1>4, Fields
  <1>6. m # AnswerTo(s, k) /\ (~(s = t /\ k = session_id[t]) => m # Asking(s, m.to, k))
    BY <1>5, Fields
  <1>7. Posted(s, k)' <=> Posted(s, k) BY <1>2, <1>5, <1>6, InboxGets
  <1>8. ~(s = t /\ k = session_id[t]) => InInbox(s, k)' = InInbox(s, k)
    BY <1>2, <1>5, <1>6, InboxGets
  <1>9. ASSUME s = t, k = session_id[t] PROVE Lone(InInbox(s, k)') /\ k \notin timer'[s]
    <2>1. InInbox(s, k) = {} /\ k \notin timer[s] BY <1>3, <1>9, NothingYet, Sessions
    <2> QED BY <1>2, <1>5, <2>1, InboxGets DEF timerVars
  <1> QED BY <1>2, <1>3, <1>7, <1>8, <1>9, AskPromised DEF coVars, timerVars

LEMMA SleepPromised ==
  ASSUME Inv, PromiseInv, NEW t \in Service, Sleep(t) \/ HandOverBlocked(t),
         NEW s \in Service, NEW k \in Session
  PROVE  Keeps(s, k)
  <1>1. /\ Suspend(t) /\ AddTimer(t, session_id[t])
        /\ UNCHANGED <<status, inbox, coVars, rootVars>>
    BY DEF Sleep, HandOverBlocked
  <1>2. Alive(t) /\ running_thread[t] \in Co
    BY Running DEF Sleep, HandOverBlocked, Handles, Inv
  <1>3. InInbox(s, k)' = InInbox(s, k) /\ (Posted(s, k)' <=> Posted(s, k))
    BY <1>1, SameInbox
  <1>4. s = t /\ k = session_id[t] => InInbox(s, k) = {}
    BY <1>2, NothingYet, Sessions
  <1>5. ~(s = t /\ k = session_id[t]) => (k \in timer'[s] <=> k \in timer[s])
    BY <1>1, Queues DEF AddTimer
  <1>6. UNCHANGED <<blocked, turn>> BY <1>1 DEF AddTimer
  <1> QED BY <1>1, <1>2, <1>3, <1>4, <1>5, <1>6, AskPromised DEF coVars, Lone

LEMMA WaitPromised ==
  ASSUME Inv, PromiseInv, NEW t \in Service, Wait(t), NEW s \in Service, NEW k \in Session
  PROVE  Keeps(s, k)
  <1>1. /\ session_id' = [session_id EXCEPT ![t] = @ + 1]
        /\ UNCHANGED <<status, inbox, lookup, coVars, timerVars, rootVars>>
    BY DEF Wait
  <1>2. Alive(t) BY DEF Wait, Handles, Runs
  <1>3. session_id \in [Service -> Nat] BY DEF Inv, Statuses
  <1>4. InInbox(s, k)' = InInbox(s, k) /\ (Posted(s, k)' <=> Posted(s, k))
    BY <1>1, SameInbox
  <1>5. WithHandler(s, k)' = WithHandler(s, k) BY <1>1, SameHandlers DEF coVars
  <1>6. \A v \in Service, c \in Co : HeldBy(v, c, s, k)' <=> HeldBy(v, c, s, k)
    BY <1>1, SameHeld DEF coVars
  <1>7. CASE s = t /\ k = session_id[t]
    <2>1. lookup[s][k] = none /\ k \in Int BY <1>2, <1>7, NothingYet, Sessions
    <2>2. session_id'[s] = k + 1 /\ session_id[s] = k BY <1>1, <1>3, <1>7
    <2>3. Alive(s) /\ Alive(s)' BY <1>1, <1>2, <1>7 DEF Alive
    <2>4. CallerOf(s, k) = "unused"
      <3>1. k >= session_id[s] BY <2>1, <2>2
      <3> QED BY <2>1, <2>3, <3>1 DEF CallerOf
    <2>5. CallerOf(s, k)' = "over"
      <3>1. ~(k >= session_id'[s]) /\ lookup'[s][k] = none BY <1>1, <2>1, <2>2
      <3> QED BY <2>3, <3>1 DEF CallerOf
    <2>6. RequestOf(s, k)' = RequestOf(s, k) BY <1>1, <1>4, <1>5 DEF RequestOf, timerVars
    <2>7. Single(s, k)'
      BY <1>1, <1>4, <1>5 DEF PromiseInv, SingleInv, Single, timerVars
    <2>8. ~Waits(s, k)' BY <1>1, <2>1 DEF Waits
    <2> QED BY <2>4, <2>5, <2>6, <2>7, <2>8, UseStep DEF Keeps
  <1>8. CASE ~(s = t /\ k = session_id[t])
    <2>1. k >= session_id'[s] <=> k >= session_id[s]
      <3>1. CASE s # t BY <1>1, <1>3, <3>1
      <3>2. CASE s = t
        <4>1. session_id'[s] = session_id[s] + 1 /\ session_id[s] \in Nat BY <1>1, <1>3, <3>2
        <4>2. k \in Int /\ k # session_id[s] BY <1>8, <3>2, Sessions
        <4> QED BY <4>1, <4>2
      <3> QED BY <3>1, <3>2
    <2>2. Alive(s)' <=> Alive(s) BY <1>1 DEF Alive
    <2>3. CallerOf(s, k)' = CallerOf(s, k) BY <1>1, <2>1, <2>2 DEF CallerOf
    <2> QED BY <1>1, <1>4, <1>5, <1>6, <2>3, CalmStep DEF OutsideSame
  <1> QED BY <1>7, <1>8
\* No coroutine begins to wait, ends or gets an answer.
LEMMA QuietPromised ==
  ASSUME Inv, PromiseInv, NEW t \in Service,
         (\E d \in Co : Wakeup(t, d)) \/ WakeupNext(t),
         NEW s \in Service, NEW k \in Session
  PROVE  Keeps(s, k)
  <1>1. UNCHANGED <<status, inbox, lookup, session_id, coVars, timerVars, rootVars>>
    BY DEF Wakeup, WakeupNext
  <1>2. CallerOf(s, k)' = CallerOf(s, k) BY <1>1, SameCaller
  <1>3. InInbox(s, k)' = InInbox(s, k) /\ (Posted(s, k)' <=> Posted(s, k))
    BY <1>1, SameInbox
  <1>4. WithHandler(s, k)' = WithHandler(s, k) BY <1>1, SameHandlers DEF coVars
  <1>5. \A v \in Service, c \in Co : HeldBy(v, c, s, k)' <=> HeldBy(v, c, s, k)
    BY <1>1, SameHeld DEF coVars
  <1> QED BY <1>1, <1>2, <1>3, <1>4, <1>5, CalmStep DEF OutsideSame

LEMMA ForkPromised ==
  ASSUME Inv, PromiseInv, NEW t \in Service, NEW y \in {"fork", "quit"}, Fork(t, y),
         NEW s \in Service, NEW k \in Session
  PROVE  Keeps(s, k)
  <1>1. PICK d \in NewThread(t) : kind' = At(kind, t, d, y) BY DEF Fork
  <1>2. d \in Co /\ kind[t][d] = "free" BY Threads
  <1>3. UNCHANGED <<status, inbox, lookup, session_id, address, response, held,
                    timerVars, rootVars>>
    BY DEF Fork
  <1>4. \A u \in Service, c \in Co : kind'[u][c] = "blocked" <=> kind[u][c] = "blocked"
    BY <1>1, <1>2, Columns DEF At
  <1>5. CallerOf(s, k)' = CallerOf(s, k) BY <1>3, SameCaller
  <1>6. InInbox(s, k)' = InInbox(s, k) /\ (Posted(s, k)' <=> Posted(s, k))
    BY <1>3, SameInbox
  <1>7. WithHandler(s, k)' = WithHandler(s, k) BY <1>3, SameHandlers
  <1>8. \A v \in Service, c \in Co : HeldBy(v, c, s, k)' <=> HeldBy(v, c, s, k)
    BY <1>3, <1>4, SameHeld
  <1> QED BY <1>3, <1>5, <1>6, <1>7, <1>8, CalmStep DEF OutsideSame

\* The handler is none any more for the runtime (service.lua:299-326).
LEMMA NoResponsePromised ==
  ASSUME Inv, PromiseInv, NEW t \in Service, NoResponse(t),
         NEW s \in Service, NEW k \in Session
  PROVE  Keeps(s, k)
  <1>1. PICK c : c = running_thread[t] OBVIOUS
  <1>2. /\ c \in Co /\ response' = At(response, t, c, nil)
        /\ UNCHANGED <<status, inbox, lookup, session_id, kind, address, held,
                       timerVars, rootVars>>
    BY <1>1, Running DEF NoResponse, loopVars, Inv
  <1>3. \A u \in Service, d \in Co : response'[u][d] \in {response[u][d], nil}
    BY <1>2, Columns DEF At
  <1>4. WithHandler(s, k)' \subseteq WithHandler(s, k)
    BY <1>2, <1>3, Sessions DEF WithHandler
  <1>5. CallerOf(s, k)' = CallerOf(s, k) BY <1>2, SameCaller
  <1>6. InInbox(s, k)' = InInbox(s, k) /\ (Posted(s, k)' <=> Posted(s, k))
    BY <1>2, SameInbox
  <1>7. \A v \in Service, d \in Co : HeldBy(v, d, s, k)' <=> HeldBy(v, d, s, k)
    BY <1>2, SameHeld
  <1> QED BY <1>2, <1>4, <1>5, <1>6, <1>7, CalmStep DEF OutsideSame

\* Coroutine c of t ends: what it handled or held it has no more.
LEMMA FinishGone ==
  ASSUME Inv, NEW t \in Service, NEW c \in Co, Finish(t, c), UNCHANGED status,
         NEW s \in Service, NEW k \in Session
  PROVE  /\ WithHandler(s, k)' \subseteq WithHandler(s, k)
         /\ \A u \in Service, d \in Co :
              HeldBy(u, d, s, k)' <=> HeldBy(u, d, s, k) /\ ~(u = t /\ d = c)
  <1>1. \A u \in Service, d \in Co :
          /\ address'[u][d] = IF u = t /\ d = c THEN none ELSE address[u][d]
          /\ response'[u][d] = IF u = t /\ d = c THEN nil ELSE response[u][d]
    BY Columns DEF Finish, At
  <1>2. \A u \in Service, d \in Co :
          /\ kind'[u][d] = IF u = t /\ d = c THEN "free" ELSE kind[u][d]
          /\ held'[u][d] = IF u = t /\ d = c THEN NoMessage ELSE held[u][d]
    BY Columns DEF Finish, At
  <1>3. WithHandler(s, k)' \subseteq WithHandler(s, k)
    BY <1>1, Constants DEF WithHandler
  <1>4. \A u \in Service, d \in Co :
          HeldBy(u, d, s, k)' <=> HeldBy(u, d, s, k) /\ ~(u = t /\ d = c)
    BY <1>2 DEF HeldBy, Alive
  <1> QED BY <1>3, <1>4

LEMMA EndPromised ==
  ASSUME Inv, PromiseInv, NEW t \in Service, End(t) \/ QuitDone(t),
         NEW s \in Service, NEW k \in Session
  PROVE  Keeps(s, k)
  <1>1. PICK c : c = running_thread[t] OBVIOUS
  <1>2. c \in Co /\ kind[t][c] # "blocked"
    BY <1>1, Running DEF End, Handles, QuitDone, Quits, Inv
  <1>3. /\ Finish(t, c)
        /\ UNCHANGED <<status, inbox, lookup, session_id, timerVars, rootVars>>
    BY <1>1 DEF End, QuitDone
  <1>4. WithHandler(s, k)' \subseteq WithHandler(s, k) BY <1>2, <1>3, FinishGone
  <1>5. \A u \in Service, d \in Co : HeldBy(u, d, s, k)' <=> HeldBy(u, d, s, k)
    BY <1>2, <1>3, FinishGone DEF HeldBy
  <1>6. CallerOf(s, k)' = CallerOf(s, k) BY <1>3, SameCaller
  <1>7. InInbox(s, k)' = InInbox(s, k) /\ (Posted(s, k)' <=> Posted(s, k))
    BY <1>3, SameInbox
  <1> QED BY <1>3, <1>4, <1>5, <1>6, <1>7, CalmStep DEF OutsideSame

\* The answer that coroutine c held is now with root (service.lua:221-259).
LEMMA HandOverPromised ==
  ASSUME Inv, PromiseInv, NEW t \in Service, HandOver(t),
         NEW s \in Service, NEW k \in Session
  PROVE  Keeps(s, k)
  <1>1. PICK c, m : c = running_thread[t] /\ m = held[t][c] OBVIOUS
  <1>2. c \in Co /\ kind[t][c] = "blocked" /\ Finish(t, c) /\ Alive(t)
    BY <1>1, Running DEF HandOver, Inv
  <1>3. /\ rootbox' = Append(rootbox, m)
        /\ UNCHANGED <<status, inbox, lookup, session_id, timerVars, retry, at, raises, forked>>
    BY <1>1 DEF HandOver
  <1>4. m \in Message BY <1>1, <1>2 DEF Inv, Coroutines, Reply
  <1>5. \A y : In(rootbox', y) <=> In(rootbox, y) \/ y = m
    BY <1>3, <1>4, AppendIn, Queues
  <1>6. InInbox(s, k)' = InInbox(s, k) /\ (Posted(s, k)' <=> Posted(s, k))
    BY <1>3, SameInbox
  <1>7. WithHandler(s, k)' \subseteq WithHandler(s, k) BY <1>2, <1>3, FinishGone
  <1>8. \A u \in Service, d \in Co :
          HeldBy(u, d, s, k)' <=> HeldBy(u, d, s, k) /\ ~(u = t /\ d = c)
    BY <1>2, <1>3, FinishGone
  <1>9. HeldBy(t, c, s, k) <=> m = AnswerTo(s, k) BY <1>1, <1>2 DEF HeldBy
  <1>10. (\E u \in Service, d \in Co : HeldBy(u, d, s, k)) <=>
           (\E u \in Service, d \in Co : HeldBy(u, d, s, k)') \/ m = AnswerTo(s, k)
    BY <1>2, <1>8, <1>9
  <1>11. Answered(s, k)' <=> Answered(s, k)
    BY <1>3, <1>5, <1>6, <1>10 DEF Answered, timerVars
  <1>12. CallerOf(s, k)' = CallerOf(s, k) BY <1>3, SameCaller
  <1>13. RequestKept(s, k) BY <1>3, <1>6, <1>7 DEF RequestKept, timerVars
  <1>14. Arrived(s, k) => Arrived(s, k)' BY <1>3, <1>6, SameArrived DEF timerVars
  <1> QED BY <1>11, <1>12, <1>13, <1>14, Calm
\* Service t has posted the answer to call j of x, which coroutine c handles
\* (service.lua:221-259).
LEMMA PostAnswered ==
  ASSUME Inv, NEW t \in Service, Alive(t), NEW c \in Co, NEW x \in Service, NEW j \in Session,
         NEW ends \in BOOLEAN, ends => kind[t][c] # "blocked",
         PostResponse(t, c, AnswerTo(x, j), ends), UNCHANGED <<status, timerVars, rootVars>>,
         NEW s \in Service, NEW k \in Session
  PROVE  /\ InInbox(s, k)' = InInbox(s, k)
         /\ WithHandler(s, k)' \subseteq WithHandler(s, k)
         /\ Posted(s, k) => Posted(s, k)'
         /\ ~(s = x /\ k = j) => (Answered(s, k)' <=> Answered(s, k))
         /\ s = x /\ k = j /\ Alive(s) => Answered(s, k)'
  <1> USE Columns DEF timerVars, rootVars
  <1>1. PICK m : m = AnswerTo(x, j) OBVIOUS
  <1>2. m \in Message /\ m.to = x /\ m # Asking(s, m.to, k) BY <1>1, Fields
  <1>3. PICK r \in Receipt(m.to) :
          /\ Deliver(m, r)
          /\ IF r = "block"
             THEN \E d \in NewThread(t) :
                    /\ kind' = [kind EXCEPT ![t] =
                         [y \in Co |-> IF y = d THEN "blocked"
                                       ELSE IF y = c /\ ends THEN "free" ELSE @[y]]]
                    /\ held' = At(held, t, d, m)
             ELSE /\ kind' = IF ends THEN At(kind, t, c, "free") ELSE kind
                  /\ UNCHANGED held
    BY <1>1 DEF PostResponse
  <1>4. /\ address' = IF ends THEN At(address, t, c, none) ELSE address
        /\ response' = IF ends THEN At(response, t, c, nil) ELSE response
    BY DEF PostResponse
  <1>5. /\ Posted(s, k)' <=> Posted(s, k) \/ (r = "done" /\ Alive(x) /\ m = AnswerTo(s, k))
        /\ InInbox(s, k)' = InInbox(s, k)
    BY <1>2, <1>3, InboxGets
  <1>6. WithHandler(s, k)' \subseteq WithHandler(s, k)
    <2>1. \A u \in Service, d \in Co :
            \/ address'[u][d] = none
            \/ address'[u][d] = address[u][d] /\ response'[u][d] = response[u][d]
      BY <1>4 DEF At
    <2>2. ASSUME NEW y \in Service \X Co, address'[y[1]][y[2]] = s, response'[y[1]][y[2]] = k
          PROVE  address[y[1]][y[2]] = s /\ response[y[1]][y[2]] = k
      BY <2>1, <2>2, Constants
    <2> QED BY <2>2 DEF WithHandler
  <1>7. m = AnswerTo(s, k) <=> s = x /\ k = j
    <2>1. m.to = x /\ m.session = j BY <1>1, Fields
    <2> QED BY <1>1, <2>1, Fields
  <1>8. CASE r = "block"
    <2>1. PICK d \in NewThread(t) :
            /\ kind' = [kind EXCEPT ![t] =
                 [y \in Co |-> IF y = d THEN "blocked"
                               ELSE IF y = c /\ ends THEN "free" ELSE @[y]]]
            /\ held' = At(held, t, d, m)
      BY <1>3, <1>8
    <2>2. d \in Co /\ kind[t][d] = "free" BY Threads
    <2>3. /\ \A y \in Co : kind'[t][y] = IF y = d THEN "blocked"
                             ELSE IF y = c /\ ends THEN "free" ELSE kind[t][y]
          /\ \A y \in Co : held'[t][y] = IF y = d THEN m ELSE held[t][y]
          /\ \A u \in Service \ {t} : kind'[u] = kind[u] /\ held'[u] = held[u]
      BY <2>1, <2>2 DEF At
    <2>4. \A y \in Co : HeldBy(t, y, s, k)' <=>
            HeldBy(t, y, s, k) \/ (y = d /\ m = AnswerTo(s, k))
      BY <2>2, <2>3 DEF HeldBy, Alive
    <2>5. \A u \in Service \ {t}, y \in Co : HeldBy(u, y, s, k)' <=> HeldBy(u, y, s, k)
      BY <2>3 DEF HeldBy, Alive
    <2>6. (\E u \in Service, y \in Co : HeldBy(u, y, s, k)') <=>
            (\E u \in Service, y \in Co : HeldBy(u, y, s, k)) \/ m = AnswerTo(s, k)
      BY <2>2, <2>4, <2>5
    <2>7. Answered(s, k)' <=> Answered(s, k) \/ m = AnswerTo(s, k)
      BY <1>5, <1>8, <2>6 DEF Answered
    <2> QED BY <1>5, <1>6, <1>7, <2>7
  <1>9. CASE r # "block"
    <2>1. /\ held' = held
          /\ \A y \in Co : kind'[t][y] = IF ends /\ y = c THEN "free" ELSE kind[t][y]
          /\ \A u \in Service \ {t} : kind'[u] = kind[u]
      BY <1>3, <1>9 DEF At
    <2>2. \A u \in Service, y \in Co : HeldBy(u, y, s, k)' <=> HeldBy(u, y, s, k)
      BY <2>1 DEF HeldBy, Alive
    <2>3. ~(s = x /\ k = j) => (Answered(s, k)' <=> Answered(s, k))
      BY <1>5, <1>7, <2>2 DEF Answered
    <2>4. s = x /\ k = j /\ Alive(s) => Answered(s, k)'
      <3>1. s = x /\ Alive(s) => r = "done" BY <1>2, <1>3, <1>9, LivingReceipt
      <3> QED BY <1>5, <1>7, <3>1 DEF Answered
    <2> QED BY <1>5, <1>6, <2>3, <2>4
  <1> QED BY <1>8, <1>9

\* An answer that is posted is one to a request that is handled.
LEMMA PostPromised ==
  ASSUME Inv, PromiseInv, NEW t \in Service, Alive(t), NEW c \in Open(t),
         response[t][c] # nil, NEW ends \in BOOLEAN, ends => kind[t][c] # "blocked",
         PostResponse(t, c, AnswerTo(address[t][c], response[t][c]), ends),
         UNCHANGED <<status, lookup, session_id, timerVars, rootVars>>,
         NEW s \in Service, NEW k \in Session
  PROVE  Keeps(s, k)
  <1>1. PICK x, j : x = address[t][c] /\ j = response[t][c] OBVIOUS
  <1>2. x \in Service /\ j \in Session /\ c \in Co
    <2>1. AnswerTo(x, j) \in Reply /\ c \in Co BY <1>1, OpenIsReply DEF Inv
    <2>2. AnswerTo(x, j).to \in Service /\ AnswerTo(x, j).session \in Session
      BY <2>1, MessageFields DEF Reply
    <2> QED BY <2>1, <2>2, Fields
  <1>3. PostResponse(t, c, AnswerTo(x, j), ends) BY <1>1
  <1>4. /\ InInbox(s, k)' = InInbox(s, k)
        /\ WithHandler(s, k)' \subseteq WithHandler(s, k)
        /\ Posted(s, k) => Posted(s, k)'
        /\ ~(s = x /\ k = j) => (Answered(s, k)' <=> Answered(s, k))
        /\ s = x /\ k = j /\ Alive(s) => Answered(s, k)'
    BY <1>2, <1>3, PostAnswered
  <1>5. CallerOf(s, k)' = CallerOf(s, k) BY SameCaller
  <1>6. RequestKept(s, k) BY <1>4 DEF RequestKept, timerVars
  <1>7. Arrived(s, k) => Arrived(s, k)' BY <1>4, SameArrived DEF timerVars, rootVars
  <1>8. CASE ~(s = x /\ k = j) BY <1>4, <1>5, <1>6, <1>7, <1>8, Calm
  <1>9. CASE s = x /\ k = j
    <2>1. <<t, c>> \in WithHandler(s, k) BY <1>1, <1>2, <1>9 DEF WithHandler
    <2>2. Single(s, k) /\ (Waits(s, k) => Arrived(s, k))
      BY DEF PromiseInv, SingleInv, ArrivedInv
    <2>3. RequestOf(s, k) = "serving" BY <2>1, <2>2, RequestIs DEF Single
    <2>4. Single(s, k)' /\ RequestOf(s, k)' \in {"none", "serving"}
      BY <1>6, <2>2, <2>3, KeptRequest
    <2>5. Waits(s, k) => Answered(s, k)' BY <1>4, <1>9 DEF Waits
    <2>6. Promise!Step(s, k) BY <1>5, <2>3, <2>4, <2>5, AnswerStep
    <2>7. Waits(s, k)' <=> Waits(s, k) BY <1>5, CallersWait
    <2> QED BY <1>7, <2>2, <2>4, <2>6, <2>7 DEF Keeps
  <1> QED BY <1>8, <1>9

LEMMA RespondPromised ==
  ASSUME Inv, PromiseInv, NEW t \in Service, Respond(t),
         NEW s \in Service, NEW k \in Session
  PROVE  Keeps(s, k)
  <1>1. PICK c : c = running_thread[t] OBVIOUS
  <1>2. c \in Co /\ Alive(t) /\ kind[t][c] # "blocked"
    BY <1>1, Running DEF Respond, Handles, Inv
  <1>3. /\ c \in Open(t) /\ response[t][c] # nil
        /\ PostResponse(t, c, AnswerTo(address[t][c], response[t][c]), TRUE)
    BY <1>1 DEF Respond, Answer
  <1>4. UNCHANGED <<status, lookup, session_id, timerVars, rootVars>> BY DEF Respond
  <1> QED BY <1>2, <1>3, <1>4, PostPromised

\* The handler goes on when ltask.quit has answered for it (service.lua:636-646).
LEMMA QuitRaisePromised ==
  ASSUME Inv, PromiseInv, NEW t \in Service, NEW c \in Co, QuitRaise(t, c),
         NEW s \in Service, NEW k \in Session
  PROVE  Keeps(s, k)
  <1>1. Alive(t) /\ c \in Open(t) /\ response[t][c] # nil BY DEF QuitRaise, Quits, Runs
  <1>2. PostResponse(t, c, AnswerTo(address[t][c], response[t][c]), FALSE) BY DEF QuitRaise
  <1>3. UNCHANGED <<status, lookup, session_id, timerVars, rootVars>> BY DEF QuitRaise
  <1> QED BY <1>1, <1>2, <1>3, PostPromised
\* What service t had when it died is gone (service.lua:860-880).
LEMMA DiePromised ==
  ASSUME Inv, PromiseInv, NEW t \in Service, Alive(t), Die(t),
         NEW s \in Service, NEW k \in Session
  PROVE  Keeps(s, k)
  <1>1. ~Alive(t)' /\ \A u \in Service \ {t} : Alive(u)' <=> Alive(u)
    BY Columns DEF Die, Alive
  <1>2. UNCHANGED <<inbox, rootVars>> BY DEF Die
  <1>3. /\ \A c \in Co : /\ kind'[t][c] = "free" /\ address'[t][c] = none
        /\ \A u \in Service \ {t} :
             /\ kind'[u] = kind[u] /\ address'[u] = address[u]
             /\ response'[u] = response[u] /\ held'[u] = held[u]
    BY Columns DEF Die
  <1>4. InInbox(s, k)' = InInbox(s, k) /\ (Posted(s, k)' <=> Posted(s, k))
    BY <1>2, SameInbox
  <1>5. WithHandler(s, k)' \subseteq WithHandler(s, k)
    <2>1. ASSUME NEW y \in Service \X Co, address'[y[1]][y[2]] = s, response'[y[1]][y[2]] = k
          PROVE  address[y[1]][y[2]] = s /\ response[y[1]][y[2]] = k
      BY <1>3, <2>1, Constants
    <2> QED BY <2>1 DEF WithHandler
  <1>6. k \in timer'[s] => k \in timer[s] BY Queues DEF Die
  <1>7. RequestKept(s, k) BY <1>4, <1>5, <1>6 DEF RequestKept
  <1>8. Single(s, k) /\ (Waits(s, k) => Arrived(s, k))
    BY DEF PromiseInv, SingleInv, ArrivedInv
  <1>9. CASE s = t
    <2>1. ~Waits(s, k)' BY <1>1, <1>9 DEF Waits
    <2>2. Promise!Step(s, k) BY <1>1, <1>7, <1>8, <1>9, <2>1, KeptRequest, EndStep
    <2> QED BY <1>7, <1>8, <2>1, <2>2, KeptRequest DEF Keeps
  <1>10. CASE s # t
    <2>1. lookup'[s] = lookup[s] /\ session_id'[s] = session_id[s]
      BY <1>10 DEF Die, Inv, Lookups, Statuses
    <2>2. CallerOf(s, k)' = CallerOf(s, k) BY <1>1, <1>10, <2>1 DEF CallerOf
    <2>3. \A u \in Service, c \in Co : HeldBy(u, c, s, k)' => HeldBy(u, c, s, k)
      BY <1>1, <1>3 DEF HeldBy
    <2>4. blocked'[s] = blocked[s] BY <1>10, Queues DEF Die
    <2>5. From(turn, s)' = From(turn, s) BY <1>10, Constants DEF Die, From, NoPlace
    <2>6. Answered(s, k)' => Answered(s, k)
      BY <1>2, <1>4, <2>3, <2>4 DEF Answered, rootVars
    <2>7. Arrived(s, k) => Arrived(s, k)'
      BY <1>2, <1>4, <2>4, <2>5 DEF Arrived, From, rootVars
    <2>8. Waits(s, k)' <=> Waits(s, k) BY <2>2, CallersWait
    <2>9. Promise!Step(s, k) BY <1>1, <1>7, <1>8, <2>2, <2>6, KeptRequest, EndStep
    <2> QED BY <1>7, <1>8, <2>7, <2>8, <2>9, KeptRequest DEF Keeps
  <1> QED BY <1>9, <1>10

LEMMA DeathPromised ==
  ASSUME Inv, PromiseInv, NEW t \in Service, Exit(t) \/ Crash(t),
         NEW s \in Service, NEW k \in Session
  PROVE  Keeps(s, k)
  <1>1. Alive(t) /\ Die(t) BY DEF Exit, Crash, Idle, Handles, Runs
  <1> QED BY <1>1, DiePromised

\* Who waits for the answer goes on with it, and never again for that session
\* (service.lua:790-800).
LEMMA RecvAnswerPromised ==
  ASSUME Inv, PromiseInv, NEW t \in Service, RecvAnswer(t),
         NEW s \in Service, NEW k \in Session
  PROVE  Keeps(s, k)
  <1>1. PICK m : m = Head(inbox[t]) OBVIOUS
  <1>2. /\ Alive(t) /\ inbox[t] # <<>> /\ m.typ = "answer"
        /\ inbox' = [inbox EXCEPT ![t] = Tail(@)]
        /\ lookup' = At(lookup, t, m.session, none)
        /\ UNCHANGED <<status, session_id, coVars, timerVars, rootVars>>
    BY <1>1 DEF RecvAnswer, Receives, Idle
  <1>3. m \in Reply /\ m.to = t
    <2>1. m \in Mail(t) BY <1>1, <1>2, HeadTailProperties DEF Inv, Inboxes
    <2> QED BY <1>2, <2>1 DEF Mail, ReplyTo, Question
  <1>4. m = AnswerTo(t, m.session) /\ m.session \in Session BY <1>3, MessageIs DEF Reply
  <1>5. m.session < session_id[t] BY <1>2, <1>3 DEF Reply, Past
  <1>6. /\ Posted(s, k)' => Posted(s, k)
        /\ Posted(s, k) => Posted(s, k)' \/ (s = t /\ m = AnswerTo(s, k))
        /\ Lone(InInbox(s, k)) => Lone(InInbox(s, k)')
        /\ InInbox(s, k)' = {} <=> InInbox(s, k) = {}
    <2>1. m # Asking(s, t, k) BY <1>2, Fields
    <2> QED BY <1>1, <1>2, <2>1, InboxGives
  <1>7. WithHandler(s, k)' = WithHandler(s, k) BY <1>2, SameHandlers DEF coVars
  <1>8. \A u \in Service, c \in Co : HeldBy(u, c, s, k)' <=> HeldBy(u, c, s, k)
    BY <1>2, SameHeld DEF coVars
  <1>9. RequestKept(s, k) BY <1>2, <1>6, <1>7 DEF RequestKept, timerVars
  <1>10. Single(s, k) BY DEF PromiseInv, SingleInv
  <1>11. CASE s = t /\ k = m.session /\ lookup[s][k] # none
    <2>1. CallerOf(s, k) = "waits" BY <1>2, <1>11 DEF CallerOf
    <2>2. lookup'[s][k] = none BY <1>2, <1>4, <1>11 DEF At, Inv, Lookups
    <2>3. ~(k >= session_id'[s])
      <3>1. k \in Int /\ session_id[s] \in Nat BY Sessions DEF Inv, Statuses
      <3> QED BY <1>2, <1>5, <1>11, <3>1
    <2>4. CallerOf(s, k)' = "over" BY <2>2, <2>3 DEF CallerOf
    <2>5. Posted(s, k)
      <3>1. PICK q : q = inbox[t] OBVIOUS
      <3>2. q \in Seq(Message) /\ q # <<>> BY <1>2, <3>1, Queues
      <3>3. Head(q) = q[1] /\ 1 \in DOMAIN q BY <3>2, HeadTailProperties, EmptySeq
      <3> QED BY <1>1, <1>4, <1>11, <3>1, <3>3 DEF Posted, In
    <2>6. Answered(s, k) BY <2>5 DEF Answered
    <2>7. Single(s, k)' BY <1>9, <1>10, KeptRequest
    <2>8. RequestOf(s, k)' = RequestOf(s, k)
      BY <1>2, <1>6, <1>7, <1>10, <2>7, RequestIs, RequestIsNext DEF timerVars
    <2>9. ~Waits(s, k)' BY <2>4, CallersWait
    <2> QED BY <2>1, <2>4, <2>6, <2>7, <2>8, <2>9, ResumeStep DEF Keeps
  <1>12. CASE ~(s = t /\ k = m.session /\ lookup[s][k] # none)
    <2>1. lookup'[s][k] = lookup[s][k] BY <1>2, <1>4, <1>12 DEF At, Inv, Lookups
    <2>2. CallerOf(s, k)' = CallerOf(s, k) BY <1>2, <2>1 DEF CallerOf, Alive
    <2>3. Waits(s, k) => (Posted(s, k)' <=> Posted(s, k))
      <3>1. m = AnswerTo(s, k) => k = m.session BY Fields
      <3> QED BY <1>6, <1>12, <3>1 DEF Waits
    <2>4. Waits(s, k) => (Answered(s, k)' <=> Answered(s, k))
      BY <1>2, <1>8, <2>3, SameAnswered DEF timerVars, rootVars
    <2>5. Waits(s, k) /\ Arrived(s, k) => Arrived(s, k)'
      BY <1>2, <2>3, SameArrived DEF timerVars, rootVars
    <2> QED BY <1>9, <2>2, <2>4, <2>5, Calm
  <1> QED BY <1>11, <1>12

\* A handler takes the request, which is in no inbox any more (service.lua:752-770).
LEMMA RecvRequestPromised ==
  ASSUME Inv, PromiseInv, NEW t \in Service, RecvRequest(t),
         NEW s \in Service, NEW k \in Session
  PROVE  Keeps(s, k)
  <1>1. PICK m : m = Head(inbox[t]) OBVIOUS
  <1>2. /\ Alive(t) /\ inbox[t] # <<>> /\ m.typ = "request"
        /\ inbox' = [inbox EXCEPT ![t] = Tail(@)]
        /\ UNCHANGED <<status, lookup, session_id, held, timerVars, rootVars>>
    BY <1>1 DEF RecvRequest, Receives, Idle
  <1>3. PICK c \in NewThread(t) :
          /\ kind' = At(kind, t, c, "session")
          /\ address' = At(address, t, c, m.from)
          /\ response' = At(response, t, c, m.session)
    BY <1>1 DEF RecvRequest
  <1>4. c \in Co /\ kind[t][c] = "free" BY Threads
  <1>5. m \in Message /\ m.to = t
    <2>1. m \in Mail(t) BY <1>1, <1>2, HeadTailProperties DEF Inv, Inboxes
    <2> QED BY <2>1 DEF Mail, ReplyTo, Reply, Question
  <1>6. m = Asking(m.from, t, m.session) BY <1>2, <1>5, MessageIs
  <1>7. m = Asking(s, t, k) <=> m.from = s /\ m.session = k BY <1>6, Fields
  <1>8. /\ Posted(s, k)' <=> Posted(s, k)
        /\ Lone(InInbox(s, k)) => Lone(InInbox(s, k)')
        /\ InInbox(s, k) = {} => InInbox(s, k)' = {}
        /\ m # Asking(s, t, k) /\ InInbox(s, k) # {} => InInbox(s, k)' # {}
        /\ m = Asking(s, t, k) =>
             InInbox(s, k) # {} /\ (Lone(InInbox(s, k)) => InInbox(s, k)' = {})
    <2>1. m # AnswerTo(s, k) BY <1>2, Fields
    <2> QED BY <1>1, <1>2, <2>1, InboxGives
  <1>9. \A u \in Service, d \in Co :
          /\ address'[u][d] = IF u = t /\ d = c THEN m.from ELSE address[u][d]
          /\ response'[u][d] = IF u = t /\ d = c THEN m.session ELSE response[u][d]
          /\ kind'[u][d] = IF u = t /\ d = c THEN "session" ELSE kind[u][d]
    BY <1>3, <1>4, Columns DEF At
  <1>10. \A u \in Service, d \in Co : HeldBy(u, d, s, k)' <=> HeldBy(u, d, s, k)
    BY <1>2, <1>4, <1>9, SameHeld
  <1>11. CallerOf(s, k)' = CallerOf(s, k) BY <1>2, SameCaller
  <1>12. Answered(s, k)' <=> Answered(s, k)
    BY <1>2, <1>8, <1>10, SameAnswered DEF timerVars, rootVars
  <1>13. Arrived(s, k) => Arrived(s, k)'
    BY <1>2, <1>8, SameArrived DEF timerVars, rootVars
  <1>14. CASE m # Asking(s, t, k)
    <2>1. ASSUME NEW y \in Service \X Co, address'[y[1]][y[2]] = s, response'[y[1]][y[2]] = k
          PROVE  address[y[1]][y[2]] = s /\ response[y[1]][y[2]] = k
      BY <1>7, <1>9, <1>14, <2>1
    <2>2. WithHandler(s, k)' \subseteq WithHandler(s, k) BY <2>1 DEF WithHandler
    <2>3. RequestKept(s, k) BY <1>2, <1>8, <1>14, <2>2 DEF RequestKept, timerVars
    <2> QED BY <1>11, <1>12, <1>13, <2>3, Calm
  <1>15. CASE m = Asking(s, t, k)
    <2>1. Single(s, k) /\ (Waits(s, k) => Arrived(s, k))
      BY DEF PromiseInv, SingleInv, ArrivedInv
    <2>2. InInbox(s, k) # {} /\ WithHandler(s, k) = {} /\ k \notin timer[s]
      BY <1>8, <1>15, <2>1 DEF Single
    <2>3. InInbox(s, k)' = {} /\ k \notin timer'[s]
      BY <1>2, <1>8, <1>15, <2>1, <2>2 DEF Single, timerVars
    <2>4. WithHandler(s, k)' = {<<t, c>>}
      <3>1. ASSUME NEW y \in Service \X Co, address'[y[1]][y[2]] = s, response'[y[1]][y[2]] = k
            PROVE  y = <<t, c>>
        BY <1>9, <2>2, <3>1 DEF WithHandler
      <3>2. address'[t][c] = s /\ response'[t][c] = k BY <1>4, <1>7, <1>9, <1>15
      <3> QED BY <1>4, <3>1, <3>2 DEF WithHandler
    <2>5. Single(s, k)' BY <2>3, <2>4 DEF Single, Lone
    <2>6. RequestOf(s, k) = "asked" BY <2>1, <2>2, RequestIs
    <2>7. RequestOf(s, k)' = "serving" BY <2>3, <2>4, <2>5, RequestIsNext
    <2>8. Promise!Step(s, k) BY <1>11, <1>12, <2>6, <2>7, ServeStep
    <2>9. Waits(s, k)' <=> Waits(s, k) BY <1>11, CallersWait
    <2> QED BY <1>13, <2>1, <2>5, <2>8, <2>9 DEF Keeps
  <1> QED BY <1>14, <1>15
----------------------------------------------------------------------------
(* The steps of the timer and of root *)

LEMMA HeadIn ==
  ASSUME NEW S, NEW q \in Seq(S), q # <<>>, NEW y
  PROVE  In(q, y) <=> y = Head(q) \/ In(Tail(q), y)
  <1> DEFINE r == Tail(q)
             n == Len(q)
  <1>1. /\ DOMAIN q = 1 .. n /\ DOMAIN r = 1 .. n - 1 /\ n \in Nat /\ n > 0
        /\ \A i \in 1 .. n - 1 : r[i] = q[i + 1]
        /\ Head(q) = q[1]
    BY HeadTailProperties
  <1>2. In(q, y) => y = Head(q) \/ In(r, y) BY TailIn
  <1> HIDE DEF r, n
  <1>3. 1 \in DOMAIN q /\ \A i \in 1 .. n - 1 : i + 1 \in DOMAIN q BY <1>1
  <1>4. y = Head(q) \/ In(r, y) => In(q, y) BY <1>1, <1>3 DEF In
  <1>5. In(q, y) <=> y = Head(q) \/ In(r, y) BY <1>2, <1>4
  <1> QED BY <1>5 DEF r

\* table.move brings nothing new into the queue.
LEMMA MovedIn ==
  ASSUME NEW S, NEW q \in Seq(S), NEW i \in 1 .. Len(q), NEW y, In(Moved(q, i), y)
  PROVE  In(q, y)
  <1> DEFINE T == {q[j] : j \in DOMAIN q}
  <1>1. q \in Seq(T) /\ i \in 1 .. Len(q) OBVIOUS
  <1>2. Moved(q, i) \in Seq(T) BY <1>1, MovedIsSeq
  <1>3. y \in T BY <1>2 DEF In
  <1> QED BY <1>3 DEF In

\* A loop sends the message at its place in queue q and goes on, or keeps what it
\* has not sent: z is the queue then, from place n (root.lua:53-83, timer.lua:25-41).
LEMMA LoopSends ==
  ASSUME NEW S, NEW q \in Seq(S), NEW i \in 1 .. Len(q), NEW r \in {"block", "done"},
         NEW z, z = IF r = "block" THEN Moved(q, i) ELSE IF i = Len(q) THEN <<>> ELSE q,
         NEW n, n = IF r = "done" /\ i < Len(q) THEN i + 1 ELSE 1, NEW y
  PROVE  /\ In(z, y) => In(q, y)
         /\ InFrom(q, i, y) => (r = "done" /\ y = q[i]) \/ InFrom(z, n, y)
  <1>1. CASE r = "block"
    <2>1. z = Moved(q, i) /\ n = 1 BY <1>1
    <2>2. InFrom(q, i, y) => InFrom(Moved(q, i), 1, y) BY FromMoved, MovedIsSeq, FromFirst
    <2> QED BY <2>1, <2>2, MovedIn
  <1>2. CASE r = "done" /\ i < Len(q)
    <2>1. z = q /\ n = i + 1 BY <1>2
    <2> QED BY <1>2, <2>1, FromNext
  <1>3. CASE r = "done" /\ ~(i < Len(q))
    <2>1. i = Len(q) BY <1>3
    <2>2. z = <<>> BY <1>3, <2>1
    <2>3. ~In(z, y) BY <2>2 DEF In
    <2>4. InFrom(q, i, y) => y = q[i] BY <1>3, FromNext
    <2> QED BY <1>3, <2>3, <2>4
  <1> QED BY <1>1, <1>2, <1>3

\* The services rest, and the answer stays with the timer, with root or in the
\* inbox.
LEMMA OutsidePromised ==
  ASSUME PromiseInv, UNCHANGED <<status, loopVars, coVars>>,
         NEW s \in Service, NEW k \in Session,
         InInbox(s, k)' = InInbox(s, k), k \in timer'[s] => k \in timer[s],
         Waits(s, k) /\ Arrived(s, k) => (Answered(s, k)' <=> Answered(s, k)) /\ Arrived(s, k)'
  PROVE  Keeps(s, k)
  <1>1. CallerOf(s, k)' = CallerOf(s, k) BY SameCaller DEF loopVars
  <1>2. WithHandler(s, k)' = WithHandler(s, k) BY SameHandlers DEF coVars
  <1>3. RequestKept(s, k) BY <1>2 DEF RequestKept
  <1>4. Waits(s, k) => Arrived(s, k) BY DEF PromiseInv, ArrivedInv
  <1> QED BY <1>1, <1>3, <1>4, Calm

LEMMA OutsideHeld ==
  ASSUME UNCHANGED <<status, coVars>>, NEW s \in Service, NEW k \in Session
  PROVE  \A t \in Service, c \in Co : HeldBy(t, c, s, k)' <=> HeldBy(t, c, s, k)
  BY SameHeld DEF coVars

\* What is delivered to who waits arrives, and is no request.
LEMMA AnswerGoes ==
  ASSUME Inv, NEW m \in Message, m.typ = "answer", NEW r \in Receipt(m.to), Deliver(m, r),
         NEW s \in Service, NEW k \in Session
  PROVE  /\ InInbox(s, k)' = InInbox(s, k)
         /\ m # AnswerTo(s, k) => (Posted(s, k)' <=> Posted(s, k))
         /\ Posted(s, k) => Posted(s, k)'
         /\ Waits(s, k) /\ m = AnswerTo(s, k) =>
              r \in {"block", "done"} /\ (Posted(s, k)' <=> Posted(s, k) \/ r = "done")
  <1>1. m # Asking(s, m.to, k) BY Fields
  <1>2. m = AnswerTo(s, k) => m.to = s BY Fields
  <1>3. m.to = s /\ Waits(s, k) => r \in {"block", "done"} BY LivingReceipt DEF Waits
  <1> QED BY <1>1, <1>2, <1>3, InboxGets DEF Waits

\* Of a request that was in the inbox of a service that is gone root says it, and of
\* no other (root.lua:191-211).
LEMMA CloseServicePromised ==
  ASSUME Inv, PromiseInv, NEW t \in Service, CloseService(t),
         NEW s \in Service, NEW k \in Session
  PROVE  Keeps(s, k)
  <1>1. /\ status[t] = "dead" /\ status'[t] = "closed" /\ inbox'[t] = <<>>
        /\ \A u \in Service \ {t} : status'[u] = status[u] /\ inbox'[u] = inbox[u]
        /\ UNCHANGED <<loopVars, coVars, timerVars, rootbox, retry, at, forked>>
    BY Columns, Queues DEF CloseService
  <1>2. raises' = raises \cup {AnswerTo(inbox[t][i].from, inbox[t][i].session) :
          i \in {j \in DOMAIN inbox[t] : /\ inbox[t][j].typ = "request"
                                         /\ inbox[t][j].session # SESSION_SEND_MESSAGE}}
    BY DEF CloseService
  <1>3. \A u \in Service : Alive(u)' <=> Alive(u) BY <1>1 DEF Alive
  <1>4. CallerOf(s, k)' = CallerOf(s, k) BY <1>1, <1>3 DEF CallerOf, loopVars
  <1>5. WithHandler(s, k)' = WithHandler(s, k) BY <1>1, SameHandlers DEF coVars
  <1>6. \A u \in Service, c \in Co : HeldBy(u, c, s, k)' <=> HeldBy(u, c, s, k)
    BY <1>1, <1>3 DEF HeldBy, coVars
  <1>7. s # t => (Posted(s, k)' <=> Posted(s, k)) BY <1>1 DEF Posted
  <1>8. Waits(s, k) => s # t BY <1>1 DEF Waits, Alive
  <1>9. Waits(s, k) /\ Arrived(s, k) => Arrived(s, k)'
    BY <1>1, <1>7, <1>8, SameArrived DEF timerVars
  <1>10. InInbox(s, k)' = {x \in InInbox(s, k) : x[1] # t}
    <2>1. DOMAIN inbox'[t] = {} BY <1>1
    <2> QED BY <1>1, <2>1 DEF InInbox
  <1>11. CASE In(inbox[t], Asking(s, t, k))
    <2>1. PICK i \in DOMAIN inbox[t] : inbox[t][i] = Asking(s, t, k) BY <1>11 DEF In
    <2>2. <<t, i>> \in InInbox(s, k) BY <2>1 DEF InInbox
    <2>3. Single(s, k) /\ (Waits(s, k) => Arrived(s, k))
      BY DEF PromiseInv, SingleInv, ArrivedInv
    <2>4. InInbox(s, k)' = {} BY <1>10, <2>2, <2>3 DEF Single, Lone
    <2>5. WithHandler(s, k)' = {} /\ k \notin timer'[s]
      BY <1>1, <1>5, <2>2, <2>3 DEF Single, timerVars
    <2>6. Single(s, k)' BY <2>4, <2>5 DEF Single, Lone
    <2>7. RequestOf(s, k) = "asked" BY <2>2, <2>3, RequestIs
    <2>8. RequestOf(s, k)' = "none" BY <2>4, <2>5, <2>6, RequestIsNext
    <2>9. Answered(s, k)'
      <3>1. /\ inbox[t][i].typ = "request" /\ inbox[t][i].session # SESSION_SEND_MESSAGE
            /\ AnswerTo(inbox[t][i].from, inbox[t][i].session) = AnswerTo(s, k)
        BY <2>1, Fields, Sessions
      <3>2. AnswerTo(s, k) \in raises' BY <1>2, <2>1, <3>1
      <3> QED BY <3>2 DEF Answered
    <2>10. Promise!Step(s, k) BY <1>4, <2>7, <2>8, <2>9, RefuseStep
    <2>11. Waits(s, k)' <=> Waits(s, k) BY <1>4, CallersWait
    <2> QED BY <1>9, <2>3, <2>6, <2>10, <2>11 DEF Keeps
  <1>12. CASE ~In(inbox[t], Asking(s, t, k))
    <2>1. InInbox(s, k)' = InInbox(s, k) BY <1>10, <1>12 DEF InInbox, In
    <2>2. AnswerTo(s, k) \in raises' <=> AnswerTo(s, k) \in raises
      <3>1. ASSUME NEW i \in DOMAIN inbox[t], inbox[t][i].typ = "request",
                   AnswerTo(s, k) = AnswerTo(inbox[t][i].from, inbox[t][i].session)
            PROVE  FALSE
        <4>1. inbox[t] \in Seq(Mail(t)) BY DEF Inv, Inboxes
        <4>2. PICK m : m = inbox[t][i] OBVIOUS
        <4>3. m \in Mail(t) BY <4>1, <4>2
        <4>4. m \in Message /\ m.to = t BY <4>3 DEF Mail, ReplyTo, Reply, Question
        <4>5. m.from = s /\ m.session = k BY <3>1, <4>2, Fields
        <4>6. m = Asking(s, t, k) BY <3>1, <4>2, <4>4, <4>5, MessageIs
        <4> QED BY <1>12, <4>2, <4>6 DEF In
      <3> QED BY <1>2, <3>1
    <2>3. Waits(s, k) => (Answered(s, k)' <=> Answered(s, k))
      BY <1>1, <1>6, <1>7, <1>8, <2>2 DEF Answered, timerVars
    <2>4. RequestKept(s, k) BY <1>1, <1>5, <2>1 DEF RequestKept, timerVars
    <2> QED BY <1>4, <1>9, <2>3, <2>4, Calm
  <1> QED BY <1>11, <1>12
\* The time of session j of t has come (timer.lua:25-41).
LEMMA SendTimerPromised ==
  ASSUME Inv, PromiseInv, NEW t \in Service, NEW j \in Session, SendTimer(t, j),
         NEW s \in Service, NEW k \in Session
  PROVE  Keeps(s, k)
  <1>1. /\ turn = NoPlace /\ turn' = NoPlace /\ j \in timer[t]
        /\ timer' = [timer EXCEPT ![t] = @ \ {j}]
        /\ UNCHANGED <<status, loopVars, coVars, rootVars>>
    BY DEF SendTimer
  <1>2. From(turn, s)' = 1 BY <1>1, FromNone
  <1>3. k \in timer'[s] => k \in timer[s] BY <1>1, Queues
  <1>4. \A u \in Service, c \in Co : HeldBy(u, c, s, k)' <=> HeldBy(u, c, s, k)
    BY <1>1, OutsideHeld
  <1>5. /\ InInbox(s, k)' = InInbox(s, k)
        /\ Posted(s, k) => Posted(s, k)'
        /\ blocked'[s] \in Seq(Session)
        /\ In(blocked[s], k) => In(blocked'[s], k)
        /\ ~(s = t /\ k = j) => /\ Posted(s, k)' => Posted(s, k)
                                /\ In(blocked'[s], k) => In(blocked[s], k)
        /\ s = t /\ k = j /\ Waits(s, k) => Posted(s, k)' \/ In(blocked'[s], k)
    <2>0. blocked[s] \in Seq(Session) /\ blocked[t] \in Seq(Session) BY Queues
    <2>1. CASE blocked' = [blocked EXCEPT ![t] = Append(@, j)] /\ UNCHANGED inbox
      <3>1. \A x \in Service \ {t} : blocked'[x] = blocked[x] BY <2>1, Queues
      <3>2. blocked'[t] = Append(blocked[t], j) BY <2>1, Queues
      <3>3. \A y : In(blocked'[t], y) <=> In(blocked[t], y) \/ y = j BY <2>0, <3>2, AppendIn
      <3>4. blocked'[t] \in Seq(Session) BY <2>0, <3>2, AppendProperties
      <3>5. InInbox(s, k)' = InInbox(s, k) /\ (Posted(s, k)' <=> Posted(s, k))
        BY <2>1, SameInbox
      <3>6. In(blocked'[s], k) <=> In(blocked[s], k) \/ (s = t /\ k = j) BY <3>1, <3>3
      <3>7. blocked'[s] \in Seq(Session) BY <2>0, <3>1, <3>4
      <3> QED BY <3>5, <3>6, <3>7
    <2>2. CASE blocked[t] = <<>> /\ \E r \in Receipt(t) :
                 /\ Deliver(AnswerTo(t, j), r)
                 /\ blocked' = IF r = "block" THEN [blocked EXCEPT ![t] = <<j>>] ELSE blocked
      <3>1. PICK r \in Receipt(t) :
                 /\ Deliver(AnswerTo(t, j), r)
                 /\ blocked' = IF r = "block" THEN [blocked EXCEPT ![t] = <<j>>] ELSE blocked
        BY <2>2
      <3>2. PICK m : m = AnswerTo(t, j) OBVIOUS
      <3>3. m \in Message /\ m.to = t /\ m.typ = "answer" /\ m.session = j BY <3>2, Fields
      <3>4. m = AnswerTo(s, k) <=> s = t /\ k = j BY <3>2, <3>3, Fields
      <3>5. r \in Receipt(m.to) /\ Deliver(m, r) BY <3>1, <3>2, <3>3
      <3>6. /\ InInbox(s, k)' = InInbox(s, k)
            /\ m # AnswerTo(s, k) => (Posted(s, k)' <=> Posted(s, k))
            /\ Posted(s, k) => Posted(s, k)'
            /\ Waits(s, k) /\ m = AnswerTo(s, k) =>
                 r \in {"block", "done"} /\ (Posted(s, k)' <=> Posted(s, k) \/ r = "done")
        BY <3>3, <3>5, AnswerGoes
      <3>7. ~In(blocked[t], k) BY <2>2 DEF In
      <3>8. /\ blocked'[s] \in Seq(Session)
            /\ In(blocked'[s], k) <=> In(blocked[s], k) \/ (s = t /\ k = j /\ r = "block")
        <4>1. CASE s = t /\ r = "block"
          <5>1. blocked'[s] = <<j>> BY <3>1, <4>1, Queues
          <5>2. In(<<j>>, k) <=> k = j BY DEF In
          <5> QED BY <3>7, <4>1, <5>1, <5>2
        <4>2. CASE ~(s = t /\ r = "block")
          <5>1. blocked'[s] = blocked[s] BY <3>1, <4>2, Queues
          <5> QED BY <2>0, <4>2, <5>1
        <4> QED BY <4>1, <4>2
      <3> QED BY <3>4, <3>6, <3>8
    <2> QED BY <2>1, <2>2 DEF SendTimer
  <1>6. Arrived(s, k) => Arrived(s, k)'
    <2>1. In(blocked'[s], k) => InFrom(blocked'[s], From(turn, s)', k)
      BY <1>2, <1>5, FromFirst
    <2> QED BY <1>1, <1>5, <2>1 DEF Arrived, From, rootVars
  <1>7. CASE ~(s = t /\ k = j)
    <2>1. Answered(s, k)' <=> Answered(s, k)
      <3>1. /\ Posted(s, k)' <=> Posted(s, k)
            /\ In(blocked'[s], k) <=> In(blocked[s], k)
        BY <1>5, <1>7
      <3> QED BY <1>1, <1>4, <3>1 DEF Answered, rootVars
    <2> QED BY <1>1, <1>3, <1>5, <1>6, <2>1, OutsidePromised
  <1>8. CASE s = t /\ k = j
    <2>1. Single(s, k) /\ (Waits(s, k) => Arrived(s, k))
      BY DEF PromiseInv, SingleInv, ArrivedInv
    <2>2. RequestOf(s, k) = "serving" BY <1>1, <1>8, <2>1, RequestIs DEF Single
    <2>3. CallerOf(s, k)' = CallerOf(s, k) BY <1>1, SameCaller DEF loopVars
    <2>4. WithHandler(s, k)' = WithHandler(s, k) BY <1>1, SameHandlers DEF coVars
    <2>5. RequestKept(s, k) BY <1>3, <1>5, <2>4 DEF RequestKept
    <2>6. Single(s, k)' /\ RequestOf(s, k)' \in {"none", "serving"}
      BY <2>1, <2>2, <2>5, KeptRequest
    <2>7. Waits(s, k) => Answered(s, k)' BY <1>5, <1>8 DEF Answered
    <2>8. Promise!Step(s, k) BY <2>2, <2>3, <2>6, <2>7, AnswerStep
    <2>9. Waits(s, k)' <=> Waits(s, k) BY <2>3, CallersWait
    <2> QED BY <1>6, <2>1, <2>6, <2>8, <2>9 DEF Keeps
  <1> QED BY <1>7, <1>8

\* The timer sends what is blocked again (timer.lua:25-41).
LEMMA SendBlockedPromised ==
  ASSUME Inv, PromiseInv, NEW t \in Service, SendBlocked(t),
         NEW s \in Service, NEW k \in Session
  PROVE  Keeps(s, k)
  <1>1. PICK q, i : q = blocked[t] /\ i = IF turn = NoPlace THEN 1 ELSE turn.i OBVIOUS
  <1>2. PICK r \in Receipt(t) :
          /\ Deliver(AnswerTo(t, q[i]), r)
          /\ blocked' = [blocked EXCEPT ![t] =
               IF r = "block" THEN Moved(q, i) ELSE IF i = Len(q) THEN <<>> ELSE q]
          /\ turn' = IF r # "block" /\ i < Len(q) THEN [to |-> t, i |-> i + 1] ELSE NoPlace
    BY <1>1 DEF SendBlocked
  <1>3. /\ turn.to \in {none, t} /\ q # <<>>
        /\ UNCHANGED <<status, loopVars, coVars, timer, rootVars>>
    BY <1>1 DEF SendBlocked
  <1>4. From(turn, t) = i /\ \A u \in Service \ {t} : From(turn, u) = 1
    BY <1>1, <1>3, FromPlace, Queues DEF Place
  <1>5. q \in Seq(Session) /\ i \in 1 .. Len(q) /\ q[i] \in Session
    <2>1. q \in Seq(Session) /\ i \in 1 .. Len(q)
      BY <1>1, <1>3, Queues, EmptySeq, Constants DEF Place, NoPlace
    <2> QED BY <2>1
  <1>6. PICK m : m = AnswerTo(t, q[i]) OBVIOUS
  <1>7. m \in Message /\ m.to = t /\ m.typ = "answer" /\ m.session = q[i]
    BY <1>5, <1>6, Fields
  <1>8. m = AnswerTo(s, k) <=> s = t /\ k = q[i] BY <1>6, <1>7, Fields
  <1>9. /\ InInbox(s, k)' = InInbox(s, k)
        /\ m # AnswerTo(s, k) => (Posted(s, k)' <=> Posted(s, k))
        /\ Posted(s, k) => Posted(s, k)'
        /\ Waits(s, k) /\ m = AnswerTo(s, k) =>
             r \in {"block", "done"} /\ (Posted(s, k)' <=> Posted(s, k) \/ r = "done")
    <2>1. r \in Receipt(m.to) /\ Deliver(m, r) BY <1>2, <1>6, <1>7
    <2> QED BY <1>7, <2>1, AnswerGoes
  <1>10. \A u \in Service, c \in Co : HeldBy(u, c, s, k)' <=> HeldBy(u, c, s, k)
    BY <1>3, OutsideHeld
  <1>11. ASSUME Waits(s, k), Arrived(s, k)
         PROVE  (Answered(s, k)' <=> Answered(s, k)) /\ Arrived(s, k)'
    <2>1. CASE s # t
      <3>1. blocked'[s] = blocked[s] BY <1>2, <2>1, Queues
      <3>2. From(turn, s)' = 1
        <4>1. turn' = NoPlace \/ turn' = [to |-> t, i |-> i + 1] BY <1>2
        <4> QED BY <2>1, <4>1, FromNone DEF From
      <3>3. Posted(s, k)' <=> Posted(s, k) BY <1>8, <1>9, <2>1
      <3>4. From(turn, s) = 1 BY <1>4, <2>1
      <3>5. Answered(s, k)' <=> Answered(s, k)
        BY <1>3, <1>10, <3>1, <3>3 DEF Answered, rootVars
      <3>6. In(blocked'[s], k) => Posted(s, k)' \/ InFrom(blocked'[s], From(turn, s)', k)
        BY <1>11, <3>1, <3>2, <3>3, <3>4 DEF Arrived
      <3>7. In(retry'[s], AnswerTo(s, k)) =>
              Posted(s, k)' \/ InFrom(retry'[s], From(at, s)', AnswerTo(s, k))
        BY <1>3, <1>11, <3>3 DEF Arrived, From, rootVars
      <3>8. Arrived(s, k)' BY <3>6, <3>7 DEF Arrived
      <3> QED BY <3>5, <3>8
    <2>2. CASE s = t
      <3>1. r \in {"block", "done"} BY <1>2, <1>11, <2>2, LivingReceipt DEF Waits
      <3>2. PICK z, n : z = blocked'[s] /\ n = From(turn, s)' OBVIOUS
      <3>3. z = IF r = "block" THEN Moved(q, i) ELSE IF i = Len(q) THEN <<>> ELSE q
        BY <1>2, <2>2, <3>2, Queues
      <3>4. n = IF r = "done" /\ i < Len(q) THEN i + 1 ELSE 1
        <4>1. CASE r = "done" /\ i < Len(q)
          <5>1. turn' = [to |-> t, i |-> i + 1] BY <1>2, <4>1
          <5> QED BY <2>2, <3>2, <4>1, <5>1 DEF From
        <4>2. CASE ~(r = "done" /\ i < Len(q))
          <5>1. turn' = NoPlace BY <1>2, <3>1, <4>2
          <5> QED BY <3>2, <4>2, <5>1, FromNone
        <4> QED BY <4>1, <4>2
      <3>5. /\ In(z, k) => In(q, k)
            /\ InFrom(q, i, k) => (r = "done" /\ k = q[i]) \/ InFrom(z, n, k)
        BY <1>5, <3>1, <3>3, <3>4, LoopSends
      <3>6. InFrom(z, n, k) => In(z, k) BY DEF In, InFrom
      <3>7. In(q, k) => Posted(s, k) \/ InFrom(q, i, k)
        BY <1>1, <1>4, <1>11, <2>2 DEF Arrived
      <3>8. Posted(s, k)' <=> Posted(s, k) \/ (r = "done" /\ k = q[i])
        BY <1>8, <1>9, <1>11, <2>2
      <3>9. k = q[i] => In(q, k) BY <1>5 DEF In
      <3>10. Posted(s, k)' \/ In(z, k) <=> Posted(s, k) \/ In(q, k)
        BY <3>5, <3>6, <3>7, <3>8, <3>9
      <3>11. Answered(s, k)' <=> Answered(s, k)
        BY <1>1, <1>3, <1>10, <2>2, <3>2, <3>10 DEF Answered, rootVars
      <3>12. In(z, k) => Posted(s, k)' \/ InFrom(z, n, k) BY <3>5, <3>7, <3>8
      <3>13. In(retry'[s], AnswerTo(s, k)) =>
               Posted(s, k)' \/ InFrom(retry'[s], From(at, s)', AnswerTo(s, k))
        BY <1>3, <1>9, <1>11 DEF Arrived, From, rootVars
      <3>14. Arrived(s, k)' BY <3>2, <3>12, <3>13 DEF Arrived
      <3> QED BY <3>11, <3>14
    <2> QED BY <2>1, <2>2
  <1> QED BY <1>3, <1>9, <1>11, OutsidePromised
\* Root takes a message for one of its queues (root.lua:85-101).
LEMMA SendRetryPromised ==
  ASSUME Inv, PromiseInv, SendRetry, NEW s \in Service, NEW k \in Session
  PROVE  Keeps(s, k)
  <1>1. PICK m : m = Head(rootbox) OBVIOUS
  <1>2. /\ at = NoPlace /\ rootbox # <<>> /\ rootbox' = Tail(rootbox)
        /\ retry' = [retry EXCEPT ![m.to] = Append(@, m)]
        /\ UNCHANGED <<status, inbox, loopVars, coVars, timerVars, at, raises, forked>>
    BY <1>1 DEF SendRetry
  <1>3. rootbox \in Seq(Message) BY Queues
  <1>4. m \in Message /\ m.to \in Service
    BY <1>1, <1>2, <1>3, HeadTailProperties, MessageFields
  <1>5. PICK y : y = AnswerTo(s, k) OBVIOUS
  <1>6. In(rootbox, y) <=> y = m \/ In(rootbox', y) BY <1>1, <1>2, <1>3, HeadIn
  <1>7. y = m => m.to = s BY <1>5, Fields
  <1>8. /\ \A x \in Service \ {m.to} : retry'[x] = retry[x]
        /\ retry'[m.to] = Append(retry[m.to], m)
        /\ \A x \in Service : retry[x] \in Seq(Message)
    BY <1>2, <1>4, Queues
  <1>9. In(retry'[m.to], y) <=> In(retry[m.to], y) \/ y = m BY <1>4, <1>8, AppendIn
  <1>10. In(retry'[s], y) <=> In(retry[s], y) \/ y = m BY <1>7, <1>8, <1>9
  <1>11. retry'[s] \in Seq(Message)
    <2>1. retry'[m.to] \in Seq(Message) BY <1>4, <1>8, AppendProperties
    <2> QED BY <1>8, <2>1
  <1>12. InInbox(s, k)' = InInbox(s, k) /\ (Posted(s, k)' <=> Posted(s, k))
    BY <1>2, SameInbox
  <1>13. \A u \in Service, c \in Co : HeldBy(u, c, s, k)' <=> HeldBy(u, c, s, k)
    BY <1>2, OutsideHeld
  <1>14. Answered(s, k)' <=> Answered(s, k)
    BY <1>2, <1>5, <1>6, <1>10, <1>12, <1>13 DEF Answered, timerVars
  <1>15. From(at, s)' = 1 BY <1>2, FromNone
  <1>16. In(retry'[s], y) => InFrom(retry'[s], From(at, s)', y) BY <1>11, <1>15, FromFirst
  <1>17. Arrived(s, k) => Arrived(s, k)'
    BY <1>2, <1>5, <1>12, <1>16 DEF Arrived, From, timerVars
  <1> QED BY <1>2, <1>12, <1>14, <1>17, OutsidePromised DEF timerVars

\* Root sends what is blocked again: to who waits it is nothing new if it has
\* arrived (root.lua:53-83).
LEMMA SendRetryQueuePromised ==
  ASSUME Inv, PromiseInv, NEW t \in Service, SendRetryQueue(t),
         NEW s \in Service, NEW k \in Session
  PROVE  Keeps(s, k)
  <1>1. PICK q, i : q = retry[t] /\ i = IF at = NoPlace THEN 1 ELSE at.i OBVIOUS
  <1>2. PICK r \in Receipt(t) :
          /\ Deliver(q[i], r)
          /\ retry' = [retry EXCEPT ![t] =
               IF r = "block" THEN Moved(q, i)
               ELSE IF r = "error" \/ i = Len(q) THEN <<>> ELSE q]
          /\ at' = IF r = "done" /\ i < Len(q) THEN [to |-> t, i |-> i + 1] ELSE NoPlace
    BY <1>1 DEF SendRetryQueue, Unsent
  <1>3. /\ at.to \in {none, t} /\ q # <<>>
        /\ UNCHANGED <<status, loopVars, coVars, timerVars, rootbox, raises, forked>>
    BY <1>1 DEF SendRetryQueue
  <1>4. From(at, t) = i /\ \A u \in Service \ {t} : From(at, u) = 1
    BY <1>1, <1>3, FromPlace, Queues DEF Place
  <1>5. q \in Seq(ReplyTo(t)) /\ i \in 1 .. Len(q) /\ q[i] \in ReplyTo(t)
    <2>1. q \in Seq(ReplyTo(t)) /\ i \in 1 .. Len(q)
      BY <1>1, <1>3, Queues, EmptySeq, Constants DEF Place, NoPlace, Inv, Roots
    <2> QED BY <2>1
  <1>6. PICK m : m = q[i] OBVIOUS
  <1>7. m \in Message /\ m.to = t /\ m.typ = "answer" BY <1>5, <1>6 DEF ReplyTo, Reply
  <1>8. PICK y : y = AnswerTo(s, k) OBVIOUS
  <1>9. m = y => s = t BY <1>7, <1>8, Fields
  <1>10. /\ InInbox(s, k)' = InInbox(s, k)
         /\ m # y => (Posted(s, k)' <=> Posted(s, k))
         /\ Posted(s, k) => Posted(s, k)'
         /\ Waits(s, k) /\ m = y =>
              r \in {"block", "done"} /\ (Posted(s, k)' <=> Posted(s, k) \/ r = "done")
    <2>1. r \in Receipt(m.to) /\ Deliver(m, r) BY <1>2, <1>6, <1>7
    <2> QED BY <1>7, <1>8, <2>1, AnswerGoes
  <1>11. \A u \in Service, c \in Co : HeldBy(u, c, s, k)' <=> HeldBy(u, c, s, k)
    BY <1>3, OutsideHeld
  <1>12. ASSUME Waits(s, k), Arrived(s, k)
         PROVE  (Answered(s, k)' <=> Answered(s, k)) /\ Arrived(s, k)'
    <2>0. In(blocked'[s], k) => Posted(s, k)' \/ InFrom(blocked'[s], From(turn, s)', k)
      BY <1>3, <1>10, <1>12 DEF Arrived, From, timerVars
    <2>1. CASE s # t
      <3>1. retry'[s] = retry[s] BY <1>2, <2>1, Queues
      <3>2. From(at, s)' = 1
        <4>1. at' = NoPlace \/ at' = [to |-> t, i |-> i + 1] BY <1>2
        <4> QED BY <2>1, <4>1, FromNone DEF From
      <3>3. Posted(s, k)' <=> Posted(s, k) BY <1>9, <1>10, <2>1
      <3>4. From(at, s) = 1 BY <1>4, <2>1
      <3>5. Answered(s, k)' <=> Answered(s, k)
        BY <1>3, <1>11, <3>1, <3>3 DEF Answered, timerVars
      <3>6. In(retry'[s], y) => Posted(s, k)' \/ InFrom(retry'[s], From(at, s)', y)
        BY <1>8, <1>12, <3>1, <3>2, <3>3, <3>4 DEF Arrived
      <3>7. Arrived(s, k)' BY <1>8, <2>0, <3>6 DEF Arrived
      <3> QED BY <3>5, <3>7
    <2>2. CASE s = t
      <3>1. r \in {"block", "done"} BY <1>2, <1>12, <2>2, LivingReceipt DEF Waits
      <3>2. PICK z, n : z = retry'[s] /\ n = From(at, s)' OBVIOUS
      <3>3. z = IF r = "block" THEN Moved(q, i) ELSE IF i = Len(q) THEN <<>> ELSE q
        BY <1>2, <2>2, <3>1, <3>2, Queues
      <3>4. n = IF r = "done" /\ i < Len(q) THEN i + 1 ELSE 1
        <4>1. CASE r = "done" /\ i < Len(q)
          <5>1. at' = [to |-> t, i |-> i + 1] BY <1>2, <4>1
          <5> QED BY <2>2, <3>2, <4>1, <5>1 DEF From
        <4>2. CASE ~(r = "done" /\ i < Len(q))
          <5>1. at' = NoPlace BY <1>2, <4>2
          <5> QED BY <3>2, <4>2, <5>1, FromNone
        <4> QED BY <4>1, <4>2
      <3>5. /\ In(z, y) => In(q, y)
            /\ InFrom(q, i, y) => (r = "done" /\ y = q[i]) \/ InFrom(z, n, y)
        BY <1>5, <3>1, <3>3, <3>4, LoopSends
      <3>6. InFrom(z, n, y) => In(z, y) BY DEF In, InFrom
      <3>7. In(q, y) => Posted(s, k) \/ InFrom(q, i, y)
        BY <1>1, <1>4, <1>8, <1>12, <2>2 DEF Arrived
      <3>8. Posted(s, k)' <=> Posted(s, k) \/ (r = "done" /\ y = q[i])
        BY <1>6, <1>10, <1>12
      <3>9. y = q[i] => In(q, y) BY <1>5 DEF In
      <3>10. Posted(s, k)' \/ In(z, y) <=> Posted(s, k) \/ In(q, y)
        BY <3>5, <3>6, <3>7, <3>8, <3>9
      <3>11. Answered(s, k)' <=> Answered(s, k)
        BY <1>1, <1>3, <1>8, <1>11, <2>2, <3>2, <3>10 DEF Answered, timerVars
      <3>12. In(z, y) => Posted(s, k)' \/ InFrom(z, n, y) BY <3>5, <3>7, <3>8
      <3>13. Arrived(s, k)' BY <1>8, <2>0, <3>2, <3>12 DEF Arrived
      <3> QED BY <3>11, <3>13
    <2> QED BY <2>1, <2>2
  <1> QED BY <1>3, <1>10, <1>12, OutsidePromised DEF timerVars

LEMMA RaiseErrorPromised ==
  ASSUME Inv, PromiseInv, NEW m \in raises, RaiseError(m),
         NEW s \in Service, NEW k \in Session
  PROVE  Keeps(s, k)
  <1>1. m \in Message /\ m.typ = "answer" BY DEF Inv, Roots, Reply
  <1>2. PICK r \in Receipt(m.to) :
          /\ Deliver(m, r)
          /\ forked' = IF r = "block" THEN forked \cup {m} ELSE forked
    BY DEF RaiseError
  <1>3. /\ raises' = raises \ {m}
        /\ UNCHANGED <<status, loopVars, coVars, timerVars, rootbox, retry, at>>
    BY DEF RaiseError
  <1>4. PICK y : y = AnswerTo(s, k) OBVIOUS
  <1>5. /\ InInbox(s, k)' = InInbox(s, k)
        /\ m # y => (Posted(s, k)' <=> Posted(s, k))
        /\ Posted(s, k) => Posted(s, k)'
        /\ Waits(s, k) /\ m = y =>
             r \in {"block", "done"} /\ (Posted(s, k)' <=> Posted(s, k) \/ r = "done")
    BY <1>1, <1>2, <1>4, AnswerGoes
  <1>6. \A u \in Service, c \in Co : HeldBy(u, c, s, k)' <=> HeldBy(u, c, s, k)
    BY <1>3, OutsideHeld
  <1>7. Waits(s, k) => (Answered(s, k)' <=> Answered(s, k))
    <2>1. CASE m # y
      <3>1. y \in raises' \cup forked' <=> y \in raises \cup forked BY <1>2, <1>3, <2>1
      <3> QED BY <1>3, <1>4, <1>5, <1>6, <2>1, <3>1 DEF Answered, timerVars
    <2>2. CASE m = y
      <3>1. Answered(s, k) BY <1>4, <2>2 DEF Answered
      <3>2. r = "block" => y \in raises' \cup forked' BY <1>2, <2>2
      <3>3. Waits(s, k) => Posted(s, k)' \/ y \in raises' \cup forked'
        BY <1>5, <2>2, <3>2
      <3> QED BY <1>4, <3>1, <3>3 DEF Answered
    <2> QED BY <2>1, <2>2
  <1>8. Arrived(s, k) => Arrived(s, k)' BY <1>3, <1>5, SameArrived DEF timerVars
  <1> QED BY <1>3, <1>5, <1>7, <1>8, OutsidePromised DEF timerVars

LEMMA HandOverToSelfPromised ==
  ASSUME Inv, PromiseInv, NEW m \in forked, HandOverToSelf(m),
         NEW s \in Service, NEW k \in Session
  PROVE  Keeps(s, k)
  <1>1. m \in Message BY DEF Inv, Roots, Reply
  <1>2. /\ forked' = forked \ {m} /\ rootbox' = Append(rootbox, m)
        /\ UNCHANGED <<status, inbox, loopVars, coVars, timerVars, retry, at, raises>>
    BY DEF HandOverToSelf
  <1>3. PICK y : y = AnswerTo(s, k) OBVIOUS
  <1>4. In(rootbox', y) <=> In(rootbox, y) \/ y = m BY <1>1, <1>2, Queues, AppendIn
  <1>5. In(rootbox', y) \/ y \in raises' \cup forked' <=>
          In(rootbox, y) \/ y \in raises \cup forked
    BY <1>2, <1>4
  <1>6. InInbox(s, k)' = InInbox(s, k) /\ (Posted(s, k)' <=> Posted(s, k))
    BY <1>2, SameInbox
  <1>7. \A u \in Service, c \in Co : HeldBy(u, c, s, k)' <=> HeldBy(u, c, s, k)
    BY <1>2, OutsideHeld
  <1>8. Answered(s, k)' <=> Answered(s, k)
    BY <1>2, <1>3, <1>5, <1>6, <1>7 DEF Answered, timerVars
  <1>9. Arrived(s, k) => Arrived(s, k)' BY <1>2, <1>6, SameArrived DEF timerVars
  <1> QED BY <1>2, <1>6, <1>8, <1>9, OutsidePromised DEF timerVars

----------------------------------------------------------------------------
(* The refinement *)

LEMMA HandlerPromised ==
  ASSUME Inv, PromiseInv, NEW t \in Service, Handler(t), NEW s \in Service, NEW k \in Session
  PROVE  Keeps(s, k)
  BY CallPromised, SendPromised, SleepPromised, WaitPromised, QuietPromised, ForkPromised,
     NoResponsePromised, RespondPromised, EndPromised, DeathPromised
  DEF Handler

LEMMA RuntimePromised ==
  ASSUME Inv, PromiseInv, NEW t \in Service, Runtime(t), NEW s \in Service, NEW k \in Session
  PROVE  Keeps(s, k)
  BY RecvRequestPromised, RecvAnswerPromised, QuietPromised, DeathPromised, QuitRaisePromised,
     EndPromised, HandOverPromised, SleepPromised
  DEF Runtime

LEMMA EachPromised ==
  ASSUME Inv, PromiseInv, Next, NEW s \in Service, NEW k \in Session
  PROVE  Keeps(s, k)
  <1>1. CASE RootStep
    BY <1>1, SendRetryPromised, SendRetryQueuePromised, CloseServicePromised,
       RaiseErrorPromised, HandOverToSelfPromised
    DEF RootStep
  <1>2. ASSUME NEW t \in Service, SendBlocked(t) \/ \E j \in Session : SendTimer(t, j)
        PROVE  Keeps(s, k)
    BY <1>2, SendBlockedPromised, SendTimerPromised
  <1> QED BY <1>1, <1>2, HandlerPromised, RuntimePromised DEF Next

LEMMA NothingAsked ==
  ASSUME Init, NEW s \in Service, NEW k \in Session
  PROVE  InInbox(s, k) = {} /\ WithHandler(s, k) = {} /\ k \notin timer[s]
  <1>1. InInbox(s, k) = {}
    <2>1. ASSUME NEW t \in Service, NEW i \in DOMAIN inbox[t], inbox[t][i] = Asking(s, t, k)
          PROVE  FALSE
      <3>1. inbox[t][i].session = SESSION_SEND_MESSAGE BY <2>1 DEF Init
      <3> QED BY <2>1, <3>1, Fields, Sessions
    <2> QED BY <2>1 DEF InInbox
  <1>2. WithHandler(s, k) = {}
    <2>1. \A t \in Service, c \in Co : address[t][c] # s BY Constants DEF Init
    <2> QED BY <2>1 DEF WithHandler
  <1>3. k \notin timer[s] BY DEF Init
  <1> QED BY <1>1, <1>2, <1>3

LEMMA PromiseInitially == Init => PromiseInv
  <1> SUFFICES ASSUME Init, NEW s \in Service, NEW k \in Session
               PROVE  Single(s, k) /\ ~Waits(s, k)
    BY DEF PromiseInv, SingleInv, ArrivedInv
  <1>1. ~Waits(s, k) BY DEF Init, Waits
  <1> QED BY <1>1, NothingAsked DEF Single, Lone

\* What the promise looks at is as it was.
LEMMA PromiseRests ==
  ASSUME UNCHANGED vars PROVE UNCHANGED Promise!vars /\ (PromiseInv => PromiseInv')
  <1> USE DEF vars, loopVars, coVars, quitVars, timerVars, rootVars
  <1>1. ASSUME NEW s \in Service, NEW k \in Session
        PROVE  /\ CallerOf(s, k)' = CallerOf(s, k) /\ RequestOf(s, k)' = RequestOf(s, k)
               /\ Answered(s, k)' <=> Answered(s, k)
               /\ Single(s, k)' <=> Single(s, k)
               /\ Waits(s, k)' <=> Waits(s, k)
               /\ Arrived(s, k)' <=> Arrived(s, k)
    <2>1. CallerOf(s, k)' = CallerOf(s, k) BY SameCaller
    <2>2. InInbox(s, k)' = InInbox(s, k) /\ (Posted(s, k)' <=> Posted(s, k)) BY SameInbox
    <2>3. WithHandler(s, k)' = WithHandler(s, k) BY SameHandlers
    <2>4. \A t \in Service, c \in Co : HeldBy(t, c, s, k)' <=> HeldBy(t, c, s, k)
      BY OutsideHeld
    <2>5. RequestOf(s, k)' = RequestOf(s, k) BY <2>2, <2>3 DEF RequestOf
    <2>6. Answered(s, k)' <=> Answered(s, k) BY <2>2, <2>4, SameAnswered
    <2>7. Single(s, k)' <=> Single(s, k) BY <2>2, <2>3 DEF Single
    <2>8. Waits(s, k)' <=> Waits(s, k) BY <2>1, CallersWait
    <2>9. Arrived(s, k)' <=> Arrived(s, k) BY <2>2 DEF Arrived, From
    <2> QED BY <2>1, <2>5, <2>6, <2>7, <2>8, <2>9
  <1>2. PromiseInv => PromiseInv' BY <1>1 DEF PromiseInv, SingleInv, ArrivedInv
  <1>3. UNCHANGED Promise!vars BY <1>1 DEF Promise!vars, Alive
  <1> QED BY <1>2, <1>3

LEMMA PromiseInductive == Inv /\ PromiseInv /\ [Next]_vars => PromiseInv'
  BY EachPromised, PromiseRests DEF PromiseInv, SingleInv, ArrivedInv, Keeps

LEMMA AlwaysPromise == Spec => []PromiseInv
  BY Always, PromiseInitially, PromiseInductive, PTL DEF Spec

LEMMA PromiseInit == Init => Promise!Init
  <1> SUFFICES ASSUME Init PROVE Promise!Init OBVIOUS
  <1>1. ASSUME NEW s \in Service, NEW k \in Session
        PROVE  CallerOf(s, k) = "unused" /\ RequestOf(s, k) = "none"
    <2>1. lookup[s][k] = none /\ session_id[s] = 1 /\ Alive(s) BY DEF Init, Alive
    <2>2. k >= 1 BY Sessions
    <2>3. Single(s, k) BY PromiseInitially DEF PromiseInv, SingleInv
    <2>4. RequestOf(s, k) = "none" BY <2>3, NothingAsked, RequestIs
    <2> QED BY <2>1, <2>2, <2>4 DEF CallerOf
  <1>2. {s \in Service : ~Alive(s)} = {} BY DEF Init, Alive
  <1> QED BY <1>1, <1>2 DEF Promise!Init

\* A step of the runtime is a step of each of its calls.
LEMMA PromiseNext ==
  ASSUME Inv, PromiseInv, Next PROVE Promise!Next
  <1>1. \A s \in Service, k \in Session : Promise!Step(s, k) BY EachPromised DEF Keeps
  <1>2. {s \in Service : ~Alive(s)} \subseteq {s \in Service : ~Alive(s)}' BY LivesOn
  <1>3. ASSUME NEW s \in Service, NEW k \in Session
        PROVE  /\ CallerOf(s, k)' \in {"unused", "waits", "over"}
               /\ RequestOf(s, k)' \in {"none", "asked", "serving"}
    <2>1. Single(s, k)' BY EachPromised DEF Keeps
    <2>2. RequestOf(s, k)' \in {"none", "asked", "serving"} BY <2>1, RequestIsNext
    <2> QED BY <2>2 DEF CallerOf
  <1>4. Promise!TypeOK' BY <1>3 DEF Promise!TypeOK
  <1> QED BY <1>1, <1>2, <1>4 DEF Promise!Next

\* Each call of the runtime keeps its promise, for any number of services, whatever is
\* sent again and whoever dies (service.lua:221-326, 345-356, 636-646, 752-800;
\* root.lua:53-101, 191-211; timer.lua:25-41): every step of Session is a step, or none,
\* of module CallPromise.
THEOREM CallsKeepTheirPromise == Spec => Implements
  <1>1. Init => Promise!Init BY PromiseInit
  <1>2. Inv /\ PromiseInv /\ [Next]_vars => [Promise!Next]_(Promise!vars)
    BY PromiseNext, PromiseRests
  <1> QED BY <1>1, <1>2, Always, AlwaysPromise, PTL DEF Spec, Implements, Promise!Spec
=============================================================================
