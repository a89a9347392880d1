-------------------------------- MODULE Root --------------------------------
(***************************************************************************)
(* The root service (service/root.lua) as the keeper of the other          *)
(* services: it starts them, anonymous or one to a name, tells their       *)
(* addresses, clears them away when they have died and ends the program    *)
(* when no anonymous one is left.                                          *)
(*                                                                         *)
(* Root handles one message after the other.  A handler that has asked     *)
(* for a new service has its receipt before root goes on (`starting`); one *)
(* that waits for a service's init, or for another handler that does, lets *)
(* root go on.  The services are what root sees of them: they ask, answer  *)
(* their init and quit or do not, and die.  What they are told when their  *)
(* inbox is full comes later (module Session).                             *)
(*                                                                         *)
(* An answer to root that finds its inbox full goes to a fork, which gives *)
(* it to root as a send_retry, or sleeps: it is lost with its service.     *)
(***************************************************************************)
EXTENDS ServicePool, SequencesExt

CONSTANTS
  Name,         \* the names of services
  none,         \* nil
  Bootstrap,    \* config.bootstrap: what root asks of itself to begin with
  QueueLen,     \* room in root's inbox
  MaxAsk        \* bound: the requests of other services

Question == {"spawn", "unique", "query"}

ASSUME RootAssumption ==
  /\ none \notin Name \cup serviceId \cup Nat
  /\ Bootstrap \in Seq([typ : {"spawn", "unique"}, name : Name])
  /\ QueueLen \in Nat \ {0} /\ MaxAsk \in Nat

VARIABLES
  inbox,        \* root's messages
  held,         \* the forks with an answer root has had no room for
  retries,      \* retry_queue[SERVICE_ROOT]: what root sends itself again
  anonymous_services,
  named_services, order,        \* by name, and the names in their order
  unique,       \* the names for which a service is being started
  waiting,      \* who waits for the token "unique." .. name, and why
  starting,     \* the spawn() that root is in
  calls,        \* the spawn()s that wait for the answer to init
  boot,         \* the place in Bootstrap
  closing,      \* the quit_ltask handlers
  over,         \* root has quit
  session,      \* the last session of root; 1 is that of its own init
  sent,         \* the init and quit requests their service has to answer
  lost,         \* auxiliary: the sessions whose answer is lost
  \* the other services
  busy,         \* who waits for an answer of root
  leaving,      \* who is about to quit
  asked,        \* the requests so far
  failed        \* the addresses whose init_service failed

tables == <<anonymous_services, named_services, order>>
spawns == <<unique, waiting, starting, calls>>
requests == <<session, sent, lost>>
others == <<leaving, asked, failed>>
vars == <<poolVars, inbox, held, retries, tables, spawns, boot, closing, over, busy,
          requests, others>>

initSession == 1
Message(typ, from, name) == [typ |-> typ, from |-> from, name |-> name]
Answer(typ, x) == [typ |-> typ, session |-> x]
Request(x, i) == [session |-> x, to |-> i]
Nothing == [typ |-> "none"]
Room == Len(inbox) < QueueLen
Finished == Len(Bootstrap) + 2

\* The bootstrap has what it waited for, and goes on before anything else
BootReady == serviceIdRoot \notin busy /\ boot < Finished
Ready == ~over /\ starting = Nothing /\ ~BootReady

\* post_response_message: the answers there is room for behind `box`, and the
\* forks of `who` for the others
Fit(box, answers) ==
  SubSeq(answers, 1, IF Len(answers) <= QueueLen - Len(box) THEN Len(answers)
                     ELSE QueueLen - Len(box))
Forks(box, answers, who) ==
  {[answer |-> answers[k], by |-> who, tried |-> FALSE] :
     k \in Len(Fit(box, answers)) + 1 .. Len(answers)}
Posted(box, answers, who) ==
  /\ inbox' = box \o Fit(box, answers)
  /\ held' = held \cup Forks(box, answers, who)

\* The next message is of this type
Heads(typ) == Ready /\ inbox # <<>> /\ Head(inbox).typ = typ
\* and the handler posts these answers to root itself, behind the others
Takes(typ, answers) == Heads(typ) /\ Posted(Tail(inbox), answers, serviceIdRoot)

Answered(who) == busy' = busy \ who

\* An error for `who`; the one of the bootstrap is that of root's own init
Refuse(who) ==
  /\ Answered(who)
  /\ boot' = IF serviceIdRoot \in who THEN Finished ELSE boot
Fatal(who) == IF serviceIdRoot \in who THEN <<Answer("error", initSession)>> ELSE <<>>

\* quit(): the request, which has no answer, needs room
quit(box, anonymous) ==
  IF anonymous = {} /\ Len(box) < QueueLen
  THEN <<Message("quit_ltask", serviceIdRoot, none)>> ELSE <<>>

----------------------------------------------------------------------------
(* spawn and spawn_unique *)

spawn(typ, name, from) ==
  starting' = [typ |-> typ, name |-> name, from |-> from, id |-> Nobody,
               session |-> 0]

\* mutant of uniqueservice: it does not look for the name again
uniqueserviceAgain(m) ==
  /\ busy' = busy \cup {m.from}
  /\ waiting' = [waiting EXCEPT ![m.name] = @ \cup {[who |-> m.from, typ |-> m.typ]}]
  /\ IF m.typ = "query" \/ m.name \in unique THEN UNCHANGED <<unique, starting>>
     ELSE unique' = unique \cup {m.name} /\ spawn("unique", m.name, none)
  /\ UNCHANGED calls

\* uniqueservice and queryservice.  The first to ask forks the spawn(), which
\* runs once the handler waits.
uniqueservice(m) ==
  /\ IF named_services[m.name] # none
     THEN Answered({m.from}) /\ UNCHANGED <<waiting, unique, starting>>
     ELSE /\ busy' = busy \cup {m.from}
          /\ waiting' = [waiting EXCEPT ![m.name] = @ \cup {[who |-> m.from, typ |-> m.typ]}]
          /\ IF m.typ = "query" \/ m.name \in unique THEN UNCHANGED <<unique, starting>>
             ELSE unique' = unique \cup {m.name} /\ spawn("unique", m.name, none)
  /\ UNCHANGED calls

AskedTo(m) ==
  IF m.typ = "spawn"
  THEN /\ spawn("spawn", m.name, m.from) /\ busy' = busy \cup {m.from}
       /\ UNCHANGED <<unique, waiting, calls>>
  ELSE uniqueservice(m)

\* Who waits for spawn c
Waiters(c) == IF c.typ = "spawn" THEN {c.from} ELSE {w.who : w \in waiting[c.name]}

\* mutant of SpawnFails: the ones that wait stay with the token
SpawnFailsKeeps(c) ==
  /\ Refuse(Waiters(c))
  /\ unique' = unique \ {c.name}
  /\ UNCHANGED waiting

\* spawn c has failed: multi_interrupt, and the name may be tried again
SpawnFails(c) ==
  /\ Refuse(Waiters(c))
  /\ IF c.typ = "spawn" THEN UNCHANGED <<unique, waiting>>
     ELSE /\ waiting' = [waiting EXCEPT ![c.name] = {}]
          /\ unique' = unique \ {c.name}

\* The receipt of MESSAGE_SCHEDULE_NEW; an id 0 is taken for an error
SpawnNew ==
  /\ ~over /\ starting # Nothing /\ starting.id = Nobody
  /\ \E i \in serviceId \cup {Nobody} :
       /\ IF i = Nobody THEN Full /\ UNCHANGED poolVars ELSE newService(i)
       /\ IF i \in {0, Nobody}
          THEN /\ SpawnFails(starting)
               /\ Posted(inbox, Fatal(Waiters(starting)), serviceIdRoot)
               /\ starting' = Nothing
          ELSE /\ starting' = [starting EXCEPT !.id = i]
               /\ UNCHANGED <<inbox, held, unique, waiting, boot, busy>>
  /\ UNCHANGED <<retries, tables, calls, closing, over, requests, others>>

\* anonymous_services[address], init_service and the call of init
SpawnInit(ok) ==
  LET i == starting.id IN
  /\ ~over /\ starting # Nothing /\ i # Nobody
  /\ initService(i, ok)
  /\ anonymous_services' = anonymous_services \cup {i}
  /\ starting' = Nothing
  /\ \/ /\ ok
        /\ session' = session + 1
        /\ calls' = calls \cup {[starting EXCEPT !.session = session']}
        /\ sent' = sent \cup {Request(session', i)}
        /\ UNCHANGED <<inbox, held, unique, waiting, boot, busy, failed>>
     \/ /\ ~ok
        /\ SpawnFails(starting)
        /\ Posted(inbox, Fatal(Waiters(starting)), serviceIdRoot)
        /\ failed' = failed \cup {i}
        /\ UNCHANGED <<calls, session, sent>>
  /\ UNCHANGED <<retries, named_services, order, closing, over, lost, leaving, asked>>

\* register_service; the error it raises for a name there is ends the fork
register_service(c) ==
  IF named_services[c.name] # none
  THEN UNCHANGED <<tables, unique, waiting, busy>>
  ELSE /\ anonymous_services' = anonymous_services \ {c.id}
       /\ order' = Append(order, c.name)
       /\ named_services' = [named_services EXCEPT ![c.name] = c.id]
       /\ Answered(Waiters(c))
       /\ waiting' = [waiting EXCEPT ![c.name] = {}]
       /\ unique' = unique \ {c.name}

----------------------------------------------------------------------------
(* The messages *)

OnRequest == \E typ \in Question :
  /\ Takes(typ, <<>>)
  /\ AskedTo(Head(inbox))
  /\ UNCHANGED <<poolVars, retries, tables, boot, closing, over, requests, others>>

\* The answer to init, with an error or without
OnInit == \E c \in calls :
  /\ \/ /\ Takes("ok", <<>>)
        /\ IF c.typ = "unique" THEN register_service(c)
           ELSE Answered({c.from}) /\ UNCHANGED <<tables, unique, waiting>>
        /\ UNCHANGED boot
     \/ /\ Takes("error", Fatal(Waiters(c)))
        /\ SpawnFails(c)
        /\ UNCHANGED tables
  /\ c.session = Head(inbox).session
  /\ calls' = calls \ {c}
  /\ UNCHANGED <<poolVars, retries, starting, closing, over, requests, others>>

\* The one of root's own init: after an error root quits
OnInitReceipt == \E typ \in {"ok", "error"} :
  /\ Takes(typ, <<>>) /\ Head(inbox).session = initSession
  /\ over' = (typ = "error")
  /\ UNCHANGED <<poolVars, retries, tables, spawns, boot, closing, busy, requests, others>>

\* The one of quit: an error is printed
OnQuitAnswer == \E typ \in {"ok", "error"}, k \in DOMAIN closing :
  /\ Takes(typ, <<>>) /\ closing[k].wait = Head(inbox).session
  /\ closing' = [closing EXCEPT ![k].wait = none]
  /\ UNCHANGED <<poolVars, retries, tables, spawns, boot, over, busy, requests, others>>

\* One that has come before: "Unknown response session"
OnStray == \E typ \in {"ok", "error"} :
  /\ Takes(typ, <<>>)
  /\ Head(inbox).session \notin {initSession} \cup {c.session : c \in calls}
                                \cup {closing[k].wait : k \in DOMAIN closing}
  /\ UNCHANGED <<poolVars, retries, tables, spawns, boot, closing, over, busy, requests,
                 others>>

\* mutant of Retries: what the inbox has no room for is forgotten
RetriesForget ==
  /\ Ready /\ Room /\ retries # <<>>
  /\ inbox' = inbox \o Fit(inbox, retries)
  /\ retries' = <<>>
  /\ UNCHANGED <<poolVars, held, tables, spawns, boot, closing, over, busy, requests, others>>

\* S.send_retry, and a pass of send_all_retry.  Where the inbox is full again
\* table.move(queue, i, n, 1) leaves the end of the queue where it was.
OnSendRetry ==
  /\ Takes("send_retry", <<>>)
  /\ retries' = Append(retries, Head(inbox).answer)
  /\ UNCHANGED <<poolVars, tables, spawns, boot, closing, over, busy, requests, others>>

Retries ==
  LET n == Len(retries)
      p == Len(Fit(inbox, retries))
  IN
  /\ Ready /\ Room /\ retries # <<>>
  /\ inbox' = inbox \o Fit(inbox, retries)
  /\ retries' = IF p = n THEN <<>>
                ELSE SubSeq(retries, p + 1, n) \o SubSeq(retries, n - p + 1, n)
  /\ UNCHANGED <<poolVars, held, tables, spawns, boot, closing, over, busy, requests, others>>

\* The requests service i has not answered
Mine(i) == {r \in sent : r.to = i}

\* mutant of OnSignal: the address is not taken out of the table
OnSignalKeeps ==
  LET i == Head(inbox).from IN
  /\ Takes("signal", <<>>)
  /\ closeService(i)
  /\ sent' = sent \ Mine(i)
  /\ UNCHANGED <<retries, tables, spawns, boot, closing, over, busy, session, lost, others>>

\* signal_handler: del_service, which answers what the service has not read,
\* and, before quit_ltask, quit()
OnSignal ==
  LET i == Head(inbox).from
      left == anonymous_services \ {i}
  IN
  /\ Heads("signal")
  /\ closeService(i)
  /\ anonymous_services' = left
  /\ \E unread \in [1 .. Cardinality(Mine(i)) -> Mine(i)] :
       LET errors == [k \in DOMAIN unread |-> Answer("error", unread[k].session)]
           box == Tail(inbox) \o Fit(Tail(inbox), errors)
       IN
       /\ Range(unread) = Mine(i)
       /\ inbox' = box \o (IF closing = <<>> THEN quit(box, left) ELSE <<>>)
       /\ held' = held \cup Forks(Tail(inbox), errors, serviceIdRoot)
  /\ sent' = sent \ Mine(i)
  /\ UNCHANGED <<retries, named_services, order, spawns, boot, closing, over, busy, session,
                 lost, others>>

\* S.quit_ltask: the named services one after the other, the last one first;
\* the request goes to the service that has the slot of the address, and one
\* that is dead or has a full inbox is passed over
OnQuit ==
  /\ Takes("quit_ltask", <<>>)
  /\ closing' = Append(closing, [left |-> Reverse(order), wait |-> none])
  /\ UNCHANGED <<poolVars, retries, tables, spawns, boot, over, busy, requests, others>>

Close(k) ==
  LET c == closing[k]
      address == named_services[Head(c.left)]
  IN
  /\ Ready /\ c.wait = none
  /\ \/ /\ c.left # <<>> /\ getStatus(address) # "dead"
        /\ session' = session + 1
        /\ sent' = sent \cup {Request(session', getService(address))}
        /\ closing' = [closing EXCEPT ![k] = [left |-> Tail(c.left), wait |-> session']]
        /\ UNCHANGED over
     \/ /\ c.left # <<>>
        /\ closing' = [closing EXCEPT ![k] = [left |-> Tail(c.left), wait |-> none]]
        /\ UNCHANGED <<over, session, sent>>
     \/ c.left = <<>> /\ over' = TRUE /\ UNCHANGED <<closing, session, sent>>
  /\ UNCHANGED <<poolVars, inbox, held, retries, tables, spawns, boot, busy, lost, others>>

\* bootstrap(), quit() after it, and the answer to root's own init.  With no
\* room for the request of quit() the init fails.
Boots ==
  LET box == inbox \o quit(inbox, anonymous_services)
      typ == IF anonymous_services = {} /\ ~Room THEN "error" ELSE "ok"
  IN
  /\ ~over /\ starting = Nothing /\ BootReady
  /\ boot' = boot + 1
  /\ \/ /\ boot <= Len(Bootstrap)
        /\ AskedTo(Message(Bootstrap[boot].typ, serviceIdRoot, Bootstrap[boot].name))
        /\ UNCHANGED <<inbox, held>>
     \/ /\ boot = Len(Bootstrap) + 1
        /\ Posted(box, <<Answer(typ, initSession)>>, serviceIdRoot)
        /\ UNCHANGED <<spawns, busy>>
  /\ UNCHANGED <<poolVars, retries, tables, closing, over, requests, others>>

----------------------------------------------------------------------------
(* The other services.  One with an id below 0, which there is once the    *)
(* counter has wrapped, is left as it is: doneJob() never clears it from   *)
(* the worker that has run it (worker.go:124-133).                         *)

Lives(i) == ~over /\ i > serviceIdRoot /\ getService(i) = i /\ status[index(i)] = "idle"
Posts(typ, i, name) == Room /\ inbox' = Append(inbox, Message(typ, i, name))

Asks(i) ==
  /\ Lives(i) /\ i \notin busy \cup leaving /\ asked < MaxAsk
  /\ \E typ \in Question, n \in Name : Posts(typ, i, n)
  /\ busy' = busy \cup {i}
  /\ asked' = asked + 1
  /\ UNCHANGED <<poolVars, held, retries, tables, spawns, boot, closing, over, requests,
                 leaving, failed>>

\* sys_service.init and quit, and the errors of ltask.quit.  A service quits
\* when its init has failed, or has given it nothing to do.
Replies(i) ==
  /\ Lives(i)
  /\ \E r \in Mine(i), typ \in {"ok", "error"}, quits \in BOOLEAN :
       /\ typ = "error" /\ (\E c \in calls : c.session = r.session) => quits
       /\ i \in leaving => typ = "error"
       /\ Posted(inbox, <<Answer(typ, r.session)>>, i)
       /\ sent' = sent \ {r}
       /\ leaving' = IF quits THEN leaving \cup {i} ELSE leaving
  /\ UNCHANGED <<poolVars, retries, tables, spawns, boot, closing, over, busy, session, lost,
                 asked, failed>>

\* send_blocked_message of a service, or of root.  One that is about to quit
\* tries once.
HandsOver(h) ==
  /\ ~over /\ Room
  /\ IF h.by = serviceIdRoot THEN Ready ELSE h.by \in leaving => ~h.tried
  /\ inbox' = Append(inbox, [typ |-> "send_retry", answer |-> h.answer])
  /\ held' = held \ {h}
  /\ UNCHANGED <<poolVars, retries, tables, spawns, boot, closing, over, busy, requests, others>>

Sleeps(h) ==
  /\ ~over /\ ~Room /\ ~h.tried
  /\ held' = (held \ {h}) \cup {[h EXCEPT !.tried = TRUE]}
  /\ UNCHANGED <<poolVars, inbox, retries, tables, spawns, boot, closing, over, busy, requests,
                 others>>

\* It quits, or its main loop fails; of its requests it may have read the first
\* ones, and these and its forks get lost.  Its death is a signal to root, which
\* the scheduler has to have room for.
Dies(i) ==
  /\ Lives(i) /\ \A h \in held : h.by = i => h.tried
  /\ Posts("signal", i, none)
  /\ Ends(i)
  /\ \E unread \in SUBSET Mine(i) :
       /\ \A r \in unread, q \in Mine(i) : q.session > r.session => q \in unread
       /\ sent' = sent \ (Mine(i) \ unread)
       /\ lost' = lost \cup {r.session : r \in Mine(i) \ unread}
                       \cup {h.answer.session : h \in {g \in held : g.by = i}}
  /\ held' = {h \in held : h.by # i}
  /\ busy' = busy \ {i} /\ leaving' = leaving \ {i}
  /\ UNCHANGED <<retries, tables, spawns, boot, closing, over, session, asked, failed>>

----------------------------------------------------------------------------

Init ==
  /\ PoolInit
  /\ inbox = <<>> /\ held = {} /\ retries = <<>>
  /\ anonymous_services = {} /\ order = <<>>
  /\ named_services = [n \in Name |-> none]
  /\ unique = {} /\ calls = {} /\ starting = Nothing
  /\ waiting = [n \in Name |-> {}]
  /\ boot = 1 /\ closing = <<>> /\ over = FALSE
  /\ session = initSession /\ sent = {} /\ lost = {}
  /\ busy = {} /\ leaving = {} /\ asked = 0 /\ failed = {}

RootStep ==
  \/ Boots \/ SpawnNew \/ (\E ok \in BOOLEAN : SpawnInit(ok))
  \/ OnRequest \/ OnInit \/ OnInitReceipt \/ OnQuitAnswer \/ OnStray
  \/ OnSendRetry \/ Retries \/ OnSignal \/ OnQuit
  \/ \E k \in DOMAIN closing : Close(k)

Forked == \E h \in held : HandsOver(h) \/ Sleeps(h)

Next == RootStep \/ Forked \/ \E j \in Slot :
  LET i == s[j] IN Asks(i) \/ Replies(i) \/ Dies(i)

\* The scheduler runs root, a service that has its init to answer and does not
\* wait for root in it, one that quits, and their forks
Fairness ==
  /\ WF_vars(RootStep) /\ WF_vars(Forked)
  /\ \A j \in Slot : /\ WF_vars(s[j] \notin busy /\ Replies(s[j]))
                     /\ WF_vars(s[j] \in leaving /\ Dies(s[j]))

Spec == Init /\ [][Next]_vars /\ Fairness

----------------------------------------------------------------------------

Address == serviceId \cup {none}
Reply == [typ : {"ok", "error"}, session : Nat]
Post == [typ : Question, from : serviceId, name : Name]
          \cup [typ : {"signal", "quit_ltask"}, from : serviceId, name : {none}]
          \cup [typ : {"send_retry"}, answer : Reply] \cup Reply
Spawn == [typ : {"spawn", "unique"}, name : Name, from : Address,
          id : serviceId \cup {Nobody}, session : Nat]
Call == {c \in Spawn : c.id # Nobody}
Named == {n \in Name : named_services[n] # none}
Closing == [left : Seq(Named), wait : Nat \cup {none}]

\* The type invariant; root's inbox is never fuller than it can be, and the
\* names in order have addresses (service.go:287-300; service/root.lua:19-20,
\* 126; lualib/service.lua:493-503).
TypeOK ==
  /\ PoolTypeOK
  /\ inbox \in Seq(Post) /\ Len(inbox) <= QueueLen
  /\ held \subseteq [answer : Reply, by : serviceId, tried : BOOLEAN]
  /\ retries \in Seq(Reply)
  /\ session \in Nat /\ lost \subseteq Nat
  /\ sent \subseteq [session : Nat, to : serviceId] /\ IsFiniteSet(sent)
  /\ anonymous_services \subseteq serviceId
  /\ named_services \in [Name -> Address] /\ order \in Seq(Named)
  /\ unique \subseteq Name
  /\ waiting \in [Name -> SUBSET [who : serviceId, typ : {"unique", "query"}]]
  /\ starting \in Spawn \cup {Nothing} /\ calls \subseteq Call
  /\ boot \in 1 .. Finished /\ over \in BOOLEAN
  /\ closing \in Seq(Closing)

\* The answers to root's requests that are under way
Underway == {m \in Range(inbox) : m.typ \in {"ok", "error"}}
  \cup {m.answer : m \in {m \in Range(inbox) : m.typ = "send_retry"}}
  \cup {h.answer : h \in held} \cup Range(retries)

\* The spawn()s for a name
For(n) == {c \in calls \cup {starting} : c # Nothing /\ c.typ = "unique" /\ c.name = n}

\* Who waits for a service with a name that it wants started is not forgotten:
\* as long as it waits exactly one spawn() for that name is under way, and of
\* that one the request of init is with a live service, or with a dead one whose
\* signal root has still to take, or the answer is on its way to root.  Not so
\* when the service has ended with the answer in a fork that found no room
\* twice, or without an answer (`lost`; service/root.lua:128-147,
\* lualib/service.lua:221-235, 753-755).
WaiterServed == ~over => \A n \in Name :
  /\ (\E w \in waiting[n] : w.typ = "unique") => n \in unique
  /\ n \in unique <=> For(n) # {}
  /\ Cardinality(For(n)) <= 1
  /\ \A c \in For(n) \cap calls : c.id > 0 /\ c.session \notin lost =>
       \/ /\ Request(c.session, c.id) \in sent
          /\ Lives(c.id) \/ Message("signal", c.id, none) \in Range(inbox)
       \/ \E a \in Underway : a.session = c.session

\* One service to a name: while a service with a name is registered, or one
\* that has answered its init is about to be, no other is being started for
\* it, so that register_service never finds the name taken (102-108, 128-147).
UniqueName == \A n \in Name :
  /\ named_services[n] # none => For(n) = {}
  /\ Cardinality({k \in DOMAIN order : order[k] = n}) = IF named_services[n] = none THEN 0 ELSE 1

\* Once a service with a name is being started, whoever waits for it is told
\* in the end, be it that it has failed (128-147).  Not so when the answer to
\* the init is lost with the service (see WaiterServed), nor once the ids have
\* wrapped; and services whose init asks for each other wait for ever.
UniqueAnswered ==
  \/ \A n \in Name : n \in unique ~>
       \/ waiting[n] = {} \/ over
       \/ \E c \in calls : c.name = n /\ c.session \in lost
       \/ \E j \in Slot : s[j] <= 0
  \/ []<>(\E c \in calls : c.id \in busy)

\* Root knows every service there is, by name or as an anonymous one, and an
\* anonymous address is that of a service, not yet deleted or replaced, or of
\* one whose init_service failed: this last one stays and keeps root from
\* quitting (110-124, 209-217, 253-261).  Of a service with the id 0, to be had
\* once the counter has wrapped, it does not know (service.go:370-407).
Accounted ==
  /\ \A j \in Slot : s[j] \notin {Nobody, serviceIdRoot, 0} /\ (starting = Nothing \/ starting.id # s[j]) =>
       s[j] \in anonymous_services \cup Range(named_services)
  /\ \A i \in anonymous_services : getService(i) = i \/ i \in failed
=============================================================================
