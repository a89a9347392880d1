--------------------------- MODULE SchedulerProps ---------------------------
(***************************************************************************)
(* What the scheduler of ltask-go promises, stated of module Scheduler.    *)
(***************************************************************************)
EXTENDS Scheduler

Status == {"none", "retired", "uninitialized", "idle", "schedule", "running",
           "done", "dead"}
Receipt == {"none", "done", "error", "block", "response"}
Label == {"loop", "start", "resume", "eventwait", "complete", "complete2",
          "complete3", "acquire", "external", "collect", "out", "push",
          "prepare", "assign", "schedule", "release", "rest", "sleep", "park",
          "wait", "asleep", "quit", "exited"}
Job == Service \cup {NoService}
Event == 0 .. NEvent - 1

TypeService ==
  /\ status \in [Service -> Status]
  /\ inbox \in [Service -> Seq(Message)]
  /\ out \in [Service -> Message]
  /\ receipt \in [Service -> Receipt]
  /\ bounce \in [Service -> Message]
  /\ awaiting \in [Service -> BOOLEAN]
  /\ bindingThread \in [Service -> Worker \cup {threadNone}]
  /\ sockevent \in [Service -> Event \cup {-1}]

TypeWorker ==
  /\ pc \in [Worker -> Label]
  /\ job \in [Worker -> Job]
  /\ running \in [Worker -> Job]
  /\ serviceReady \in [Worker -> Job]
  /\ serviceDone \in [Worker -> Job]
  /\ busy \in [Worker -> BOOLEAN]
  /\ binding \in [Worker -> Job]
  /\ waiting \in [Worker -> Job]
  /\ bindingQueue \in [Worker -> Seq(Service)]
  /\ sleeping \in [Worker -> BOOLEAN]
  /\ wakeup \in [Worker -> BOOLEAN]
  /\ signalled \in [Worker -> BOOLEAN]
  /\ termSignal \in [Worker -> BOOLEAN]
  /\ noJob \in [Worker -> BOOLEAN]

TypeTask ==
  /\ scheduleOwner \in Worker \cup {threadNone}
  /\ schedule \in Seq(Service)
  /\ blockedService \in BOOLEAN
  /\ event \in [Event -> {"invalid", "clear", "set", "closed"}]
  /\ eventInit \in [Event -> BOOLEAN]
  /\ externalMessage \in Nat
  /\ externalLast \in BOOLEAN
  /\ doneJobs \in [Worker -> Job]
  /\ jobs \in Seq(Service)
  /\ slots \in Nat
  /\ visit \in 0 .. NWorker
  /\ pass \in 0 .. 2
  /\ sent \in BOOLEAN
  /\ caller \in {"idle", "finish", "drain"}

\* The type invariant: every field of a service, a worker and the task holds
\* a value the Go field can hold (service.go:39-54, worker.go:19-34,
\* core.go:15-30).
TypeOK == TypeService /\ TypeWorker /\ TypeTask

----------------------------------------------------------------------------

\* Where the scheduler holds service s: each queue position, slot or local
\* that refers to it as work to do or work done.
At(f, s, name) == {<<name, w>> : w \in {i \in Worker : f[i] = s}}
In(q, s, name) == {<<name, k>> : k \in {i \in DOMAIN q : q[i] = s}}
Places(s) ==
  In(schedule, s, "schedule") \cup In(jobs, s, "jobs")
    \cup At(serviceReady, s, "ready") \cup At(job, s, "job")
    \cup At(running, s, "running") \cup At(serviceDone, s, "done")
    \cup At(doneJobs, s, "collected")
    \cup UNION {In(bindingQueue[w], s, <<"queue", w>>) : w \in Worker}

\* A service is in at most one place: it is never queued twice, never run by
\* two workers at once, and never stolen by one worker while another keeps it
\* (getJob and stolen compete for serviceReady, worker.go:61-74 and 175-190).
UniqueToken == \A s \in Service : Cardinality(Places(s)) <= 1

\* The status of a service says whether the scheduler holds it: a scheduled,
\* running or finished service is not forgotten in any queue, and an idle,
\* new or freed one is referred to by none, so that freeing its slot leaves
\* no stale reference (core.go:319-372, root.go:27-41).
StatusMatchesPlace == \A s \in Service :
  /\ status[s] \in {"schedule", "done"} => Places(s) # {}
  /\ status[s] = "running" => \E w \in Worker : running[w] = s /\ busy[w]
  /\ status[s] \in {"none", "retired", "uninitialized", "idle"} => Places(s) = {}

\* The death of a service is never lost: until root has closed it, either the
\* scheduler still holds it, with the signal in its out slot, or the signal
\* is in root's inbox, unless root itself is gone (core.go:324-344).
DeadIsReported == \A s \in Service \ {Root} :
  status[s] = "dead" /\ status[Root] # "dead" =>
    \/ Places(s) # {} /\ out[s].typ = "signal"
    \/ \E k \in DOMAIN inbox[Root] :
         inbox[Root][k].typ = "signal" /\ inbox[Root][k].about = s

\* A service that is not scheduled has nothing to handle: a message is never
\* left in the inbox of an idle service (core.go:103-118 against 348-369).
IdleMeansDrained == \A s \in Service :
  status[s] = "idle" =>
    inbox[s] = <<>> /\ receipt[s] = "none" /\ out[s] = NoMessage

\* A scheduled service has something to handle, and one inside post_message
\* has exactly one receipt to read ("No receipt", bootstrap.go:153-155).
ReceiptProtocol == \A s \in Service :
  /\ status[s] = "schedule" => receipt[s] # "none" \/ inbox[s] # <<>>
  /\ status[s] \in {"idle", "schedule", "running"} =>
       (awaiting[s] <=> receipt[s] # "none")
       \/ \E w \in Worker : pc[w] = "eventwait" /\ running[w] = s

\* No Go panic of the scheduler is reachable: the program asserts so much with
\* each of them. That there are enough slots ("Not enough free slots to assign
\* jobs", worker.go:110-112) is not true with bound services: getPendingJobs
\* empties a busy worker's slot, and countFreeSlots refills that very slot from
\* the worker's binding queue.
NoPanic == ~Panic

\* Of the seven panics only that one is reachable, and only where a service may be
\* bound to a worker (it takes three workers and four services besides root, as in
\* MCSchedulerSlots).
OnlyNoSlot == Panic => PanicNoSlot /\ Binder # {}

\* When every worker sleeps and none has been signalled, no work is left: no
\* service is scheduled, assigned or waiting to be collected (worker.go:205-237).
Quiescent == \A w \in Worker : pc[w] = "asleep" /\ ~signalled[w]
NothingForgotten == Quiescent =>
  /\ schedule = <<>>
  /\ \A w \in Worker : /\ serviceReady[w] = NoService
                       /\ serviceDone[w] = NoService
                       /\ bindingQueue[w] = <<>>

\* assignPrepare has no exit but success: while it is under way there is a
\* free slot for every job left (core.go:215-252).
SlotsSuffice == \A w \in Worker : pc[w] = "assign" =>
  Len(jobs) <= Cardinality({i \in Worker : serviceReady[i] = NoService})

\* The lock is held exactly while a worker is in a round of the scheduler.
Locked == {"external", "collect", "out", "push", "prepare", "assign",
           "schedule", "release", "complete2", "complete3"}
LockExclusive == \A w \in Worker : pc[w] \in Locked <=> scheduleOwner = w

\* A bound service is handed to, and run by, its own worker only
\* (core.go:254-281, worker.go:180-184).
BindingRespected == \A w \in Worker :
  /\ \A s \in {serviceReady[w], job[w]} \ {NoService} :
       BindingOf(s) \in {threadNone, w}
  /\ pc[w] \in {"resume", "eventwait"} =>
       BindingOf(running[w]) \in {threadNone, w}

\* A worker blocked in an event's wait() while its service has a message is
\* going to be woken (core.go:112-117): the event is set, or the dispatcher is
\* still pushing external messages to root and triggers its event at the end.
EventNotLost == \A w \in Worker :
  pc[w] = "eventwait" /\ inbox[running[w]] # <<>> =>
    event[sockevent[running[w]]] = "set" \/ (sent /\ running[w] = Root)

\* A receipt "done" for a message to a service means that the message is in
\* that service's inbox (lualib/service.lua:237-248 waits for the answer).
DoneMeansDelivered ==
  [][\A w \in Worker :
       /\ pc[w] = "push" /\ pc'[w] = "out"
       /\ receipt'[Current] = "done"
       => inbox'[out[Current].to] # inbox[out[Current].to]]_vars

\* An external message the dispatcher takes off the queue is in root's inbox,
\* or kept for the next round, or root is dead (core.go:144-177).
Backlog == externalMessage + (IF externalLast THEN 1 ELSE 0)
ExternalKept ==
  [][Backlog' < Backlog =>
       StatusOf(Root) = "dead" \/ Len(inbox'[Root]) = Len(inbox[Root]) + 1]_vars

\* When root has quit, no worker stays asleep: "root quit, wakeup others"
\* (worker.go:305).
QuitWakesAll == \A w \in Worker :
  termSignal[w] /\ pc[w] = "asleep" => signalled[w]

\* As long as a service is scheduled, some service is sooner or later run: the
\* workers never all fall asleep, and never all spin, with work to do
\* (worker.go:249-347).  Two idle workers may steal one assigned job from each
\* other for ever; the property is about the executions in which they do not.
Steals == \E w \in Worker : pc[w] = "schedule" /\ serviceReady' # serviceReady
WorkProgress ==
  <>[][~Steals]_vars =>
    ((\E s \in Service : status[s] = "schedule")
       ~> (\E s \in Service : status[s] = "running") \/ termSignal[0])
=============================================================================
