----------------------------- MODULE Scheduler -----------------------------
(***************************************************************************)
(* The N:M scheduler of ltask-go: NWorker worker threads (worker.go) run   *)
(* services, one Lua VM each (service.go).  There is no scheduler thread:  *)
(* a worker that runs out of work, or that cannot hand back the service it *)
(* has just run, takes the scheduler lock (task.scheduleOwner) and carries *)
(* out one round of dispatch() (core.go) for everybody: it collects the    *)
(* services the workers have finished running, moves the message each one  *)
(* left in its `out` slot, and assigns scheduled services to workers.      *)
(*                                                                         *)
(* Every action is one step of one worker.  Code that touches only what    *)
(* the scheduler lock protects is one step as far as no other thread can   *)
(* see a difference; code that reads or writes a field another thread uses *)
(* without the lock (serviceReady, serviceDone, sleeping, wakeup, busy,    *)
(* a service's status) is cut where that other thread can interleave.      *)
(*                                                                         *)
(* A Go panic stops the whole process: Next is disabled in a state that    *)
(* satisfies Panic.                                                        *)
(***************************************************************************)
EXTENDS Integers, Sequences, FiniteSets

CONSTANTS
  NWorker,      \* config.worker
  Service,      \* the service ids in use; the capacity of task.schedule
  Root,         \* serviceIdRoot
  System,       \* serviceIdSystem, the address of the scheduler itself
  NoService,    \* the id 0 in a field that names no service
  QueueLen,     \* config.queueSending, capacity of a service's inbox
  BindCap,      \* bindingServiceQueue, capacity of a worker's bindingQueue
  ExtCap,       \* config.externalQueue
  NEvent,       \* maxSockEvent
  Link,         \* <<s, t>>: service s may send a request to t
  Mortal,       \* the services that may quit (Root among them: the task ends)
  Binder,       \* <<s, x>>: s may be bound to worker x (-1: unbound), by its
                \* own worker_bind or as the worker_id it is spawned with
  Waiter,       \* the services that may call eventinit and wait on the event
  Spawner,      \* {Root} when the root service spawns services, else {}
  Recycle       \* the pool has been through all its ids: a freed one is reused

Worker == 0 .. NWorker - 1
threadNone == -1
MessageType == {"nil", "request", "signal", "idle", "new", "del"}
Message == [typ: MessageType, to: Service \cup {System, NoService},
            about: Service \cup {NoService}]
NoMessage == [typ |-> "nil", to |-> NoService, about |-> NoService]

ASSUME ConstantsAssumption ==
  /\ NWorker \in Nat \ {0}
  /\ Root \in Service /\ System \notin Service /\ NoService \notin Service
  /\ System # NoService
  /\ QueueLen \in Nat \ {0} /\ BindCap \in Nat \ {0}
  /\ ExtCap \in Nat /\ NEvent \in Nat \ {0}
  /\ Link \subseteq Service \X Service
  /\ Mortal \subseteq Service
  /\ Binder \subseteq Service \X (Worker \cup {threadNone})
  /\ Waiter \subseteq Service
  /\ Spawner \subseteq {Root}
  /\ Recycle \in BOOLEAN

VARIABLES
  \* service.go, one of each per service; the pool slot is empty in status
  \* "none" and, when it is not to be reused, "retired"
  status, inbox, out, receipt, bounce, bindingThread, sockevent,
  awaiting,        \* its Lua code is inside post_message, before the receipt
  \* worker.go, one of each per worker
  pc, job, running, serviceReady, serviceDone, busy, binding, waiting,
  bindingQueue, sleeping, wakeup, signalled, termSignal,
  \* core.go
  scheduleOwner, schedule, blockedService, event, eventInit,
  externalMessage, externalLast,
  \* what dispatch() and schedule() keep on the stack of the lock's owner
  doneJobs, jobs, slots, visit, pass, sent, noJob, caller

mailVars == <<inbox, out, receipt, bounce, awaiting>>
bindVars == <<bindingThread, sockevent>>
serviceVars == <<status, mailVars, bindVars>>
runVars == <<job, running, serviceDone, busy, binding>>
readyVars == <<serviceReady, waiting, bindingQueue>>
sleepVars == <<sleeping, wakeup, signalled, termSignal>>
eventVars == <<event, eventInit>>
externalVars == <<externalMessage, externalLast>>
collectVars == <<doneJobs, sent>>
assignVars == <<jobs, slots, visit, pass>>
vars == <<serviceVars, pc, runVars, readyVars, sleepVars, scheduleOwner,
          schedule, blockedService, eventVars, externalVars,
          collectVars, assignVars, noJob, caller>>

Goto(w, l) == pc' = [pc EXCEPT ![w] = l]
Least(S) == CHOOSE i \in S : \A j \in S : i <= j

----------------------------------------------------------------------------
(* The service pool and its messages, service.go and message.go *)

Vacant(s) == status[s] \in {"none", "retired"}
Freed == IF Recycle THEN "none" ELSE "retired"

\* An empty slot reads as a dead service, bound to worker 0, with event 0.
StatusOf(s) == IF Vacant(s) THEN "dead" ELSE status[s]
BindingOf(s) == IF Vacant(s) THEN 0 ELSE bindingThread[s]
SockeventOf(s) == IF Vacant(s) THEN 0 ELSE sockevent[s]

\* mutant of Full: off by one
FullEarly(s) == Len(inbox[s]) >= QueueLen - 1
Full(s) == Len(inbox[s]) >= QueueLen
\* mutant of HasMessage: a pending receipt is no reason to be scheduled
HasMessageNoReceipt(s) == inbox[s] # <<>>
HasMessage(s) == receipt[s] # "none" \/ inbox[s] # <<>>

WriteReceipt(s, r, m) ==
  /\ receipt' = [receipt EXCEPT ![s] = r]
  /\ bounce' = [bounce EXCEPT ![s] = m]

\* newService and deleteService: the slot of s in status st, all else reset
ResetSlot(s, st) ==
  /\ status' = [status EXCEPT ![s] = st]
  /\ bindingThread' = [bindingThread EXCEPT ![s] = threadNone]
  /\ sockevent' = [sockevent EXCEPT ![s] = -1]
  /\ inbox' = [inbox EXCEPT ![s] = <<>>]

\* trigger() on the events whose index is in E
Triggered(E) ==
  [e \in DOMAIN event |->
     IF e \in E /\ event[e] = "clear" THEN "set" ELSE event[e]]

\* mutants of CheckMessageTo: the status test too wide; no event triggered
CheckMessageToAny(s) ==
  IF StatusOf(s) \in {"idle", "schedule"}
  THEN /\ status' = [status EXCEPT ![s] = "schedule"]
       /\ schedule' = Append(schedule, s)
       /\ UNCHANGED event
  ELSE UNCHANGED <<status, schedule, event>>
CheckMessageToIdle(s) ==
  /\ UNCHANGED event
  /\ IF StatusOf(s) = "idle"
     THEN /\ status' = [status EXCEPT ![s] = "schedule"]
          /\ schedule' = Append(schedule, s)
     ELSE UNCHANGED <<status, schedule>>

\* checkMessageTo: an idle service is scheduled, any other one has its event
\* triggered.  capacity of task.schedule: see Panic.
CheckMessageTo(s) ==
  IF StatusOf(s) = "idle"
  THEN /\ status' = [status EXCEPT ![s] = "schedule"]
       /\ schedule' = Append(schedule, s)
       /\ UNCHANGED event
  ELSE /\ event' = Triggered({SockeventOf(s)})
       /\ UNCHANGED <<status, schedule>>

----------------------------------------------------------------------------
(* Parking and waking a worker, worker.go *)

\* wake() on every worker of W: sleeping is read without the trigger's lock,
\* and the signal only reaches a worker that already waits.
Wake(W) ==
  /\ wakeup' = [i \in Worker |-> wakeup[i] \/ (i \in W /\ sleeping[i])]
  /\ signalled' = [i \in Worker |->
       signalled[i] \/ (i \in W /\ sleeping[i] /\ pc[i] = "asleep")]
  /\ UNCHANGED <<sleeping, termSignal>>

\* start(): the head of the loop, with getJob
GetJob(w) ==
  /\ pc[w] = "loop" /\ ~termSignal[w] /\ serviceReady[w] # NoService
  /\ job' = [job EXCEPT ![w] = serviceReady[w]]
  /\ serviceReady' = [serviceReady EXCEPT ![w] = NoService]
  /\ Goto(w, "start")
  /\ UNCHANGED <<serviceVars, running, serviceDone, busy, binding, waiting,
       bindingQueue, sleepVars, scheduleOwner, schedule, blockedService,
       eventVars, externalVars, collectVars, assignVars, noJob, caller>>

NoJob(w) ==
  /\ pc[w] = "loop" /\ ~termSignal[w] /\ serviceReady[w] = NoService
  /\ Goto(w, "acquire")
  /\ UNCHANGED <<serviceVars, runVars, readyVars, sleepVars, scheduleOwner,
       schedule, blockedService, eventVars, externalVars, collectVars,
       assignVars, noJob, caller>>

\* after schedule() and release, the worker rests unless it found a job or a
\* blocked service needs a dispatcher
Rest(w) ==
  /\ pc[w] = "rest"
  /\ Goto(w, IF serviceDone[w] # NoService THEN "acquire"
             ELSE IF noJob[w] /\ ~blockedService THEN "sleep" ELSE "loop")
  /\ noJob' = [noJob EXCEPT ![w] = FALSE]
  /\ UNCHANGED <<serviceVars, runVars, readyVars, sleepVars, scheduleOwner,
       schedule, blockedService, eventVars, externalVars, collectVars,
       assignVars, caller>>

Sleep(w) ==
  /\ pc[w] = "sleep"
  /\ LET stay == termSignal[w] \/ serviceReady[w] # NoService \/ wakeup[w]
     IN  /\ Goto(w, IF stay THEN "loop" ELSE "park")
         /\ wakeup' = [wakeup EXCEPT ![w] = @ /\ termSignal[w]]
  /\ UNCHANGED <<serviceVars, runVars, readyVars, sleeping, signalled,
       termSignal, scheduleOwner, schedule, blockedService, eventVars,
       externalVars, collectVars, assignVars, noJob, caller>>

\* w.sleeping = 1, and then trigger.Wait() joins the condition's waiters
Park(w) ==
  /\ pc[w] = "park"
  /\ sleeping' = [sleeping EXCEPT ![w] = TRUE]
  /\ Goto(w, "wait")
  /\ UNCHANGED <<serviceVars, runVars, readyVars, wakeup, signalled,
       termSignal, scheduleOwner, schedule, blockedService, eventVars,
       externalVars, collectVars, assignVars, noJob, caller>>

Wait(w) ==
  /\ pc[w] = "wait"
  /\ Goto(w, "asleep")
  /\ UNCHANGED <<serviceVars, runVars, readyVars, sleepVars, scheduleOwner,
       schedule, blockedService, eventVars, externalVars, collectVars,
       assignVars, noJob, caller>>

Wakened(w) ==
  /\ pc[w] = "asleep" /\ signalled[w]
  /\ signalled' = [signalled EXCEPT ![w] = FALSE]
  /\ sleeping' = [sleeping EXCEPT ![w] = FALSE]
  /\ Goto(w, "loop")
  /\ UNCHANGED <<serviceVars, runVars, readyVars, wakeup, termSignal,
       scheduleOwner, schedule, blockedService, eventVars, externalVars,
       collectVars, assignVars, noJob, caller>>

\* quit(): the worker leaves the loop
Quit(w) ==
  /\ pc[w] = "quit" \/ (pc[w] = "loop" /\ termSignal[w])
  /\ sleeping' = [sleeping EXCEPT ![w] = FALSE]
  /\ Goto(w, "exited")
  /\ UNCHANGED <<serviceVars, runVars, readyVars, wakeup, signalled,
       termSignal, scheduleOwner, schedule, blockedService, eventVars,
       externalVars, collectVars, assignVars, noJob, caller>>

----------------------------------------------------------------------------
(* The scheduler lock *)

\* mutant of Acquire: the compare-and-swap is a plain store
AcquireStore(w, who, next) ==
  /\ scheduleOwner' = w
  /\ caller' = who
  /\ Goto(w, next)
  /\ UNCHANGED <<serviceVars, runVars, readyVars, sleepVars, schedule,
       blockedService, eventVars, externalVars, collectVars, assignVars,
       noJob>>

\* acquireScheduler succeeds; a worker that fails spins until it does.  `who`
\* is what the round is for: "idle" (no job), "finish" or "drain".
Acquire(w, who, next) ==
  /\ scheduleOwner = threadNone
  /\ scheduleOwner' = w
  /\ caller' = who
  /\ Goto(w, next)
  /\ UNCHANGED <<serviceVars, runVars, readyVars, sleepVars, schedule,
       blockedService, eventVars, externalVars, collectVars, assignVars,
       noJob>>

\* dispatch() begins with the external messages if there is a queue for them
DispatchEntry == IF ExtCap > 0 THEN "external" ELSE "collect"

AcquireScheduler(w) == pc[w] = "acquire" /\ Acquire(w, "idle", DispatchEntry)

ReleaseScheduler(w) ==
  /\ pc[w] = "release"
  /\ scheduleOwner' = threadNone
  /\ caller' = "idle"
  /\ Goto(w, IF caller = "idle" THEN "rest" ELSE "loop")
  /\ UNCHANGED <<serviceVars, runVars, readyVars, sleepVars, schedule,
       blockedService, eventVars, externalVars, collectVars, assignVars,
       noJob>>

----------------------------------------------------------------------------
(* dispatch(), core.go: the owner of the lock goes through these in order *)

\* mutant of ExternalPush: externalLast is not set when the push fails
ExternalPushDrops(w) ==
  /\ pc[w] = "external"
  /\ externalLast \/ externalMessage > 0
  /\ externalMessage' = IF externalLast THEN externalMessage
                                        ELSE externalMessage - 1
  /\ externalLast' = FALSE
  /\ sent' = ~Full(Root)
  /\ inbox' = IF StatusOf(Root) = "dead" \/ Full(Root) THEN inbox
              ELSE [inbox EXCEPT ![Root] =
                Append(@, [typ |-> "request", to |-> Root, about |-> NoService])]
  /\ Goto(w, IF Full(Root) THEN "collect" ELSE "external")
  /\ UNCHANGED <<status, out, receipt, bounce, awaiting, bindVars, runVars,
       readyVars, sleepVars, scheduleOwner, schedule, blockedService,
       eventVars, doneJobs, assignVars, noJob, caller>>

\* dispatchExternalMessages, a message at a time.  An external message becomes
\* a request to root.  A push fails on a full inbox only: to a dead root the
\* message is dropped and counts as sent.
ExternalPush(w) ==
  /\ pc[w] = "external"
  /\ externalLast \/ externalMessage > 0
  /\ externalMessage' = IF externalLast THEN externalMessage
                                        ELSE externalMessage - 1
  /\ LET dead == StatusOf(Root) = "dead"
         stuck == ~dead /\ Full(Root)
     IN  /\ externalLast' = stuck
         /\ inbox' = IF dead \/ stuck THEN inbox
                     ELSE [inbox EXCEPT ![Root] =
                       Append(@, [typ |-> "request", to |-> Root,
                                  about |-> NoService])]
         /\ sent' = ~stuck
         /\ Goto(w, IF stuck THEN "collect" ELSE "external")
  /\ UNCHANGED <<status, out, receipt, bounce, awaiting, bindVars, runVars,
       readyVars, sleepVars, scheduleOwner, schedule, blockedService,
       eventVars, doneJobs, assignVars, noJob, caller>>

ExternalDone(w) ==
  /\ pc[w] = "external"
  /\ ~externalLast /\ externalMessage = 0
  /\ IF sent THEN CheckMessageTo(Root)
             ELSE UNCHANGED <<status, schedule, event>>
  /\ sent' = FALSE
  /\ Goto(w, "collect")
  /\ UNCHANGED <<mailVars, bindVars, runVars, readyVars, sleepVars,
       scheduleOwner, blockedService, eventInit, externalVars, doneJobs,
       assignVars, noJob, caller>>

\* collectDoneJobs; doneJobs keeps them by worker, the order they are handled
CollectDoneJobs(w) ==
  /\ pc[w] = "collect"
  /\ doneJobs' = serviceDone
  /\ serviceDone' = [i \in Worker |-> NoService]
  /\ Goto(w, "out")
  /\ UNCHANGED <<serviceVars, job, running, busy, binding, readyVars,
       sleepVars, scheduleOwner, schedule, blockedService, eventVars,
       externalVars, sent, assignVars, noJob, caller>>

\* dispatchOutMessages: the finished service it is at, and its next one
Undone == {i \in Worker : doneJobs[i] # NoService}
Current == doneJobs[Least(Undone)]
Handled == doneJobs' = [doneJobs EXCEPT ![Least(Undone)] = NoService]
Dispatching(w) == pc[w] = "out" /\ Undone # {}

\* A service that died is reported to root by the signal in its out slot
DispatchSignal(w) ==
  /\ Dispatching(w)
  /\ StatusOf(Current) = "dead" /\ out[Current].typ = "signal"
  /\ out' = [out EXCEPT ![Current] = NoMessage]
  /\ IF StatusOf(Root) = "dead"
     THEN /\ ResetSlot(Current, Freed)
          /\ receipt' = [receipt EXCEPT ![Current] = "none"]
          /\ bounce' = [bounce EXCEPT ![Current] = NoMessage]
          /\ awaiting' = [awaiting EXCEPT ![Current] = FALSE]
          /\ UNCHANGED <<schedule, event>>
     ELSE /\ IF Full(Root)
             THEN /\ schedule' = Append(schedule, Current)
                  /\ UNCHANGED <<inbox, status, event>>
             ELSE /\ inbox' = [inbox EXCEPT ![Root] = Append(@, out[Current])]
                  /\ CheckMessageTo(Root)
          /\ UNCHANGED <<bindVars, receipt, bounce, awaiting>>
  /\ Handled
  /\ UNCHANGED <<pc, runVars, readyVars, sleepVars, scheduleOwner,
       blockedService, eventInit, externalVars, sent, assignVars,
       noJob, caller>>

\* dispatchScheduleMessage, MESSAGE_SCHEDULE_NEW: newService allocates an id.
\* Which free one it picks depends on all the ids handed out before: any.
FreeSlot == {s \in Service : status[s] = "none"}

ScheduleNew(w) ==
  /\ Dispatching(w) /\ out[Current].typ = "new"
  /\ IF Current # Root \/ FreeSlot = {}
     THEN /\ WriteReceipt(Current, "error", out[Current])
          /\ UNCHANGED <<status, bindVars, inbox>>
     ELSE \E s \in FreeSlot :
            /\ ResetSlot(s, "uninitialized")
            /\ WriteReceipt(Current, "response", [out[Current] EXCEPT !.to = s])
  /\ out' = [out EXCEPT ![Current] = NoMessage]
  /\ UNCHANGED <<awaiting, pc, runVars, readyVars, sleepVars, scheduleOwner,
       schedule, blockedService, eventVars, externalVars, collectVars,
       assignVars, noJob, caller>>

\* MESSAGE_SCHEDULE_DEL
ScheduleDel(w) ==
  /\ Dispatching(w) /\ out[Current].typ = "del"
  /\ ResetSlot(out[Current].about, Freed)
  /\ WriteReceipt(Current, "done", NoMessage)
  /\ out' = [out EXCEPT ![Current] = NoMessage]
  /\ UNCHANGED <<awaiting, pc, runVars, readyVars, sleepVars, scheduleOwner,
       schedule, blockedService, eventVars, externalVars, collectVars,
       assignVars, noJob, caller>>

\* dispatchOutMessage: the target was dead when dispatchOutMessage looked
DispatchToDead(w) ==
  /\ Dispatching(w) /\ out[Current].typ = "request"
  /\ StatusOf(out[Current].to) = "dead"
  /\ WriteReceipt(Current, "error", out[Current])
  /\ out' = [out EXCEPT ![Current] = NoMessage]
  /\ CheckMessageTo(out[Current].to)
  /\ UNCHANGED <<inbox, awaiting, bindVars, pc, runVars, readyVars, sleepVars,
       scheduleOwner, blockedService, eventInit, externalVars,
       collectVars, assignVars, noJob, caller>>

DispatchOutMessage(w) ==
  /\ Dispatching(w) /\ out[Current].typ = "request"
  /\ StatusOf(out[Current].to) # "dead"
  /\ Goto(w, "push")
  /\ UNCHANGED <<serviceVars, runVars, readyVars, sleepVars, scheduleOwner,
       schedule, blockedService, eventVars, externalVars, collectVars,
       assignVars, noJob, caller>>

\* pushMessage looks again: a target that has died since is not "blocked", so
\* the receipt says done.
PushMessage(w) ==
  /\ pc[w] = "push" /\ Undone # {} /\ out[Current].typ = "request"
  /\ LET m == out[Current]
         dead == StatusOf(m.to) = "dead"
     IN  /\ IF ~dead /\ Full(m.to)
            THEN /\ WriteReceipt(Current, "block", m)
                 /\ UNCHANGED inbox
            ELSE /\ WriteReceipt(Current, "done", NoMessage)
                 /\ inbox' = IF dead THEN inbox
                             ELSE [inbox EXCEPT ![m.to] = Append(@, m)]
         /\ CheckMessageTo(m.to)
  /\ out' = [out EXCEPT ![Current] = NoMessage]
  /\ Goto(w, "out")
  /\ UNCHANGED <<awaiting, bindVars, runVars, readyVars, sleepVars,
       scheduleOwner, blockedService, eventInit, externalVars,
       collectVars, assignVars, noJob, caller>>

\* The service has no message left to send: back to the schedule if it has
\* one to handle, or if it has an event (it is then given an idle message).
Settle(w) ==
  /\ Dispatching(w)
  /\ out[Current].typ = "nil" /\ StatusOf(Current) = "done"
  /\ LET idler == ~HasMessage(Current) /\ SockeventOf(Current) >= 0
         back == HasMessage(Current) \/ idler
     IN  /\ inbox' = IF idler
                     THEN [inbox EXCEPT ![Current] =
                            Append(@, [typ |-> "idle", to |-> Current,
                                       about |-> NoService])]
                     ELSE inbox
         /\ status' = [status EXCEPT ![Current] =
                         IF back THEN "schedule" ELSE "idle"]
         /\ schedule' = IF back THEN Append(schedule, Current) ELSE schedule
  /\ Handled
  /\ UNCHANGED <<out, receipt, bounce, awaiting, bindVars, pc, runVars,
       readyVars, sleepVars, scheduleOwner, blockedService, eventVars,
       externalVars, sent, assignVars, noJob, caller>>

\* mutant of Stealable: the binding is not looked at
StealableBound(i) == serviceReady[i] # NoService

\* stolen(): what may be taken from the serviceReady slot of worker i
Stealable(i) == serviceReady[i] # NoService /\ BindingOf(serviceReady[i]) # i

\* getPendingJobs: the jobs that wait behind a busy worker go round again
Pending == {i \in Worker : busy[i] /\ Stealable(i)}

GetPendingJobs(w) ==
  /\ pc[w] = "out" /\ Undone = {} /\ Pending # {}
  /\ LET i == Least(Pending)
     IN  /\ jobs' = Append(jobs, serviceReady[i])
         /\ serviceReady' = [serviceReady EXCEPT ![i] = NoService]
         /\ waiting' = [waiting EXCEPT ![i] = NoService]
  /\ UNCHANGED <<serviceVars, pc, runVars, bindingQueue, sleepVars, scheduleOwner,
       schedule, blockedService, eventVars, externalVars, collectVars, slots,
       visit, pass, noJob, caller>>

\* countFreeSlots, when nothing is pending (no worker but the lock's owner can
\* add to Undone or Pending): an empty slot is first refilled from the worker's own
\* bindingQueue (and the worker kicked and woken); what is left is free.
\* mutant of Free: a slot to be refilled from a bindingQueue counts as free
FreeAll == {i \in Worker : serviceReady[i] = NoService}
Refilled == {i \in Worker : serviceReady[i] = NoService /\ bindingQueue[i] # <<>>}
Free == {i \in Worker : serviceReady[i] = NoService /\ bindingQueue[i] = <<>>}

Counting(w) == pc[w] = "out" /\ Undone = {} /\ Pending = {}

CountFreeSlots(w) ==
  /\ Counting(w) /\ Cardinality(Free) >= Len(jobs)
  /\ slots' = Cardinality(Free) - Len(jobs)
  /\ serviceReady' = [i \in Worker |->
       IF i \in Refilled THEN Head(bindingQueue[i]) ELSE serviceReady[i]]
  /\ waiting' = [i \in Worker |->
       IF i \in Refilled THEN Head(bindingQueue[i]) ELSE waiting[i]]
  /\ bindingQueue' = [i \in Worker |->
       IF i \in Refilled THEN Tail(bindingQueue[i]) ELSE bindingQueue[i]]
  /\ blockedService' = (blockedService \/ Refilled # {})
  /\ Wake(Refilled)
  /\ Goto(w, "prepare")
  /\ UNCHANGED <<serviceVars, runVars, scheduleOwner, schedule, eventVars,
       externalVars, collectVars, jobs, visit, pass, noJob, caller>>

\* prepare: a scheduled service that is bound to worker i goes through i's
\* bindingQueue to its serviceReady slot; any other joins `jobs`.
\* mutant of PrepareUnbound: the number of free slots is not looked at
PrepareUnboundAll(w) ==
  /\ pc[w] = "prepare" /\ schedule # <<>>
  /\ BindingOf(Head(schedule)) = threadNone
  /\ jobs' = Append(jobs, Head(schedule))
  /\ schedule' = Tail(schedule)
  /\ slots' = slots - 1
  /\ UNCHANGED <<serviceVars, pc, runVars, readyVars, sleepVars,
       scheduleOwner, blockedService, eventVars, externalVars, collectVars,
       visit, pass, noJob, caller>>

PrepareUnbound(w) ==
  /\ pc[w] = "prepare" /\ slots > 0 /\ schedule # <<>>
  /\ BindingOf(Head(schedule)) = threadNone
  /\ jobs' = Append(jobs, Head(schedule))
  /\ schedule' = Tail(schedule)
  /\ slots' = slots - 1
  /\ UNCHANGED <<serviceVars, pc, runVars, readyVars, sleepVars,
       scheduleOwner, blockedService, eventVars, externalVars, collectVars,
       visit, pass, noJob, caller>>

PrepareBound(w) ==
  /\ pc[w] = "prepare" /\ slots > 0 /\ schedule # <<>>
  /\ LET s == Head(schedule)
         i == BindingOf(s)
         q == Append(bindingQueue[i], s)
         full == Len(bindingQueue[i]) >= BindCap
         assign == ~full /\ serviceReady[i] = NoService
     IN  /\ i # threadNone
         /\ schedule' = IF full THEN Append(Tail(schedule), s) ELSE Tail(schedule)
         /\ bindingQueue' = [bindingQueue EXCEPT ![i] =
              IF full THEN @ ELSE IF assign THEN Tail(q) ELSE q]
         /\ serviceReady' = [serviceReady EXCEPT ![i] = IF assign THEN Head(q) ELSE @]
         /\ waiting' = [waiting EXCEPT ![i] = IF assign THEN Head(q) ELSE @]
         /\ blockedService' = (blockedService \/ assign)
         /\ Wake(IF assign THEN {i} ELSE {})
  /\ slots' = slots - 1
  /\ UNCHANGED <<serviceVars, pc, runVars, scheduleOwner, eventVars,
       externalVars, collectVars, jobs, visit, pass, noJob, caller>>

PrepareDone(w) ==
  /\ pc[w] = "prepare" /\ (slots = 0 \/ schedule = <<>>)
  /\ slots' = 0
  /\ Goto(w, "assign")
  /\ UNCHANGED <<serviceVars, runVars, readyVars, sleepVars, scheduleOwner,
       schedule, blockedService, eventVars, externalVars, collectVars, jobs,
       visit, pass, noJob, caller>>

\* assignPrepare, a worker at a time: idle workers that are bound to nothing
\* in the first pass, busy ones in the second, any worker from the third on.
Suits(i, p) == (p >= 1 \/ ~busy[i]) /\ (p = 2 \/ binding[i] = NoService)

AssignPrepare(w) ==
  /\ pc[w] = "assign" /\ jobs # <<>>
  /\ LET i == IF visit = NWorker THEN 0 ELSE visit
         p == IF visit = NWorker /\ pass < 2 THEN pass + 1 ELSE pass
         take == Suits(i, p) /\ serviceReady[i] = NoService
         own == take /\ bindingQueue[i] # <<>>
         s == IF own THEN Head(bindingQueue[i]) ELSE Head(jobs)
     IN  /\ visit' = i + 1
         /\ pass' = p
         /\ serviceReady' = [serviceReady EXCEPT ![i] = IF take THEN s ELSE @]
         /\ bindingQueue' = [bindingQueue EXCEPT ![i] = IF own THEN Tail(@) ELSE @]
         /\ jobs' = IF take /\ ~own THEN Tail(jobs) ELSE jobs
         /\ Wake(IF take THEN {i} ELSE {})
  /\ UNCHANGED <<serviceVars, pc, runVars, waiting, scheduleOwner, schedule,
       blockedService, eventVars, externalVars, collectVars, slots, noJob,
       caller>>

\* triggerBlockedWorkers, when all jobs are assigned: a bound service waits
\* behind what its worker runs; that one is asked to yield through its event.
TriggerBlockedWorkers(w) ==
  /\ pc[w] = "assign" /\ jobs = <<>>
  /\ visit' = 0 /\ pass' = 0
  /\ LET blocked == {i \in Worker : blockedService /\ waiting[i] # NoService}
         kicked == {i \in blocked : running[i] # NoService}
     IN  /\ event' = Triggered({SockeventOf(running[i]) : i \in kicked})
         /\ waiting' = [i \in Worker |->
              IF i \in kicked THEN NoService ELSE waiting[i]]
         /\ blockedService' = (blocked # kicked)
  /\ Goto(w, IF caller = "drain" THEN "complete3" ELSE "schedule")
  /\ UNCHANGED <<serviceVars, runVars, serviceReady, bindingQueue, sleepVars,
       scheduleOwner, schedule, eventInit, externalVars, collectVars, jobs,
       slots, noJob, caller>>

----------------------------------------------------------------------------
(* schedule() after its dispatch(): a worker left without a job steals one *)

\* mutant of Victim: nothing is ever stolen
VictimNone == {}
Victim == {i \in Worker : Stealable(i)}

Schedule(w) ==
  /\ pc[w] = "schedule"
  /\ LET steal == /\ serviceReady[w] = NoService /\ binding[w] = NoService
                  /\ Victim # {}
         i == Least(Victim)
     IN  /\ serviceReady' =
              IF steal THEN [serviceReady EXCEPT ![i] = NoService,
                                                 ![w] = serviceReady[i]]
                       ELSE serviceReady
         /\ waiting' = IF steal THEN [waiting EXCEPT ![i] = NoService]
                                ELSE waiting
         /\ noJob' = [noJob EXCEPT ![w] =
              caller = "idle" /\ serviceReady[w] = NoService /\ ~steal]
  /\ Goto(w, "release")
  /\ UNCHANGED <<serviceVars, runVars, bindingQueue, sleepVars, scheduleOwner,
       schedule, blockedService, eventVars, externalVars, collectVars,
       assignVars, caller>>

----------------------------------------------------------------------------
(* Running a service, worker.go start() and the Lua runtime's main loop    *)

\* The job leaves the hand-over state; a dead service is not run (its worker
\* is busy only within this step)
Start(w) ==
  /\ pc[w] = "start" /\ StatusOf(job[w]) \in {"schedule", "dead"}
  /\ running' = [running EXCEPT ![w] = job[w]]
  /\ job' = [job EXCEPT ![w] = NoService]
  /\ waiting' = [waiting EXCEPT ![w] = IF @ = job[w] THEN NoService ELSE @]
  /\ IF StatusOf(job[w]) = "schedule"
     THEN /\ status' = [status EXCEPT ![job[w]] = "running"]
          /\ busy' = [busy EXCEPT ![w] = TRUE]
          /\ Goto(w, "resume")
          /\ UNCHANGED binding
     ELSE /\ binding' = [binding EXCEPT ![w] =
               IF BindingOf(job[w]) = w THEN job[w] ELSE @]
          /\ Goto(w, "complete")
          /\ UNCHANGED <<status, busy>>
  /\ UNCHANGED <<mailVars, bindVars, serviceDone, serviceReady, bindingQueue,
       sleepVars, scheduleOwner, schedule, blockedService, eventVars,
       externalVars, collectVars, assignVars, noJob, caller>>

\* mutant of Receive: read_receipt does not reset the receipt
ReceiveKeeps(s) ==
  /\ UNCHANGED <<receipt, bounce>>
  /\ inbox' = IF awaiting[s] \/ inbox[s] = <<>> THEN inbox
              ELSE [inbox EXCEPT ![s] = Tail(@)]

\* A service inside post_message reads its receipt (message_receipt); any
\* other one takes the next message of its inbox (recv_message), if any.
Receive(s) ==
  /\ receipt' = IF awaiting[s] THEN [receipt EXCEPT ![s] = "none"] ELSE receipt
  /\ bounce' = IF awaiting[s] THEN [bounce EXCEPT ![s] = NoMessage] ELSE bounce
  /\ inbox' = IF awaiting[s] \/ inbox[s] = <<>> THEN inbox
              ELSE [inbox EXCEPT ![s] = Tail(@)]

\* What root's Lua code is bound to do next: initialise the service it was
\* given an id for, or close the service that signalled its end.
Spawned(s) == s = Root /\ awaiting[s] /\ receipt[s] = "response"
Signalled(s) == /\ s = Root /\ ~awaiting[s] /\ inbox[s] # <<>>
                /\ Head(inbox[s]).typ = "signal"
AtIdle(s) == ~awaiting[s] /\ inbox[s] # <<>> /\ Head(inbox[s]).typ = "idle"

Resumes(w) == pc[w] = "resume"
AtWill(w) == Resumes(w) /\ ~Spawned(running[w]) /\ ~Signalled(running[w])

\* After resume: busy is cleared, the worker's binding follows the service's
Finish(w, dead, thread) ==
  /\ busy' = [busy EXCEPT ![w] = FALSE]
  /\ binding' = [binding EXCEPT ![w] =
       IF dead THEN (IF @ = running[w] THEN NoService ELSE @)
       ELSE IF thread = w THEN running[w] ELSE @]
  /\ Goto(w, "complete")
  /\ UNCHANGED <<job, running, serviceDone, readyVars, scheduleOwner,
       blockedService, externalVars, collectVars, assignVars, noJob, caller>>

\* The service yields with nothing to send
Yield(w) ==
  LET s == running[w] IN
  /\ AtWill(w)
  /\ Receive(s)
  /\ awaiting' = [awaiting EXCEPT ![s] = FALSE]
  /\ status' = [status EXCEPT ![s] = "done"]
  /\ Finish(w, FALSE, bindingThread[s])
  /\ UNCHANGED <<out, bindVars, sleepVars, schedule, eventVars>>

\* post_message: send_message fills the out slot and the service yields
Post(w, s, m) ==
  /\ out' = [out EXCEPT ![s] = m]
  /\ awaiting' = [awaiting EXCEPT ![s] = TRUE]

\* A service knows the addresses it was given: those of initialised services.
\* Once ids are reused, an address it kept may name a slot in any state.
Known(t) == Recycle \/ status[t] \notin {"none", "uninitialized"}

Send(w, t) ==
  LET s == running[w] IN
  /\ AtWill(w) /\ <<s, t>> \in Link /\ Known(t)
  /\ Receive(s)
  /\ Post(w, s, [typ |-> "request", to |-> t, about |-> NoService])
  /\ status' = [status EXCEPT ![s] = "done"]
  /\ Finish(w, FALSE, bindingThread[s])
  /\ UNCHANGED <<bindVars, sleepVars, schedule, eventVars>>

Spawn(w) ==
  LET s == running[w] IN
  /\ AtWill(w) /\ s \in Spawner
  /\ Receive(s)
  /\ Post(w, s, [typ |-> "new", to |-> System, about |-> NoService])
  /\ status' = [status EXCEPT ![s] = "done"]
  /\ Finish(w, FALSE, bindingThread[s])
  /\ UNCHANGED <<bindVars, sleepVars, schedule, eventVars>>

\* root spawn: init_service of the new id, then the "init" request to it
InitService(w, x) ==
  LET s == running[w]
      new == bounce[s].to
  IN
  /\ Resumes(w) /\ Spawned(s)
  /\ x = threadNone \/ <<new, x>> \in Binder
  /\ Receive(s)
  /\ Post(w, s, [typ |-> "request", to |-> new, about |-> NoService])
  /\ status' = [status EXCEPT ![s] = "done", ![new] = "idle"]
  /\ bindingThread' = [bindingThread EXCEPT ![new] = x]
  /\ Finish(w, FALSE, bindingThread[s])
  /\ UNCHANGED <<sockevent, sleepVars, schedule, eventVars>>

\* init_service fails: the slot is deleted and root's session ends in an error
InitServiceFails(w) ==
  LET s == running[w] IN
  /\ Resumes(w) /\ Spawned(s)
  /\ Receive(s)
  /\ awaiting' = [awaiting EXCEPT ![s] = FALSE]
  /\ status' = [status EXCEPT ![s] = "done", ![bounce[s].to] = Freed]
  /\ Finish(w, FALSE, bindingThread[s])
  /\ UNCHANGED <<out, bindVars, sleepVars, schedule, eventVars>>

\* root del_service: close_service frees the slot of the dead service and its
\* event (whose pipe keeps its stale descriptors), then asks for its deletion
CloseService(w) ==
  LET s == running[w]
      c == Head(inbox[s]).about
  IN
  /\ Resumes(w) /\ Signalled(s)
  /\ status' = [status EXCEPT ![s] = "done", ![c] = Freed]
  /\ inbox' = [inbox EXCEPT ![s] = Tail(@), ![c] = <<>>]
  /\ receipt' = [receipt EXCEPT ![c] = "none"]
  /\ bounce' = [bounce EXCEPT ![c] = NoMessage]
  /\ out' = [out EXCEPT ![c] = NoMessage,
                        ![s] = [typ |-> "del", to |-> System, about |-> c]]
  /\ awaiting' = [awaiting EXCEPT ![c] = FALSE, ![s] = TRUE]
  /\ bindingThread' = [bindingThread EXCEPT ![c] = threadNone]
  /\ sockevent' = [sockevent EXCEPT ![c] = -1]
  /\ event' = [e \in DOMAIN event |->
                 IF e = sockevent[c] THEN "closed" ELSE event[e]]
  /\ eventInit' = [e \in DOMAIN event |-> eventInit[e] /\ e # sockevent[c]]
  /\ Finish(w, FALSE, bindingThread[s])
  /\ UNCHANGED <<sleepVars, schedule>>

\* The main loop returns: the service is dead, its last message is a signal
QuitService(w) ==
  LET s == running[w] IN
  /\ AtWill(w) /\ s \in Mortal \ {Root}
  /\ Receive(s)
  /\ awaiting' = [awaiting EXCEPT ![s] = FALSE]
  /\ status' = [status EXCEPT ![s] = "dead"]
  /\ out' = [out EXCEPT ![s] = [typ |-> "signal", to |-> Root, about |-> s]]
  /\ Finish(w, TRUE, threadNone)
  /\ UNCHANGED <<bindVars, sleepVars, schedule, eventVars>>

\* root quits: every worker is told to terminate, and woken
QuitRoot(w) ==
  /\ AtWill(w) /\ running[w] = Root /\ Root \in Mortal
  /\ Receive(Root)
  /\ awaiting' = [awaiting EXCEPT ![Root] = FALSE]
  /\ status' = [status EXCEPT ![Root] = "dead"]
  /\ termSignal' = [i \in Worker |-> TRUE]
  /\ wakeup' = [i \in Worker |-> wakeup[i] \/ sleeping[i]]
  /\ signalled' = [i \in Worker |->
       signalled[i] \/ (sleeping[i] /\ pc[i] = "asleep")]
  /\ event' = Triggered(DOMAIN event)
  /\ Goto(w, "quit")
  /\ UNCHANGED <<out, bindVars, sleeping, runVars, readyVars, scheduleOwner,
       schedule, blockedService, eventInit, externalVars, collectVars,
       assignVars, noJob, caller>>

\* worker_bind
Bind(w, x) ==
  LET s == running[w] IN
  /\ AtWill(w) /\ <<s, x>> \in Binder
  /\ Receive(s)
  /\ awaiting' = [awaiting EXCEPT ![s] = FALSE]
  /\ status' = [status EXCEPT ![s] = "done"]
  /\ bindingThread' = [bindingThread EXCEPT ![s] = x]
  /\ Finish(w, FALSE, x)
  /\ UNCHANGED <<out, sockevent, sleepVars, schedule, eventVars>>

\* eventinit: the first event not in use.  It can be opened only if its pipe
\* was never opened before; if not, it stays allocated.
EventInit(w) ==
  LET s == running[w]
      free == {e \in DOMAIN event : ~eventInit[e]}
      e == Least(free)
      ok == event[e] = "invalid"
  IN
  /\ AtWill(w) /\ s \in Waiter /\ sockevent[s] < 0 /\ free # {}
  /\ Receive(s)
  /\ awaiting' = [awaiting EXCEPT ![s] = FALSE]
  /\ status' = [status EXCEPT ![s] = "done"]
  /\ eventInit' = [eventInit EXCEPT ![e] = TRUE]
  /\ event' = [event EXCEPT ![e] = IF ok THEN "set" ELSE @]
  /\ sockevent' = [sockevent EXCEPT ![s] = IF ok THEN e ELSE @]
  /\ Finish(w, FALSE, bindingThread[s])
  /\ UNCHANGED <<out, bindingThread, sleepVars, schedule>>

\* The idle handler blocks the worker in the event's wait()
EventWait(w) ==
  LET s == running[w] IN
  /\ AtWill(w) /\ s \in Waiter /\ AtIdle(s) /\ sockevent[s] >= 0
  /\ Receive(s)
  /\ Goto(w, "eventwait")
  /\ UNCHANGED <<status, out, awaiting, bindVars, runVars, readyVars,
       sleepVars, scheduleOwner, schedule, blockedService, eventVars,
       externalVars, collectVars, assignVars, noJob, caller>>

\* wait() returns; a byte written meanwhile may leave the event set (SockEvent)
EventWaited(w) ==
  LET s == running[w] IN
  /\ pc[w] = "eventwait" /\ event[sockevent[s]] = "set"
  /\ \E left \in {"clear", "set"} : event' = [event EXCEPT ![sockevent[s]] = left]
  /\ status' = [status EXCEPT ![s] = "done"]
  /\ Finish(w, FALSE, bindingThread[s])
  /\ UNCHANGED <<mailVars, bindVars, sleepVars, schedule, eventInit>>

----------------------------------------------------------------------------
(* Handing the service back, worker.go:325-341 *)

\* mutant of CompleteJob: the compare-and-swap is a plain store
CompleteJobStore(w) ==
  /\ serviceDone' = [serviceDone EXCEPT ![w] = running[w]]
  /\ running' = [running EXCEPT ![w] = NoService]
  /\ UNCHANGED <<serviceVars, job, busy, binding, readyVars, sleepVars,
       scheduleOwner, schedule, blockedService, eventVars, externalVars,
       collectVars, assignVars, noJob>>

\* completeJob succeeds: running moves to serviceDone
CompleteJob(w) ==
  /\ serviceDone[w] = NoService
  /\ serviceDone' = [serviceDone EXCEPT ![w] = running[w]]
  /\ running' = [running EXCEPT ![w] = NoService]
  /\ UNCHANGED <<serviceVars, job, busy, binding, readyVars, sleepVars,
       scheduleOwner, schedule, blockedService, eventVars, externalVars,
       collectVars, assignVars, noJob>>

\* ... without the lock, with it after the previous job was collected by
\* someone else, and with it after this worker's own round collected it
Complete(w) ==
  /\ pc[w] \in {"complete", "complete2", "complete3"}
  /\ CompleteJob(w)
  /\ Goto(w, IF pc[w] = "complete" THEN "loop" ELSE DispatchEntry)
  /\ caller' = IF pc[w] = "complete" THEN caller ELSE "finish"

\* The previous job has not been collected: try the lock
CompleteAcquire(w) ==
  /\ pc[w] = "complete" /\ serviceDone[w] # NoService
  /\ Acquire(w, "finish", "complete2")

Drain(w) ==
  /\ pc[w] = "complete2" /\ serviceDone[w] # NoService
  /\ caller' = "drain"
  /\ Goto(w, DispatchEntry)
  /\ UNCHANGED <<serviceVars, runVars, readyVars, sleepVars, scheduleOwner,
       schedule, blockedService, eventVars, externalVars, collectVars,
       assignVars, noJob>>

----------------------------------------------------------------------------
(* The host program: ExternalSend pushes and does not look at the result *)

ExternalSend ==
  /\ externalMessage < ExtCap
  /\ externalMessage' = externalMessage + 1
  /\ UNCHANGED <<serviceVars, pc, runVars, readyVars, sleepVars,
       scheduleOwner, schedule, blockedService, eventVars, externalLast,
       collectVars, assignVars, noJob, caller>>

----------------------------------------------------------------------------
(* The panics of the Go code *)

\* dispatchOutMessages: "Service is dead but has no signal to root"
PanicNoSignal == \E w \in Worker :
  Dispatching(w) /\ StatusOf(Current) = "dead" /\ out[Current].typ # "signal"
\* dispatchOutMessages: "Service status is not done"
PanicNotDone == \E w \in Worker :
  Dispatching(w) /\ StatusOf(Current) \notin {"dead", "done"}
\* dispatch: "Not enough free slots to assign jobs"
PanicNoSlot == \E w \in Worker :
  Counting(w) /\ Cardinality(Free) < Len(jobs)
\* start: "Service %d not in schedule status: %d"
PanicNotScheduled == \E w \in Worker :
  pc[w] = "start" /\ StatusOf(job[w]) \notin {"schedule", "dead"}
\* scheduleBack: "schedule channel is full"
PanicScheduleFull == Len(schedule) > Cardinality(Service)
\* pushMessage: the service's inbox is nil until root has initialised it
PanicNilInbox == \E w \in Worker :
  pc[w] = "push" /\ status[out[Current].to] = "uninitialized"
\* releaseScheduler: "Worker trying to release scheduler it does not own"
PanicNotOwner == \E w \in Worker : pc[w] = "release" /\ scheduleOwner # w

Panic == \/ PanicNoSignal \/ PanicNotDone \/ PanicNoSlot
         \/ PanicNotScheduled \/ PanicScheduleFull \/ PanicNilInbox \/ PanicNotOwner

----------------------------------------------------------------------------

\* bootstrap.go: root exists and has been posted its init message
Init ==
  /\ status = [s \in Service |-> IF s = Root THEN "schedule" ELSE "none"]
  /\ inbox = [s \in Service |-> IF s = Root
       THEN <<[typ |-> "request", to |-> Root, about |-> NoService]>> ELSE <<>>]
  /\ out = [s \in Service |-> NoMessage]
  /\ receipt = [s \in Service |-> "none"]
  /\ bounce = [s \in Service |-> NoMessage]
  /\ awaiting = [s \in Service |-> FALSE]
  /\ bindingThread = [s \in Service |-> threadNone]
  /\ sockevent = [s \in Service |-> -1]
  /\ pc = [w \in Worker |-> "loop"]
  /\ job = [w \in Worker |-> NoService]
  /\ running = [w \in Worker |-> NoService]
  /\ serviceReady = [w \in Worker |-> NoService]
  /\ serviceDone = [w \in Worker |-> NoService]
  /\ busy = [w \in Worker |-> FALSE]
  /\ binding = [w \in Worker |-> NoService]
  /\ waiting = [w \in Worker |-> NoService]
  /\ bindingQueue = [w \in Worker |-> <<>>]
  /\ sleeping = [w \in Worker |-> FALSE]
  /\ wakeup = [w \in Worker |-> FALSE]
  /\ signalled = [w \in Worker |-> FALSE]
  /\ termSignal = [w \in Worker |-> FALSE]
  /\ scheduleOwner = threadNone
  /\ schedule = <<Root>>
  /\ blockedService = FALSE
  /\ event = [e \in 0 .. NEvent - 1 |-> "invalid"]
  /\ eventInit = [e \in 0 .. NEvent - 1 |-> FALSE]
  /\ externalMessage = 0 /\ externalLast = FALSE
  /\ doneJobs = [w \in Worker |-> NoService]
  /\ jobs = <<>> /\ slots = 0 /\ visit = 0 /\ pass = 0
  /\ sent = FALSE
  /\ noJob = [w \in Worker |-> FALSE]
  /\ caller = "idle"

Lull(w) == Rest(w) \/ Sleep(w) \/ Park(w) \/ Wait(w) \/ Wakened(w) \/ Quit(w)

DispatchOut(w) ==
  \/ DispatchSignal(w) \/ ScheduleNew(w) \/ ScheduleDel(w)
  \/ DispatchToDead(w) \/ DispatchOutMessage(w) \/ PushMessage(w)
  \/ Settle(w)

Dispatch(w) ==
  \/ ExternalPush(w) \/ ExternalDone(w) \/ CollectDoneJobs(w) \/ DispatchOut(w)
  \/ GetPendingJobs(w) \/ CountFreeSlots(w) \/ PrepareUnbound(w)
  \/ PrepareBound(w) \/ PrepareDone(w) \/ AssignPrepare(w)
  \/ TriggerBlockedWorkers(w) \/ Schedule(w)

Run(w) ==
  \/ Yield(w) \/ (\E t \in Service : Send(w, t)) \/ Spawn(w)
  \/ InitServiceFails(w) \/ CloseService(w) \/ QuitService(w) \/ QuitRoot(w)
  \/ (\E x \in Worker \cup {threadNone} : InitService(w, x) \/ Bind(w, x))
  \/ EventInit(w) \/ EventWait(w) \/ EventWaited(w)

Step(w) ==
  \/ GetJob(w) \/ NoJob(w) \/ Lull(w)
  \/ AcquireScheduler(w) \/ Dispatch(w) \/ ReleaseScheduler(w)
  \/ Start(w) \/ Run(w)
  \/ Complete(w) \/ CompleteAcquire(w) \/ Drain(w)

Next == ~Panic /\ ((\E w \in Worker : Step(w)) \/ ExternalSend)

Spec == Init /\ [][Next]_vars

\* Every worker thread keeps running; and a compare-and-swap a worker retries
\* for ever (on the lock, and on its own serviceReady) does not fail for ever.
FairSpec ==
  /\ Spec
  /\ \A w \in Worker :
       /\ WF_vars(Step(w))
       /\ SF_vars(~Panic /\ GetJob(w))
       /\ SF_vars(~Panic /\ (AcquireScheduler(w) \/ CompleteAcquire(w)))
=============================================================================
