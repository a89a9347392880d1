# A verification project for ltask-go

ltask-go runs many Lua services on a few worker threads. This directory holds
TLA+ models of its concurrent core, of its root service and of its
serialisation, the TLC configurations that check them, and theorems checked by
TLAPS. Line numbers refer to the files of the repository.

1. [The system](#1-the-system)
2. [What is hard, and what makes it correct](#2-what-is-hard-and-what-makes-it-correct)
3. [The modules](#3-the-modules)
4. [The runs](#4-the-runs)
5. [Fairness](#5-fairness)
6. [The proofs](#6-the-proofs)
7. [Findings](#7-findings)
8. [What is not modelled](#8-what-is-not-modelled)
9. [Plan](#9-plan)

To use it: `tlc -config MCSchedulerCore.cfg MCScheduler`, `tlc -config
SockEvent.cfg SockEvent`, `tlapm SchedulerProof.tla`, and so on.

## 1. The system

| component | state | operations | interacts with |
|---|---|---|---|
| **worker threads** `worker.go` | `running`, `serviceReady`, `serviceDone`, `busy`, `binding`, `waiting`, `bindingQueue`, `sleeping`, `wakeup`, `termSignal` | `start` (the loop), `getJob`, `completeJob`, `sleep`, `wake`, `quit`, `acquireScheduler`, `releaseScheduler`, `assignJob`, `stolen`, `kickRunning` | runs services; whichever worker holds the lock is the scheduler |
| **scheduler** `core.go` | `scheduleOwner` (the lock), `schedule` (the queue of services), `blockedService`, `externalMessage`, `externalLastMessage`, the events | `dispatch` (external messages, done jobs, out messages, prepare, assign, trigger), `schedule`, `quitAllWorkers` | reads and writes the slots of every worker and service, mostly without a lock of their own |
| **service pool** `service.go`, `message.go`, `root.go` | a slot per id: status, inbox, `out`, receipt, bounce, binding, event | `newService`, `initService`, `deleteService`, `closeService`, `pushMessage`, `sendMessage`, `readReceipt`, `popMessage`, `resume` | the dispatcher moves messages; the running service reads and writes its own slot |
| **socket events** `sockevent.go`, `sock_*.go` | a socket pair and a flag `e` | `open`, `trigger`, `wait`, `close` | `checkMessageTo` and `kickRunning` trigger them, a service blocks in one |
| **log queue** `logqueue.go` | list, free list, spin lock | `push`, `pop`, `delete` | pushed by every worker, popped by the logger service and by root |
| **session runtime** `lualib/service.lua` | coroutines by session, tokens, wakeup queue | `call`, `send`, `sleep`, `wait`, `wakeup`, `fork`, `async`, `parallel`, `quit`, the main loop | speaks to the scheduler through `send_message`, yield, `message_receipt`, `recv_message` |
| **root service** `service/root.lua` | names and their order, anonymous services, names being started, retry queues | `spawn`, `uniqueservice`, `queryservice`, `register_service`, `send_retry`, `del_service`, `quit`, `quit_ltask` | creates and frees services through the pool; forwards external messages |
| **timer** `service/timer.lua` | the timer wheel, blocked queues by address | `timer_add`, the idle handler: `send_all_messages`, `send_blocked_queue` | responses to sleepers |
| **bootstrap** `bootstrap.go`, `lualib/bootstrap.lua` | the task | `init`, `run`, `wait`, `deinit`, `ExternalSend` | starts the workers, joins them |
| **serialisation** `serde.go` | a write block (ancestors, objects, addresses of tags), a read block (ancestors, references) | `LuaSerdePack`, `LuaSerdeUnpack` | every message's arguments are packed by its sender and unpacked by its receiver |
| config, malloc, bindings, logger, examples | | | pure data or I/O |

How they fit together. A service runs until it yields. Before it yields it may
put *one* message in its `out` slot. The worker moves the service from
`running` to `serviceDone`. Some worker, the one that next runs out of work or
finds its `serviceDone` still full, takes the lock and makes a round for
everybody: it collects the finished services, moves each out message to the
inbox of its target (or to root, when the service has died), writes the
sender's receipt, puts services with something to handle back in the schedule
and hands scheduled services to the `serviceReady` slots. A slot may be emptied
at any time by its own worker (without the lock) or by a thief (with it).

## 2. What is hard, and what makes it correct

The list of hazards, each at its line and with the properties that cover it,
is in `PROJECT.json`. In short:

* **scheduler** - a service must be in one place only, and never in none, while
  slots are taken concurrently by their worker, by thieves and by the
  dispatcher; statuses are read outside the lock; workers go to sleep while
  others hand them work; inboxes, queues and slots are bounded; a service dies
  while messages are under way to it; root quits while others are anywhere.
  Correct when: no service is lost, doubled or forgotten; no panic is
  reachable; a death reaches root; an idle service has nothing to handle; a
  service that waits for a receipt gets exactly one; bindings hold.
* **socket events** - `trigger`, `wait`, `open` and `close` share a flag and a
  pipe without a lock. Correct when a trigger is never lost, and a wait does not
  return without one.
* **log queue** - list surgery by many threads. Correct when it is a FIFO and no
  item is in two lists.
* **session runtime** - many sessions share one Lua state; answers may be late,
  repeated, blocked by a full inbox or never sent because somebody died. Correct
  when every coroutine in use can be resumed in exactly one way, no old answer
  matches a new session, and a caller that waits has an answer coming.
* **root** - three requests for one name, a failing init and a death can meet
  in any order; slots run out; ids wrap. Correct when a name has one service, no
  waiter is forgotten, root knows every service there is, and an id in use leads
  to its own service.
* **timer** - one service keeps a queue per sleeper and resumes in the middle of
  one. Correct when a sleeper is woken once by its own session.
* **serialisation** - formats change at widths and lengths; tables met again are
  written as references found by stack positions and by addresses into a
  buffer that moves. Correct when `unpack` gives what `pack` got.

## 3. The modules

| module | what it is |
|---|---|
| `Scheduler` | workers, the lock, dispatch, services and messages: the state machine |
| `SchedulerProps` | its type invariant, safety, action and liveness properties |
| `MCScheduler` + `MCScheduler*.cfg` | the instances for TLC |
| `MCSchedulerSlots`, `MCSchedulerSlots.cfg` | a larger instance, and the executions of it that lead to finding 18 |
| `SchedulerProof` | its types and its lock, proved |
| `TokenProof` | where the scheduler holds a service, and with which status, proved |
| `DispatchProof` | what the dispatcher does with messages, receipts, bindings, events, slots and deaths, and who may sleep, proved |
| `Event` | abstract: what a socket event promises |
| `SockEvent`, `SockEvent.cfg` | `sockevent.go` in its atomic steps; properties; implements `Event` |
| `SockEventProof` | the invariant, the bound of the pipe and the refinement, proved |
| `LogFifo` | abstract: what the log queue promises |
| `LogQueue`, `LogQueue.cfg` | `logqueue.go` in its atomic steps; implements `LogFifo` |
| `LogQueueProof` | its types, the exclusion of its lock, the integrity of its lists and the refinement, proved |
| `CallPromise` | abstract: what the runtime promises of each call |
| `Session` | the Lua runtime of the services, with the timer service and root's retries and errors; properties; implements `CallPromise` |
| `MCSession`, `MCSession.cfg` | its instance for TLC |
| `SessionProof` | its type invariant and the freshness of sessions, proved |
| `WakerProof` | that each coroutine has one waker and no call is waited for in vain, and the refinement, proved |
| `ServicePool` | the slots and the int32 ids of services; what the pool promises |
| `Root` | names, spawns, deaths and quit in root; uses the pool of `ServicePool` |
| `MCRoot`, `MCRoot.cfg` | its instance for TLC |
| `RootProof` | theorems about the pool and about `Root`, which implements it: its types, names, waiters and tables |
| `Serde` | `pack` and `unpack` as operators, and a program that builds tables for them |
| `MCSerde` + `MCSerde*.cfg` | its instances for TLC |

Definitions whose comment says *mutant of X* are faulty versions of X. They are
used by nothing; put in the place of X each makes a property fail, which shows
that the property looks at the code in question.

### Scheduler

Each worker has a program counter. Its values and the code:

| `pc` | the worker is | leaves by |
|---|---|---|
| `loop` | at the head of `start()` | `GetJob`, `NoJob`, `Quit` |
| `acquire` | at `acquireScheduler` | `AcquireScheduler` |
| `external` | in `dispatchExternalMessages` | `ExternalPush`, `ExternalDone` |
| `collect` | in `collectDoneJobs` | `CollectDoneJobs` |
| `out` | in `dispatchOutMessages`, then `getPendingJobs`, `countFreeSlots` | `Dispatch*`, `ScheduleNew/Del`, `Settle`, `GetPendingJobs`, `CountFreeSlots` |
| `push` | between the two looks at the target's status | `PushMessage` |
| `prepare`, `assign` | in `prepare`, `assignPrepare` | `Prepare*`, `AssignPrepare`, `TriggerBlockedWorkers` |
| `schedule`, `release`, `rest` | after `dispatch()`: stealing, release, decision to sleep | `Schedule`, `ReleaseScheduler`, `Rest` |
| `sleep`, `park`, `wait`, `asleep` | in `sleep()`: before its test, before `sleeping = 1`, before and inside `trigger.Wait` | `Sleep`, `Park`, `Wait`, `Wakened` |
| `start`, `resume`, `eventwait` | between `getJob` and the status change, in the service, blocked in its event | `Start`, the actions of `Run` |
| `complete`, `complete2`, `complete3` | in `completeJob`: without the lock, with it, and after the round it had to make | `Complete`, `CompleteAcquire`, `Drain` |
| `quit`, `exited` | leaving | `Quit` |

What is one step and what is several. The dispatcher's own data is protected by
the lock, so code that touches only that is joined. Code is cut wherever
another thread can see or change something in between: between two slots, before
and after a status is read, between the test in `sleep()` and the wait.
`wake()` reads `sleeping` without the trigger's lock, so a wake-up can miss a
worker that is on its way to sleep; the model keeps that.

What a service does is a choice: yield, send to a service it is linked to,
bind itself, open or wait for its event, quit; root may also spawn, and must
close a service that has signalled its end. What the choice stands for is the
main loop of `lualib/service.lua`, and `spawn` and `del_service` of
`service/root.lua`, as far as the scheduler sees them: at most one message out
per yield, and a receipt awaited after each.

Every `panic` of the Go code is a predicate (`PanicNoSignal`, ... `PanicNotOwner`);
`NoPanic` says that none is reachable, which finding 18 refutes; `OnlyNoSlot`, that no other
one is, nor that one without a binding. `Next` stops where one is, as the process would.

Constants that are bounds: `NWorker`, `Service` (also the capacity of the
schedule), `QueueLen`, `BindCap`, `ExtCap`, `NEvent`. The code takes each from
its configuration, so no bound is a restriction of the model. `Recycle` says
whether a freed id is given out again: ids count up in the code, so this
happens only after the pool has been through all of them; the runs take
`FALSE` and each slot serves once.

### SockEvent and Event

`SockEvent` cuts `trigger()` between the load of `e`, its store and its write,
`wait()` between the read and the store, and `open()` between the connection,
its first byte and `e = 0`. `FdMayFail` lets `netConnToFd` fail, which `open()`
only logs. `Event` is a flag with `Call`/`Take` (a trigger and the instant it
takes effect), `Wait`/`Return`, and `Renew` (the event changes hands). The
refinement mapping: the flag is set when a byte is in the pipe, a thread is about
to write one, or `wait()` has read and not yet cleared `e`; and whenever the pipe
is not good, when the code does not block. `Scheduler` uses the abstract flag
(`event[e]`: `clear` or `set`, and `invalid` or `closed` for an event that cannot
be opened).

### LogQueue and LogFifo

A push is `CallPush`, `AcquireLock`, `AllocItem`, `Link`, `Fill`,
`ReleaseLock`; a pop `CallPop`, `AcquireLock`, `Unlink`, `Recycle`,
`ReleaseLock`; `Delete` is the end. `Item` is what `malloc` can give out, so that a
push can also fail. Two things follow the code and look odd: an item is linked before
its fields are filled, and its fields are read after it is in the free list. Both
are safe only because of the lock; `Implements` fails without it. `Walk` follows `next`
for at most as many steps as there are items, and `List` is what it finds: the queue from
`head`, and the free list. `LogFifo` is
a FIFO where a call takes effect in one instant between its start and its return. A push
is refused only when the queue has as many entries as there are items (`Capacity`), so that
no free item is ever out of reach, and what is left is dropped only at the end, when no call
is under way.

### Session and CallPromise

`Session` looks at the same system from Lua. The scheduler is reduced to what
`post_message` returns (`Receipt`): *done*, *block* when the target's inbox is
full, *error* when it is dead, and, as `sched_done` shows, sometimes *done* when
it has just died. A service does nothing between the send and the receipt, so a
step of `Session` goes from one receipt, or one wait, to the next.

| variable | `lualib/service.lua`, `service/root.lua` |
|---|---|
| `running_thread`, `session_id`, `wakeup_queue`, `quit` | the locals of these names |
| `lookup` | `session_coroutine_suspend_lookup` |
| `address`, `response` | `session_coroutine_address`, `session_coroutine_response` |
| `waiting` | `session_waiting`; a coroutine waits on itself as its token |
| `kind`, `held`, `todo` | what a coroutine is doing: a handler, a forked function, `send_blocked_message` with its message, the loop of `ltask.quit` and what is left of it |
| `retry`, `at` | `retry_queue`, and the loop of `send_retry_queue` |
| `rootbox`, `raises`, `forked` | root's inbox, the rest of the loop in `del_service`, root's own blocked answers |
| `timer` | the sessions the timer service will answer; when one is due is left open |
| `blocked`, `turn` | `blocked_queue` of `service/timer.lua`, and the loop of `send_blocked_queue` |
| `lost` | not in the code: the calls of which the code has dropped the request or the answer |

A handler is any sequence of `call`, `send`, `sleep`, `wait`, `wakeup`, `fork`,
`no_response` and `quit`; then it answers. A failed `call` or `send` throws an
error, which a handler may catch or not: it goes on, or ends as `Respond`
does, since an error is sent the same way as an answer. `Moved` is what
`table.move` leaves in a retry queue, with the tail it does not clear.

`CallNotOrphaned` allows for the four ways the code does drop a call, and for
these only: they enter `lost` in `Call`, `NoResponse`, `Crash` and `Exit`.

`CallPromise` is one `ltask.call` or `ltask.sleep`, a service and a session of it,
with the steps it may go through: `Ask`, `Serve` (a handler or the timer takes the
request), `Answer`, `Refuse` (the service with the request died), `NoAnswer` (the handler
gives no answer), `Resume`, and `End` of a service, which loses what that service has.
A step of the system is a step of each call, mostly none. The refinement mapping:
`caller` waits while the session leads to a coroutine; `request` is asked while it is in an
inbox, serving while a handler has its session or the timer does; there is an `answer` when the caller
waits and one is in its inbox, with a coroutine that waits to send it again, or in one of
the queues of root and of the timer. An answer to who no longer waits is nothing
to the promise. `RequestOf` of a request that is in two places is a value `CallPromise` has
not, so that the mapping itself says that there is one. The promise lets a handler
answer a second time (after `ltask.quit` has answered for it) and lets nobody go on
a second time.

Bounds: `Pool` (the coroutines a service has at most), `MaxSession`. `QueueLen` is
the code's own. `RootLen` is the room other traffic leaves in root's inbox. A
step that needs a coroutine or a session beyond the bounds is not taken.

### ServicePool and Root

`ServicePool` is `newService`, `deleteService`, `initService` and `closeService`
over an array of slots: an id is an int32 that wraps (`int32`), `getService`
looks at the slot of the id's low bits and not at whose it is, and `newService`
tries as many ids as there are slots. `PoolSpec` lets anybody call anything in any
order.

`Root` is `service/root.lua` on top of it. Its steps are the handlers of its
messages and the points where one of them stops:

| variable | `service/root.lua`, `lualib/service.lua` |
|---|---|
| `anonymous_services`, `named_services`, `unique` | the tables of these names; `order` is the array part of `named_services` |
| `waiting` | who is in `ltask.multi_wait` for the token of a name, to start the service or to query it |
| `starting` | the `spawn()` between its request for a slot and the call of init: root waits for its receipt and does nothing else |
| `session`, `calls`, `sent` | the sessions root has given out; the `spawn()`s waiting for the answer to init; the init and quit requests that their service has not answered |
| `held`, `retries` | the forks of `send_blocked_message` with an answer that found root's inbox full, and whose they are; `retry_queue[SERVICE_ROOT]` |
| `boot` | how far `bootstrap()` is |
| `closing` | the `quit_ltask` handlers: the names left, and the session one waits for |
| `busy`, `leaving`, `asked`, `failed` | the other services: waiting for root, about to quit; requests so far; addresses whose `init_service` failed |
| `lost` | not in the code: the sessions whose answer has ended with the service that had it |

A failed spawn is `multi_interrupt` for the ones that wait, and for the bootstrap
"Root fatal". `quit()` posts `quit_ltask` to root itself if there is room for it; with none the
request is lost after a signal, and at the end of the bootstrap root's init fails (finding 16).

What another service does is ask (`Asks`), answer its init or its quit (`Replies`) and die (`Dies`),
in any order it can. An answer for which root's inbox has no room goes to a fork. It gives the answer to
root as a `send_retry` once there is room (`HandsOver`), or has looked and sleeps (`Sleeps`); root's
`retries` may put it back into a full inbox, with the tail that `table.move` leaves. A service
whose init fails, or that has nothing to do, is `leaving`: its forks get one
attempt each, and then it dies with what they hold. A service may also die with requests that it has
read and not answered. These two are the steps that add to `lost` (findings 9 and 17); what it has not
read root answers with an error, in `OnSignal`, through a fork of its own if need be.

Bounds: `MaxAsk` requests; the pool's size, `Half` and `QueueLen` are parameters.

### Serde

`Write*` and `Read*` follow `packOne` and `pushValue` tag by tag, down to bytes
of `Radix` values. The Lua stack is a sequence, since ancestors are stack
positions that may hold other values when they are looked at again: that is
where the code goes wrong (finding 10). The addresses of tags are kept with the number of times
the buffer has moved, and a write through an address into a buffer that has moved
changes nothing that is read (finding 11). Reading may end in `error`, or in
`panic` for a Go index out of range. The state machine around it is a program
that adds entries to tables and arguments to a call, packs, and unpacks.

## 4. The runs

| run | what it asks | instance | distinct states |
|---|---|---|---|
| `sched_core` | spawn, run, message, steal, bind, block in an event, die, close, delete: types, one place per service, statuses, deaths reported, receipts, no panic but that of finding 18, slots refilled from binding queues suffice once counted, bindings hold, an event wait whose service has a message is triggered, exclusive lock | 2 workers, root, a bindable to worker 0, b with an event, messages from root and a death of its own; inbox of 1; while a is bound b has no event (`BoundOrWaiting`) | 1,046,887 |
| `sched_live` | external messages are kept; no work is left behind sleeping workers; scheduled work is sooner or later run | 2 workers, root and a, external queue of 1, a sends to root, root may quit | 129,304 |
| `sched_quit` | *violation*: the quit of root wakes all workers | 2 workers, root and a | 18 states long |
| `sched_done` | *violation*: receipt done means delivered | as core, only b may quit | 97 states long |
| `sched_slots` | *violation*: no panic, with three workers and a bound service | 3 workers, root and 4 services, a bindable to worker 0; executions in which workers 0 and 2 are held up | 168 states long |
| `sched_signal` | *violation*: the death of a service is reported, with a full inbox of root | a and b send to root, b may quit | 92 states long |
| `sockevent` | lost wakeups, bytes in the pipe, refinement, termination of `wait()` | 3 triggering threads, descriptors that may be bad | 12,561 |
| `logqueue` | lock, partition of the items, refinement of the FIFO | 3 threads, 2 messages, 3 items | 140,171 |
| `session` | one waker for each coroutine, fresh sessions, no caller forgotten, refinement of the promise of a call: sleeps, forks, waits, wakeups, quits, crashes, full inboxes, retries that repeat | a calls b, b sends to a, inboxes of 1, 2 and 3 coroutines, 3 and 2 sessions | 214,955 |
| `serde` | trees and tables that hold their ancestors come out as they went in; only bytes are written | up to 5 entries and arguments, 2 arguments; all numbers and lengths on both sides of each format's edge | 77,884 |
| `serde_nested` | *violation*: any nested tables come out as they went in | the same, tables and one number only | 8 states long |
| `root` | one service to a name, no waiter forgotten, every service known, no slot lost, and every name asked for is answered, through full inboxes, retries and deaths | 4 slots, ids of 4 bits, 2 names, a bootstrap of 3, inbox of 2, 1 request | 179,451 |

Why the bounds are enough. Two workers give every interleaving of a slot's owner with a
dispatcher or thief, the only two kinds of thread that meet at a slot. Three services are
the smallest number with more services than workers, so that a service has to wait in the
schedule while both slots are full, a sender meets a target that runs, and pending jobs
compete for slots. Inboxes of 1 (2 where external messages arrive) fill in reach: the
receipts *block* and *error* both occur. The want of slots of finding 18 needs a job for
each of three workers, one to take back, and a bound one: root and four services.
`BoundOrWaiting` leaves out the states of `sched_core` in which both features are in use:
the code of bindings and that of events share nothing but the round, and the proofs need
no such bound. The instance of finding 18 is too large to search, so `HeldUp` in
`MCSchedulerSlots` keeps to executions in which worker 1 does the rounds while the other
two are held up at one place each; they are executions of `Spec`, and one of them ends in
the panic. Three triggers are the least with one before, one during and one after a
`wait()`: the bound of `BytesBounded` is reached. Three threads and three items let a
push, a pop and a third call wait for the lock together, and let `malloc` fail.

In `session` inboxes of one message, and one place in root's inbox, make every
answer block in some execution; two sessions and the messages b sends to a let two
calls of a be under way, so that two answers wait in one retry queue and root blocks
between them (the case of `Moved`). a alone sleeps and forks: with two coroutines and
a third session its sleeps meet an inbox that is full, and queue up with the timer.

In `root` the bootstrap starts an anonymous service, a named one and another anonymous one, and
one more request meets them: by the first service for the name that is being started, or after it
failed, or once it is there. With root they fill the four slots, so that spawns fail; with
ids of 4 bits, of which every other one is used, the counter wraps within one execution; two messages fill
the inbox, so that an answer to root may be blocked, blocked again after it was handed
over (`Retries`), or lost, and `quit()` may find no room.

In `serde` a byte of 8 values, a cookie of less than 4 and a depth of less than
3 put every format, the extended sizes and the end of the ancestors within five
entries, and a first capacity of 6 makes the buffer move. The widths are relative to
`Radix` and `MaxCookie` as they are in the code: 1, 2, 4 and 8 bytes, `maxCookie - 1` for the extended
numbers.

`CHECK_DEADLOCK FALSE` in all runs, because the program may stop: all workers
leave when root quits, all sleep when no service has work, a panic ends the process,
a closed event is not used again, a log queue is deleted.

The properties of `Scheduler`, in the order of their weight:

* `UniqueToken`, `StatusMatchesPlace` - no service lost, doubled or stale.
* `NothingForgotten`, `WorkProgress` - sleeping workers leave no work behind.
* `NoPanic`, `OnlyNoSlot`, `SlotsSuffice` - no `panic` is reachable but the one of finding 18,
  which `sched_slots` reaches and the smaller passing runs cannot; who assigns has counted enough slots.
* `IdleMeansDrained`, `ReceiptProtocol` - messages and receipts against the
  idle/schedule decision.
* `DeadIsReported`, `DoneMeansDelivered`, `ExternalKept` - nothing is lost on the way.
* `BindingRespected`, `EventNotLost` - bound and blocked services.
* `LockExclusive`, `QuitWakesAll`.

The properties of `Session`:

* `CallNotOrphaned` - a waiting caller's request or answer is somewhere.
* `OneWaker` - no coroutine is resumed by two or by none, across the pool.
* `Implements` - a request is handled once, and nobody goes on without an answer made of
  it; a queue that is sent again loses none.
* `FreshSession` - a late or repeated answer is never taken for another one.

The properties of `Root` and `ServicePool`:

* `WaiterServed`, `UniqueAnswered` - who waits for a name has exactly one spawn that
  will answer it, and is answered, unless the answer to the init was lost with its service.
* `UniqueName` - no second service for a name, through failures and deaths.
* `Accounted` - no service root has forgotten, no address that leads elsewhere.
* `OwnSlot`, `SlotKept` - slots and ids over reuse and the wrap.

The properties of `Serde`:

* `TreeRoundTrip` - all formats, and nested tables as far as the code gets them right.
* `AncestorRoundTrip` - references to enclosing tables.
* `NestedRoundTrip` - what the tests expect, violated.

## 5. Fairness

`Scheduler!FairSpec`: weak fairness of each worker's steps, since each is a
goroutine of its own (`bootstrap.go:272-285`; the one for the main thread is locked to it),
that is never blocked by another one except where its step is disabled. Strong fairness of taking the scheduler
lock and of `GetJob`: both are compare-and-swap loops a worker repeats for ever;
they are enabled again and again and a worker must win some time. Nothing is
assumed of the host program (`ExternalSend`).

`WorkProgress` has a premise, `<>[][~Steals]_vars`. Two workers that are both
awake and idle can take one assigned job from each other's slots for ever; that
is an execution of the code, a very unlikely one, and the premise names it
instead of hiding it in a fairness condition.

`Root!Fairness`: weak fairness of root's steps, since a service with a message is
scheduled and scheduled services run (`WorkProgress`); of the forks that hold an answer, which run or
are woken by the timer; of a service that has a request of root to answer and does not itself wait for
root; and of the end of one that is about to quit. What the services do otherwise is their own affair:
nobody has to ask or die. `UniqueAnswered` names what it leaves out: an answer lost with its service
(findings 9 and 17), ids at or below 0 (finding 15), and a circle of services whose inits
wait for each other, which the code does not prevent.

`SockEvent!FairSpec`: weak fairness of a thread inside `trigger()` and of a
`wait()` that has something to read. Nobody has to call either.

## 6. The proofs

| theorem | module | statement |
|---|---|---|
| `TypeCorrect` | `SchedulerProof` | `Spec => [](TypeOK /\ Addressed)` |
| `LockIsExclusive` | `SchedulerProof` | `Spec => []LockExclusive` |
| `ReleasedByOwner` | `SchedulerProof` | `Spec => []~PanicNotOwner` |
| `NoServiceTwice` | `TokenProof` | `Spec => []UniqueToken` |
| `StatusFits` | `TokenProof` | `Spec => []StatusMatchesPlace` |
| `RightStatus` | `TokenProof` | `Spec => [](~PanicNotDone /\ ~PanicNotScheduled)` |
| `ScheduleHasRoom` | `TokenProof` | `IsFiniteSet(Service)` gives `Spec => []~PanicScheduleFull` |
| `ReceiptAwaited` | `DispatchProof` | `Spec => []ReceiptProtocol` |
| `NoWakeupLost` | `DispatchProof` | `ExtCap = 0` gives `Spec => []IdleMeansDrained` |
| `OthersDrained` | `DispatchProof` | the same of every service but root, for any `ExtCap` |
| `OwnWorkerOnly` | `DispatchProof` | `Spec => []BindingRespected` |
| `RoomForJobs` | `DispatchProof` | `Spec => []SlotsSuffice` |
| `WaiterIsWoken` | `DispatchProof` | `ExtCap = 0 \/ Root \notin Waiter` gives `Spec => []EventNotLost` |
| `NobodyBeforeInit` | `DispatchProof` | `~Recycle` gives `Spec => []~PanicNilInbox` |
| `UnboundHaveSlots` | `DispatchProof` | `Binder = {}` gives `Spec => []~PanicNoSlot` |
| `DeathsReported` | `DispatchProof` | `Spec /\ []~SignalBlocked => []DeadIsReported` |
| `NoOtherPanic` | `DispatchProof` | `~Recycle`, `IsFiniteSet(Service)` give `Spec /\ []~SignalBlocked => []OnlyNoSlot` |
| `NoWorkAsleep` | `DispatchProof` | `Binder = {}` gives `Spec => []NothingForgotten` |
| `NoExternalLost` | `DispatchProof` | `Spec => ExternalKept` |
| `WakeupNotLost`, `TypeCorrect` | `SockEventProof` | `Spec => []NoLostWakeup`, `Spec => []TypeOK` |
| `PipeIsBounded` | `SockEventProof` | `IsFiniteSet(Trigger)` gives `Spec => []BytesBounded` |
| `SockEventImplementsEvent` | `SockEventProof` | `Spec => Promise!Spec` |
| `LockIsExclusive`, `TypeCorrect` | `LogQueueProof` | `Spec => []Exclusive`, `Spec => []TypeOK` |
| `NoItemIsLost` | `LogQueueProof` | `Spec => []Partition` |
| `QueueIsFifo` | `LogQueueProof` | `Spec => Promise!Spec` |
| `PoolOwnSlot` | `RootProof` | `PoolSpec => [](PoolTypeOK /\ OwnSlot)` |
| `RootUsesPool` | `RootProof` | `Spec => PoolSpec` |
| `RootOwnSlot`, `RootKeepsSlots`, `TypeCorrect` | `RootProof` | `Spec => []OwnSlot`, `Spec => SlotKept`, `Spec => []TypeOK` |
| `OneServiceToAName` | `RootProof` | `Spec => []UniqueName` |
| `EveryWaiterServed` | `RootProof` | `Spec => []WaiterServed` |
| `EveryServiceAccounted` | `RootProof` | `Spec => []Accounted` |
| `TypeCorrect`, `SessionsAreFresh` | `SessionProof` | `Spec => []TypeOK`, `Spec => []FreshSession` |
| `EachHasOneWaker` | `WakerProof` | `Spec => []OneWaker` |
| `NobodyWaitsInVain` | `WakerProof` | `Spec => []CallNotOrphaned` |
| `CallsKeepTheirPromise` | `WakerProof` | `Spec => Promise!Spec` |

They hold for every value of the constants that satisfies the assumption of the
module (`ConstantsAssumption`, `SockEventAssumption`, `LogQueueAssumption`,
`PoolAssumption`, `RootAssumption`, `SessionAssumption`). These say no more than
that ids differ, sizes are naturals and relations are over the right sets; for
`Scheduler`, that there is at least one worker; for the log queue, that memory is finite;
for the pool, that `max_service` is a power of
two, which `config.go` sees to, and divides half the range of the ids, as it does
for an int32. Some theorems have a hypothesis of their own, shown in the table. That there are finitely many
services, or threads that trigger an event, is for counting them. Each of the others leaves out a part of
the system in which the property is false, by a behaviour TLC has found, and no more than that:

* `ExtCap = 0` (the host has no queue of external messages), or that root does not wait in an event: finding 5.
* `Binder = {}` (no service is bound to a worker): finding 4 for `NothingForgotten`, finding 18 for slots
  (`OnlyNoSlot` has this condition in its statement).
* `[]~SignalBlocked` (the dispatcher never comes to a signal while root's inbox is full): finding 3. It is a
  condition on the behaviour and not on the constants; `sched_core` has no behaviour that breaks it.
* `~Recycle` (no id is given out again): with reuse a service can send to an address that it
  kept, which by then names a slot that root is just filling, whose inbox is still nil.

* **Scheduler, types.** `TypeOK` is not inductive: a request's address is looked up in
  the inboxes, and an address may also be the scheduler's own. `Addressed`
  adds that a request in an out slot, and the id in a receipt "response", name a
  service. One lemma for each action that does more than move a program
  counter; `TypeNext` puts them together. `LeastIn` (a non-empty set of naturals
  has a least element) is what makes `Current` and `Victim` well defined.
* **Scheduler, lock.** `LockExclusive` is inductive on top of `TypeOK`: the steps
  inside a round start from a label in `Locked`, hence are the owner's; no other
  step leads into `Locked` but the two acquisitions, which need a free lock.
* **Scheduler, places.** `UniqueToken` and `StatusMatchesPlace` look at the tables only, and
  are not inductive. `Inv` of `TokenProof` adds to types and lock:
  `PcInv`, what a worker holds at each point of its loop and of a round, since
  most moves of a service start from such a local table; `TokenInv`, that no two tables
  share a service, none has it twice, and the status of a service says in which of
  them it can be; and `MailInv`, that what root is told of a service, or is about to
  ask of the scheduler for it, fits that service's status, and that each dead service is
  reported once. Without the last, a late deletion could free a slot that is in use again,
  and a start could schedule a service that is already scheduled. One lemma for each move
  of services (`TokenNext` puts them together), then one for each change of messages
  (`MailNext`). Most moves satisfy `Kept`: a service that was in no table enters one only
  if it was idle, and only one that has run may be in none afterwards. The panics about statuses follow
  from the status each table stands for, the one about a full schedule from `NoRepeat(schedule)`.
* **Scheduler, receipts.** `Fits` says for each status what a service of that status has in its inbox,
  its out slot and its receipt. The hard case is *done*: the service still has its message to send, or has its
  receipt already, or none to expect. Then `Settle` decides between idle and schedule on the
  right evidence. `ExternalInv` says that what `sent` stands for is in root's inbox.
* **Scheduler, bindings.** `BindInv` says where a bound service may be: in the binding queue, the slot or the
  hands of its own worker. It can be rebound only while it runs, and freed only when it is in no
  table; this is why the proof rests on `TokenInv`.
* **Scheduler, slots.** `SlotInv`: from the count to the end of the assignment, jobs and slots still to
  give are no more than the free workers. A worker that takes its job meanwhile only adds a free one.
  `PendingInv` says the same of the time before, while jobs are taken back: each leaves a
  free slot behind. It holds only while no binding queue can refill that slot (`Unbound`).
* **Scheduler, events.** `OwnInv`: an initialised event is one service's own, so that nobody else clears it.
  `WakeInv`: a service that waits in its event has no idle message in its inbox, and if it has any other one
  the event is set; a service given an idle message had nothing else to handle.
* **Scheduler, deaths.** `Mourned` follows the signal of a dead service: in its out slot while the service is
  in a table, in root's inbox afterwards. `RootGone` keeps a dead root with the worker that ran it, so
  that no dispatcher meets a dead root without a signal. With the statuses, the full schedule, the slots and the
  lock this leaves only the nil inbox of the seven panics, for which `KnownInv` says that a request in an out
  slot is for a service that was initialised.
* **Scheduler, sleep.** A worker is `Drowsy` from the moment its round has found nothing. `SleepInv`: where there is work,
  somebody is not drowsy. Only the step that ends a round without a job could break it. Then nothing
  can be stolen, so all slots are empty; and if the others are drowsy, none of them takes or returns
  anything, so `FillInv` applies: the jobs and slots counted in this round are exactly the free
  workers, and a round that leaves the schedule non-empty has filled them all.
* **SockEvent.** `Inv` adds `Opening`: between its first byte and `e = 0`, `open()`
  leaves a byte in the pipe. Without it the step `OpenDone` would not preserve
  the flag of the promise. Each step then maps to one step of `Event` or to a stutter.
* **SockEvent, the pipe.** Each thread may write one byte for each time `e` is set, which seems
  to allow any number. The invariant `Budget` adds up the bytes in the pipe, the threads
  about to write, those that may still find `e` as it is (`ForFlag`: all of them while
  `e = 0`, else those that have loaded it), and those that will find it cleared when the owner is
  between its read and its store (`ForClear`). The sum never exceeds `3 * Cardinality(Trigger) + 1`:
  a step moves one thread from one term to another, and a read empties the pipe before
  `e = 0` lets the threads write again.
* **LogQueue.** `Inv` adds that the lock is taken exactly when a thread is between
  acquire and release, so that releasing leaves nobody inside.
* **LogQueue, the lists.** `ListInv` says that there are two sequences, of the items queued and of the
  free ones, which follow `next` from `head` and `freeList` to nil (`Shape`): no item is twice
  in them or in both, `tail` is the last of the queue, and together with the item that the thread in the lock
  holds they are all that was allocated. `Loaded` says which fields are filled. `Partition` and the
  promise are about `List`, which is computed from `next` by a recursive function over numbers;
  `Climb` is induction on these, obtained from the well-foundedness of the order on a set of
  numbers and not from a theorem that takes a predicate, and gives that `List` of a chain is
  that chain (`ListOfChain`). `Link` and `Unlink` are then the instants at which a push and a pop
  take effect; a push without an item fails in `AllocItem`, where both the free list and the hands are
  empty, so that the queue has all the items; and what is not a step of
  `LogFifo` leaves its queue and its threads unchanged.
* **Pool and root.** `OwnSlot` is inductive for the pool alone. Root's tables are
  then left aside: each step of root is one step of the pool or none
  (`RootStepsPool`), so that what holds of the pool holds of root. This needs
  the types of root's own state, since a deleted id must be an id.
* **Names.** `UniqueName` counts names in `order` and in what is being started. The
  strengthening `UniqueInv` says: a name is in `unique` exactly if one
  spawn for it is under way, begun or waiting for its init, not both and not two; it then
  has no address; and `order` has each name that has an address once.
* **Waiters and tables of root.** Whether a waiter is served depends on what a service does that
  root started: `ServeInv`, on top of `UniqueInv`, follows it through its life. `Lifecycle`: while it
  starts it is uninitialised in its own slot; it tells of its death once, after it died, and keeps
  the slot until root has taken this message. `Sessions`: each `spawn()` that waits for an init has a session
  of its own, which no quit has. `Answerable`: for this session the service has the request, alive or dead
  with its signal still to be taken; or the answer is under way, in root's inbox, in a
  fork, in a `send_retry` or in the retry queue; or it is in `lost`. The middle case needs that
  a full inbox only moves an answer to a fork, and that `table.move` keeps what was not sent
  (`Retries`). `WaitInv`: who waits for a name that it wants started waits for one in `unique`, which by
  `UniqueInv` has a spawn that is still to end. `WaiterServed` and `Accounted` need each other here: a
  death that root did not expect would end a spawn without an answer for those who wait.
* **Sessions.** A session of s is *past* when s has counted beyond it. It stays
  past, since a living service only counts up and a dead one does not come back. The invariant
  says of every place where a session of s may be (inboxes, retry queues, the loop of
  `del_service`, root's own blocked answers, the timer and its queues, handlers and blocked
  answers) that it is past. `FreshSession` follows for all of them at once, and that messages
  are sent again makes no difference: this is why finding 8 does no harm here.
* **Wakers.** A coroutine is in one of four places (it runs, waits for an answer, waits with
  its token, is queued) and a free one is in none; and it is in none twice. Every step
  moves at most two coroutines of one service. To store a coroutine for a new session
  without overwriting another one needs the invariant of the sessions, so this
  module builds on that one.
* **Calls.** `NoOrphan` lists where a call of a living service can be: its answer posted or its request
  asked of a service not closed, in service (a handler that will answer, or an answer
  that waits to be sent again), with the timer, with root, or in `lost`. Of a queue whose loop is
  running only what it has not yet sent counts (`From`), and of a service that is
  executing `ltask.quit` only the answers it has not yet given (`Passed`); this is what makes the invariant
  inductive and stronger than `CallNotOrphaned`. Each step moves a call from one place to the next, or
  into `lost`. `QuitAwake`, that the coroutine of `ltask.quit` never waits for an answer, is part
  of the induction: otherwise to resume it would change which answers it has given.
* **Promises.** That each step of `Session` is a step of every call needs, besides
  the invariants above, two of its own. `SingleInv`: a request is in one inbox, or with one handler, or with the
  timer. `ArrivedInv`: if the queue of root or of the timer has an answer to a call that waits, the
  answer is in the caller's inbox or is still ahead of the loop's place in the queue. The queue
  itself may keep what was sent or lose it (`table.move`, finding 8), so that only this tells an
  answer from its repetition: what is dropped at the end of a loop has arrived, and what is kept adds no
  answer that was not there. That a session just given out has no request and no answer
  anywhere yet is the invariant of the sessions. One lemma for each action says which step of the promise
  it is for the call it is about, and that it is none for any other call (`Keeps`, `Calm`); `EachPromised` puts
  them together.

Only model-checked:

* of `Scheduler`, what lies beyond the hypotheses above, and the two properties that are violated, `DoneMeansDelivered` and `QuitWakesAll`;
* all of `Serde`, which is recursive over the data it packs: the provers used here
  cannot do this induction (that of the log queue is over numbers), and lose arithmetic in
  modules with RECURSIVE operators;
* liveness (`WorkProgress`, `UniqueAnswered`, `WaitReturns`), which needs ENABLED.

## 7. Findings

Each is in `PROJECT.json` with its lines.

1. `sched_quit`: the wake-up of `quitAllWorkers` misses a worker between its
   last look at `termSignal` and `trigger.Wait()`. That worker sleeps for ever and
   `ltask.wait` does not return, against "root quit, wakeup others".
2. `sched_done`: a service that dies between the two looks of `dispatchOutMessage`
   and `pushMessage` makes the receipt *done* for a message that is gone; the
   caller waits for an answer for ever.
3. `sched_signal`: with a full inbox of root the death of a service is put off
   ("will try to signal it later"), but its signal is already gone from the out slot;
   the next try panics.
4. With a service bound to a worker, the lost wake-up of 1 stalls a running system.
5. `dispatchExternalMessages` leaves without scheduling root when the inbox fills:
   an idle root with a full inbox is never run again.
6. `sockEvent.close` keeps the descriptor numbers, so a freed event cannot be opened
   again, and each attempt uses up one of the events.
7. `ltask.no_response()` leaves a nil session behind, and `send_message` takes none:
   at the end of the handler the whole service dies, with its other open sessions
   unanswered, and a `ltask.quit` meanwhile fails (`Crash`, `QuitDone`).
8. `table.move(queue, i, n, 1)` in root and in the timer leaves the tail of the queue:
   messages are sent again, root's with a payload that has been freed (`Moved`).
9. A service that quits while its answer still waits for room in root's inbox takes
   the answer with it (`Exit`).
10. `serde_nested`: the writer never takes tables off its stack of ancestors,
    so that a table can be taken for an ancestor of itself: nested tables come out different.
11. The address kept for a tag is that of the byte before it (`getAddress`), and stale
    once the buffer has grown: a table met twice marks the wrong byte (`changeMark`).
12. The reader forgets the ancestors after the array part: a reference in the hash part
    (`t.self = t`) indexes beyond its stack, a panic (`LeaveArray`).
13. When `init_service` fails, the address stays in `anonymous_services` for ever, and the
    program never quits by itself (`failed`).
14. The name of a dead named service stays, and its address leads to whatever has the
    slot later (`OnSignal`).
15. Ids at and below 0, reached when the counter wraps, are not taken by
    `collectDoneJobs`, or read as "error" from a receipt: the service hangs, its slot is lost.
16. Root's `quit_ltask` to itself is not checked again when it arrives. If root's
    inbox is full it is lost after a signal, and at the end of the bootstrap it is an error of root's
    init, "Root fatal" (`quit`, `Boots`).
17. A service whose init fails forks the work of `ltask.quit` before it answers. If root's inbox is full
    the error goes to a second fork, which tries once to hand it to root; if the inbox is full again
    the service ends with it, and root waits for the init for ever (`Replies`, `Sleeps`, `Dies`).
18. `sched_slots`: `getPendingJobs` empties the slot of a busy worker and `countFreeSlots` refills the same
    slot from that worker's binding queue, so that the job taken needs a slot elsewhere, and there may be
    none: `dispatch` panics with "Not enough free slots to assign jobs" (`PanicNoSlot`).

Seen while reading, not modelled: after an error `async:wait` keeps `_wakeup` set
(`service.lua:400-413`), so the next `wait` returns at once.

1 to 3, 10 and 18 are runs expected to fail. 4 and 5 show up when the passing runs are
given a binding (`NothingForgotten`) or a longer external queue (`IdleMeansDrained`);
6 is the step `Open` of `SockEvent` to `lost`; 7 and 9 are steps of `Session`, which
violate `CallNotOrphaned` as soon as they add nothing to `lost`; 8 is harmless to
sessions because they are fresh. 13 to 17 are steps of `Root`: `Accounted`, `WaiterServed` and
`UniqueAnswered` name the exceptions. In 18 worker 0 is held up between `getJob` and `busy = 1`, its slot
gets another job and the bound service comes into its queue, and by the time it is busy the other
slots are full.

The passing runs are instances where the others do not occur: `sched_core` has no traffic to root's inbox
that can fill it, and too few workers for 18, which `OnlyNoSlot` leaves out by its name; `sched_live` has no
binding, and an external queue shorter than the inbox; in `serde` a table is met once (`Nested`, `OneKind`),
or only from within itself through array parts (`Spine`).

## 8. What is not modelled

* **Lua**: loading of code, memory, labels, the bodies of services. Payloads outside
  `Serde`: a message is its kind, its target and the session or service it is about. So the
  double free in 8 is seen as a repeated message only.
* **Scheduler**: `activeWorker` and `threadCount` (written, never read). A service that
  unbinds itself keeps its worker (`worker.go:319`), and `assignPrepare` kicks no worker for
  a bound job (`core.go:236`): both are in the model as the code has them, and no property
  is about them, since nothing is promised. Reads of memory freed by another thread (`closeService` while
  a dispatcher looks at the slot): the slot's fields read as those of an empty slot.
  A dispatcher looks at root's status once for a signal, where the code does twice (`core.go:330`,
  `service.go:306`): if root ends in between, the code drops the signal, and the dead service
  stays until `deinit`, with nobody left to ask for it. When `init_service` fails, root gives the error to
  the one that asked at a later resume, not in the same one (`service.lua:282-285`). `GetPendingJobs`
  takes one job a step until no busy worker has one to give, where the code passes the workers once.
* **Socket events**: errors of `read()` (`sockevent.go:164-167`), which `wait()` only logs.
* **Session**: `async` and `parallel` requests, the idle handler, traceback and memory messages.
  `multi_wait`, its wakeup and interrupt are in `Root`, the one user of them.
* **Timer**: when a timer is due. The timer wheel is a library (timefall); in the
  model a timer may be due at any time.
* **Root**: `tracelog` and the writing of the log, `external_forward` (it only forwards).
* **Serde**: tables with `__pairs`, the errors for types that cannot be packed, the
  change from a Lua table to an array beyond `maxReference` tables, `serdePackString`,
  and `unpack_remove` and `remove`, which are about memory.
* **Configuration** reads integers; its one computation, `alignPow2`, is what
  `PoolAssumption` says. Allocator, utilities, bindings, the logger's formatting and
  the examples have no state of their own.

## 9. Plan

The scheduler, with all its safety invariants that hold proved, some under the hypotheses of section 6;
socket events and the log queue, with abstract specifications, and all their safety properties proved; the session
runtime with the timer and root's retries, its sessions, wakers and calls proved, and the abstract call it
implements; the pool of services and root on top of it, with names, waiters and tables proved; serialisation,
model-checked. What would add most from here, in this order:

1. Liveness of the answer to a call, under fairness of root and the timer: `CallPromise` says what an
   answer may be made of, `CallNotOrphaned` that it is under way, and neither that it comes.
2. `PendingInv` with binding queues, to say exactly which bindings lead to finding 18.
3. `async` and `parallel` requests, whose wakeup and error paths share one token.
