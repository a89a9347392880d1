----------------------------- MODULE TokenProof -----------------------------
(***************************************************************************)
(* Proof that no service is lost or doubled, for any number of workers and *)
(* services: a service is in one place at most, and its status says which  *)
(* places that can be.                                                     *)
(*                                                                         *)
(* A service that is to run waits in the schedule, in jobs, in a           *)
(* bindingQueue, in a serviceReady slot or as the job of a worker; one     *)
(* that has run is in serviceDone or doneJobs; between it is what a worker *)
(* runs.  Three facts are kept together:                                   *)
(*   PcInv      what a worker holds depends on where it is in its loop;    *)
(*   TokenInv   the tables share nothing, and status and table agree;      *)
(*   MailInv    what root is told or told to do about a service fits the   *)
(*              status of that service.                                    *)
(***************************************************************************)
EXTENDS SchedulerProof, SequenceTheorems

Holds(f, s) == \E w \in Worker : f[w] = s
Contains(q, s) == \E k \in DOMAIN q : q[k] = s
Queued(b, s) == \E w \in Worker : Contains(b[w], s)

\* No service is twice in one table
NoRepeat(q) == \A j, k \in DOMAIN q : q[j] = q[k] => j = k
NoShare(f) == \A v, w \in Worker : f[v] = f[w] /\ f[v] # NoService => v = w
NoRepeats(b) ==
  /\ \A w \in Worker : NoRepeat(b[w])
  /\ \A v, w \in Worker, s \in Service : Contains(b[v], s) /\ Contains(b[w], s) => v = w

Waits(s) == \/ Contains(schedule, s) \/ Contains(jobs, s) \/ Queued(bindingQueue, s)
            \/ Holds(serviceReady, s) \/ Holds(job, s)
Ran(s) == Holds(serviceDone, s) \/ Holds(doneJobs, s)
Placed(s) == Waits(s) \/ Holds(running, s) \/ Ran(s)

Tidy == /\ NoRepeat(schedule) /\ NoRepeat(jobs) /\ NoRepeats(bindingQueue)
        /\ NoShare(serviceReady) /\ NoShare(job) /\ NoShare(running)
        /\ NoShare(serviceDone) /\ NoShare(doneJobs)

\* No service is in two tables
WaitsOnce(s) ==
  /\ Contains(schedule, s) => ~(Contains(jobs, s) \/ Queued(bindingQueue, s)
                                \/ Holds(serviceReady, s) \/ Holds(job, s))
  /\ Contains(jobs, s) =>
       ~(Queued(bindingQueue, s) \/ Holds(serviceReady, s) \/ Holds(job, s))
  /\ Queued(bindingQueue, s) => ~(Holds(serviceReady, s) \/ Holds(job, s))
  /\ Holds(serviceReady, s) => ~Holds(job, s)
InOnePlace(s) ==
  /\ WaitsOnce(s)
  /\ Waits(s) => ~(Holds(running, s) \/ Ran(s))
  /\ Holds(running, s) => ~Ran(s)
  /\ Holds(serviceDone, s) => ~Holds(doneJobs, s)

\* The labels at which a worker is inside resume
Active == {"resume", "eventwait"}

Stage(s) ==
  /\ Waits(s) => status[s] \in {"schedule", "dead"}
  /\ Ran(s) => status[s] \in {"done", "dead"}
  /\ status[s] = "schedule" => Waits(s)
  /\ status[s] = "done" => Ran(s) \/ Holds(running, s)
  /\ status[s] = "running" => Holds(running, s)
RunStage(w) == running[w] \in Service =>
  IF pc[w] \in Active THEN status[running[w]] = "running" /\ busy[w]
                      ELSE status[running[w]] \in {"done", "dead"}

TokenInv == /\ Tidy
            /\ \A s \in Service : InOnePlace(s) /\ Stage(s)
            /\ \A w \in Worker : RunStage(w)

Round == {"external", "collect", "out", "push", "prepare", "assign"}
Resting == {"loop", "start", "acquire", "sleep", "park", "wait", "asleep", "rest",
            "schedule", "release"}
PcInv ==
  /\ \A w \in Worker :
       /\ job[w] # NoService <=> pc[w] = "start"
       /\ pc[w] \in Active => running[w] \in Service
       /\ pc[w] \in Resting \/ (pc[w] \in Round /\ caller # "drain") =>
            running[w] = NoService
  /\ (\A w \in Worker : pc[w] \notin {"out", "push"}) =>
       \A i \in Worker : doneJobs[i] = NoService

\* Inbox q has the signal of service s
Reports(q, s) == \E k \in DOMAIN q : q[k].typ = "signal" /\ q[k].about = s
OnceEach(q) == \A j, k \in DOMAIN q :
  q[j].typ = "signal" /\ q[k].typ = "signal" /\ q[j].about = q[k].about => j = k

MailInv ==
  /\ ~Vacant(Root) /\ status[Root] # "uninitialized"
  /\ OnceEach(inbox[Root])
  /\ \A c \in Service \cup {NoService} : Reports(inbox[Root], c) =>
       c \in Service \ {Root} /\ status[c] = "dead" /\ ~Placed(c)
  /\ \A s \in Service :
       /\ out[s].typ = "signal" => out[s].about = s /\ s # Root /\ status[s] = "dead"
       /\ out[s].typ = "del" => /\ s = Root /\ out[s].about \in Service
                                /\ Vacant(out[s].about)
  /\ receipt[Root] = "response" => status[bounce[Root].to] = "uninitialized"

Inv == TypeOK /\ Addressed /\ LockExclusive /\ PcInv /\ TokenInv /\ MailInv

----------------------------------------------------------------------------
(* Queues, slots and binding queues *)

LEMMA AppendHas ==
  ASSUME NEW S, NEW q \in Seq(S), NEW x \in S
  PROVE  /\ \A s : Contains(Append(q, x), s) <=> Contains(q, s) \/ s = x
         /\ NoRepeat(q) /\ ~Contains(q, x) => NoRepeat(Append(q, x))
  <1> DEFINE n == Len(q)
             r == Append(q, x)
  <1>1. /\ n \in Nat /\ DOMAIN q = 1 .. n /\ DOMAIN r = 1 .. n + 1
        /\ r[n + 1] = x
        /\ \A i \in 1 .. n : r[i] = q[i]
    BY AppendProperties
  <1> HIDE DEF n, r
  <1>2. /\ \A i \in 1 .. n + 1 : i \in 1 .. n \/ i = n + 1
        /\ n + 1 \in 1 .. n + 1
        /\ \A i \in 1 .. n : i \in 1 .. n + 1
    BY <1>1
  <1>3. \A s : Contains(r, s) <=> Contains(q, s) \/ s = x
    BY <1>1, <1>2 DEF Contains
  <1>4. NoRepeat(q) /\ ~Contains(q, x) => NoRepeat(r)
    BY <1>1, <1>2 DEF Contains, NoRepeat
  <1> QED BY <1>3, <1>4 DEF r

LEMMA TailHas ==
  ASSUME NEW S, NEW q \in Seq(S), q # <<>>
  PROVE  /\ \A s : Contains(q, s) <=> Contains(Tail(q), s) \/ s = Head(q)
         /\ NoRepeat(q) => NoRepeat(Tail(q)) /\ ~Contains(Tail(q), Head(q))
  <1> DEFINE n == Len(q)
             r == Tail(q)
  <1>1. /\ n \in Nat /\ n >= 1 /\ DOMAIN q = 1 .. n
        /\ Len(r) = n - 1 /\ r \in Seq(S) /\ Head(q) = q[1]
        /\ \A i \in 1 .. n - 1 : r[i] = q[i + 1]
    BY HeadTailProperties
  <1>2. DOMAIN r = 1 .. n - 1 BY <1>1
  <1> HIDE DEF n, r
  <1>3. \A i \in 1 .. n : i = 1 \/ (i - 1 \in 1 .. n - 1 /\ i = (i - 1) + 1) BY <1>1
  <1>4. 1 \in 1 .. n /\ \A i \in 1 .. n - 1 : i + 1 \in 1 .. n /\ i + 1 # 1 BY <1>1
  <1>5. \A s : Contains(q, s) <=> Contains(r, s) \/ s = Head(q)
    <2>1. ASSUME NEW s, NEW i \in 1 .. n, q[i] = s PROVE Contains(r, s) \/ s = Head(q)
      <3>1. CASE i = 1 BY <1>1, <2>1, <3>1
      <3>2. CASE i # 1
        <4>1. i - 1 \in 1 .. n - 1 /\ r[i - 1] = q[i] BY <1>1, <1>3, <3>2
        <4> QED BY <1>2, <2>1, <4>1 DEF Contains
      <3> QED BY <3>1, <3>2
    <2>2. ASSUME NEW s, NEW i \in 1 .. n - 1, r[i] = s PROVE Contains(q, s)
      BY <1>1, <1>4, <2>2 DEF Contains
    <2> QED BY <1>1, <1>2, <1>4, <2>1, <2>2 DEF Contains
  <1>6. ASSUME NoRepeat(q) PROVE NoRepeat(r) /\ ~Contains(r, Head(q))
    <2>1. ASSUME NEW i \in 1 .. n - 1, NEW j \in 1 .. n - 1, r[i] = r[j] PROVE i = j
      <3>1. i + 1 \in 1 .. n /\ j + 1 \in 1 .. n /\ q[i + 1] = q[j + 1]
        BY <1>1, <1>4, <2>1
      <3>2. i + 1 = j + 1 BY <1>1, <1>6, <3>1 DEF NoRepeat
      <3> QED BY <3>2
    <2>2. ASSUME NEW i \in 1 .. n - 1, r[i] = Head(q) PROVE FALSE
      BY <1>1, <1>4, <1>6, <2>2 DEF NoRepeat
    <2> QED BY <1>2, <2>1, <2>2 DEF NoRepeat, Contains
  <1> QED BY <1>5, <1>6 DEF r

LEMMA PutHas ==
  ASSUME NEW f \in [Worker -> Job], NEW i \in Worker, NEW v \in Job, NoShare(f),
         v = NoService \/ ~Holds(f, v)
  PROVE  LET g == [f EXCEPT ![i] = v] IN
           /\ NoShare(g)
           /\ \A s \in Service : Holds(g, s) <=> s = v \/ (Holds(f, s) /\ s # f[i])
  <1> DEFINE g == [f EXCEPT ![i] = v]
  <1>1. \A w \in Worker : g[w] = IF w = i THEN v ELSE f[w] OBVIOUS
  <1> HIDE DEF g
  <1>2. NoShare(g) BY <1>1 DEF NoShare, Holds
  <1>3. \A s \in Service : Holds(g, s) <=> s = v \/ (Holds(f, s) /\ s # f[i])
    BY <1>1, ConstantsAssumption DEF NoShare, Holds
  <1> QED BY <1>2, <1>3 DEF g

LEMMA QueueAppendHas ==
  ASSUME NEW b \in [Worker -> Seq(Service)], NEW i \in Worker, NEW x \in Service,
         NoRepeats(b), ~Queued(b, x)
  PROVE  LET g == [b EXCEPT ![i] = Append(@, x)] IN
           /\ NoRepeats(g)
           /\ \A s \in Service : Queued(g, s) <=> Queued(b, s) \/ s = x
  <1> DEFINE g == [b EXCEPT ![i] = Append(@, x)]
  <1>1. \A w \in Worker : g[w] = IF w = i THEN Append(b[i], x) ELSE b[w] OBVIOUS
  <1>2. b[i] \in Seq(Service) /\ ~Contains(b[i], x) /\ NoRepeat(b[i])
    BY DEF Queued, NoRepeats
  <1>3. /\ \A s : Contains(Append(b[i], x), s) <=> Contains(b[i], s) \/ s = x
        /\ NoRepeat(Append(b[i], x))
    BY <1>2, AppendHas
  <1> HIDE DEF g
  <1>4. \A w \in Worker, s \in Service :
          Contains(g[w], s) <=> Contains(b[w], s) \/ (w = i /\ s = x)
    BY <1>1, <1>3
  <1>5. \A w \in Worker : NoRepeat(g[w]) BY <1>1, <1>3 DEF NoRepeats
  <1>6. NoRepeats(g) BY <1>4, <1>5 DEF NoRepeats, Queued
  <1>7. \A s \in Service : Queued(g, s) <=> Queued(b, s) \/ s = x BY <1>4 DEF Queued
  <1> QED BY <1>6, <1>7 DEF g

LEMMA QueueTailHas ==
  ASSUME NEW b \in [Worker -> Seq(Service)], NEW i \in Worker, NoRepeats(b), b[i] # <<>>
  PROVE  LET g == [b EXCEPT ![i] = Tail(@)] IN
           /\ NoRepeats(g)
           /\ \A s \in Service : Queued(g, s) <=> Queued(b, s) /\ s # Head(b[i])
           /\ Head(b[i]) \in Service /\ Queued(b, Head(b[i]))
  <1> DEFINE g == [b EXCEPT ![i] = Tail(@)]
             h == Head(b[i])
  <1>1. \A w \in Worker : g[w] = IF w = i THEN Tail(b[i]) ELSE b[w] OBVIOUS
  <1>2. b[i] \in Seq(Service) /\ NoRepeat(b[i]) BY DEF NoRepeats
  <1>3. /\ \A s : Contains(b[i], s) <=> Contains(Tail(b[i]), s) \/ s = h
        /\ NoRepeat(Tail(b[i])) /\ ~Contains(Tail(b[i]), h)
    BY <1>2, TailHas
  <1>4. h \in Service BY <1>2, QueueType
  <1> HIDE DEF g, h
  <1>5. \A w \in Worker, s \in Service :
          Contains(g[w], s) <=> Contains(b[w], s) /\ ~(w = i /\ s = h)
    BY <1>1, <1>3
  <1>6. \A w \in Worker : NoRepeat(g[w]) BY <1>1, <1>3 DEF NoRepeats
  <1>7. NoRepeats(g) BY <1>5, <1>6 DEF NoRepeats
  <1>8. \A w \in Worker : Contains(b[w], h) => w = i BY <1>3, <1>4 DEF NoRepeats
  <1>9. \A s \in Service : Queued(g, s) <=> Queued(b, s) /\ s # h
    BY <1>5, <1>8 DEF Queued
  <1>10. Queued(b, h) BY <1>3 DEF Queued
  <1> QED BY <1>4, <1>7, <1>9, <1>10 DEF g, h

----------------------------------------------------------------------------
\* What a worker holds where.  Only the owner of the lock touches doneJobs and
\* caller.
LEMMA PcNext ==
  ASSUME TypeOK, LockExclusive, PcInv, [Next]_vars
  PROVE  PcInv'
<1> USE DEF Goto, mailVars, bindVars, serviceVars, runVars, readyVars, sleepVars,
        eventVars, externalVars, collectVars, assignVars, PcInv, Resting, Round, Active
<1> SUFFICES ASSUME /\ pc \in [Worker -> Label] /\ job \in [Worker -> Job]
                    /\ running \in [Worker -> Job] /\ doneJobs \in [Worker -> Job]
                    /\ serviceReady \in [Worker -> Job]
             PROVE  PcInv'
  BY DEF TypeOK, TypeWorker, TypeTask
<1> USE ConstantsAssumption DEF Label, Job
<1>0. /\ \A v \in Worker : pc[v] \in Round \cup {"complete2", "complete3", "release"} =>
           scheduleOwner = v
      /\ threadNone \notin Worker
  BY DEF LockExclusive, Locked, Worker, threadNone
<1>1. CASE UNCHANGED vars \/ ExternalSend
  BY <1>1 DEF vars, ExternalSend
<1>2. ASSUME NEW w \in Worker, Step(w)
      PROVE  PcInv'
  <2>1. CASE GetJob(w)
    BY <2>1 DEF GetJob
  <2>2. CASE NoJob(w)
    BY <2>2 DEF NoJob
  <2>3. CASE Rest(w)
    BY <2>3 DEF Rest
  <2>4. CASE Sleep(w)
    BY <2>4 DEF Sleep
  <2>5. CASE Park(w)
    BY <2>5 DEF Park
  <2>6. CASE Wait(w)
    BY <2>6 DEF Wait
  <2>7. CASE Wakened(w)
    BY <2>7 DEF Wakened
  <2>8. CASE Quit(w)
    BY <2>8 DEF Quit
  <2>9. CASE AcquireScheduler(w)
    BY <1>0, <2>9 DEF AcquireScheduler, Acquire, DispatchEntry
  <2>10. CASE ReleaseScheduler(w)
    BY <1>0, <2>10 DEF ReleaseScheduler
  <2>11. CASE ExternalPush(w)
    BY <2>11 DEF ExternalPush
  <2>12. CASE ExternalDone(w)
    BY <2>12 DEF ExternalDone
  <2>13. CASE CollectDoneJobs(w)
    BY <2>13 DEF CollectDoneJobs
  <2>14. CASE DispatchSignal(w)
    BY <2>14 DEF DispatchSignal, Dispatching
  <2>15. CASE ScheduleNew(w)
    BY <2>15 DEF ScheduleNew, Dispatching
  <2>16. CASE ScheduleDel(w)
    BY <2>16 DEF ScheduleDel, Dispatching
  <2>17. CASE DispatchToDead(w)
    BY <2>17 DEF DispatchToDead, Dispatching
  <2>18. CASE DispatchOutMessage(w)
    BY <2>18 DEF DispatchOutMessage, Dispatching
  <2>19. CASE PushMessage(w)
    BY <2>19 DEF PushMessage
  <2>20. CASE Settle(w)
    BY <2>20 DEF Settle, Dispatching
  <2>21. CASE GetPendingJobs(w)
    BY <2>21 DEF GetPendingJobs
  <2>22. CASE CountFreeSlots(w)
    BY <2>22 DEF CountFreeSlots, Counting, Wake, Undone
  <2>23. CASE PrepareUnbound(w)
    BY <2>23 DEF PrepareUnbound
  <2>24. CASE PrepareBound(w)
    BY <2>24 DEF PrepareBound
  <2>25. CASE PrepareDone(w)
    BY <2>25 DEF PrepareDone
  <2>26. CASE AssignPrepare(w)
    BY <2>26 DEF AssignPrepare
  <2>27. CASE TriggerBlockedWorkers(w)
    BY <2>27 DEF TriggerBlockedWorkers
  <2>28. CASE Schedule(w)
    BY <2>28 DEF Schedule
  <2>29. CASE Start(w)
    BY <2>29 DEF Start
  <2>30. CASE Yield(w)
    BY <2>30 DEF Yield, Finish, AtWill, Resumes
  <2>31. CASE Spawn(w)
    BY <2>31 DEF Spawn, Finish, AtWill, Resumes
  <2>32. CASE InitServiceFails(w)
    BY <2>32 DEF InitServiceFails, Finish, Resumes
  <2>33. CASE CloseService(w)
    BY <2>33 DEF CloseService, Finish, Resumes
  <2>34. CASE QuitService(w)
    BY <2>34 DEF QuitService, Finish, AtWill, Resumes
  <2>35. CASE QuitRoot(w)
    BY <2>35 DEF QuitRoot, AtWill, Resumes
  <2>36. CASE EventInit(w)
    BY <2>36 DEF EventInit, Finish, AtWill, Resumes
  <2>37. CASE EventWait(w)
    BY <2>37 DEF EventWait, AtWill, Resumes
  <2>38. CASE EventWaited(w)
    BY <2>38 DEF EventWaited, Finish
  <2>39. CASE Complete(w)
    <3>1. CASE pc[w] = "complete"
      BY <2>39, <3>1 DEF Complete, CompleteJob
    <3>2. CASE pc[w] \in {"complete2", "complete3"}
      BY <1>0, <2>39, <3>2 DEF Complete, CompleteJob, DispatchEntry
    <3> QED BY <2>39, <3>1, <3>2 DEF Complete
  <2>40. CASE CompleteAcquire(w)
    BY <1>0, <2>40 DEF CompleteAcquire, Acquire
  <2>41. CASE Drain(w)
    BY <2>41 DEF Drain, DispatchEntry
  <2>42. CASE \E t \in Service : Send(w, t)
    BY <2>42 DEF Send, Finish, AtWill, Resumes
  <2>43. CASE \E x \in Worker \cup {threadNone} : InitService(w, x)
    BY <2>43 DEF InitService, Finish, Resumes
  <2>44. CASE \E x \in Worker \cup {threadNone} : Bind(w, x)
    BY <2>44 DEF Bind, Finish, AtWill, Resumes
  <2> QED BY <1>2, <2>1, <2>2, <2>3, <2>4, <2>5, <2>6, <2>7, <2>8, <2>9, <2>10, <2>11, <2>12, <2>13, <2>14, <2>15, <2>16, <2>17, <2>18, <2>19, <2>20, <2>21, <2>22, <2>23, <2>24, <2>25, <2>26, <2>27, <2>28, <2>29, <2>30, <2>31, <2>32, <2>33, <2>34, <2>35, <2>36, <2>37, <2>38, <2>39, <2>40, <2>41, <2>42, <2>43, <2>44
       DEF Step, Lull, Dispatch, DispatchOut, Run
<1> QED BY <1>1, <1>2 DEF Next

----------------------------------------------------------------------------
(* The moves of a service from table to table *)

Tables == <<schedule, jobs, bindingQueue, serviceReady, job, running, serviceDone, doneJobs>>
Off == {"none", "retired", "uninitialized", "idle"}

\* The dispatcher is done with service s, which it has collected
Settled(s) == Undone # {} /\ Handled /\ s = Current

\* Only an idle service comes into a table that was in none; and only one that
\* has run may be in none afterwards.
Kept == \A s \in Service : /\ Placed(s)' => Placed(s) \/ status[s] = "idle"
                           /\ Placed(s) => Placed(s)' \/ Settled(s)

\* Nobody goes into or out of resume
SameRuns == /\ \A w \in Worker : pc'[w] \in Active <=> pc[w] \in Active
            /\ UNCHANGED busy

LEMMA PlacedStatus ==
  ASSUME TokenInv, NEW s \in Service
  PROVE  Placed(s) => status[s] \in {"schedule", "running", "done", "dead"}
  BY DEF TokenInv, Stage, RunStage, Placed, Holds

\* The services in no table get a slot, lose it or are initialised.
LEMMA OffTokens ==
  ASSUME TokenInv, UNCHANGED Tables, SameRuns,
         \A s \in Service : \/ status'[s] = status[s]
                            \/ ~Placed(s) /\ status'[s] \in Off
  PROVE  TokenInv' /\ Kept
  <1> USE DEF Tables
  <1>1. Tidy' BY DEF TokenInv, Tidy, NoRepeat, NoShare, NoRepeats, Contains
  <1>2. ASSUME NEW s \in Service PROVE (InOnePlace(s) /\ Stage(s))' /\ (Placed(s)' <=> Placed(s))
    BY DEF TokenInv, InOnePlace, WaitsOnce, Stage, Placed, Waits, Ran, Holds, Queued, Contains, Off
  <1>3. ASSUME NEW w \in Worker PROVE RunStage(w)'
    <2>1. running[w] \in Service => Placed(running[w]) BY DEF Placed, Holds
    <2> QED BY <2>1 DEF TokenInv, RunStage, SameRuns
  <1> QED BY <1>1, <1>2, <1>3 DEF TokenInv, Kept

\* A service leaves resume, and stays in `running`.
LEMMA FinishTokens ==
  ASSUME TokenInv, PcInv, UNCHANGED Tables, NEW w \in Worker, pc[w] \in Active,
         pc'[w] \notin Active,
         \A v \in Worker \ {w} : pc'[v] = pc[v] /\ busy'[v] = busy[v],
         status'[running[w]] \in {"done", "dead"},
         \A s \in Service \ {running[w]} : \/ status'[s] = status[s]
                                           \/ ~Placed(s) /\ status'[s] \in Off
  PROVE  TokenInv' /\ Kept
  <1> USE DEF Tables
  <1> DEFINE r == running[w]
  <1>1. Tidy' BY DEF TokenInv, Tidy, NoRepeat, NoShare, NoRepeats, Contains
  <1>2. r \in Service /\ Holds(running, r) BY DEF PcInv, Holds
  <1>3. ASSUME NEW s \in Service PROVE InOnePlace(s)' /\ (Placed(s)' <=> Placed(s))
    BY DEF TokenInv, InOnePlace, WaitsOnce, Placed, Waits, Ran, Holds, Queued, Contains
  <1>4. ASSUME NEW s \in Service PROVE Stage(s)'
    <2>1. /\ Waits(s)' <=> Waits(s)
          /\ Ran(s)' <=> Ran(s)
          /\ Holds(running, s)' <=> Holds(running, s)
      BY DEF Waits, Ran, Holds, Queued, Contains
    <2>2. InOnePlace(s) /\ Stage(s) BY DEF TokenInv
    <2>3. CASE s = r BY <1>2, <2>1, <2>2, <2>3 DEF Stage, InOnePlace
    <2>4. CASE s # r BY <2>1, <2>2, <2>4 DEF Stage, Placed, Off
    <2> QED BY <2>3, <2>4
  <1>5. ASSUME NEW v \in Worker PROVE RunStage(v)'
    <2>1. CASE v = w BY <2>1 DEF RunStage
    <2>2. CASE v # w
      <3>1. running[v] \in Service => running[v] # r /\ Placed(running[v])
        BY <1>2, <2>2, ConstantsAssumption DEF TokenInv, Tidy, NoShare, Placed, Holds
      <3> QED BY <2>2, <3>1 DEF TokenInv, RunStage
    <2> QED BY <2>1, <2>2
  <1> QED BY <1>1, <1>3, <1>4, <1>5 DEF TokenInv, Kept

\* An idle service is scheduled (core.go:103-118).
LEMMA ScheduledTokens ==
  ASSUME TypeOK, TokenInv, NEW t \in Service, status[t] = "idle", SameRuns,
         schedule' = Append(schedule, t), status' = [status EXCEPT ![t] = "schedule"],
         UNCHANGED <<jobs, bindingQueue, serviceReady, job, running, serviceDone, doneJobs>>
  PROVE  TokenInv' /\ Kept
  <1>1. ~Placed(t) BY PlacedStatus
  <1>2. schedule \in Seq(Service) /\ status \in [Service -> Status]
    BY DEF TypeOK, TypeTask, TypeService
  <1>3. ~Contains(schedule, t) BY <1>1 DEF Placed, Waits
  <1>4. /\ \A s : Contains(schedule', s) <=> Contains(schedule, s) \/ s = t
        /\ NoRepeat(schedule')
    BY <1>2, <1>3, AppendHas DEF TokenInv, Tidy
  <1>5. Tidy' BY <1>4 DEF TokenInv, Tidy, NoRepeat, NoShare, NoRepeats, Contains
  <1>6. ASSUME NEW s \in Service
        PROVE  /\ Contains(schedule, s)' <=> Contains(schedule, s) \/ s = t
               /\ Contains(jobs, s)' <=> Contains(jobs, s)
               /\ Queued(bindingQueue, s)' <=> Queued(bindingQueue, s)
               /\ Holds(serviceReady, s)' <=> Holds(serviceReady, s)
               /\ Holds(job, s)' <=> Holds(job, s)
               /\ Holds(running, s)' <=> Holds(running, s)
               /\ Holds(serviceDone, s)' <=> Holds(serviceDone, s)
               /\ Holds(doneJobs, s)' <=> Holds(doneJobs, s)
    BY <1>4 DEF Contains, Queued, Holds
  <1>7. ASSUME NEW s \in Service
        PROVE  (InOnePlace(s) /\ Stage(s))' /\ (Placed(s)' <=> Placed(s) \/ s = t)
    <2>1. InOnePlace(s) /\ Stage(s) BY DEF TokenInv
    <2> QED BY <1>1, <1>2, <1>6, <2>1
        DEF InOnePlace, WaitsOnce, Stage, Placed, Waits, Ran
  <1>8. ASSUME NEW w \in Worker PROVE RunStage(w)'
    <2>1. running[w] \in Service => Placed(running[w]) BY DEF Placed, Holds
    <2> QED BY <1>1, <1>2, <2>1 DEF TokenInv, RunStage, SameRuns
  <1> QED BY <1>5, <1>7, <1>8 DEF TokenInv, Kept

LEMMA CheckTokens ==
  ASSUME TypeOK, TokenInv, NEW t \in Service, CheckMessageTo(t), SameRuns,
         UNCHANGED <<jobs, bindingQueue, serviceReady, job, running, serviceDone, doneJobs>>
  PROVE  TokenInv' /\ Kept
  <1>1. CASE StatusOf(t) = "idle"
    <2>1. status[t] = "idle" BY <1>1 DEF StatusOf, Vacant
    <2> QED BY <1>1, <2>1, ScheduledTokens DEF CheckMessageTo
  <1>2. CASE StatusOf(t) # "idle"
    BY <1>2, OffTokens DEF CheckMessageTo, Tables
  <1> QED BY <1>1, <1>2

\* A service that waits goes on to wait elsewhere.
LEMMA WaitTokens ==
  ASSUME TokenInv, Tidy', SameRuns, UNCHANGED <<status, running, serviceDone, doneJobs>>,
         \A s \in Service : (Waits(s)' <=> Waits(s)) /\ WaitsOnce(s)'
  PROVE  TokenInv' /\ Kept
  <1>1. ASSUME NEW s \in Service PROVE (InOnePlace(s) /\ Stage(s))' /\ (Placed(s)' <=> Placed(s))
    BY DEF TokenInv, InOnePlace, Stage, Placed, Ran, Holds
  <1>2. ASSUME NEW w \in Worker PROVE RunStage(w)' BY DEF TokenInv, RunStage, SameRuns
  <1> QED BY <1>1, <1>2 DEF TokenInv, Kept

----------------------------------------------------------------------------
(* The steps that move services *)

LEMMA GetJobTokens ==
  ASSUME TypeOK, PcInv, TokenInv, NEW w \in Worker, GetJob(w) PROVE TokenInv' /\ Kept
  <1> USE DEF serviceVars
  <1> DEFINE t == serviceReady[w]
  <1>1. t \in Service /\ Holds(serviceReady, t) /\ job[w] = NoService
    BY DEF GetJob, TypeOK, TypeWorker, Job, PcInv, Holds
  <1>2. serviceReady \in [Worker -> Job] /\ job \in [Worker -> Job] /\ NoService \in Job
        /\ t \in Job /\ NoShare(serviceReady) /\ NoShare(job) /\ ~Holds(job, t)
    BY <1>1 DEF TypeOK, TypeWorker, Job, TokenInv, Tidy, InOnePlace, WaitsOnce
  <1>3. /\ NoShare(serviceReady')
        /\ \A s \in Service : Holds(serviceReady', s) <=> Holds(serviceReady, s) /\ s # t
    BY <1>2, PutHas, ConstantsAssumption DEF GetJob
  <1>4. /\ NoShare(job')
        /\ \A s \in Service : Holds(job', s) <=> s = t \/ Holds(job, s)
    BY <1>1, <1>2, PutHas, ConstantsAssumption DEF GetJob
  <1>5. UNCHANGED <<schedule, jobs, bindingQueue, running, serviceDone, doneJobs, status, busy>>
    BY DEF GetJob, collectVars, assignVars
  <1>6. Tidy' BY <1>3, <1>4, <1>5 DEF TokenInv, Tidy, NoRepeat, NoShare, NoRepeats, Contains
  <1>7. ASSUME NEW s \in Service PROVE (Waits(s)' <=> Waits(s)) /\ WaitsOnce(s)'
    <2>1. InOnePlace(s) /\ InOnePlace(t) BY <1>1 DEF TokenInv
    <2>2. /\ Holds(serviceReady, s)' <=> Holds(serviceReady, s) /\ s # t
          /\ Holds(job, s)' <=> s = t \/ Holds(job, s)
          /\ Contains(schedule, s)' <=> Contains(schedule, s)
          /\ Contains(jobs, s)' <=> Contains(jobs, s)
          /\ Queued(bindingQueue, s)' <=> Queued(bindingQueue, s)
      BY <1>3, <1>4, <1>5 DEF Holds, Contains, Queued
    <2> QED BY <1>1, <2>1, <2>2 DEF Waits, InOnePlace, WaitsOnce
  <1>8. SameRuns
    BY <1>5 DEF GetJob, Goto, SameRuns, Active, TypeOK, TypeWorker
  <1> QED BY <1>5, <1>6, <1>7, <1>8, WaitTokens

LEMMA StartTokens ==
  ASSUME TypeOK, PcInv, TokenInv, NEW w \in Worker, Start(w) PROVE TokenInv' /\ Kept
  <1> DEFINE t == job[w]
  <1>1. t \in Service /\ Holds(job, t) /\ running[w] = NoService
    BY DEF Start, TypeOK, TypeWorker, Job, PcInv, Holds, Resting
  <1>2. running \in [Worker -> Job] /\ job \in [Worker -> Job] /\ NoService \in Job
        /\ t \in Job /\ NoShare(running) /\ NoShare(job) /\ ~Holds(running, t)
    BY <1>1 DEF TypeOK, TypeWorker, Job, TokenInv, Tidy, InOnePlace, Waits
  <1>3. /\ NoShare(running')
        /\ \A s \in Service : Holds(running', s) <=> s = t \/ Holds(running, s)
    BY <1>1, <1>2, PutHas, ConstantsAssumption DEF Start
  <1>4. /\ NoShare(job')
        /\ \A s \in Service : Holds(job', s) <=> Holds(job, s) /\ s # t
    BY <1>2, PutHas, ConstantsAssumption DEF Start
  <1>5. UNCHANGED <<schedule, jobs, bindingQueue, serviceReady, serviceDone, doneJobs>>
    BY DEF Start, collectVars, assignVars
  <1>6. Tidy' BY <1>3, <1>4, <1>5 DEF TokenInv, Tidy, NoRepeat, NoShare, NoRepeats, Contains
  <1>7. ASSUME NEW s \in Service
        PROVE  /\ Contains(schedule, s)' <=> Contains(schedule, s)
               /\ Contains(jobs, s)' <=> Contains(jobs, s)
               /\ Queued(bindingQueue, s)' <=> Queued(bindingQueue, s)
               /\ Holds(serviceReady, s)' <=> Holds(serviceReady, s)
               /\ Holds(job, s)' <=> Holds(job, s) /\ s # t
               /\ Holds(running, s)' <=> s = t \/ Holds(running, s)
               /\ Holds(serviceDone, s)' <=> Holds(serviceDone, s)
               /\ Holds(doneJobs, s)' <=> Holds(doneJobs, s)
    BY <1>3, <1>4, <1>5 DEF Contains, Queued, Holds
  <1>8. /\ status[t] \in {"schedule", "dead"} /\ status \in [Service -> Status]
        /\ \/ /\ status[t] = "schedule" /\ status' = [status EXCEPT ![t] = "running"]
              /\ busy' = [busy EXCEPT ![w] = TRUE] /\ pc' = [pc EXCEPT ![w] = "resume"]
           \/ /\ status[t] = "dead" /\ status' = status /\ busy' = busy
              /\ pc' = [pc EXCEPT ![w] = "complete"]
    <2>1. status[t] \in {"schedule", "dead"}
      BY <1>1 DEF TokenInv, Stage, Waits
    <2>2. StatusOf(t) = status[t] BY <2>1 DEF StatusOf, Vacant
    <2> QED BY <2>1, <2>2 DEF Start, TypeOK, TypeService, Goto
  <1>9. ASSUME NEW s \in Service
        PROVE  (InOnePlace(s) /\ Stage(s))' /\ (Placed(s)' <=> Placed(s))
    <2>1. InOnePlace(s) /\ Stage(s) BY DEF TokenInv
    <2>2. InOnePlace(s)' BY <1>1, <1>7, <2>1 DEF InOnePlace, WaitsOnce, Waits, Ran
    <2>3. Stage(s)' BY <1>1, <1>7, <1>8, <2>1 DEF InOnePlace, WaitsOnce, Stage, Waits, Ran
    <2>4. Placed(s)' <=> Placed(s) BY <1>1, <1>7 DEF Placed, Waits, Ran
    <2> QED BY <2>2, <2>3, <2>4
  <1>10. ASSUME NEW v \in Worker PROVE RunStage(v)'
    <2>0. /\ pc \in [Worker -> Label] /\ busy \in [Worker -> BOOLEAN]
          /\ running' = [running EXCEPT ![w] = t]
      BY DEF TypeOK, TypeWorker, Start
    <2>1. CASE v = w BY <1>2, <1>8, <2>0, <2>1, <1>1 DEF RunStage, Active
    <2>2. CASE v # w
      <3>1. running'[v] = running[v] /\ pc'[v] = pc[v] /\ busy'[v] = busy[v]
        BY <1>2, <1>8, <2>0, <2>2
      <3>2. running[v] \in Service => running[v] # t BY <1>2 DEF Holds
      <3>3. running[v] \in Service => status'[running[v]] = status[running[v]]
        BY <1>8, <3>2
      <3> QED BY <3>1, <3>3 DEF TokenInv, RunStage
    <2> QED BY <2>1, <2>2
  <1> QED BY <1>6, <1>9, <1>10 DEF TokenInv, Kept

\* What a worker has run it hands over (worker.go:325-341).
LEMMA CompleteTokens ==
  ASSUME TypeOK, PcInv, TokenInv, NEW w \in Worker, Complete(w) PROVE TokenInv' /\ Kept
  <1> DEFINE t == running[w]
  <1>1. /\ serviceDone[w] = NoService /\ t \in Job
        /\ serviceDone' = [serviceDone EXCEPT ![w] = t]
        /\ running' = [running EXCEPT ![w] = NoService]
    BY DEF Complete, CompleteJob, TypeOK, TypeWorker
  <1>2. running \in [Worker -> Job] /\ serviceDone \in [Worker -> Job] /\ NoService \in Job
        /\ NoShare(running) /\ NoShare(serviceDone) /\ (t = NoService \/ ~Holds(serviceDone, t))
    <2>1. t # NoService => t \in Service /\ Holds(running, t)
      BY <1>1 DEF Job, Holds
    <2> QED BY <2>1 DEF TypeOK, TypeWorker, Job, TokenInv, Tidy, InOnePlace, Ran
  <1>3. /\ NoShare(running')
        /\ \A s \in Service : Holds(running', s) <=> Holds(running, s) /\ s # t
    <2>1. LET g == [running EXCEPT ![w] = NoService] IN
            /\ NoShare(g)
            /\ \A s \in Service : Holds(g, s) <=> s = NoService \/ (Holds(running, s) /\ s # t)
      BY <1>2, PutHas
    <2> QED BY <1>1, <2>1, ConstantsAssumption
  <1>4. /\ NoShare(serviceDone')
        /\ \A s \in Service : Holds(serviceDone', s) <=> s = t \/ Holds(serviceDone, s)
    <2>1. LET g == [serviceDone EXCEPT ![w] = t] IN
            /\ NoShare(g)
            /\ \A s \in Service : Holds(g, s) <=> s = t \/ (Holds(serviceDone, s) /\ s # serviceDone[w])
      BY <1>1, <1>2, PutHas
    <2> QED BY <1>1, <2>1, ConstantsAssumption
  <1>5. UNCHANGED <<schedule, jobs, bindingQueue, serviceReady, job, doneJobs, status, busy>>
    BY DEF Complete, CompleteJob, collectVars, assignVars, serviceVars, readyVars
  <1>6. Tidy' BY <1>3, <1>4, <1>5 DEF TokenInv, Tidy, NoRepeat, NoShare, NoRepeats, Contains
  <1>7. ASSUME NEW s \in Service
        PROVE  /\ Waits(s)' <=> Waits(s)
               /\ WaitsOnce(s)' <=> WaitsOnce(s)
               /\ Holds(running, s)' <=> Holds(running, s) /\ s # t
               /\ Holds(serviceDone, s)' <=> s = t \/ Holds(serviceDone, s)
               /\ Holds(doneJobs, s)' <=> Holds(doneJobs, s)
    BY <1>3, <1>4, <1>5 DEF Contains, Queued, Holds, Waits, WaitsOnce
  <1>8. t \in Service => Holds(running, t) /\ status[t] \in {"done", "dead"}
    <2>1. pc[w] \notin Active BY DEF Complete, Active
    <2> QED BY <2>1 DEF Holds, TokenInv, RunStage
  <1>9. ASSUME NEW s \in Service
        PROVE  (InOnePlace(s) /\ Stage(s))' /\ (Placed(s)' <=> Placed(s))
    <2>1. InOnePlace(s) /\ Stage(s) BY DEF TokenInv
    <2>2. InOnePlace(s)' BY <1>7, <1>8, <2>1 DEF InOnePlace, Ran
    <2>3. Stage(s)' BY <1>5, <1>7, <1>8, <2>1 DEF InOnePlace, Stage, Ran
    <2>4. Placed(s)' <=> Placed(s) BY <1>7, <1>8 DEF Placed, Ran
    <2> QED BY <2>2, <2>3, <2>4
  <1>10. ASSUME NEW v \in Worker PROVE RunStage(v)'
    <2>1. CASE v = w BY <1>1, <1>2, <2>1, ConstantsAssumption DEF RunStage
    <2>2. CASE v # w
      <3>1. running'[v] = running[v] /\ pc'[v] = pc[v] /\ busy'[v] = busy[v]
        BY <1>1, <1>2, <1>5, <2>2 DEF Complete, Goto, TypeOK, TypeWorker
      <3> QED BY <1>5, <3>1 DEF TokenInv, RunStage
    <2> QED BY <2>1, <2>2
  <1> QED BY <1>6, <1>9, <1>10 DEF TokenInv, Kept

LEMMA CollectTokens ==
  ASSUME TypeOK, LockExclusive, PcInv, TokenInv, NEW w \in Worker, CollectDoneJobs(w)
  PROVE  TokenInv' /\ Kept
  <1>1. \A i \in Worker : doneJobs[i] = NoService
    <2>1. \A v \in Worker : pc[v] \notin {"out", "push"}
      BY DEF LockExclusive, Locked, CollectDoneJobs
    <2> QED BY <2>1 DEF PcInv
  <1>2. /\ doneJobs' = serviceDone
        /\ \A i \in Worker : serviceDone'[i] = NoService
        /\ UNCHANGED <<schedule, jobs, bindingQueue, serviceReady, job, running, status, busy>>
    BY DEF CollectDoneJobs, serviceVars, readyVars, assignVars
  <1>3. Tidy' BY <1>2 DEF TokenInv, Tidy, NoRepeat, NoShare, NoRepeats, Contains
  <1>4. ASSUME NEW s \in Service
        PROVE  /\ Waits(s)' <=> Waits(s)
               /\ WaitsOnce(s)' <=> WaitsOnce(s)
               /\ Holds(running, s)' <=> Holds(running, s)
               /\ Holds(doneJobs, s)' <=> Holds(serviceDone, s)
               /\ ~Holds(serviceDone, s)' /\ ~Holds(doneJobs, s)
    BY <1>1, <1>2, ConstantsAssumption DEF Contains, Queued, Holds, Waits, WaitsOnce
  <1>5. ASSUME NEW s \in Service
        PROVE  (InOnePlace(s) /\ Stage(s))' /\ (Placed(s)' <=> Placed(s))
    BY <1>2, <1>4 DEF TokenInv, InOnePlace, Stage, Placed, Ran
  <1>6. SameRuns
    BY <1>2 DEF CollectDoneJobs, Goto, SameRuns, Active, TypeOK, TypeWorker
  <1>7. ASSUME NEW v \in Worker PROVE RunStage(v)'
    BY <1>2, <1>6 DEF TokenInv, RunStage, SameRuns
  <1> QED BY <1>3, <1>5, <1>7 DEF TokenInv, Kept

LEMMA GetPendingJobsTokens ==
  ASSUME TypeOK, TokenInv, NEW w \in Worker, GetPendingJobs(w) PROVE TokenInv' /\ Kept
  <1> DEFINE i == Least(Pending)
             t == serviceReady[i]
  <1>1. i \in Worker /\ t # NoService
    BY LeastWorkerType DEF GetPendingJobs, Pending, Stealable
  <1>2. /\ t \in Service /\ t \in Job /\ NoService \in Job /\ Holds(serviceReady, t)
        /\ serviceReady \in [Worker -> Job] /\ jobs \in Seq(Service)
    BY <1>1 DEF TypeOK, TypeWorker, TypeTask, Job, Holds
  <1>3. /\ jobs' = Append(jobs, t)
        /\ serviceReady' = [serviceReady EXCEPT ![i] = NoService]
        /\ UNCHANGED <<schedule, bindingQueue, job, running, serviceDone, doneJobs, status, busy, pc>>
    BY DEF GetPendingJobs, serviceVars, runVars, collectVars
  <1> HIDE DEF i, t
  <1>4. InOnePlace(t) /\ NoShare(serviceReady) /\ NoRepeat(jobs)
    BY <1>2 DEF TokenInv, Tidy
  <1>5. ~Contains(jobs, t) BY <1>2, <1>4 DEF InOnePlace, WaitsOnce
  <1>6. /\ \A s : Contains(jobs', s) <=> Contains(jobs, s) \/ s = t
        /\ NoRepeat(jobs')
    BY <1>2, <1>3, <1>4, <1>5, AppendHas
  <1>7. /\ NoShare(serviceReady')
        /\ \A s \in Service : Holds(serviceReady', s) <=> Holds(serviceReady, s) /\ s # t
    <2>1. LET g == [serviceReady EXCEPT ![i] = NoService] IN
            /\ NoShare(g)
            /\ \A s \in Service : Holds(g, s) <=>
                 s = NoService \/ (Holds(serviceReady, s) /\ s # serviceReady[i])
      BY <1>1, <1>2, <1>4, PutHas
    <2> QED BY <1>3, <2>1, ConstantsAssumption DEF t
  <1>8. Tidy' BY <1>3, <1>6, <1>7 DEF TokenInv, Tidy, NoRepeat, NoShare, NoRepeats, Contains
  <1>9. ASSUME NEW s \in Service PROVE (Waits(s)' <=> Waits(s)) /\ WaitsOnce(s)'
    <2>1. InOnePlace(s) BY DEF TokenInv
    <2>2. /\ Holds(serviceReady, s)' <=> Holds(serviceReady, s) /\ s # t
          /\ Holds(job, s)' <=> Holds(job, s)
          /\ Contains(schedule, s)' <=> Contains(schedule, s)
          /\ Contains(jobs, s)' <=> Contains(jobs, s) \/ s = t
          /\ Queued(bindingQueue, s)' <=> Queued(bindingQueue, s)
      BY <1>3, <1>6, <1>7 DEF Holds, Contains, Queued
    <2> QED BY <1>2, <2>1, <2>2 DEF Waits, InOnePlace, WaitsOnce
  <1>10. SameRuns BY <1>3 DEF SameRuns
  <1> QED BY <1>3, <1>8, <1>9, <1>10, WaitTokens

LEMMA CountFreeSlotsTokens ==
  ASSUME TypeOK, TokenInv, NEW w \in Worker, CountFreeSlots(w) PROVE TokenInv' /\ Kept
  <1> DEFINE Taken(s) == \E i \in Refilled : s = Head(bindingQueue[i])
  <1>1. \A i \in Refilled : i \in Worker /\ bindingQueue[i] # <<>> /\ serviceReady[i] = NoService
    BY DEF Refilled
  <1>2. /\ serviceReady \in [Worker -> Job] /\ bindingQueue \in [Worker -> Seq(Service)]
        /\ NoShare(serviceReady) /\ NoRepeats(bindingQueue)
    BY DEF TypeOK, TypeWorker, TokenInv, Tidy
  <1>3. \A i \in Worker : /\ i \in Refilled =>
                               /\ serviceReady'[i] = Head(bindingQueue[i])
                               /\ bindingQueue'[i] = Tail(bindingQueue[i])
                          /\ i \notin Refilled =>
                               /\ serviceReady'[i] = serviceReady[i]
                               /\ bindingQueue'[i] = bindingQueue[i]
    BY DEF CountFreeSlots
  <1>4. UNCHANGED <<schedule, jobs, job, running, serviceDone, doneJobs, status, busy>>
    BY DEF CountFreeSlots, serviceVars, runVars, collectVars
  <1>5. ASSUME NEW i \in Refilled
        PROVE  /\ Head(bindingQueue[i]) \in Service
               /\ \A s : Contains(bindingQueue[i], s) <=>
                           Contains(Tail(bindingQueue[i]), s) \/ s = Head(bindingQueue[i])
               /\ NoRepeat(Tail(bindingQueue[i]))
               /\ ~Contains(Tail(bindingQueue[i]), Head(bindingQueue[i]))
    <2>1. bindingQueue[i] \in Seq(Service) /\ bindingQueue[i] # <<>> /\ NoRepeat(bindingQueue[i])
      BY <1>1, <1>2 DEF NoRepeats
    <2> QED BY <2>1, TailHas, QueueType
  <1>6. \A i \in Worker, s \in Service :
          Contains(bindingQueue'[i], s) <=>
            Contains(bindingQueue[i], s) /\ ~(i \in Refilled /\ s = Head(bindingQueue[i]))
    BY <1>3, <1>5
  <1>7. \A i \in Refilled, v \in Worker :
          Contains(bindingQueue[v], Head(bindingQueue[i])) <=> v = i
    BY <1>1, <1>2, <1>5 DEF NoRepeats
  <1>8. \A s \in Service : Queued(bindingQueue', s) <=> Queued(bindingQueue, s) /\ ~Taken(s)
    BY <1>1, <1>6, <1>7 DEF Queued
  <1>9. NoRepeats(bindingQueue')
    <2>1. ASSUME NEW v \in Worker PROVE NoRepeat(bindingQueue'[v])
      BY <1>2, <1>3, <1>5 DEF NoRepeats
    <2> QED BY <1>2, <1>6, <2>1 DEF NoRepeats
  <1>10. \A s \in Service : Taken(s) => Queued(bindingQueue, s) /\ ~Holds(serviceReady, s)
    <2>1. \A s \in Service : Taken(s) => Queued(bindingQueue, s)
      BY <1>1, <1>7 DEF Queued
    <2> QED BY <2>1 DEF TokenInv, InOnePlace, WaitsOnce
  <1>11. NoShare(serviceReady')
    <2> SUFFICES ASSUME NEW u \in Worker, NEW v \in Worker, serviceReady'[u] = serviceReady'[v],
                        serviceReady'[u] # NoService
                 PROVE  u = v
      BY DEF NoShare
    <2>1. CASE u \in Refilled /\ v \in Refilled
      BY <1>3, <1>5, <1>7, <2>1
    <2>2. CASE u \in Refilled /\ v \notin Refilled
      <3>1. Head(bindingQueue[u]) \in Service /\ Taken(Head(bindingQueue[u]))
            /\ serviceReady[v] = Head(bindingQueue[u])
        BY <1>3, <1>5, <2>2
      <3> QED BY <1>10, <3>1 DEF Holds
    <2>3. CASE u \notin Refilled /\ v \in Refilled
      <3>1. Head(bindingQueue[v]) \in Service /\ Taken(Head(bindingQueue[v]))
            /\ serviceReady[u] = Head(bindingQueue[v])
        BY <1>3, <1>5, <2>3
      <3> QED BY <1>10, <3>1 DEF Holds
    <2>4. CASE u \notin Refilled /\ v \notin Refilled
      BY <1>2, <1>3, <2>4 DEF NoShare
    <2> QED BY <2>1, <2>2, <2>3, <2>4
  <1>12. \A s \in Service : Holds(serviceReady', s) <=> Holds(serviceReady, s) \/ Taken(s)
    BY <1>1, <1>3, ConstantsAssumption DEF Holds
  <1> HIDE DEF Taken
  <1>13. Tidy' BY <1>4, <1>9, <1>11 DEF TokenInv, Tidy, NoRepeat, NoShare, Contains
  <1>14. ASSUME NEW s \in Service PROVE (Waits(s)' <=> Waits(s)) /\ WaitsOnce(s)'
    <2>1. InOnePlace(s) BY DEF TokenInv
    <2>2. /\ Holds(serviceReady, s)' <=> Holds(serviceReady, s) \/ Taken(s)
          /\ Holds(job, s)' <=> Holds(job, s)
          /\ Contains(schedule, s)' <=> Contains(schedule, s)
          /\ Contains(jobs, s)' <=> Contains(jobs, s)
          /\ Queued(bindingQueue, s)' <=> Queued(bindingQueue, s) /\ ~Taken(s)
      BY <1>4, <1>8, <1>12 DEF Holds, Contains, Queued
    <2> QED BY <1>10, <2>1, <2>2 DEF Waits, InOnePlace, WaitsOnce
  <1>15. SameRuns
    BY <1>4 DEF CountFreeSlots, Counting, Goto, SameRuns, Active, TypeOK, TypeWorker
  <1> QED BY <1>4, <1>13, <1>14, <1>15, WaitTokens

LEMMA PrepareUnboundTokens ==
  ASSUME TypeOK, TokenInv, NEW w \in Worker, PrepareUnbound(w) PROVE TokenInv' /\ Kept
  <1> DEFINE t == Head(schedule)
  <1>1. /\ schedule \in Seq(Service) /\ schedule # <<>> /\ jobs \in Seq(Service) /\ t \in Service
        /\ NoRepeat(schedule) /\ NoRepeat(jobs)
    BY QueueType DEF PrepareUnbound, TypeOK, TypeTask, TokenInv, Tidy
  <1>2. /\ jobs' = Append(jobs, t) /\ schedule' = Tail(schedule)
        /\ UNCHANGED <<bindingQueue, serviceReady, job, running, serviceDone, doneJobs, status, busy, pc>>
    BY DEF PrepareUnbound, serviceVars, runVars, readyVars, collectVars
  <1>3. /\ \A s : Contains(schedule, s) <=> Contains(schedule', s) \/ s = t
        /\ NoRepeat(schedule') /\ ~Contains(schedule', t)
    BY <1>1, <1>2, TailHas
  <1>4. ~Contains(jobs, t) BY <1>1, <1>3 DEF TokenInv, InOnePlace, WaitsOnce
  <1>5. /\ \A s : Contains(jobs', s) <=> Contains(jobs, s) \/ s = t
        /\ NoRepeat(jobs')
    BY <1>1, <1>2, <1>4, AppendHas
  <1> HIDE DEF t
  <1>6. Tidy' BY <1>2, <1>3, <1>5 DEF TokenInv, Tidy, NoRepeat, NoShare, NoRepeats, Contains
  <1>7. ASSUME NEW s \in Service PROVE (Waits(s)' <=> Waits(s)) /\ WaitsOnce(s)'
    <2>1. InOnePlace(s) BY DEF TokenInv
    <2>2. /\ Holds(serviceReady, s)' <=> Holds(serviceReady, s)
          /\ Holds(job, s)' <=> Holds(job, s)
          /\ Contains(schedule, s)' <=> Contains(schedule, s) /\ s # t
          /\ Contains(jobs, s)' <=> Contains(jobs, s) \/ s = t
          /\ Queued(bindingQueue, s)' <=> Queued(bindingQueue, s)
      BY <1>2, <1>3, <1>5 DEF Holds, Contains, Queued
    <2> QED BY <1>3, <2>1, <2>2 DEF Waits, InOnePlace, WaitsOnce
  <1>8. SameRuns BY <1>2 DEF SameRuns
  <1> QED BY <1>2, <1>6, <1>7, <1>8, WaitTokens

LEMMA PrepareBoundTokens ==
  ASSUME TypeOK, TokenInv, NEW w \in Worker, PrepareBound(w) PROVE TokenInv' /\ Kept
  <1> DEFINE t == Head(schedule)
             i == BindingOf(t)
             q == Append(bindingQueue[i], t)
             full == Len(bindingQueue[i]) >= BindCap
             assign == ~full /\ serviceReady[i] = NoService
  <1>1. /\ schedule \in Seq(Service) /\ schedule # <<>> /\ t \in Service
        /\ Tail(schedule) \in Seq(Service) /\ NoRepeat(schedule)
    BY QueueType DEF PrepareBound, TypeOK, TypeTask, TokenInv, Tidy
  <1>2. i \in Worker
    BY <1>1, ConstantsAssumption DEF PrepareBound, BindingOf, TypeOK, TypeService, Worker
  <1>3. /\ schedule' = IF full THEN Append(Tail(schedule), t) ELSE Tail(schedule)
        /\ bindingQueue' = [bindingQueue EXCEPT ![i] =
             IF full THEN @ ELSE IF assign THEN Tail(q) ELSE q]
        /\ serviceReady' = [serviceReady EXCEPT ![i] = IF assign THEN Head(q) ELSE @]
    BY DEF PrepareBound
  <1>0. UNCHANGED <<jobs, job, running, serviceDone, doneJobs, status, busy, pc>>
    BY DEF PrepareBound, serviceVars, runVars, collectVars
  <1>4. /\ serviceReady \in [Worker -> Job] /\ bindingQueue \in [Worker -> Seq(Service)]
        /\ NoShare(serviceReady) /\ NoRepeats(bindingQueue) /\ NoService \in Job
    BY DEF TypeOK, TypeWorker, Job, TokenInv, Tidy
  <1> HIDE DEF t, i, full
  <1>5. /\ \A s : Contains(schedule, s) <=> Contains(Tail(schedule), s) \/ s = t
        /\ NoRepeat(Tail(schedule)) /\ ~Contains(Tail(schedule), t)
    BY <1>1, TailHas DEF t
  <1>6. InOnePlace(t) /\ ~Queued(bindingQueue, t) /\ ~Holds(serviceReady, t)
    BY <1>1, <1>5 DEF TokenInv, InOnePlace, WaitsOnce
  <1>7. SameRuns BY <1>0 DEF SameRuns
  <1>8. CASE full
    <2>1. schedule' = Append(Tail(schedule), t) /\ bindingQueue' = bindingQueue
          /\ serviceReady' = serviceReady
      BY <1>3, <1>4, <1>8
    <2>2. (\A s : Contains(schedule', s) <=> Contains(schedule, s)) /\ NoRepeat(schedule')
      <3>1. /\ \A s : Contains(Append(Tail(schedule), t), s) <=> Contains(Tail(schedule), s) \/ s = t
            /\ NoRepeat(Append(Tail(schedule), t))
        BY <1>1, <1>5, AppendHas
      <3> QED BY <1>5, <2>1, <3>1
    <2>3. Tidy' BY <1>0, <2>1, <2>2 DEF TokenInv, Tidy, NoRepeat, NoShare, NoRepeats, Contains
    <2>4. ASSUME NEW s \in Service PROVE (Waits(s)' <=> Waits(s)) /\ WaitsOnce(s)'
      <3>1. InOnePlace(s) BY DEF TokenInv
      <3>2. /\ Holds(serviceReady, s)' <=> Holds(serviceReady, s)
            /\ Holds(job, s)' <=> Holds(job, s)
            /\ Contains(schedule, s)' <=> Contains(schedule, s)
            /\ Contains(jobs, s)' <=> Contains(jobs, s)
            /\ Queued(bindingQueue, s)' <=> Queued(bindingQueue, s)
        BY <1>0, <2>1, <2>2 DEF Holds, Contains, Queued
      <3> QED BY <3>1, <3>2 DEF Waits, InOnePlace, WaitsOnce
    <2> QED BY <1>0, <1>7, <2>3, <2>4, WaitTokens
  <1> DEFINE b == [bindingQueue EXCEPT ![i] = Append(@, t)]
  <1>9. /\ NoRepeats(b)
        /\ \A s \in Service : Queued(b, s) <=> Queued(bindingQueue, s) \/ s = t
    BY <1>1, <1>2, <1>4, <1>6, QueueAppendHas
  <1>10. b \in [Worker -> Seq(Service)] /\ b[i] = q /\ q # <<>>
    BY <1>1, <1>2, <1>4, QueueType
  <1>11. CASE ~full /\ ~assign
    <2>1. schedule' = Tail(schedule) /\ bindingQueue' = b /\ serviceReady' = serviceReady
      BY <1>3, <1>4, <1>11
    <2> HIDE DEF b, q
    <2>0. /\ NoRepeats(bindingQueue')
          /\ \A s \in Service : Queued(bindingQueue', s) <=> Queued(bindingQueue, s) \/ s = t
          /\ \A s : Contains(schedule, s) <=> Contains(schedule', s) \/ s = t
          /\ NoRepeat(schedule') /\ ~Contains(schedule', t)
      BY <1>5, <1>9, <2>1
    <2>2. Tidy'
      BY <1>0, <2>0, <2>1 DEF TokenInv, Tidy, NoRepeat, NoShare, NoRepeats, Contains
    <2>3. ASSUME NEW s \in Service PROVE (Waits(s)' <=> Waits(s)) /\ WaitsOnce(s)'
      <3>1. InOnePlace(s) BY DEF TokenInv
      <3>2. /\ Holds(serviceReady, s)' <=> Holds(serviceReady, s)
            /\ Holds(job, s)' <=> Holds(job, s)
            /\ Contains(schedule, s)' <=> Contains(schedule, s) /\ s # t
            /\ Contains(jobs, s)' <=> Contains(jobs, s)
            /\ Queued(bindingQueue, s)' <=> Queued(bindingQueue, s) \/ s = t
        BY <1>0, <2>0, <2>1 DEF Holds, Contains, Queued
      <3> QED BY <1>5, <3>1, <3>2 DEF Waits, InOnePlace, WaitsOnce
    <2> QED BY <1>0, <1>7, <2>2, <2>3, WaitTokens
  <1>12. CASE assign
    <2> DEFINE h == Head(q)
    <2>1. /\ schedule' = Tail(schedule)
          /\ bindingQueue' = [b EXCEPT ![i] = Tail(@)]
          /\ serviceReady' = [serviceReady EXCEPT ![i] = h]
          /\ serviceReady[i] = NoService
      BY <1>2, <1>3, <1>4, <1>12
    <2>2. /\ NoRepeats(bindingQueue')
          /\ \A s \in Service : Queued(bindingQueue', s) <=> Queued(b, s) /\ s # h
          /\ h \in Service /\ Queued(b, h)
      <3> HIDE DEF b, q
      <3> QED BY <1>2, <1>9, <1>10, <2>1, QueueTailHas
    <2> HIDE DEF b, q, h
    <2>3. ~Holds(serviceReady, h) /\ ~Contains(Tail(schedule), h) /\ ~Contains(jobs, h)
          /\ ~Holds(job, h)
      <3>1. InOnePlace(h) /\ (h = t \/ Queued(bindingQueue, h)) BY <1>9, <2>2 DEF TokenInv
      <3> QED BY <1>5, <1>6, <3>1 DEF InOnePlace, WaitsOnce
    <2>4. /\ NoShare(serviceReady')
          /\ \A s \in Service : Holds(serviceReady', s) <=> s = h \/ Holds(serviceReady, s)
      <3>1. LET g == [serviceReady EXCEPT ![i] = h] IN
              /\ NoShare(g)
              /\ \A s \in Service : Holds(g, s) <=>
                   s = h \/ (Holds(serviceReady, s) /\ s # serviceReady[i])
        BY <1>2, <1>4, <2>2, <2>3, PutHas DEF Job
      <3> QED BY <2>1, <3>1, ConstantsAssumption
    <2>0. /\ \A s : Contains(schedule, s) <=> Contains(schedule', s) \/ s = t
          /\ NoRepeat(schedule') /\ ~Contains(schedule', t) /\ ~Contains(schedule', h)
          /\ \A s \in Service : Queued(bindingQueue', s) <=>
                                (Queued(bindingQueue, s) \/ s = t) /\ s # h
      BY <1>5, <1>9, <2>1, <2>2, <2>3
    <2>5. Tidy'
      BY <1>0, <2>0, <2>2, <2>4 DEF TokenInv, Tidy, NoRepeat, NoShare, NoRepeats, Contains
    <2>6. ASSUME NEW s \in Service PROVE (Waits(s)' <=> Waits(s)) /\ WaitsOnce(s)'
      <3>1. InOnePlace(s) BY DEF TokenInv
      <3>2. /\ Holds(serviceReady, s)' <=> s = h \/ Holds(serviceReady, s)
            /\ Holds(job, s)' <=> Holds(job, s)
            /\ Contains(schedule, s)' <=> Contains(schedule, s) /\ s # t
            /\ Contains(jobs, s)' <=> Contains(jobs, s)
            /\ Queued(bindingQueue, s)' <=> (Queued(bindingQueue, s) \/ s = t) /\ s # h
        BY <1>0, <2>0, <2>4 DEF Holds, Contains, Queued
      <3>3. h = t \/ Queued(bindingQueue, h) BY <1>9, <2>2
      <3>4. s # h => (Waits(s)' <=> Waits(s)) /\ WaitsOnce(s)'
        BY <1>5, <3>1, <3>2 DEF Waits, InOnePlace, WaitsOnce
      <3>5. s = h => (Waits(s)' <=> Waits(s)) /\ WaitsOnce(s)'
        <4>1. s = h => ~Contains(schedule, s)' BY <2>0 DEF Contains
        <4> QED BY <1>5, <2>3, <3>1, <3>2, <3>3, <4>1 DEF Waits, InOnePlace, WaitsOnce
      <3> QED BY <3>4, <3>5
    <2> QED BY <1>0, <1>7, <2>5, <2>6, WaitTokens
  <1> QED BY <1>8, <1>11, <1>12

LEMMA AssignPrepareTokens ==
  ASSUME TypeOK, TokenInv, NEW w \in Worker, AssignPrepare(w) PROVE TokenInv' /\ Kept
  <1> DEFINE i == IF visit = NWorker THEN 0 ELSE visit
             p == IF visit = NWorker /\ pass < 2 THEN pass + 1 ELSE pass
             take == Suits(i, p) /\ serviceReady[i] = NoService
             own == take /\ bindingQueue[i] # <<>>
             t == IF own THEN Head(bindingQueue[i]) ELSE Head(jobs)
  <1>1. i \in Worker BY ConstantsAssumption DEF TypeOK, TypeTask, Worker
  <1>2. /\ jobs # <<>>
        /\ serviceReady' = [serviceReady EXCEPT ![i] = IF take THEN t ELSE @]
        /\ bindingQueue' = [bindingQueue EXCEPT ![i] = IF own THEN Tail(@) ELSE @]
        /\ jobs' = IF take /\ ~own THEN Tail(jobs) ELSE jobs
    BY DEF AssignPrepare
  <1>0. UNCHANGED <<schedule, job, running, serviceDone, doneJobs, status, busy, pc>>
    BY DEF AssignPrepare, serviceVars, runVars, collectVars
  <1>3. /\ serviceReady \in [Worker -> Job] /\ bindingQueue \in [Worker -> Seq(Service)]
        /\ NoShare(serviceReady) /\ NoRepeats(bindingQueue) /\ NoService \in Job
        /\ jobs \in Seq(Service) /\ NoRepeat(jobs)
    BY DEF TypeOK, TypeWorker, TypeTask, Job, TokenInv, Tidy
  <1>4. take => serviceReady[i] = NoService OBVIOUS
  <1>5. own => take OBVIOUS
  <1>6. (own => t = Head(bindingQueue[i]) /\ bindingQueue[i] # <<>>) /\ (~own => t = Head(jobs))
    OBVIOUS
  <1> HIDE DEF i, own, take, t
  <1>7. SameRuns BY <1>0 DEF SameRuns
  <1>8. CASE ~take
    <2>1. serviceReady' = serviceReady /\ bindingQueue' = bindingQueue /\ jobs' = jobs
      BY <1>2, <1>3, <1>5, <1>8
    <2>2. UNCHANGED Tables BY <1>0, <2>1 DEF Tables
    <2> QED BY <1>0, <1>7, <2>2, OffTokens
  <1>9. ASSUME take, t \in Service, ~Holds(serviceReady, t)
        PROVE  /\ NoShare(serviceReady')
               /\ \A s \in Service : Holds(serviceReady', s) <=> s = t \/ Holds(serviceReady, s)
    <2>1. LET g == [serviceReady EXCEPT ![i] = t] IN
            /\ NoShare(g)
            /\ \A s \in Service : Holds(g, s) <=>
                 s = t \/ (Holds(serviceReady, s) /\ s # serviceReady[i])
      BY <1>1, <1>3, <1>9, PutHas DEF Job
    <2> QED BY <1>2, <1>4, <1>9, <2>1, ConstantsAssumption
  <1>10. CASE own
    <2>1. bindingQueue' = [bindingQueue EXCEPT ![i] = Tail(@)] /\ jobs' = jobs
      BY <1>2, <1>10
    <2>2. /\ NoRepeats(bindingQueue')
          /\ \A s \in Service : Queued(bindingQueue', s) <=> Queued(bindingQueue, s) /\ s # t
          /\ t \in Service /\ Queued(bindingQueue, t)
      BY <1>1, <1>3, <1>6, <1>10, <2>1, QueueTailHas
    <2>3. InOnePlace(t) /\ ~Holds(serviceReady, t)
      BY <2>2 DEF TokenInv, InOnePlace, WaitsOnce
    <2>4. /\ NoShare(serviceReady')
          /\ \A s \in Service : Holds(serviceReady', s) <=> s = t \/ Holds(serviceReady, s)
      BY <1>5, <1>9, <1>10, <2>2, <2>3
    <2>5. Tidy' BY <1>0, <2>1, <2>2, <2>4 DEF TokenInv, Tidy, NoRepeat, NoShare, Contains
    <2>6. ASSUME NEW s \in Service PROVE (Waits(s)' <=> Waits(s)) /\ WaitsOnce(s)'
      <3>1. InOnePlace(s) BY DEF TokenInv
      <3>2. /\ Holds(serviceReady, s)' <=> s = t \/ Holds(serviceReady, s)
            /\ Holds(job, s)' <=> Holds(job, s)
            /\ Contains(schedule, s)' <=> Contains(schedule, s)
            /\ Contains(jobs, s)' <=> Contains(jobs, s)
            /\ Queued(bindingQueue, s)' <=> Queued(bindingQueue, s) /\ s # t
        BY <1>0, <2>1, <2>2, <2>4 DEF Holds, Contains, Queued
      <3> QED BY <2>2, <3>1, <3>2 DEF Waits, InOnePlace, WaitsOnce
    <2> QED BY <1>0, <1>7, <2>5, <2>6, WaitTokens
  <1>11. CASE take /\ ~own
    <2>1. bindingQueue' = bindingQueue /\ jobs' = Tail(jobs) BY <1>2, <1>3, <1>11
    <2>2. /\ \A s : Contains(jobs, s) <=> Contains(jobs', s) \/ s = t
          /\ NoRepeat(jobs') /\ ~Contains(jobs', t)
      BY <1>2, <1>3, <1>6, <1>11, <2>1, TailHas
    <2>3. t \in Service BY <1>2, <1>3, <1>6, <1>11, QueueType
    <2>4. InOnePlace(t) /\ ~Holds(serviceReady, t)
      BY <2>2, <2>3 DEF TokenInv, InOnePlace, WaitsOnce
    <2>5. /\ NoShare(serviceReady')
          /\ \A s \in Service : Holds(serviceReady', s) <=> s = t \/ Holds(serviceReady, s)
      BY <1>9, <1>11, <2>3, <2>4
    <2>6. Tidy'
      BY <1>0, <2>1, <2>2, <2>5 DEF TokenInv, Tidy, NoRepeat, NoShare, NoRepeats, Contains
    <2>7. ASSUME NEW s \in Service PROVE (Waits(s)' <=> Waits(s)) /\ WaitsOnce(s)'
      <3>1. InOnePlace(s) BY DEF TokenInv
      <3>2. /\ Holds(serviceReady, s)' <=> s = t \/ Holds(serviceReady, s)
            /\ Holds(job, s)' <=> Holds(job, s)
            /\ Contains(schedule, s)' <=> Contains(schedule, s)
            /\ Contains(jobs, s)' <=> Contains(jobs, s) /\ s # t
            /\ Queued(bindingQueue, s)' <=> Queued(bindingQueue, s)
        BY <1>0, <2>1, <2>2, <2>5 DEF Holds, Contains, Queued
      <3> QED BY <2>2, <3>1, <3>2 DEF Waits, InOnePlace, WaitsOnce
    <2> QED BY <1>0, <1>7, <2>6, <2>7, WaitTokens
  <1> QED BY <1>8, <1>10, <1>11

\* A worker left without a job steals one (worker.go:163-173).
LEMMA ScheduleTokens ==
  ASSUME TypeOK, TokenInv, NEW w \in Worker, Schedule(w) PROVE TokenInv' /\ Kept
  <1> DEFINE steal == /\ serviceReady[w] = NoService /\ binding[w] = NoService
                      /\ Victim # {}
             i == Least(Victim)
             t == serviceReady[i]
  <1>1. /\ serviceReady' = IF steal THEN [serviceReady EXCEPT ![i] = NoService, ![w] = t]
                                    ELSE serviceReady
    BY DEF Schedule
  <1>0. UNCHANGED <<schedule, jobs, bindingQueue, job, running, serviceDone, doneJobs, status, busy>>
    BY DEF Schedule, serviceVars, runVars, collectVars, assignVars
  <1>2. SameRuns
    BY <1>0 DEF Schedule, Goto, SameRuns, Active, TypeOK, TypeWorker
  <1>3. CASE ~steal
    <2>1. UNCHANGED Tables BY <1>0, <1>1, <1>3 DEF Tables
    <2> QED BY <1>0, <1>2, <2>1, OffTokens
  <1>4. CASE steal
    <2>1. i \in Worker /\ t # NoService
      BY <1>4, LeastWorkerType DEF Victim, Stealable
    <2>2. /\ t \in Service /\ t \in Job /\ NoService \in Job
          /\ serviceReady \in [Worker -> Job] /\ NoShare(serviceReady)
      BY <2>1 DEF TypeOK, TypeWorker, Job, TokenInv, Tidy
    <2> DEFINE f == [serviceReady EXCEPT ![i] = NoService]
    <2>3. serviceReady' = [f EXCEPT ![w] = t] BY <1>1, <1>4
    <2>4. f \in [Worker -> Job] /\ f[w] = NoService BY <1>4, <2>1, <2>2
    <2>5. NoShare(f) /\ \A s \in Service : Holds(f, s) <=> Holds(serviceReady, s) /\ s # t
      <3>1. LET g == [serviceReady EXCEPT ![i] = NoService] IN
              /\ NoShare(g)
              /\ \A s \in Service : Holds(g, s) <=>
                   s = NoService \/ (Holds(serviceReady, s) /\ s # serviceReady[i])
        BY <2>1, <2>2, PutHas
      <3> QED BY <3>1, ConstantsAssumption
    <2>6. Holds(serviceReady, t) BY <2>1 DEF Holds
    <2> HIDE DEF f, i, t
    <2>7. /\ NoShare(serviceReady')
          /\ \A s \in Service : Holds(serviceReady', s) <=> Holds(serviceReady, s)
      <3>1. LET g == [f EXCEPT ![w] = t] IN
              /\ NoShare(g)
              /\ \A s \in Service : Holds(g, s) <=> s = t \/ (Holds(f, s) /\ s # f[w])
        BY <2>2, <2>4, <2>5, PutHas
      <3> QED BY <2>2, <2>3, <2>4, <2>5, <2>6, <3>1, ConstantsAssumption
    <2>8. Tidy' BY <1>0, <2>7 DEF TokenInv, Tidy, NoRepeat, NoShare, NoRepeats, Contains
    <2>9. ASSUME NEW s \in Service PROVE (Waits(s)' <=> Waits(s)) /\ WaitsOnce(s)'
      <3>1. InOnePlace(s) BY DEF TokenInv
      <3>2. /\ Holds(serviceReady, s)' <=> Holds(serviceReady, s)
            /\ Holds(job, s)' <=> Holds(job, s)
            /\ Contains(schedule, s)' <=> Contains(schedule, s)
            /\ Contains(jobs, s)' <=> Contains(jobs, s)
            /\ Queued(bindingQueue, s)' <=> Queued(bindingQueue, s)
        BY <1>0, <2>7 DEF Holds, Contains, Queued
      <3> QED BY <3>1, <3>2 DEF Waits, InOnePlace, WaitsOnce
    <2> QED BY <1>0, <1>2, <2>8, <2>9, WaitTokens
  <1> QED BY <1>3, <1>4

\* dispatchOutMessages is done with a finished service: it goes nowhere or back
\* to the schedule, or it is an idle one, t, that goes there (core.go:319-372).
LEMMA HandledTokens ==
  ASSUME TypeOK, TokenInv, SameRuns, Undone # {}, Handled, NEW t \in Job,
         UNCHANGED <<jobs, bindingQueue, serviceReady, job, running, serviceDone>>,
         schedule' = IF t = NoService THEN schedule ELSE Append(schedule, t),
         t \in {NoService, Current} \/ status[t] = "idle",
         t # NoService => status'[t] \in {"schedule", "dead"},
         t = Current \/ status'[Current] \in Off \cup {"dead"},
         \A s \in Service \ {Current, t} : status'[s] = status[s]
  PROVE  /\ TokenInv' /\ Kept
         /\ \A s \in Service \ {t} : s = Current => ~Placed(s)'
  <1> DEFINE i == Least(Undone)
             c == Current
  <1>1. i \in Worker /\ c \in Service /\ c = doneJobs[i]
    BY CurrentType DEF Current
  <1>2. /\ doneJobs \in [Worker -> Job] /\ NoShare(doneJobs) /\ NoService \in Job
        /\ schedule \in Seq(Service) /\ NoRepeat(schedule)
        /\ doneJobs' = [doneJobs EXCEPT ![i] = NoService]
    BY DEF TypeOK, TypeTask, Job, TokenInv, Tidy, Handled
  <1> HIDE DEF i
  <1>3. /\ NoShare(doneJobs')
        /\ \A s \in Service : Holds(doneJobs', s) <=> Holds(doneJobs, s) /\ s # c
    <2>1. LET g == [doneJobs EXCEPT ![i] = NoService] IN
            /\ NoShare(g)
            /\ \A s \in Service : Holds(g, s) <=>
                 s = NoService \/ (Holds(doneJobs, s) /\ s # doneJobs[i])
      BY <1>1, <1>2, PutHas
    <2> QED BY <1>1, <1>2, <2>1, ConstantsAssumption
  <1> HIDE DEF c
  <1>4. /\ InOnePlace(c) /\ Stage(c) /\ Holds(doneJobs, c) /\ ~Waits(c)
        /\ ~Holds(running, c) /\ ~Holds(serviceDone, c)
    BY <1>1 DEF TokenInv, InOnePlace, Ran, Holds
  <1>5. \A s \in Service : Placed(s) => status[s] # "idle"
    BY PlacedStatus
  <1>6. t # NoService => t \in Service /\ ~Waits(t) /\ ~Holds(running, t) /\ ~Ran(t)'
    <2>1. CASE t = c
      BY <1>1, <1>3, <1>4, <2>1 DEF Ran, Holds
    <2>2. CASE t # c /\ t # NoService
      <3>1. t \in Service /\ ~Placed(t) BY <1>5, <2>2 DEF Job, c
      <3> QED BY <1>3, <3>1 DEF Placed, Ran, Holds
    <2> QED BY <2>1, <2>2
  <1>7. /\ \A s \in Service : Contains(schedule', s) <=> Contains(schedule, s) \/ s = t
        /\ NoRepeat(schedule')
    <2>1. CASE t = NoService BY <1>2, <2>1, ConstantsAssumption
    <2>2. CASE t # NoService
      <3>1. ~Contains(schedule, t) BY <1>6, <2>2 DEF Waits
      <3> QED BY <1>2, <1>6, <2>2, <3>1, AppendHas
    <2> QED BY <2>1, <2>2
  <1>8. Tidy' BY <1>3, <1>7 DEF TokenInv, Tidy, NoRepeat, NoShare, NoRepeats, Contains
  <1>9. ASSUME NEW s \in Service
        PROVE  /\ Contains(schedule, s)' <=> Contains(schedule, s) \/ s = t
               /\ Contains(jobs, s)' <=> Contains(jobs, s)
               /\ Queued(bindingQueue, s)' <=> Queued(bindingQueue, s)
               /\ Holds(serviceReady, s)' <=> Holds(serviceReady, s)
               /\ Holds(job, s)' <=> Holds(job, s)
               /\ Holds(running, s)' <=> Holds(running, s)
               /\ Holds(serviceDone, s)' <=> Holds(serviceDone, s)
               /\ Holds(doneJobs, s)' <=> Holds(doneJobs, s) /\ s # c
    BY <1>3, <1>7 DEF Contains, Queued, Holds
  <1>10. ASSUME NEW s \in Service
         PROVE  /\ (InOnePlace(s) /\ Stage(s))'
                /\ Placed(s)' => Placed(s) \/ status[s] = "idle"
                /\ Placed(s) => Placed(s)' \/ s = c
    <2>0. InOnePlace(s) /\ Stage(s) BY DEF TokenInv
    <2>1. CASE s = t
      <3>1. /\ ~Waits(s) /\ ~Holds(running, s) /\ ~Holds(serviceDone, s)'
            /\ ~Holds(doneJobs, s)' /\ status'[s] \in {"schedule", "dead"}
        BY <1>6, <1>9, <2>1, ConstantsAssumption DEF Ran, Holds
      <3>2. Placed(s) \/ status[s] = "idle"
        BY <1>4, <2>1, ConstantsAssumption DEF c, Placed, Ran
      <3>3. Placed(s)' BY <1>9, <2>1 DEF Placed, Waits
      <3> QED BY <1>9, <2>1, <3>1, <3>2, <3>3 DEF InOnePlace, WaitsOnce, Stage, Waits, Ran
    <2>2. CASE s # t /\ s = c
      <3>1. status'[s] \in Off \cup {"dead"} BY <2>2 DEF c
      <3> QED BY <1>4, <1>9, <2>2, <3>1
          DEF InOnePlace, WaitsOnce, Stage, Waits, Ran, Off, Placed
    <2>3. CASE s # t /\ s # c
      <3>1. status'[s] = status[s] BY <2>3 DEF c
      <3> QED BY <1>9, <2>0, <2>3, <3>1
          DEF InOnePlace, WaitsOnce, Stage, Waits, Ran, Placed
    <2> QED BY <2>1, <2>2, <2>3
  <1>11. ASSUME NEW w \in Worker PROVE RunStage(w)'
    <2>1. running[w] \in Service => running[w] # c /\ running[w] # t
      BY <1>4, <1>6, ConstantsAssumption DEF Holds
    <2>2. running[w] \in Service => status'[running[w]] = status[running[w]]
      BY <2>1 DEF c
    <2> QED BY <2>2 DEF TokenInv, RunStage, SameRuns
  <1>12. ASSUME NEW s \in Service \ {t}, s = c PROVE ~Placed(s)'
    BY <1>4, <1>9, <1>12 DEF Placed, Waits, Ran
  <1>13. TokenInv' /\ Kept BY <1>8, <1>10, <1>11 DEF TokenInv, Kept, Settled, c
  <1> QED BY <1>12, <1>13 DEF c

LEMMA DispatchSignalTokens ==
  ASSUME TypeOK, TokenInv, NEW w \in Worker, DispatchSignal(w)
  PROVE  /\ TokenInv' /\ Kept
         /\ StatusOf(Root) # "dead" /\ ~Full(Root) =>
              \A s \in Service : s = Current => ~Placed(s)'
  <1>1. /\ Undone # {} /\ Handled /\ Current \in Service /\ Current \in Job
        /\ NoService \in Job /\ Root \in Service /\ Root \in Job
        /\ status \in [Service -> Status]
    BY CurrentType, ConstantsAssumption
       DEF DispatchSignal, Dispatching, Job, TypeOK, TypeService
  <1>2. /\ UNCHANGED <<jobs, bindingQueue, serviceReady, job, running, serviceDone>>
        /\ SameRuns
    BY DEF DispatchSignal, runVars, readyVars, assignVars, SameRuns
  <1>3. status[Current] = "dead"
    <2>1. Ran(Current) BY CurrentType, <1>1 DEF Ran, Holds, Current
    <2>2. status[Current] \in {"done", "dead"} BY <1>1, <2>1 DEF TokenInv, Stage
    <2> QED BY <2>2 DEF DispatchSignal, StatusOf, Vacant
  <1>4. Freed \in Off BY DEF Freed, Off
  <1>5. CASE StatusOf(Root) = "dead"
    <2>1. status' = [status EXCEPT ![Current] = Freed] /\ schedule' = schedule
      BY <1>5 DEF DispatchSignal, ResetSlot
    <2>2. status'[Current] \in Off /\ \A s \in Service \ {Current} : status'[s] = status[s]
      BY <1>1, <1>4, <2>1
    <2> QED BY <1>1, <1>2, <2>1, <2>2, ConstantsAssumption, HandledTokens
  <1>6. CASE StatusOf(Root) # "dead" /\ Full(Root)
    <2>1. schedule' = Append(schedule, Current) /\ status' = status
      BY <1>6 DEF DispatchSignal
    <2>2. /\ Current # NoService /\ status'[Current] = "dead"
          /\ \A s \in Service \ {Current} : status'[s] = status[s]
      BY <1>1, <1>3, <2>1, ConstantsAssumption
    <2>3. TokenInv' /\ Kept BY <1>1, <1>2, <2>1, <2>2, HandledTokens
    <2> QED BY <1>6, <2>3
  <1>7. CASE StatusOf(Root) # "dead" /\ ~Full(Root)
    <2>1. CheckMessageTo(Root) BY <1>7 DEF DispatchSignal
    <2>2. CASE StatusOf(Root) = "idle"
      <3>1. status[Root] = "idle" /\ Root # Current
        BY <1>3, <2>2 DEF StatusOf, Vacant
      <3>2. /\ schedule' = Append(schedule, Root) /\ status'[Root] = "schedule"
            /\ \A s \in Service \ {Root} : status'[s] = status[s]
        BY <1>1, <2>1, <2>2 DEF CheckMessageTo
      <3> QED BY <1>1, <1>2, <1>3, <3>1, <3>2, ConstantsAssumption, HandledTokens
    <2>3. CASE StatusOf(Root) # "idle"
      <3>1. schedule' = schedule /\ status' = status
        BY <2>1, <2>3 DEF CheckMessageTo
      <3> QED BY <1>1, <1>2, <1>3, <3>1, ConstantsAssumption, HandledTokens
    <2> QED BY <2>2, <2>3
  <1> QED BY <1>5, <1>6, <1>7

LEMMA SettleTokens ==
  ASSUME TypeOK, TokenInv, NEW w \in Worker, Settle(w) PROVE TokenInv' /\ Kept
  <1> DEFINE idler == ~HasMessage(Current) /\ SockeventOf(Current) >= 0
             back == HasMessage(Current) \/ idler
             t == IF back THEN Current ELSE NoService
  <1>1. /\ Undone # {} /\ Handled /\ Current \in Service
        /\ status \in [Service -> Status]
    BY CurrentType DEF Settle, Dispatching, TypeOK, TypeService
  <1>2. /\ UNCHANGED <<jobs, bindingQueue, serviceReady, job, running, serviceDone>>
        /\ SameRuns
    BY DEF Settle, runVars, readyVars, assignVars, SameRuns
  <1>3. /\ status' = [status EXCEPT ![Current] = IF back THEN "schedule" ELSE "idle"]
        /\ schedule' = IF back THEN Append(schedule, Current) ELSE schedule
    BY DEF Settle
  <1> HIDE DEF back
  <1>4. /\ t \in Job /\ t \in {NoService, Current}
        /\ schedule' = IF t = NoService THEN schedule ELSE Append(schedule, t)
        /\ t # NoService => status'[t] \in {"schedule", "dead"}
        /\ t = Current \/ status'[Current] \in Off \cup {"dead"}
        /\ \A s \in Service \ {Current, t} : status'[s] = status[s]
    BY <1>1, <1>3, ConstantsAssumption DEF Job, Off
  <1> QED BY <1>1, <1>2, <1>4, HandledTokens

\* A step that only does bookkeeping moves no service.
LEMMA QuietTokens ==
  ASSUME TypeOK, TokenInv, NEW w \in Worker, UNCHANGED <<Tables, status, busy>>,
         \E l : Goto(w, l) /\ (l \in Active <=> pc[w] \in Active)
  PROVE  TokenInv' /\ Kept
  <1>1. SameRuns BY DEF Goto, SameRuns, TypeOK, TypeWorker
  <1> QED BY <1>1, OffTokens

\* A worker is through with the service it has run.
Leaves(w) == /\ pc[w] \in Active /\ Goto(w, "complete")
             /\ busy' = [busy EXCEPT ![w] = FALSE] /\ UNCHANGED Tables

\* A service that has run is done or dead.
LEMMA RunTokens ==
  ASSUME TypeOK, TokenInv, PcInv, NEW w \in Worker, NEW st, Leaves(w),
         st \in {"done", "dead"}, status' = [status EXCEPT ![running[w]] = st]
  PROVE  TokenInv' /\ Kept
  <1>2. /\ pc'[w] \notin Active
        /\ \A v \in Worker \ {w} : pc'[v] = pc[v] /\ busy'[v] = busy[v]
    BY DEF Leaves, Goto, Active, TypeOK, TypeWorker
  <1>3. running[w] \in Service BY DEF PcInv, Leaves
  <1>4. /\ status'[running[w]] \in {"done", "dead"}
        /\ \A s \in Service \ {running[w]} : status'[s] = status[s]
    BY <1>3 DEF TypeOK, TypeService
  <1> QED BY <1>2, <1>4, FinishTokens DEF Leaves

\* ... and root may, in one step, initialise or close another service.
LEMMA RunOnTokens ==
  ASSUME TypeOK, TokenInv, PcInv, NEW w \in Worker, NEW c \in Service, NEW st, Leaves(w),
         ~Placed(c), st \in Off, status' = [status EXCEPT ![running[w]] = "done", ![c] = st]
  PROVE  TokenInv' /\ Kept
  <1>2. /\ pc'[w] \notin Active
        /\ \A v \in Worker \ {w} : pc'[v] = pc[v] /\ busy'[v] = busy[v]
    BY DEF Leaves, Goto, Active, TypeOK, TypeWorker
  <1>3. running[w] \in Service /\ Placed(running[w]) /\ c # running[w]
    BY DEF PcInv, Leaves, Placed, Holds
  <1>4. /\ status'[running[w]] = "done"
        /\ \A s \in Service \ {running[w]} : status'[s] = status[s] \/ (s = c /\ status'[s] = st)
    BY <1>3 DEF TypeOK, TypeService
  <1> QED BY <1>2, <1>4, FinishTokens DEF Leaves

\* What root is told of a service is at the head of its inbox.
LEMMA SignalledService ==
  ASSUME TypeOK, MailInv, NEW s \in Service, Signalled(s)
  PROVE  LET c == Head(inbox[s]).about IN
           /\ s = Root /\ inbox[Root] # <<>> /\ inbox[Root] \in Seq(Message)
           /\ c \in Service \ {Root} /\ status[c] = "dead" /\ ~Placed(c)
  <1> DEFINE q == inbox[Root]
  <1>1. s = Root /\ q # <<>> /\ q \in Seq(Message) /\ Head(q).typ = "signal"
    BY DEF Signalled, TypeOK, TypeService
  <1>2. Head(q) = q[1] /\ 1 \in DOMAIN q /\ Head(q) \in Message
    BY <1>1, HeadTailProperties
  <1>3. Head(q).about \in Service \cup {NoService} /\ Reports(q, Head(q).about)
    BY <1>1, <1>2 DEF Reports, Message
  <1> QED BY <1>1, <1>3 DEF MailInv

LEMMA TokenNext ==
  ASSUME TypeOK, Addressed, LockExclusive, PcInv, TokenInv, MailInv, [Next]_vars
  PROVE  TokenInv' /\ Kept
<1> USE DEF mailVars, bindVars, serviceVars, runVars, readyVars, sleepVars,
        eventVars, externalVars, collectVars, assignVars
<1>0. /\ Freed \in Off /\ "uninitialized" \in Off /\ "idle" \in Off
      /\ Undone # {} => Current \in Service
      /\ Root \in Service
  BY CurrentType, ConstantsAssumption DEF Freed, Off
<1>1. CASE UNCHANGED vars \/ ExternalSend
  BY <1>1, OffTokens DEF vars, ExternalSend, Tables, SameRuns
<1>2. ASSUME NEW w \in Worker, Step(w)
      PROVE  TokenInv' /\ Kept
  <2>1. CASE GetJob(w)
    BY <2>1, GetJobTokens
  <2>2. CASE NoJob(w)
    BY <2>2, QuietTokens DEF NoJob, Tables, Active
  <2>3. CASE Rest(w)
    BY <2>3, QuietTokens DEF Rest, Tables, Active
  <2>4. CASE Sleep(w)
    BY <2>4, QuietTokens DEF Sleep, Tables, Active
  <2>5. CASE Park(w)
    BY <2>5, QuietTokens DEF Park, Tables, Active
  <2>6. CASE Wait(w)
    BY <2>6, QuietTokens DEF Wait, Tables, Active
  <2>7. CASE Wakened(w)
    BY <2>7, QuietTokens DEF Wakened, Tables, Active
  <2>8. CASE Quit(w)
    BY <2>8, QuietTokens DEF Quit, Tables, Active
  <2>9. CASE AcquireScheduler(w)
    BY <2>9, QuietTokens DEF AcquireScheduler, Acquire, DispatchEntry, Tables, Active
  <2>10. CASE ReleaseScheduler(w)
    BY <2>10, QuietTokens DEF ReleaseScheduler, Tables, Active
  <2>11. CASE ExternalPush(w)
    BY <2>11, QuietTokens DEF ExternalPush, Tables, Active
  <2>12. CASE ExternalDone(w)
    <3>1. SameRuns BY <2>12 DEF ExternalDone, Goto, SameRuns, Active, TypeOK, TypeWorker
    <3>2. CASE sent BY <1>0, <2>12, <3>1, <3>2, CheckTokens DEF ExternalDone
    <3>3. CASE ~sent BY <2>12, <3>1, <3>3, OffTokens DEF ExternalDone, Tables
    <3> QED BY <3>2, <3>3
  <2>13. CASE CollectDoneJobs(w)
    BY <2>13, CollectTokens
  <2>14. CASE DispatchSignal(w)
    BY <2>14, DispatchSignalTokens
  <2>15. CASE ScheduleNew(w)
    <3>1. UNCHANGED Tables /\ SameRuns BY <2>15 DEF ScheduleNew, Tables, SameRuns
    <3>2. CASE UNCHANGED status BY <3>1, <3>2, OffTokens
    <3>3. CASE \E s \in FreeSlot : ResetSlot(s, "uninitialized")
      <4>1. PICK f \in FreeSlot : ResetSlot(f, "uninitialized") BY <3>3
      <4>2. status[f] = "none" /\ f \in Service BY DEF FreeSlot
      <4>3. ~Placed(f) BY <4>2, PlacedStatus
      <4>4. \A s \in Service : status'[s] = status[s] \/ (~Placed(s) /\ status'[s] \in Off)
        BY <1>0, <4>1, <4>2, <4>3 DEF ResetSlot, TypeOK, TypeService
      <4> QED BY <3>1, <4>4, OffTokens
    <3> QED BY <2>15, <3>2, <3>3 DEF ScheduleNew
  <2>16. CASE ScheduleDel(w)
    <3> DEFINE c == out[Current].about
    <3>1. UNCHANGED Tables /\ SameRuns BY <2>16 DEF ScheduleDel, Tables, SameRuns
    <3>2. c \in Service /\ Vacant(c) BY <1>0, <2>16 DEF ScheduleDel, Dispatching, MailInv
    <3>3. ~Placed(c) BY <3>2, PlacedStatus DEF Vacant
    <3>4. \A s \in Service : status'[s] = status[s] \/ (~Placed(s) /\ status'[s] \in Off)
      BY <1>0, <2>16, <3>2, <3>3 DEF ScheduleDel, ResetSlot, TypeOK, TypeService
    <3> QED BY <3>1, <3>4, OffTokens
  <2>17. CASE DispatchToDead(w)
    <3>1. SameRuns BY <2>17 DEF DispatchToDead, SameRuns
    <3>2. out[Current].to \in Service
      BY <1>0, <2>17 DEF DispatchToDead, Dispatching, Addressed
    <3> QED BY <2>17, <3>1, <3>2, CheckTokens DEF DispatchToDead
  <2>18. CASE DispatchOutMessage(w)
    BY <2>18, QuietTokens DEF DispatchOutMessage, Dispatching, Tables, Active
  <2>19. CASE PushMessage(w)
    <3>1. SameRuns BY <2>19 DEF PushMessage, Goto, SameRuns, Active, TypeOK, TypeWorker
    <3>2. out[Current].to \in Service BY <1>0, <2>19 DEF PushMessage, Addressed
    <3> QED BY <2>19, <3>1, <3>2, CheckTokens DEF PushMessage
  <2>20. CASE Settle(w)
    BY <2>20, SettleTokens
  <2>21. CASE GetPendingJobs(w)
    BY <2>21, GetPendingJobsTokens
  <2>22. CASE CountFreeSlots(w)
    BY <2>22, CountFreeSlotsTokens
  <2>23. CASE PrepareUnbound(w)
    BY <2>23, PrepareUnboundTokens
  <2>24. CASE PrepareBound(w)
    BY <2>24, PrepareBoundTokens
  <2>25. CASE PrepareDone(w)
    BY <2>25, QuietTokens DEF PrepareDone, Tables, Active
  <2>26. CASE AssignPrepare(w)
    BY <2>26, AssignPrepareTokens
  <2>27. CASE TriggerBlockedWorkers(w)
    BY <2>27, QuietTokens DEF TriggerBlockedWorkers, Tables, Active
  <2>28. CASE Schedule(w)
    BY <2>28, ScheduleTokens
  <2>29. CASE Start(w)
    BY <2>29, StartTokens
  <2>30. CASE Yield(w)
    BY <2>30, RunTokens DEF Yield, AtWill, Resumes, Active, Leaves, Finish, Tables
  <2>31. CASE Spawn(w)
    BY <2>31, RunTokens DEF Spawn, AtWill, Resumes, Active, Leaves, Finish, Tables
  <2>32. CASE InitServiceFails(w)
    <3>1. running[w] = Root /\ status[bounce[Root].to] = "uninitialized"
          /\ bounce[Root].to \in Service
      BY <1>0, <2>32 DEF InitServiceFails, Spawned, MailInv, Addressed
    <3>2. ~Placed(bounce[Root].to) BY <3>1, PlacedStatus
    <3> QED BY <1>0, <2>32, <3>1, <3>2, RunOnTokens DEF InitServiceFails, Resumes, Active, Leaves, Finish, Tables
  <2>33. CASE CloseService(w)
    <3> DEFINE s == running[w]
               c == Head(inbox[s]).about
    <3>1. s \in Service /\ Signalled(s)
      BY <2>33 DEF CloseService, Resumes, PcInv, Active
    <3>2. c \in Service /\ ~Placed(c) BY <3>1, SignalledService
    <3> QED BY <1>0, <2>33, <3>2, RunOnTokens DEF CloseService, Resumes, Active, Leaves, Finish, Tables
  <2>34. CASE QuitService(w)
    BY <2>34, RunTokens DEF QuitService, AtWill, Resumes, Active, Leaves, Finish, Tables
  <2>35. CASE QuitRoot(w)
    <3>1. /\ UNCHANGED Tables /\ running[w] = Root /\ pc[w] \in Active /\ pc'[w] \notin Active
          /\ \A v \in Worker \ {w} : pc'[v] = pc[v] /\ busy'[v] = busy[v]
      BY <2>35 DEF QuitRoot, AtWill, Resumes, Goto, Active, Tables, TypeOK, TypeWorker
    <3>2. status'[Root] = "dead" /\ \A s \in Service \ {Root} : status'[s] = status[s]
      BY <1>0, <2>35 DEF QuitRoot, TypeOK, TypeService
    <3> QED BY <3>1, <3>2, FinishTokens
  <2>36. CASE EventInit(w)
    BY <2>36, RunTokens DEF EventInit, AtWill, Resumes, Active, Leaves, Finish, Tables
  <2>37. CASE EventWait(w)
    BY <2>37, QuietTokens DEF EventWait, AtWill, Resumes, Tables, Active
  <2>38. CASE EventWaited(w)
    BY <2>38, RunTokens DEF EventWaited, Active, Leaves, Finish, Tables
  <2>39. CASE Complete(w)
    BY <2>39, CompleteTokens
  <2>40. CASE CompleteAcquire(w)
    BY <2>40, QuietTokens DEF CompleteAcquire, Acquire, Tables, Active
  <2>41. CASE Drain(w)
    BY <2>41, QuietTokens DEF Drain, DispatchEntry, Tables, Active
  <2>42. CASE \E t \in Service : Send(w, t)
    BY <2>42, RunTokens DEF Send, AtWill, Resumes, Active, Leaves, Finish, Tables
  <2>43. CASE \E x \in Worker \cup {threadNone} : InitService(w, x)
    <3>1. running[w] = Root /\ status[bounce[Root].to] = "uninitialized"
          /\ bounce[Root].to \in Service
      BY <1>0, <2>43 DEF InitService, Spawned, MailInv, Addressed
    <3>2. ~Placed(bounce[Root].to) BY <3>1, PlacedStatus
    <3> QED BY <1>0, <2>43, <3>1, <3>2, RunOnTokens DEF InitService, Resumes, Active, Leaves, Finish, Tables
  <2>44. CASE \E x \in Worker \cup {threadNone} : Bind(w, x)
    BY <2>44, RunTokens DEF Bind, AtWill, Resumes, Active, Leaves, Finish, Tables
  <2> QED BY <1>2, <2>1, <2>2, <2>3, <2>4, <2>5, <2>6, <2>7, <2>8, <2>9, <2>10, <2>11, <2>12, <2>13, <2>14, <2>15, <2>16, <2>17, <2>18, <2>19, <2>20, <2>21, <2>22, <2>23, <2>24, <2>25, <2>26, <2>27, <2>28, <2>29, <2>30, <2>31, <2>32, <2>33, <2>34, <2>35, <2>36, <2>37, <2>38, <2>39, <2>40, <2>41, <2>42, <2>43, <2>44
       DEF Step, Lull, Dispatch, DispatchOut, Run
<1> QED BY <1>1, <1>2 DEF Next

----------------------------------------------------------------------------
(* What root is told of the services *)

LEMMA ReportsAppend ==
  ASSUME NEW q \in Seq(Message), NEW m \in Message
  PROVE  /\ \A c : Reports(Append(q, m), c) <=>
                     Reports(q, c) \/ (m.typ = "signal" /\ c = m.about)
         /\ OnceEach(q) /\ (m.typ = "signal" => ~Reports(q, m.about)) => OnceEach(Append(q, m))
  <1> DEFINE n == Len(q)
             r == Append(q, m)
  <1>1. /\ n \in Nat /\ DOMAIN q = 1 .. n /\ DOMAIN r = 1 .. n + 1
        /\ r[n + 1] = m
        /\ \A i \in 1 .. n : r[i] = q[i]
    BY AppendProperties
  <1> HIDE DEF n, r
  <1>2. /\ \A i \in 1 .. n + 1 : i \in 1 .. n \/ i = n + 1
        /\ n + 1 \in 1 .. n + 1
        /\ \A i \in 1 .. n : i \in 1 .. n + 1
    BY <1>1
  <1>3. \A c : Reports(r, c) <=> Reports(q, c) \/ (m.typ = "signal" /\ c = m.about)
    BY <1>1, <1>2 DEF Reports
  <1>4. OnceEach(q) /\ (m.typ = "signal" => ~Reports(q, m.about)) => OnceEach(r)
    BY <1>1, <1>2 DEF Reports, OnceEach
  <1> QED BY <1>3, <1>4 DEF r

LEMMA ReportsTail ==
  ASSUME NEW q \in Seq(Message), q # <<>>
  PROVE  /\ \A c : Reports(Tail(q), c) => Reports(q, c)
         /\ OnceEach(q) => OnceEach(Tail(q)) /\ (Head(q).typ = "signal" => ~Reports(Tail(q), Head(q).about))
  <1> DEFINE n == Len(q)
             r == Tail(q)
  <1>1. /\ n \in Nat /\ n >= 1 /\ DOMAIN q = 1 .. n
        /\ Len(r) = n - 1 /\ r \in Seq(Message) /\ Head(q) = q[1]
        /\ \A i \in 1 .. n - 1 : r[i] = q[i + 1]
    BY HeadTailProperties
  <1>2. DOMAIN r = 1 .. n - 1 BY <1>1
  <1> HIDE DEF n, r
  <1>3. 1 \in 1 .. n /\ \A i \in 1 .. n - 1 : i + 1 \in 1 .. n /\ i + 1 # 1 BY <1>1
  <1>4. \A c : Reports(r, c) => Reports(q, c) BY <1>1, <1>2, <1>3 DEF Reports
  <1>5. ASSUME OnceEach(q) PROVE OnceEach(r)
    <2> SUFFICES ASSUME NEW i \in 1 .. n - 1, NEW j \in 1 .. n - 1, r[i].typ = "signal",
                        r[j].typ = "signal", r[i].about = r[j].about
                 PROVE  i = j
      BY <1>2 DEF OnceEach
    <2>1. i + 1 = j + 1 BY <1>1, <1>3, <1>5 DEF OnceEach
    <2> QED BY <2>1
  <1>6. ASSUME OnceEach(q), Head(q).typ = "signal" PROVE ~Reports(r, Head(q).about)
    BY <1>1, <1>2, <1>3, <1>6 DEF OnceEach, Reports
  <1> QED BY <1>4, <1>5, <1>6 DEF r

\* Root's inbox has no new signal.
SameNews == /\ OnceEach(inbox'[Root])
            /\ \A c : Reports(inbox'[Root], c) => Reports(inbox[Root], c)
SameAnswer == receipt'[Root] = "response" =>
                receipt[Root] = "response" /\ bounce'[Root] = bounce[Root]

LEMMA ReceiveMail ==
  ASSUME TypeOK, MailInv, NEW s \in Service, Receive(s)
  PROVE  SameNews /\ SameAnswer
  <1>1. inbox \in [Service -> Seq(Message)] /\ Root \in Service
        /\ receipt \in [Service -> Receipt] /\ bounce \in [Service -> Message]
    BY ConstantsAssumption DEF TypeOK, TypeService
  <1>2. \/ inbox'[Root] = inbox[Root]
        \/ inbox[Root] # <<>> /\ inbox'[Root] = Tail(inbox[Root])
    BY <1>1 DEF Receive
  <1>3. OnceEach(inbox[Root]) BY DEF MailInv
  <1>4. SameNews
    <2>1. CASE inbox'[Root] = inbox[Root] BY <1>3, <2>1 DEF SameNews
    <2>2. CASE inbox[Root] # <<>> /\ inbox'[Root] = Tail(inbox[Root])
      BY <1>1, <1>3, <2>2, ReportsTail DEF SameNews
    <2> QED BY <1>2, <2>1, <2>2
  <1>5. SameAnswer BY <1>1 DEF Receive, SameAnswer
  <1> QED BY <1>4, <1>5

\* A message that is no signal is put into an inbox.
LEMMA PushMail ==
  ASSUME TypeOK, MailInv, NEW s \in Service, NEW m \in Message, m.typ # "signal",
         inbox' = [inbox EXCEPT ![s] = Append(@, m)]
  PROVE  SameNews
  <1>1. inbox \in [Service -> Seq(Message)] /\ Root \in Service
    BY ConstantsAssumption DEF TypeOK, TypeService
  <1>2. inbox'[Root] = inbox[Root] \/ inbox'[Root] = Append(inbox[Root], m)
    BY <1>1
  <1> QED BY <1>1, <1>2, ReportsAppend DEF SameNews, MailInv

\* The status of s changes, but it has a slot before and after.
Goes(s) == /\ status[s] \in {"idle", "schedule", "running", "done"}
           /\ status'[s] \in {"idle", "schedule", "running", "done", "dead"}
\* The slot of s, of which root is neither told nor to be told, changes.
Slot(s) == /\ s # Root /\ ~Reports(inbox'[Root], s) /\ out'[s].typ # "signal"
           /\ receipt'[Root] = "response" => status[s] # "uninitialized"
           /\ Vacant(s) => out'[Root].typ # "del"

LEMMA MailKept ==
  ASSUME TypeOK, Addressed, MailInv, Kept, SameNews, SameAnswer,
         \A s \in Service : status'[s] = status[s] \/ Goes(s) \/ Slot(s),
         \A s \in Service :
            \/ out'[s] = out[s] \/ out'[s].typ \notin {"signal", "del"}
            \/ out'[s].typ = "signal" /\ out'[s].about = s /\ s # Root /\ status'[s] = "dead"
            \/ /\ out'[s].typ = "del" /\ s = Root /\ out'[s].about \in Service
               /\ status'[out'[s].about] \in {"none", "retired"}
  PROVE  MailInv'
  <1>0. Root \in Service BY ConstantsAssumption
  <1>1. (~Vacant(Root) /\ status[Root] # "uninitialized")'
    BY <1>0 DEF MailInv, Vacant, Goes, Slot
  <1>2. ASSUME NEW c \in Service \cup {NoService}, Reports(inbox'[Root], c)
        PROVE  c \in Service \ {Root} /\ status'[c] = "dead" /\ ~Placed(c)'
    <2>1. c \in Service \ {Root} /\ status[c] = "dead" /\ ~Placed(c)
      BY <1>2 DEF SameNews, MailInv
    <2>2. status'[c] = status[c] BY <1>2, <2>1 DEF Goes, Slot
    <2> QED BY <2>1, <2>2 DEF Kept
  <1>3. ASSUME NEW s \in Service, out'[s].typ = "signal"
        PROVE  out'[s].about = s /\ s # Root /\ status'[s] = "dead"
    BY <1>3 DEF MailInv, Goes, Slot
  <1>4. ASSUME NEW s \in Service, out'[s].typ = "del"
        PROVE  /\ s = Root /\ out'[s].about \in Service
               /\ status'[out'[s].about] \in {"none", "retired"}
    <2>1. CASE out'[s] = out[s]
      <3>1. s = Root /\ out[s].about \in Service /\ Vacant(out[s].about)
        BY <1>4, <2>1 DEF MailInv
      <3>2. status'[out[s].about] = status[out[s].about]
        BY <1>4, <3>1 DEF Goes, Slot, Vacant
      <3> QED BY <2>1, <3>1, <3>2 DEF Vacant
    <2> QED BY <1>4, <2>1
  <1>5. receipt'[Root] = "response" => status'[bounce'[Root].to] = "uninitialized"
    <2> SUFFICES ASSUME receipt'[Root] = "response"
                 PROVE  status'[bounce[Root].to] = "uninitialized"
      BY DEF SameAnswer
    <2>1. bounce[Root].to \in Service /\ status[bounce[Root].to] = "uninitialized"
      BY <1>0 DEF SameAnswer, MailInv, Addressed
    <2> QED BY <2>1 DEF Goes, Slot
  <1> QED BY <1>1, <1>2, <1>3, <1>4, <1>5 DEF MailInv, SameNews, Vacant

\* checkMessageTo schedules an idle service, if anything.
LEMMA CheckStatus ==
  ASSUME TypeOK, NEW t \in Service, CheckMessageTo(t)
  PROVE  \A s \in Service : status'[s] = status[s] \/ Goes(s)
  BY DEF CheckMessageTo, StatusOf, Vacant, Goes, TypeOK, TypeService

LEMMA QuietMail ==
  ASSUME TypeOK, Addressed, MailInv, Kept, UNCHANGED <<status, inbox, out, receipt, bounce>>
  PROVE  MailInv'
  <1>1. SameNews /\ SameAnswer BY DEF SameNews, SameAnswer, MailInv
  <1> QED BY <1>1, MailKept

LEMMA RunMail ==
  ASSUME TypeOK, Addressed, PcInv, TokenInv, MailInv, Kept, NEW w \in Worker,
         pc[w] \in Active, NEW st \in {"done", "dead"}, Receive(running[w]),
         status' = [status EXCEPT ![running[w]] = st],
         \A s \in Service : out'[s] = out[s] \/ out'[s].typ \notin {"signal", "del"}
                            \/ (s # Root /\ st = "dead" /\ s = running[w]
                                /\ out'[s].typ = "signal" /\ out'[s].about = s)
  PROVE  MailInv'
  <1>1. running[w] \in Service /\ status[running[w]] = "running"
    BY DEF PcInv, TokenInv, RunStage
  <1>2. SameNews /\ SameAnswer BY <1>1, ReceiveMail
  <1>3. \A s \in Service : status'[s] = status[s] \/ Goes(s)
    BY <1>1 DEF Goes, TypeOK, TypeService
  <1>4. status'[running[w]] = st BY <1>1 DEF TypeOK, TypeService
  <1> QED BY <1>2, <1>3, <1>4, MailKept

LEMMA DispatchSignalMail ==
  ASSUME TypeOK, Addressed, TokenInv, MailInv, NEW w \in Worker, DispatchSignal(w)
  PROVE  MailInv'
  <1> SUFFICES ASSUME NEW c \in Service, c = Current PROVE MailInv'
    BY CurrentType DEF DispatchSignal, Dispatching
  <1>0. /\ Kept
        /\ StatusOf(Root) # "dead" /\ ~Full(Root) => ~Placed(c)'
    BY DispatchSignalTokens
  <1>1. /\ Root \in Service /\ NoMessage.typ = "nil"
        /\ inbox \in [Service -> Seq(Message)] /\ out \in [Service -> Message]
        /\ status \in [Service -> Status]
    BY NoMessageType, ConstantsAssumption DEF TypeOK, TypeService
  <1>2. /\ out[c].typ = "signal" /\ out[c].about = c /\ c # Root /\ status[c] = "dead"
        /\ ~Reports(inbox[Root], c)
    <2>1. Placed(c)
      BY CurrentType DEF DispatchSignal, Dispatching, Placed, Ran, Holds, Current
    <2> QED BY <1>1, <2>1 DEF DispatchSignal, MailInv
  <1>3. out' = [out EXCEPT ![c] = NoMessage] BY DEF DispatchSignal
  <1>4. \A s \in Service : out'[s] = out[s] \/ out'[s].typ = "nil"
    BY <1>1, <1>3
  <1>5. CASE StatusOf(Root) = "dead"
    <2>1. /\ status' = [status EXCEPT ![c] = Freed] /\ inbox' = [inbox EXCEPT ![c] = <<>>]
          /\ receipt' = [receipt EXCEPT ![c] = "none"]
          /\ bounce' = [bounce EXCEPT ![c] = NoMessage]
      BY <1>5 DEF DispatchSignal, ResetSlot
    <2>2. /\ inbox'[Root] = inbox[Root] /\ receipt'[Root] = receipt[Root]
          /\ bounce'[Root] = bounce[Root]
      BY <1>1, <1>2, <2>1 DEF TypeOK, TypeService
    <2>3. SameNews /\ SameAnswer BY <2>2 DEF SameNews, SameAnswer, MailInv
    <2>4. Slot(c) BY <1>1, <1>2, <1>3, <2>2 DEF Slot, Vacant
    <2>5. \A s \in Service : status'[s] = status[s] \/ Slot(s)
      BY <2>1, <2>4 DEF TypeOK, TypeService
    <2> QED BY <1>0, <1>4, <2>3, <2>5, MailKept
  <1>6. CASE StatusOf(Root) # "dead" /\ Full(Root)
    <2>1. UNCHANGED <<status, inbox, receipt, bounce>> BY <1>6 DEF DispatchSignal
    <2>2. SameNews /\ SameAnswer BY <2>1 DEF SameNews, SameAnswer, MailInv
    <2> QED BY <1>0, <1>4, <2>1, <2>2, MailKept
  <1>7. CASE StatusOf(Root) # "dead" /\ ~Full(Root)
    <2>1. /\ inbox' = [inbox EXCEPT ![Root] = Append(@, out[c])]
          /\ CheckMessageTo(Root) /\ UNCHANGED <<receipt, bounce>>
      BY <1>7 DEF DispatchSignal
    <2>2. inbox'[Root] = Append(inbox[Root], out[c]) BY <1>1, <2>1
    <2>3. OnceEach(inbox[Root]) BY DEF MailInv
    <2>4. /\ OnceEach(inbox'[Root])
          /\ \A d : Reports(inbox'[Root], d) <=> Reports(inbox[Root], d) \/ d = c
      BY <1>1, <1>2, <2>2, <2>3, ReportsAppend
    <2>5. \A s \in Service : status'[s] = status[s] \/ Goes(s) BY <1>1, <2>1, CheckStatus
    <2>6. (~Vacant(Root) /\ status[Root] # "uninitialized")'
      BY <1>1, <2>5 DEF MailInv, Vacant, Goes
    <2>7. ASSUME NEW d \in Service \cup {NoService}, Reports(inbox'[Root], d)
          PROVE  d \in Service \ {Root} /\ status'[d] = "dead" /\ ~Placed(d)'
      <3>1. d \in Service \ {Root} /\ status[d] = "dead"
        BY <1>2, <2>4, <2>7 DEF MailInv
      <3>2. status'[d] = "dead" BY <2>5, <3>1 DEF Goes
      <3>3. CASE d = c BY <1>0, <1>7, <3>1, <3>2, <3>3
      <3>4. CASE d # c
        <4>1. ~Placed(d) BY <2>4, <2>7, <3>4 DEF MailInv
        <4> QED BY <1>0, <3>1, <3>2, <4>1 DEF Kept
      <3> QED BY <3>3, <3>4
    <2>8. ASSUME NEW s \in Service, out'[s].typ \in {"signal", "del"}
          PROVE  /\ out'[s].typ = "signal" => out'[s].about = s /\ s # Root /\ status'[s] = "dead"
                 /\ out'[s].typ = "del" => /\ s = Root /\ out'[s].about \in Service
                                           /\ status'[out'[s].about] \in {"none", "retired"}
      BY <1>4, <2>5, <2>8 DEF MailInv, Goes, Vacant
    <2>9. receipt'[Root] = "response" => status'[bounce'[Root].to] = "uninitialized"
      BY <1>1, <2>1, <2>5 DEF MailInv, Addressed, Goes
    <2> QED BY <2>4, <2>6, <2>7, <2>8, <2>9 DEF MailInv, Vacant
  <1> QED BY <1>5, <1>6, <1>7

LEMMA ScheduleNewMail ==
  ASSUME TypeOK, Addressed, MailInv, Kept, NEW w \in Worker, ScheduleNew(w)
  PROVE  MailInv'
  <1> SUFFICES ASSUME NEW c \in Service, c = Current PROVE MailInv'
    BY CurrentType DEF ScheduleNew, Dispatching
  <1>1. /\ Root \in Service /\ NoMessage.typ = "nil"
        /\ inbox \in [Service -> Seq(Message)] /\ out \in [Service -> Message]
        /\ status \in [Service -> Status] /\ bounce \in [Service -> Message]
        /\ receipt \in [Service -> Receipt]
    BY NoMessageType, ConstantsAssumption DEF TypeOK, TypeService
  <1>2. \A s \in Service : out'[s] = out[s] \/ out'[s].typ = "nil"
    BY <1>1 DEF ScheduleNew
  <1>3. CASE Current # Root \/ FreeSlot = {}
    <2>1. /\ WriteReceipt(c, "error", out[c]) /\ UNCHANGED <<status, inbox>>
      BY <1>3 DEF ScheduleNew
    <2>2. SameNews /\ SameAnswer
      BY <1>1, <2>1 DEF SameNews, SameAnswer, MailInv, WriteReceipt
    <2> QED BY <1>2, <2>1, <2>2, MailKept
  <1>4. CASE ~(Current # Root \/ FreeSlot = {})
    <2>1. PICK f \in FreeSlot : /\ ResetSlot(f, "uninitialized")
                                /\ WriteReceipt(c, "response", [out[c] EXCEPT !.to = f])
      BY <1>4 DEF ScheduleNew
    <2>2. /\ c = Root /\ f \in Service /\ status[f] = "none" /\ f # Root
          /\ status' = [status EXCEPT ![f] = "uninitialized"]
          /\ inbox' = [inbox EXCEPT ![f] = <<>>]
          /\ receipt'[Root] = "response" /\ bounce'[Root] = [out[Root] EXCEPT !.to = f]
          /\ out'[Root] = NoMessage
      BY <1>1, <1>4, <2>1 DEF FreeSlot, MailInv, Vacant, ResetSlot, WriteReceipt, ScheduleNew
    <2>3. inbox'[Root] = inbox[Root] /\ bounce'[Root].to = f
      BY <1>1, <2>2 DEF Message
    <2>4. status'[f] = "uninitialized" /\ \A s \in Service \ {f} : status'[s] = status[s]
      BY <1>1, <2>2
    <2>5. ASSUME NEW d \in Service \cup {NoService}, Reports(inbox'[Root], d)
          PROVE  d \in Service \ {Root} /\ status'[d] = "dead" /\ ~Placed(d)'
      <3>1. d \in Service \ {Root} /\ status[d] = "dead" /\ ~Placed(d)
        BY <2>3, <2>5 DEF MailInv
      <3> QED BY <2>2, <2>4, <3>1 DEF Kept
    <2>6. ASSUME NEW s \in Service, out'[s].typ \in {"signal", "del"}
          PROVE  out'[s].typ = "signal" /\ out'[s].about = s /\ s # Root /\ status'[s] = "dead"
      <3>1. s # Root /\ out'[s] = out[s] BY <1>1, <1>2, <2>2, <2>6
      <3>2. out[s].typ = "signal" /\ out[s].about = s /\ status[s] = "dead"
        BY <2>6, <3>1 DEF MailInv
      <3> QED BY <2>2, <2>4, <3>1, <3>2
    <2>7. OnceEach(inbox'[Root]) /\ (~Vacant(Root) /\ status[Root] # "uninitialized")'
      BY <1>1, <2>2, <2>3, <2>4 DEF MailInv, Vacant
    <2> QED BY <2>2, <2>3, <2>4, <2>5, <2>6, <2>7 DEF MailInv
  <1> QED BY <1>3, <1>4

LEMMA ScheduleDelMail ==
  ASSUME TypeOK, Addressed, MailInv, Kept, NEW w \in Worker, ScheduleDel(w)
  PROVE  MailInv'
  <1> SUFFICES ASSUME NEW r \in Service, r = Current PROVE MailInv'
    BY CurrentType DEF ScheduleDel, Dispatching
  <1> DEFINE c == out[r].about
  <1>1. /\ Root \in Service /\ NoMessage.typ = "nil"
        /\ inbox \in [Service -> Seq(Message)] /\ out \in [Service -> Message]
        /\ status \in [Service -> Status] /\ bounce \in [Service -> Message]
        /\ receipt \in [Service -> Receipt]
    BY NoMessageType, ConstantsAssumption DEF TypeOK, TypeService
  <1>2. r = Root /\ c \in Service /\ Vacant(c) /\ c # Root
    BY DEF ScheduleDel, MailInv
  <1>3. /\ status' = [status EXCEPT ![c] = Freed] /\ inbox' = [inbox EXCEPT ![c] = <<>>]
        /\ receipt' = [receipt EXCEPT ![Root] = "done"]
        /\ out' = [out EXCEPT ![Root] = NoMessage]
    BY <1>2 DEF ScheduleDel, ResetSlot, WriteReceipt
  <1> HIDE DEF c
  <1>4. inbox'[Root] = inbox[Root] /\ receipt'[Root] = "done" /\ out'[Root].typ = "nil"
        /\ out'[c] = out[c]
    BY <1>1, <1>2, <1>3
  <1>5. SameNews /\ SameAnswer BY <1>4 DEF SameNews, SameAnswer, MailInv
  <1>6. Slot(c) BY <1>2, <1>4 DEF Slot, Vacant, MailInv
  <1>7. \A s \in Service : status'[s] = status[s] \/ Slot(s)
    BY <1>1, <1>2, <1>3, <1>6
  <1>8. \A s \in Service : out'[s] = out[s] \/ out'[s].typ = "nil"
    BY <1>1, <1>3
  <1> QED BY <1>5, <1>7, <1>8, MailKept

\* dispatchOutMessage answers the sender and looks at the receiver.
LEMMA SendMail ==
  ASSUME TypeOK, Addressed, MailInv, Kept, NEW c \in Service, NEW r, NEW b, NEW t \in Service,
         WriteReceipt(c, r, b), r # "response", SameNews, CheckMessageTo(t),
         out' = [out EXCEPT ![c] = NoMessage]
  PROVE  MailInv'
  <1>1. /\ Root \in Service /\ receipt \in [Service -> Receipt]
        /\ bounce \in [Service -> Message] /\ out \in [Service -> Message]
    BY ConstantsAssumption DEF TypeOK, TypeService
  <1>2. SameAnswer BY <1>1 DEF SameAnswer, WriteReceipt
  <1>3. \A s \in Service : out'[s] = out[s] \/ out'[s].typ = "nil"
    BY <1>1, NoMessageType
  <1> QED BY <1>2, <1>3, CheckStatus, MailKept

LEMMA PushMessageMail ==
  ASSUME TypeOK, Addressed, MailInv, Kept, NEW w \in Worker, PushMessage(w)
  PROVE  MailInv'
  <1> DEFINE m == out[Current]
             r == IF ~(StatusOf(m.to) = "dead") /\ Full(m.to) THEN "block" ELSE "done"
  <1>1. /\ Current \in Service /\ m.typ = "request" /\ m.to \in Service /\ m \in Message
        /\ out' = [out EXCEPT ![Current] = NoMessage] /\ CheckMessageTo(m.to)
    BY CurrentType DEF PushMessage, Addressed, TypeOK, TypeService
  <1>2. SameNews
    <2>1. CASE inbox' = inbox BY <2>1 DEF SameNews, MailInv
    <2>2. CASE inbox' = [inbox EXCEPT ![m.to] = Append(@, m)]
      BY <1>1, <2>2, PushMail
    <2> QED BY <2>1, <2>2 DEF PushMessage
  <1>3. WriteReceipt(Current, r, m) \/ WriteReceipt(Current, r, NoMessage)
    BY DEF PushMessage
  <1> HIDE DEF m
  <1>4. r # "response" OBVIOUS
  <1> HIDE DEF r
  <1> QED BY <1>1, <1>2, <1>3, <1>4, SendMail

LEMMA SettleMail ==
  ASSUME TypeOK, Addressed, MailInv, Kept, NEW w \in Worker, Settle(w)
  PROVE  MailInv'
  <1> SUFFICES ASSUME NEW c \in Service, c = Current PROVE MailInv'
    BY CurrentType DEF Settle, Dispatching
  <1> DEFINE m == [typ |-> "idle", to |-> c, about |-> NoService]
  <1>1. m \in Message /\ m.typ # "signal" BY DEF Message, MessageType
  <1>2. inbox' = inbox \/ inbox' = [inbox EXCEPT ![c] = Append(@, m)]
    BY DEF Settle
  <1>3. SameNews
    <2>1. CASE inbox' = inbox BY <2>1 DEF SameNews, MailInv
    <2>2. CASE inbox' = [inbox EXCEPT ![c] = Append(@, m)]
      <3> HIDE DEF m
      <3> QED BY <1>1, <2>2, PushMail
    <2> QED BY <1>2, <2>1, <2>2
  <1>4. SameAnswer /\ UNCHANGED out BY DEF Settle, SameAnswer
  <1>5. status[c] = "done" BY DEF Settle, StatusOf, Vacant
  <1>6. \A s \in Service : status'[s] = status[s] \/ Goes(s)
    BY <1>5 DEF Settle, Goes, TypeOK, TypeService
  <1> QED BY <1>3, <1>4, <1>6, MailKept

LEMMA ExternalMail ==
  ASSUME TypeOK, Addressed, MailInv, Kept, NEW w \in Worker,
         ExternalPush(w) \/ ExternalDone(w)
  PROVE  MailInv'
  <1>1. CASE ExternalPush(w)
    <2> DEFINE m == [typ |-> "request", to |-> Root, about |-> NoService]
    <2>1. m \in Message /\ m.typ # "signal" /\ Root \in Service
      BY ConstantsAssumption DEF Message, MessageType
    <2>2. inbox' = inbox \/ inbox' = [inbox EXCEPT ![Root] = Append(@, m)]
      BY <1>1 DEF ExternalPush
    <2> HIDE DEF m
    <2>3. SameNews
      <3>1. CASE inbox' = inbox BY <3>1 DEF SameNews, MailInv
      <3>2. CASE inbox' = [inbox EXCEPT ![Root] = Append(@, m)]
        BY <2>1, <3>2, PushMail
      <3> QED BY <2>2, <3>1, <3>2
    <2>4. SameAnswer /\ UNCHANGED <<out, status>> BY <1>1 DEF ExternalPush, SameAnswer
    <2> QED BY <2>3, <2>4, MailKept
  <1>2. CASE ExternalDone(w)
    <2>1. UNCHANGED <<inbox, out, receipt, bounce>> BY <1>2 DEF ExternalDone, mailVars
    <2>2. SameNews /\ SameAnswer BY <2>1 DEF SameNews, SameAnswer, MailInv
    <2>3. \A s \in Service : status'[s] = status[s] \/ Goes(s)
      BY <1>2, CheckStatus, ConstantsAssumption DEF ExternalDone
    <2> QED BY <2>1, <2>2, <2>3, MailKept
  <1> QED BY <1>1, <1>2

LEMMA StartMail ==
  ASSUME TypeOK, Addressed, MailInv, Kept, NEW w \in Worker, Start(w)
  PROVE  MailInv'
  <1>1. UNCHANGED <<inbox, out, receipt, bounce>> BY DEF Start, mailVars
  <1>2. SameNews /\ SameAnswer BY <1>1 DEF SameNews, SameAnswer, MailInv
  <1>3. \A s \in Service : status'[s] = status[s] \/ Goes(s)
    BY DEF Start, Goes, StatusOf, Vacant, TypeOK, TypeService
  <1> QED BY <1>1, <1>2, <1>3, MailKept

\* Root initialises the service it was given an id for, or frees its slot.
LEMMA SpawnedMail ==
  ASSUME TypeOK, Addressed, PcInv, TokenInv, MailInv, Kept, NEW w \in Worker,
         (\E x \in Worker \cup {threadNone} : InitService(w, x)) \/ InitServiceFails(w)
  PROVE  MailInv'
  <1> SUFFICES ASSUME NEW c \in Service, c = bounce[Root].to PROVE MailInv'
    BY ConstantsAssumption DEF InitService, InitServiceFails, Spawned, Addressed
  <1>1. /\ running[w] = Root /\ Receive(Root) /\ awaiting[Root] /\ receipt[Root] = "response"
        /\ pc[w] \in Active
        /\ Root \in Service /\ status \in [Service -> Status]
        /\ receipt \in [Service -> Receipt] /\ out \in [Service -> Message]
    BY ConstantsAssumption
       DEF InitService, InitServiceFails, Spawned, Resumes, Active, TypeOK, TypeService
  <1>2. status[c] = "uninitialized" /\ c # Root /\ ~Reports(inbox[Root], c)
        /\ out[c].typ # "signal"
    BY <1>1 DEF MailInv
  <1>3. SameNews /\ SameAnswer BY <1>1, ReceiveMail
  <1>4. receipt'[Root] = "none" BY <1>1 DEF Receive
  <1>5. status[Root] = "running" BY <1>1 DEF TokenInv, RunStage
  <1>6. \/ status' = [status EXCEPT ![Root] = "done", ![c] = "idle"]
        \/ status' = [status EXCEPT ![Root] = "done", ![c] = Freed]
    BY <1>1 DEF InitService, InitServiceFails
  <1>7. \A s \in Service : out'[s] = out[s] \/ out'[s].typ = "request"
    <2>1. CASE \E x \in Worker \cup {threadNone} : InitService(w, x)
      <3> DEFINE m == [typ |-> "request", to |-> c, about |-> NoService]
      <3>1. out' = [out EXCEPT ![Root] = m] BY <1>1, <2>1 DEF InitService, Post
      <3>2. m.typ = "request" OBVIOUS
      <3> HIDE DEF m
      <3> QED BY <1>1, <3>1, <3>2
    <2>2. CASE InitServiceFails(w) BY <2>2 DEF InitServiceFails
    <2> QED BY <2>1, <2>2
  <1>8. Goes(Root) BY <1>1, <1>2, <1>5, <1>6 DEF Goes
  <1>9. Slot(c)
    <2>1. ~Reports(inbox'[Root], c) BY <1>2, <1>3 DEF SameNews
    <2>2. out'[c].typ # "signal" BY <1>2, <1>7
    <2> QED BY <1>2, <1>4, <2>1, <2>2 DEF Slot, Vacant
  <1>10. \A s \in Service : status'[s] = status[s] \/ Goes(s) \/ Slot(s)
    BY <1>1, <1>6, <1>8, <1>9
  <1> QED BY <1>3, <1>7, <1>10, MailKept

LEMMA CloseServiceMail ==
  ASSUME TypeOK, Addressed, PcInv, TokenInv, MailInv, Kept, NEW w \in Worker, CloseService(w)
  PROVE  MailInv'
  <1>1. /\ running[w] = Root /\ Signalled(Root) /\ pc[w] \in Active
        /\ Root \in Service /\ status \in [Service -> Status]
        /\ receipt \in [Service -> Receipt] /\ out \in [Service -> Message]
        /\ inbox \in [Service -> Seq(Message)] /\ bounce \in [Service -> Message]
    BY ConstantsAssumption
       DEF CloseService, Signalled, Resumes, Active, TypeOK, TypeService
  <1> SUFFICES ASSUME NEW c \in Service, c = Head(inbox[Root]).about PROVE MailInv'
    BY <1>1, SignalledService
  <1>2. c # Root /\ status[c] = "dead" /\ inbox[Root] # <<>> /\ Head(inbox[Root]).typ = "signal"
    BY <1>1, SignalledService DEF Signalled
  <1>3. /\ status' = [status EXCEPT ![Root] = "done", ![c] = Freed]
        /\ inbox' = [inbox EXCEPT ![Root] = Tail(@), ![c] = <<>>]
        /\ receipt' = [receipt EXCEPT ![c] = "none"]
        /\ bounce' = [bounce EXCEPT ![c] = NoMessage]
        /\ out' = [out EXCEPT ![c] = NoMessage,
                              ![Root] = [typ |-> "del", to |-> System, about |-> c]]
    BY <1>1 DEF CloseService
  <1>4. inbox'[Root] = Tail(inbox[Root]) /\ SameAnswer
    BY <1>1, <1>2, <1>3 DEF SameAnswer
  <1>5. SameNews /\ ~Reports(inbox'[Root], c)
    <2>1. OnceEach(inbox[Root]) /\ inbox[Root] \in Seq(Message) BY <1>1 DEF MailInv
    <2>2. /\ OnceEach(Tail(inbox[Root])) /\ ~Reports(Tail(inbox[Root]), c)
          /\ \A d : Reports(Tail(inbox[Root]), d) => Reports(inbox[Root], d)
      BY <1>2, <2>1, ReportsTail
    <2> QED BY <1>4, <2>2 DEF SameNews
  <1>6. status[Root] = "running" BY <1>1 DEF TokenInv, RunStage
  <1>7. status'[c] \in {"none", "retired"} BY <1>1, <1>2, <1>3 DEF Freed
  <1>8. Goes(Root) BY <1>1, <1>2, <1>3, <1>6 DEF Goes
  <1>9. out'[c].typ # "signal" BY <1>1, <1>2, <1>3, NoMessageType
  <1>10. Slot(c) BY <1>2, <1>5, <1>9 DEF Slot, Vacant
  <1>11. \A s \in Service : status'[s] = status[s] \/ Goes(s) \/ Slot(s)
    BY <1>1, <1>3, <1>8, <1>10
  <1>12. out'[Root].typ = "del" /\ out'[Root].about = c BY <1>1, <1>2, <1>3
  <1>13. \A s \in Service \ {Root} : out'[s] = out[s] \/ out'[s].typ = "nil"
    BY <1>1, <1>3, NoMessageType
  <1> QED BY <1>4, <1>5, <1>7, <1>11, <1>12, <1>13, MailKept

LEMMA MailNext ==
  ASSUME TypeOK, Addressed, LockExclusive, PcInv, TokenInv, MailInv, [Next]_vars
  PROVE  MailInv'
<1> USE DEF mailVars, bindVars, serviceVars
<1>0. Kept BY TokenNext
<1>1. CASE UNCHANGED vars \/ ExternalSend
  BY <1>0, <1>1, QuietMail DEF vars, ExternalSend
<1>2. ASSUME NEW w \in Worker, Step(w)
      PROVE  MailInv'
  <2>0. \A t : [typ |-> "request", to |-> t, about |-> NoService].typ = "request"
    OBVIOUS
  <2>1. CASE GetJob(w)
    BY <1>0, <2>1, QuietMail DEF GetJob
  <2>2. CASE NoJob(w)
    BY <1>0, <2>2, QuietMail DEF NoJob
  <2>3. CASE Rest(w)
    BY <1>0, <2>3, QuietMail DEF Rest
  <2>4. CASE Sleep(w)
    BY <1>0, <2>4, QuietMail DEF Sleep
  <2>5. CASE Park(w)
    BY <1>0, <2>5, QuietMail DEF Park
  <2>6. CASE Wait(w)
    BY <1>0, <2>6, QuietMail DEF Wait
  <2>7. CASE Wakened(w)
    BY <1>0, <2>7, QuietMail DEF Wakened
  <2>8. CASE Quit(w)
    BY <1>0, <2>8, QuietMail DEF Quit
  <2>9. CASE AcquireScheduler(w)
    BY <1>0, <2>9, QuietMail DEF AcquireScheduler, Acquire
  <2>10. CASE ReleaseScheduler(w)
    BY <1>0, <2>10, QuietMail DEF ReleaseScheduler
  <2>11. CASE ExternalPush(w)
    BY <1>0, <2>11, ExternalMail
  <2>12. CASE ExternalDone(w)
    BY <1>0, <2>12, ExternalMail
  <2>13. CASE CollectDoneJobs(w)
    BY <1>0, <2>13, QuietMail DEF CollectDoneJobs
  <2>14. CASE DispatchSignal(w)
    BY <2>14, DispatchSignalMail
  <2>15. CASE ScheduleNew(w)
    BY <1>0, <2>15, ScheduleNewMail
  <2>16. CASE ScheduleDel(w)
    BY <1>0, <2>16, ScheduleDelMail
  <2>17. CASE DispatchToDead(w)
    <3>1. /\ Current \in Service /\ out[Current].to \in Service /\ "error" # "response"
          /\ WriteReceipt(Current, "error", out[Current]) /\ CheckMessageTo(out[Current].to)
          /\ out' = [out EXCEPT ![Current] = NoMessage]
      BY <2>17, CurrentType DEF DispatchToDead, Dispatching, Addressed
    <3>2. SameNews BY <2>17 DEF DispatchToDead, SameNews, MailInv
    <3> QED BY <1>0, <3>1, <3>2, SendMail
  <2>18. CASE DispatchOutMessage(w)
    BY <1>0, <2>18, QuietMail DEF DispatchOutMessage
  <2>19. CASE PushMessage(w)
    BY <1>0, <2>19, PushMessageMail
  <2>20. CASE Settle(w)
    BY <1>0, <2>20, SettleMail
  <2>21. CASE GetPendingJobs(w)
    BY <1>0, <2>21, QuietMail DEF GetPendingJobs
  <2>22. CASE CountFreeSlots(w)
    BY <1>0, <2>22, QuietMail DEF CountFreeSlots
  <2>23. CASE PrepareUnbound(w)
    BY <1>0, <2>23, QuietMail DEF PrepareUnbound
  <2>24. CASE PrepareBound(w)
    BY <1>0, <2>24, QuietMail DEF PrepareBound
  <2>25. CASE PrepareDone(w)
    BY <1>0, <2>25, QuietMail DEF PrepareDone
  <2>26. CASE AssignPrepare(w)
    BY <1>0, <2>26, QuietMail DEF AssignPrepare
  <2>27. CASE TriggerBlockedWorkers(w)
    BY <1>0, <2>27, QuietMail DEF TriggerBlockedWorkers
  <2>28. CASE Schedule(w)
    BY <1>0, <2>28, QuietMail DEF Schedule
  <2>29. CASE Start(w)
    BY <1>0, <2>29, StartMail
  <2>30. CASE Yield(w)
    BY <1>0, <2>30, RunMail DEF Yield, AtWill, Resumes, Active
  <2>31. CASE Spawn(w)
    <3>1. \A s \in Service : out'[s] = out[s] \/ out'[s].typ = "new"
      BY <2>31 DEF Spawn, Post, TypeOK, TypeService
    <3> QED BY <1>0, <2>31, <3>1, RunMail DEF Spawn, AtWill, Resumes, Active
  <2>32. CASE InitServiceFails(w)
    BY <1>0, <2>32, SpawnedMail
  <2>33. CASE CloseService(w)
    BY <1>0, <2>33, CloseServiceMail
  <2>34. CASE QuitService(w)
    <3>1. \A s \in Service : out'[s] = out[s] \/ (s # Root /\ s = running[w]
                               /\ out'[s].typ = "signal" /\ out'[s].about = s)
      BY <2>34 DEF QuitService, TypeOK, TypeService
    <3> QED BY <1>0, <2>34, <3>1, RunMail DEF QuitService, AtWill, Resumes, Active
  <2>35. CASE QuitRoot(w)
    BY <1>0, <2>35, RunMail DEF QuitRoot, AtWill, Resumes, Active
  <2>36. CASE EventInit(w)
    BY <1>0, <2>36, RunMail DEF EventInit, AtWill, Resumes, Active
  <2>37. CASE EventWait(w)
    <3>1. Receive(running[w]) /\ running[w] \in Service /\ UNCHANGED <<status, out>>
      BY <2>37 DEF EventWait, AtWill, Resumes, PcInv, Active
    <3>2. SameNews /\ SameAnswer BY <3>1, ReceiveMail
    <3> QED BY <1>0, <3>1, <3>2, MailKept
  <2>38. CASE EventWaited(w)
    <3>1. /\ UNCHANGED <<inbox, out, receipt, bounce>>
          /\ running[w] \in Service /\ status[running[w]] = "running"
          /\ status' = [status EXCEPT ![running[w]] = "done"]
      BY <2>38 DEF EventWaited, PcInv, Active, TokenInv, RunStage
    <3>2. SameNews /\ SameAnswer BY <3>1 DEF SameNews, SameAnswer, MailInv
    <3>3. \A s \in Service : status'[s] = status[s] \/ Goes(s)
      BY <3>1 DEF Goes, TypeOK, TypeService
    <3> QED BY <1>0, <3>1, <3>2, <3>3, MailKept
  <2>39. CASE Complete(w)
    BY <1>0, <2>39, QuietMail DEF Complete, CompleteJob
  <2>40. CASE CompleteAcquire(w)
    BY <1>0, <2>40, QuietMail DEF CompleteAcquire, Acquire
  <2>41. CASE Drain(w)
    BY <1>0, <2>41, QuietMail DEF Drain
  <2>42. CASE \E t \in Service : Send(w, t)
    <3>1. \A s \in Service : out'[s] = out[s] \/ out'[s].typ = "request"
      BY <2>42 DEF Send, Post, TypeOK, TypeService
    <3>2. /\ Receive(running[w]) /\ pc[w] \in Active
          /\ status' = [status EXCEPT ![running[w]] = "done"]
      BY <2>42 DEF Send, AtWill, Resumes, Active
    <3> QED BY <1>0, <3>1, <3>2, RunMail
  <2>43. CASE \E x \in Worker \cup {threadNone} : InitService(w, x)
    BY <1>0, <2>43, SpawnedMail
  <2>44. CASE \E x \in Worker \cup {threadNone} : Bind(w, x)
    BY <1>0, <2>44, RunMail DEF Bind, AtWill, Resumes, Active
  <2> QED BY <1>2, <2>1, <2>2, <2>3, <2>4, <2>5, <2>6, <2>7, <2>8, <2>9, <2>10, <2>11, <2>12, <2>13, <2>14, <2>15, <2>16, <2>17, <2>18, <2>19, <2>20, <2>21, <2>22, <2>23, <2>24, <2>25, <2>26, <2>27, <2>28, <2>29, <2>30, <2>31, <2>32, <2>33, <2>34, <2>35, <2>36, <2>37, <2>38, <2>39, <2>40, <2>41, <2>42, <2>43, <2>44
       DEF Step, Lull, Dispatch, DispatchOut, Run
<1> QED BY <1>1, <1>2 DEF Next

----------------------------------------------------------------------------
(* The theorems *)

LEMMA TokensInit == Init => PcInv /\ TokenInv /\ MailInv
<1> SUFFICES ASSUME Init PROVE PcInv /\ TokenInv /\ MailInv
  OBVIOUS
<1>1. /\ schedule = <<Root>> /\ jobs = <<>> /\ Root \in Service
      /\ \A w \in Worker : /\ bindingQueue[w] = <<>> /\ serviceReady[w] = NoService
                           /\ job[w] = NoService /\ running[w] = NoService
                           /\ serviceDone[w] = NoService /\ doneJobs[w] = NoService
                           /\ pc[w] = "loop"
      /\ \A s \in Service : /\ status[s] = IF s = Root THEN "schedule" ELSE "none"
                            /\ out[s] = NoMessage /\ receipt[s] = "none"
      /\ inbox[Root] = <<[typ |-> "request", to |-> Root, about |-> NoService]>>
  BY ConstantsAssumption DEF Init
<1>2. PcInv BY <1>1 DEF PcInv, Active
<1>3. /\ \A s : Contains(schedule, s) <=> s = Root
      /\ \A s : ~Contains(jobs, s) /\ ~Queued(bindingQueue, s)
      /\ \A s \in Service : /\ ~Holds(serviceReady, s) /\ ~Holds(job, s) /\ ~Holds(running, s)
                            /\ ~Holds(serviceDone, s) /\ ~Holds(doneJobs, s)
  BY <1>1, ConstantsAssumption DEF Contains, Queued, Holds
<1>4. Tidy
  BY <1>1 DEF Tidy, NoRepeat, NoRepeats, NoShare, Contains
<1>5. \A s \in Service : InOnePlace(s) /\ Stage(s)
  BY <1>1, <1>3 DEF InOnePlace, WaitsOnce, Stage, Waits, Ran
<1>6. TokenInv BY <1>1, <1>4, <1>5, ConstantsAssumption DEF TokenInv, RunStage
<1>7. OnceEach(inbox[Root]) /\ \A c : ~Reports(inbox[Root], c)
  <2>1. \A k \in DOMAIN inbox[Root] : inbox[Root][k].typ = "request"
    BY <1>1
  <2> QED BY <2>1 DEF OnceEach, Reports
<1>8. MailInv BY <1>1, <1>7, NoMessageType DEF MailInv, Vacant
<1> QED BY <1>2, <1>6, <1>8

LEMMA InvAlways == Spec => []Inv
<1>1. Init => PcInv /\ TokenInv /\ MailInv BY TokensInit
<1>2. TypeOK /\ Addressed /\ LockExclusive /\ PcInv /\ TokenInv /\ MailInv /\ [Next]_vars
        => PcInv' /\ TokenInv' /\ MailInv'
  BY PcNext, TokenNext, MailNext
<1>3. Spec => [](PcInv /\ TokenInv /\ MailInv)
  BY <1>1, <1>2, TypeCorrect, LockIsExclusive, PTL DEF Spec
<1> QED BY <1>3, TypeCorrect, LockIsExclusive, PTL DEF Inv

\* Every position or slot that has a service, and the service has one at most.
LEMMA PlacesOf ==
  ASSUME Inv, NEW s \in Service
  PROVE  /\ \A x, y \in Places(s) : x = y
         /\ Places(s) # {} <=> Placed(s)
  <1>1. ASSUME NEW q, NEW name
        PROVE  /\ In(q, s, name) # {} <=> Contains(q, s)
               /\ NoRepeat(q) => \A x, y \in In(q, s, name) : x = y
    BY DEF In, Contains, NoRepeat
  <1>2. ASSUME NEW f, NEW name
        PROVE  /\ At(f, s, name) # {} <=> Holds(f, s)
               /\ NoShare(f) => \A x, y \in At(f, s, name) : x = y
    BY ConstantsAssumption DEF At, Holds, NoShare
  <1> DEFINE B == UNION {In(bindingQueue[w], s, <<"queue", w>>) : w \in Worker}
  <1>3. /\ B # {} <=> Queued(bindingQueue, s)
        /\ NoRepeats(bindingQueue) => \A x, y \in B : x = y
    <2>1. \A x : x \in B <=> \E w \in Worker : x \in In(bindingQueue[w], s, <<"queue", w>>)
      OBVIOUS
    <2> HIDE DEF B
    <2>2. B # {} <=> Queued(bindingQueue, s)
      <3>1. \A w \in Worker : Contains(bindingQueue[w], s) <=>
                               \E x : x \in In(bindingQueue[w], s, <<"queue", w>>)
        BY DEF In, Contains
      <3>2. B # {} <=> \E x : x \in B OBVIOUS
      <3> QED BY <2>1, <3>1, <3>2 DEF Queued
    <2>3. ASSUME NoRepeats(bindingQueue), NEW x \in B, NEW y \in B PROVE x = y
      <3>1. PICK v \in Worker : x \in In(bindingQueue[v], s, <<"queue", v>>) BY <2>1
      <3>2. PICK w \in Worker : y \in In(bindingQueue[w], s, <<"queue", w>>) BY <2>1
      <3>3. Contains(bindingQueue[v], s) /\ Contains(bindingQueue[w], s)
        BY <1>1, <3>1, <3>2
      <3>4. v = w BY <2>3, <3>3 DEF NoRepeats
      <3>5. NoRepeat(bindingQueue[v]) BY <2>3 DEF NoRepeats
      <3> QED BY <1>1, <3>1, <3>2, <3>4, <3>5
    <2> QED BY <2>2, <2>3
  <1> DEFINE S1 == In(schedule, s, "schedule")
             S2 == In(jobs, s, "jobs")
             S3 == At(serviceReady, s, "ready")
             S4 == At(job, s, "job")
             S5 == At(running, s, "running")
             S6 == At(serviceDone, s, "done")
             S7 == At(doneJobs, s, "collected")
  <1>4. Places(s) = S1 \cup S2 \cup S3 \cup S4 \cup S5 \cup S6 \cup S7 \cup B
    BY DEF Places
  <1>5. Tidy /\ InOnePlace(s) BY DEF Inv, TokenInv
  <1>6. /\ S1 # {} <=> Contains(schedule, s)
        /\ S2 # {} <=> Contains(jobs, s)
        /\ S3 # {} <=> Holds(serviceReady, s)
        /\ S4 # {} <=> Holds(job, s)
        /\ S5 # {} <=> Holds(running, s)
        /\ S6 # {} <=> Holds(serviceDone, s)
        /\ S7 # {} <=> Holds(doneJobs, s)
        /\ B # {} <=> Queued(bindingQueue, s)
    BY <1>1, <1>2, <1>3
  <1>7. /\ \A x, y \in S1 : x = y
        /\ \A x, y \in S2 : x = y
        /\ \A x, y \in S3 : x = y
        /\ \A x, y \in S4 : x = y
        /\ \A x, y \in S5 : x = y
        /\ \A x, y \in S6 : x = y
        /\ \A x, y \in S7 : x = y
        /\ \A x, y \in B : x = y
    BY <1>1, <1>2, <1>3, <1>5 DEF Tidy
  <1> HIDE DEF B, S1, S2, S3, S4, S5, S6, S7
  <1>8. ASSUME NEW x \in Places(s), NEW y \in Places(s) PROVE x = y
    BY <1>4, <1>5, <1>6, <1>7, <1>8 DEF InOnePlace, WaitsOnce, Waits, Ran
  <1>9. Places(s) # {} <=> Placed(s)
    BY <1>4, <1>6 DEF Placed, Waits, Ran
  <1> QED BY <1>8, <1>9

\* No service is lost to two workers, for any number of workers and services:
\* it is never queued twice, run twice, or both stolen and kept; its id is in
\* one queue position or slot at most (worker.go:61-74, 175-190, core.go:46-66,
\* 319-372).
THEOREM NoServiceTwice == Spec => []UniqueToken
<1>1. Inv => UniqueToken
  <2> SUFFICES ASSUME Inv, NEW s \in Service PROVE Cardinality(Places(s)) <= 1
    BY DEF UniqueToken
  <2>1. CASE Places(s) = {} BY <2>1, FS_EmptySet
  <2>2. CASE Places(s) # {}
    <3>1. PICK x : x \in Places(s) BY <2>2
    <3>2. \A y \in Places(s) : y = x BY <3>1, PlacesOf
    <3>3. Places(s) = {x} BY <3>1, <3>2
    <3>4. Cardinality({x}) = 1 BY FS_Singleton
    <3> QED BY <3>3, <3>4
  <2> QED BY <2>1, <2>2
<1> QED BY <1>1, InvAlways, PTL

\* The status of a service tells whether the scheduler holds it, for any number
\* of workers and services: one that is scheduled, running or done is in some
\* queue or slot and so not forgotten, and one that is idle, new or freed is in
\* none, so that no stale id outlives its slot (core.go:319-372, root.go:27-41).
THEOREM StatusFits == Spec => []StatusMatchesPlace
<1>1. Inv => StatusMatchesPlace
  <2> SUFFICES ASSUME Inv, NEW s \in Service
               PROVE  /\ status[s] \in {"schedule", "done"} => Places(s) # {}
                      /\ status[s] = "running" => \E w \in Worker : running[w] = s /\ busy[w]
                      /\ status[s] \in {"none", "retired", "uninitialized", "idle"} => Places(s) = {}
    BY DEF StatusMatchesPlace
  <2>1. TokenInv /\ Stage(s) /\ (Places(s) # {} <=> Placed(s))
    BY PlacesOf DEF Inv, TokenInv
  <2>2. status[s] \in {"schedule", "done"} => Places(s) # {}
    BY <2>1 DEF Stage, Placed
  <2>3. ASSUME status[s] = "running" PROVE \E w \in Worker : running[w] = s /\ busy[w]
    <3>1. PICK w \in Worker : running[w] = s BY <2>1, <2>3 DEF Stage, Holds
    <3>2. RunStage(w) BY <2>1 DEF TokenInv
    <3> QED BY <2>3, <3>1, <3>2 DEF RunStage
  <2>4. status[s] \in {"none", "retired", "uninitialized", "idle"} => Places(s) = {}
    BY <2>1, PlacedStatus
  <2> QED BY <2>2, <2>3, <2>4
<1> QED BY <1>1, InvAlways, PTL

\* Two panics of the Go code are unreachable, for any number of workers and
\* services: "Service status is not done" (core.go:348) and "Service %d not in
\* schedule status" (worker.go:296).
THEOREM RightStatus == Spec => [](~PanicNotDone /\ ~PanicNotScheduled)
<1>1. Inv => ~PanicNotDone
  <2> SUFFICES ASSUME Inv, Undone # {} PROVE StatusOf(Current) \in {"dead", "done"}
    BY DEF PanicNotDone, Dispatching
  <2>1. Current \in Service /\ Ran(Current)
    BY CurrentType DEF Inv, Ran, Holds, Current
  <2>2. status[Current] \in {"done", "dead"} BY <2>1 DEF Inv, TokenInv, Stage
  <2> QED BY <2>2 DEF StatusOf, Vacant
<1>2. Inv => ~PanicNotScheduled
  <2> SUFFICES ASSUME Inv, NEW w \in Worker, pc[w] = "start"
               PROVE  StatusOf(job[w]) \in {"schedule", "dead"}
    BY DEF PanicNotScheduled
  <2>1. job[w] \in Service /\ Waits(job[w])
    BY DEF Inv, PcInv, TypeOK, TypeWorker, Job, Waits, Holds
  <2>2. status[job[w]] \in {"schedule", "dead"} BY <2>1 DEF Inv, TokenInv, Stage
  <2> QED BY <2>2 DEF StatusOf, Vacant
<1> QED BY <1>1, <1>2, InvAlways, PTL

\* The channel of the schedule, which is made with room for every service, is
\* never full, whatever is spawned, closed and woken: "schedule channel is full"
\* (core.go:60, 122) is unreachable, since no service is in the channel twice.
THEOREM ScheduleHasRoom ==
  ASSUME IsFiniteSet(Service)
  PROVE  Spec => []~PanicScheduleFull
<1>1. Inv => ~PanicScheduleFull
  <2> SUFFICES ASSUME Inv, Len(schedule) > Cardinality(Service) PROVE FALSE
    BY DEF PanicScheduleFull
  <2>1. schedule \in Seq(Service) /\ NoRepeat(schedule)
    BY DEF Inv, TypeOK, TypeTask, TokenInv, Tidy
  <2>2. Len(schedule) \in Nat /\ schedule \in [1..Len(schedule) -> Service]
    BY <2>1
  <2>3. /\ IsFiniteSet(1..Len(schedule))
        /\ Cardinality(1..Len(schedule)) = Len(schedule)
    BY <2>2, FS_Interval
  <2>4. \E j, k \in 1..Len(schedule) : j # k /\ schedule[j] = schedule[k]
    BY <2>2, <2>3, FS_PigeonHole
  <2> QED BY <2>1, <2>2, <2>4 DEF NoRepeat
<1> QED BY <1>1, InvAlways, PTL
=============================================================================
