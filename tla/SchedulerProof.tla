--------------------------- MODULE SchedulerProof ---------------------------
(***************************************************************************)
(* Theorems about module Scheduler, for every value of its constants:      *)
(* type correctness and the exclusion of the scheduler lock.               *)
(***************************************************************************)
EXTENDS SchedulerProps, FiniteSetTheorems, WellFoundedInduction, TLAPS

\* A non-empty set of naturals has a least element, the one Least picks.
LEMMA LeastIn ==
  ASSUME NEW S \in SUBSET Nat, S # {}
  PROVE  Least(S) \in S /\ \A j \in S : Least(S) <= j
<1> DEFINE Below == {0 .. k : k \in S}
           R == StrictSubsetOrdering(Nat)
<1>1. Below \subseteq FiniteSubsetsOf(Nat) /\ Below # {}
  <2> SUFFICES ASSUME NEW k \in S PROVE 0 .. k \in FiniteSubsetsOf(Nat)
    BY Zenon
  <2> QED BY FS_Interval DEF FiniteSubsetsOf
<1>2. \E X \in Below : \A Y \in Below : <<Y, X>> \notin R
  <2> HIDE DEF Below
  <2> QED BY <1>1, FS_StrictSubsetOrderingWellFounded, WFMin, Zenon
<1>3. PICK x \in S : \A Y \in Below : <<Y, 0 .. x>> \notin R
  BY <1>2
<1>4. ASSUME NEW y \in S PROVE x <= y
  <2> SUFFICES ASSUME y < x PROVE FALSE
    OBVIOUS
  <2>1. 0 .. y \subseteq 0 .. x /\ 0 .. y # 0 .. x
    OBVIOUS
  <2>2. <<0 .. y, 0 .. x>> \in R
    BY <2>1 DEF StrictSubsetOrdering
  <2> QED BY <1>3, <2>2
<1> QED BY <1>4, Zenon DEF Least

\* What the queue operations return.
LEMMA QueueType ==
  ASSUME NEW S, NEW q \in Seq(S)
  PROVE  /\ \A x \in S : Append(q, x) \in Seq(S) /\ Append(q, x) # <<>>
         /\ q # <<>> => Head(q) \in S /\ Tail(q) \in Seq(S)
<1>1. ASSUME NEW x \in S PROVE Append(q, x) \in Seq(S) /\ Len(Append(q, x)) = Len(q) + 1
  OBVIOUS
<1>2. Len(q) \in Nat /\ Len(<<>>) = 0
  OBVIOUS
<1>3. q # <<>> => Head(q) \in S /\ Tail(q) \in Seq(S)
  OBVIOUS
<1>4. ASSUME NEW x \in S PROVE Append(q, x) # <<>>
  <2>1. Len(Append(q, x)) # Len(<<>>)
    BY <1>1, <1>2
  <2> QED BY <2>1, Zenon
<1> QED BY <1>1, <1>3, <1>4

\* A step that pushes a message to inbox s keeps the inboxes well formed.
LEMMA PushType ==
  ASSUME inbox \in [Service -> Seq(Message)], NEW s, NEW m \in Message
  PROVE  [inbox EXCEPT ![s] = Append(@, m)] \in [Service -> Seq(Message)]
BY QueueType

\* The finished service dispatchOutMessages is at is a service.
LEMMA CurrentType ==
  ASSUME TypeOK, Undone # {}
  PROVE  Least(Undone) \in Worker /\ Current \in Service
<1>1. Undone \in SUBSET Nat
  BY ConstantsAssumption DEF Undone, Worker
<1>2. Least(Undone) \in Undone
  BY <1>1, LeastIn
<1> QED BY <1>2 DEF Undone, Current, TypeOK, TypeTask, Job

\* The first worker of a non-empty set of workers is one of them.
LEMMA LeastWorkerType ==
  ASSUME TypeOK, NEW S \in SUBSET Worker, S # {}
  PROVE  Least(S) \in S
<1>1. S \in SUBSET Nat
  BY ConstantsAssumption DEF Worker
<1> QED BY <1>1, LeastIn

\* checkMessageTo keeps the types of what it changes.
LEMMA CheckMessageToType ==
  ASSUME TypeOK, NEW s \in Service, CheckMessageTo(s)
  PROVE  /\ status' \in [Service -> Status]
         /\ schedule' \in Seq(Service)
         /\ event' \in [Event -> {"invalid", "clear", "set", "closed"}]
<1>1. Append(schedule, s) \in Seq(Service)
  BY QueueType DEF TypeOK, TypeTask
<1> QED BY <1>1 DEF TypeOK, TypeTask, TypeService, CheckMessageTo, Triggered, Status

\* What makes TypeOK inductive: a request in an out slot, and the response to
\* MESSAGE_SCHEDULE_NEW, name a service (never the scheduler's own address).
Addressed == \A s \in Service :
  /\ out[s].typ = "request" => out[s].to \in Service
  /\ receipt[s] = "response" => bounce[s].to \in Service

\* A service that reads its receipt, or its next message, keeps the types.
LEMMA ReceiveType ==
  ASSUME TypeOK, Addressed, NEW s, Receive(s)
  PROVE  /\ receipt' \in [Service -> Receipt]
         /\ bounce' \in [Service -> Message]
         /\ inbox' \in [Service -> Seq(Message)]
         /\ \A t \in Service : receipt'[t] = "response" => bounce'[t].to \in Service
<1>1. NoMessage \in Message
  BY DEF NoMessage, Message, MessageType
<1>2. inbox' \in [Service -> Seq(Message)]
  BY QueueType DEF TypeOK, TypeService, Receive
<1> QED BY <1>1, <1>2 DEF TypeOK, TypeService, Receive, Receipt, Addressed

\* An empty out slot.
LEMMA NoMessageType == NoMessage \in Message /\ NoMessage.typ = "nil"
BY DEF NoMessage, Message, MessageType

\* newService and deleteService leave a well-formed slot.
LEMMA ResetSlotType ==
  ASSUME TypeOK, NEW s, NEW st \in Status, ResetSlot(s, st)
  PROVE  /\ status' \in [Service -> Status]
         /\ bindingThread' \in [Service -> Worker \cup {threadNone}]
         /\ sockevent' \in [Service -> Event \cup {-1}]
         /\ inbox' \in [Service -> Seq(Message)]
<1>1. <<>> \in Seq(Message)
  OBVIOUS
<1> QED BY <1>1 DEF ResetSlot, TypeOK, TypeService

\* A receipt that carries a response names the new service.
LEMMA WriteReceiptType ==
  ASSUME TypeOK, Addressed, NEW s, NEW r \in Receipt, NEW m \in Message,
         r = "response" => m.to \in Service, WriteReceipt(s, r, m)
  PROVE  /\ receipt' \in [Service -> Receipt] /\ bounce' \in [Service -> Message]
         /\ \A t \in Service : receipt'[t] = "response" => bounce'[t].to \in Service
BY DEF WriteReceipt, TypeOK, TypeService, Addressed

\* DispatchSignal keeps the types.
LEMMA DispatchSignalType ==
  ASSUME TypeOK, Addressed, NEW w \in Worker, DispatchSignal(w)
  PROVE  TypeOK' /\ Addressed'
<1> USE DEF Goto, mailVars, bindVars, serviceVars, runVars, readyVars, sleepVars, eventVars, externalVars, collectVars, assignVars

<1>1. Least(Undone) \in Worker /\ Current \in Service /\ Root \in Service
  BY CurrentType, ConstantsAssumption DEF DispatchSignal, Dispatching
<1>2. Append(schedule, Current) \in Seq(Service)
  BY <1>1, QueueType DEF TypeOK, TypeTask
<1>3. out[Current] \in Message
  BY <1>1 DEF TypeOK, TypeService
<1>4. /\ out' \in [Service -> Message] 
      /\ \A s \in Service : out'[s].typ = "request" => out[s].typ = "request" /\ out'[s].to = out[s].to
  BY <1>1, NoMessageType DEF DispatchSignal, TypeOK, TypeService
<1>5. doneJobs' \in [Worker -> Job]
  BY <1>1 DEF DispatchSignal, Handled, TypeOK, TypeTask, Job
<1>6. CASE StatusOf(Root) = "dead"
  <2>1. /\ ResetSlot(Current, Freed) /\ Freed \in Status
        /\ receipt' = [receipt EXCEPT ![Current] = "none"]
        /\ bounce' = [bounce EXCEPT ![Current] = NoMessage]
        /\ awaiting' = [awaiting EXCEPT ![Current] = FALSE]
        /\ UNCHANGED <<schedule, event>>
    BY <1>6 DEF DispatchSignal, Freed, Status
  <2>2. TypeService'
    BY <1>1, <1>4, <2>1, ResetSlotType, NoMessageType DEF TypeOK, TypeService, Receipt
  <2>3. Addressed'
    BY <1>1, <1>4, <2>1 DEF Addressed, TypeOK, TypeService
  <2> QED BY <2>1, <2>2, <2>3, <1>5 DEF DispatchSignal, TypeOK, TypeWorker, TypeTask
<1>7. CASE StatusOf(Root) # "dead" /\ Full(Root)
  <2>1. /\ schedule' = Append(schedule, Current)
        /\ UNCHANGED <<inbox, status, event, bindVars, receipt, bounce, awaiting>>
    BY <1>7 DEF DispatchSignal
  <2> QED BY <2>1, <1>2, <1>4, <1>5 DEF DispatchSignal, Addressed, TypeOK, TypeWorker, TypeTask, TypeService
<1>8. CASE StatusOf(Root) # "dead" /\ ~Full(Root)
  <2>1. /\ inbox' = [inbox EXCEPT ![Root] = Append(@, out[Current])]
        /\ CheckMessageTo(Root)
        /\ UNCHANGED <<bindVars, receipt, bounce, awaiting>>
    BY <1>8 DEF DispatchSignal
  <2>2. inbox' \in [Service -> Seq(Message)]
    BY <2>1, <1>3, PushType DEF TypeOK, TypeService
  <2>3. /\ status' \in [Service -> Status] /\ schedule' \in Seq(Service)
        /\ event' \in [Event -> {"invalid", "clear", "set", "closed"}]
    BY <2>1, <1>1, CheckMessageToType
  <2> QED BY <2>1, <2>2, <2>3, <1>4, <1>5 DEF DispatchSignal, Addressed, TypeOK, TypeWorker, TypeTask, TypeService
<1> QED BY <1>6, <1>7, <1>8

\* ScheduleNew keeps the types.
LEMMA ScheduleNewType ==
  ASSUME TypeOK, Addressed, NEW w \in Worker, ScheduleNew(w)
  PROVE  TypeOK' /\ Addressed'
<1> USE DEF Goto, mailVars, bindVars, serviceVars, runVars, readyVars, sleepVars, eventVars, externalVars, collectVars, assignVars

<1>1. Current \in Service
  BY CurrentType DEF ScheduleNew, Dispatching
<1>2. out[Current] \in Message
  BY <1>1 DEF TypeOK, TypeService
<1>3. /\ out' \in [Service -> Message] 
      /\ \A s \in Service : out'[s].typ = "request" => out[s].typ = "request" /\ out'[s].to = out[s].to
  BY <1>1, NoMessageType DEF ScheduleNew, TypeOK, TypeService
<1>4. ASSUME NEW t \in Service
      PROVE  [out[Current] EXCEPT !.to = t] \in Message /\ [out[Current] EXCEPT !.to = t].to = t
  BY <1>2 DEF Message
<1>5. CASE Current # Root \/ FreeSlot = {}
  <2>1. WriteReceipt(Current, "error", out[Current]) /\ UNCHANGED <<status, bindVars, inbox>>
    BY <1>5 DEF ScheduleNew
  <2>2. /\ receipt' \in [Service -> Receipt] /\ bounce' \in [Service -> Message]
        /\ \A t \in Service : receipt'[t] = "response" => bounce'[t].to \in Service
    BY <2>1, <1>2, WriteReceiptType DEF Receipt
  <2> QED BY <1>3, <2>1, <2>2 DEF ScheduleNew, Addressed, TypeOK, TypeWorker, TypeTask, TypeService
<1>6. CASE ~(Current # Root \/ FreeSlot = {})
  <2>1. PICK t \in FreeSlot :
            /\ ResetSlot(t, "uninitialized")
            /\ WriteReceipt(Current, "response", [out[Current] EXCEPT !.to = t])
    BY <1>6 DEF ScheduleNew
  <2>2. t \in Service /\ "uninitialized" \in Status
    BY DEF FreeSlot, Status
  <2>3. /\ receipt' \in [Service -> Receipt] /\ bounce' \in [Service -> Message]
        /\ \A s \in Service : receipt'[s] = "response" => bounce'[s].to \in Service
    BY <2>1, <2>2, <1>4, WriteReceiptType DEF Receipt
  <2> QED BY <1>3, <2>1, <2>2, <2>3, ResetSlotType DEF ScheduleNew, Addressed, TypeOK, TypeWorker, TypeTask, TypeService
<1> QED BY <1>5, <1>6

\* PushMessage keeps the types.
LEMMA PushMessageType ==
  ASSUME TypeOK, Addressed, NEW w \in Worker, PushMessage(w)
  PROVE  TypeOK' /\ Addressed'
<1> USE DEF Goto, mailVars, bindVars, serviceVars, runVars, readyVars, sleepVars, eventVars, externalVars, collectVars, assignVars

<1>1. Current \in Service
  BY CurrentType DEF PushMessage
<1>2. out[Current].to \in Service /\ out[Current] \in Message
  BY <1>1 DEF PushMessage, TypeOK, TypeService, Addressed
<1>3. /\ out' \in [Service -> Message] 
      /\ \A s \in Service : out'[s].typ = "request" => out[s].typ = "request" /\ out'[s].to = out[s].to
  BY <1>1, NoMessageType DEF PushMessage, TypeOK, TypeService
<1>4. inbox' \in [Service -> Seq(Message)]
  <2>1. [inbox EXCEPT ![out[Current].to] = Append(@, out[Current])] \in [Service -> Seq(Message)]
    BY <1>2, PushType DEF TypeOK, TypeService
  <2> QED BY <2>1 DEF PushMessage, TypeOK, TypeService
<1>5. /\ receipt' \in [Service -> Receipt] /\ bounce' \in [Service -> Message]
      /\ \A t \in Service : receipt'[t] = "response" => bounce'[t].to \in Service
  <2>1. WriteReceipt(Current, "block", out[Current]) \/ WriteReceipt(Current, "done", NoMessage)
    BY DEF PushMessage
  <2> QED BY <2>1, <1>2, NoMessageType, WriteReceiptType DEF Receipt
<1>6. /\ status' \in [Service -> Status] /\ schedule' \in Seq(Service)
      /\ event' \in [Event -> {"invalid", "clear", "set", "closed"}]
  BY <1>2, CheckMessageToType DEF PushMessage
<1>7. pc' \in [Worker -> Label]
  BY DEF PushMessage, TypeOK, TypeWorker, Label
<1> QED BY <1>3, <1>4, <1>5, <1>6, <1>7 DEF PushMessage, Addressed, TypeOK, TypeWorker, TypeTask, TypeService

\* CloseService keeps the types.
LEMMA CloseServiceType ==
  ASSUME TypeOK, Addressed, NEW w \in Worker, CloseService(w)
  PROVE  TypeOK' /\ Addressed'
<1> USE DEF Goto, mailVars, bindVars, serviceVars, runVars, readyVars, sleepVars, eventVars, externalVars, collectVars, assignVars
<1> DEFINE s == running[w]
           c == Head(inbox[s]).about
           del == [typ |-> "del", to |-> System, about |-> c]
<1>1. s \in Service /\ inbox[s] # <<>>
  BY ConstantsAssumption DEF CloseService, Signalled
<1>2. Head(inbox[s]) \in Message /\ Tail(inbox[s]) \in Seq(Message) /\ <<>> \in Seq(Message)
  BY <1>1, QueueType DEF TypeOK, TypeService
<1>3. c \in Service \cup {NoService}
  BY <1>2 DEF Message
<1>4. del \in Message /\ del.typ = "del"
  BY <1>3 DEF Message, MessageType
<1> HIDE DEF s, c, del
<1>5. inbox' \in [Service -> Seq(Message)]
  BY <1>2 DEF CloseService, s, c, TypeOK, TypeService
<1>6. /\ out' \in [Service -> Message] 
      /\ \A t \in Service : out'[t].typ = "request" => out[t].typ = "request" /\ out'[t].to = out[t].to
  BY <1>4, NoMessageType DEF CloseService, s, c, del, TypeOK, TypeService
<1>7. /\ receipt' \in [Service -> Receipt] /\ bounce' \in [Service -> Message]
      /\ \A t \in Service : receipt'[t] = "response" => bounce'[t].to \in Service
  BY NoMessageType DEF CloseService, s, c, TypeOK, TypeService, Receipt, Addressed
<1>8. /\ status' \in [Service -> Status] /\ awaiting' \in [Service -> BOOLEAN]
      /\ bindingThread' \in [Service -> Worker \cup {threadNone}]
      /\ sockevent' \in [Service -> Event \cup {-1}]
  BY DEF CloseService, s, c, TypeOK, TypeService, Status, Freed
<1>9. /\ event' \in [Event -> {"invalid", "clear", "set", "closed"}] 
      /\ eventInit' \in [Event -> BOOLEAN]
  BY DEF CloseService, TypeOK, TypeTask
<1>10. /\ busy' \in [Worker -> BOOLEAN] /\ binding' \in [Worker -> Job] /\ pc' \in [Worker -> Label]
  BY DEF CloseService, Finish, TypeOK, TypeWorker, Job, Label
<1> QED BY <1>5, <1>6, <1>7, <1>8, <1>9, <1>10 DEF CloseService, Finish, Addressed, TypeOK, TypeWorker, TypeTask, TypeService

\* Start keeps the types.
LEMMA StartType ==
  ASSUME TypeOK, Addressed, NEW w \in Worker, Start(w)
  PROVE  TypeOK' /\ Addressed'
<1> USE DEF Goto, mailVars, bindVars, serviceVars, runVars, readyVars, sleepVars, eventVars, externalVars, collectVars, assignVars
<1>1. CASE StatusOf(job[w]) = "schedule"
  BY <1>1 DEF Start, TypeOK, TypeService, TypeWorker, TypeTask, Addressed, Status, Label, Job
<1>2. CASE StatusOf(job[w]) # "schedule"
  BY <1>2 DEF Start, TypeOK, TypeService, TypeWorker, TypeTask, Addressed, Label, Job
<1> QED BY <1>1, <1>2

\* ScheduleDel keeps the types.
LEMMA ScheduleDelType ==
  ASSUME TypeOK, Addressed, NEW w \in Worker, ScheduleDel(w)
  PROVE  TypeOK' /\ Addressed'
<1> USE DEF Goto, mailVars, bindVars, serviceVars, runVars, readyVars, sleepVars, eventVars, externalVars, collectVars, assignVars
<1>1. Current \in Service
  BY CurrentType DEF ScheduleDel, Dispatching
<1>2. /\ receipt' \in [Service -> Receipt] /\ bounce' \in [Service -> Message]
      /\ \A t \in Service : receipt'[t] = "response" => bounce'[t].to \in Service
  BY NoMessageType, WriteReceiptType DEF ScheduleDel, Receipt
<1>3. /\ status' \in [Service -> Status]
      /\ bindingThread' \in [Service -> Worker \cup {threadNone}]
      /\ sockevent' \in [Service -> Event \cup {-1}]
      /\ inbox' \in [Service -> Seq(Message)]
  BY ResetSlotType DEF ScheduleDel, Freed, Status
<1>4. /\ out' \in [Service -> Message]
      /\ \A t \in Service : out'[t].typ = "request" => out[t].typ = "request" /\ out'[t].to = out[t].to
  BY <1>1, NoMessageType DEF ScheduleDel, TypeOK, TypeService
<1> QED BY <1>2, <1>3, <1>4 DEF ScheduleDel, TypeOK, TypeService, TypeWorker, TypeTask, Addressed

\* DispatchToDead keeps the types.
LEMMA DispatchToDeadType ==
  ASSUME TypeOK, Addressed, NEW w \in Worker, DispatchToDead(w)
  PROVE  TypeOK' /\ Addressed'
<1> USE DEF Goto, mailVars, bindVars, serviceVars, runVars, readyVars, sleepVars, eventVars, externalVars, collectVars, assignVars
<1>1. Current \in Service
  BY CurrentType DEF DispatchToDead, Dispatching
<1>2. out[Current] \in Message /\ out[Current].to \in Service
  BY <1>1 DEF DispatchToDead, TypeOK, TypeService, Addressed
<1>3. /\ receipt' \in [Service -> Receipt] /\ bounce' \in [Service -> Message]
      /\ \A t \in Service : receipt'[t] = "response" => bounce'[t].to \in Service
  BY <1>2, WriteReceiptType DEF DispatchToDead, Receipt
<1>4. /\ status' \in [Service -> Status] /\ schedule' \in Seq(Service)
      /\ event' \in [Event -> {"invalid", "clear", "set", "closed"}]
  BY <1>2, CheckMessageToType DEF DispatchToDead
<1>5. /\ out' \in [Service -> Message]
      /\ \A t \in Service : out'[t].typ = "request" => out[t].typ = "request" /\ out'[t].to = out[t].to
  BY <1>1, NoMessageType DEF DispatchToDead, TypeOK, TypeService
<1> QED BY <1>3, <1>4, <1>5 DEF DispatchToDead, TypeOK, TypeService, TypeWorker, TypeTask, Addressed

\* Settle keeps the types.
LEMMA SettleType ==
  ASSUME TypeOK, Addressed, NEW w \in Worker, Settle(w)
  PROVE  TypeOK' /\ Addressed'
<1> USE DEF Goto, mailVars, bindVars, serviceVars, runVars, readyVars, sleepVars, eventVars, externalVars, collectVars, assignVars
<1> DEFINE idle == [typ |-> "idle", to |-> Current, about |-> NoService]
<1>1. Least(Undone) \in Worker /\ Current \in Service
  BY CurrentType DEF Settle, Dispatching
<1>2. idle \in Message
  BY <1>1 DEF Message, MessageType
<1> HIDE DEF idle
<1>3. inbox' = inbox \/ inbox' = [inbox EXCEPT ![Current] = Append(@, idle)]
  BY DEF Settle, idle
<1>4. inbox' \in [Service -> Seq(Message)]
  <2>1. [inbox EXCEPT ![Current] = Append(@, idle)] \in [Service -> Seq(Message)]
    BY <1>2, PushType DEF TypeOK, TypeService
  <2> QED BY <2>1, <1>3 DEF TypeOK, TypeService
<1>5. status' \in [Service -> Status]
  BY DEF Settle, TypeOK, TypeService, Status
<1>6. schedule' \in Seq(Service)
  BY <1>1, QueueType DEF Settle, TypeOK, TypeTask
<1>7. doneJobs' \in [Worker -> Job]
  BY DEF Settle, Handled, TypeOK, TypeTask, Job
<1> QED BY <1>4, <1>5, <1>6, <1>7 DEF Settle, TypeOK, TypeService, TypeWorker, TypeTask, Addressed

\* ExternalPush keeps the types.
LEMMA ExternalPushType ==
  ASSUME TypeOK, Addressed, NEW w \in Worker, ExternalPush(w)
  PROVE  TypeOK' /\ Addressed'
<1> USE DEF Goto, mailVars, bindVars, serviceVars, runVars, readyVars, sleepVars, eventVars, externalVars, collectVars, assignVars
<1> DEFINE m == [typ |-> "request", to |-> Root, about |-> NoService]
<1>1. m \in Message
  BY ConstantsAssumption DEF Message, MessageType
<1> HIDE DEF m
<1>2. inbox' = inbox \/ inbox' = [inbox EXCEPT ![Root] = Append(@, m)]
  BY DEF ExternalPush, m
<1>3. inbox' \in [Service -> Seq(Message)]
  <2>1. [inbox EXCEPT ![Root] = Append(@, m)] \in [Service -> Seq(Message)]
    BY <1>1, PushType DEF TypeOK, TypeService
  <2> QED BY <2>1, <1>2 DEF TypeOK, TypeService
<1>4. externalMessage' \in Nat
  BY DEF ExternalPush, TypeOK, TypeTask
<1> QED BY <1>3, <1>4 DEF ExternalPush, TypeOK, TypeService, TypeWorker, TypeTask, Addressed, Label

\* ExternalDone keeps the types.
LEMMA ExternalDoneType ==
  ASSUME TypeOK, Addressed, NEW w \in Worker, ExternalDone(w)
  PROVE  TypeOK' /\ Addressed'
<1> USE DEF Goto, mailVars, bindVars, serviceVars, runVars, readyVars, sleepVars, eventVars, externalVars, collectVars, assignVars
<1>1. /\ status' \in [Service -> Status] /\ schedule' \in Seq(Service)
      /\ event' \in [Event -> {"invalid", "clear", "set", "closed"}]
  <2>1. CASE sent
    BY <2>1, ConstantsAssumption, CheckMessageToType DEF ExternalDone
  <2>2. CASE ~sent
    BY <2>2 DEF ExternalDone, TypeOK, TypeService, TypeTask
  <2> QED BY <2>1, <2>2
<1> QED BY <1>1 DEF ExternalDone, TypeOK, TypeService, TypeWorker, TypeTask, Addressed, Label

\* GetPendingJobs keeps the types.
LEMMA GetPendingJobsType ==
  ASSUME TypeOK, Addressed, NEW w \in Worker, GetPendingJobs(w)
  PROVE  TypeOK' /\ Addressed'
<1> USE DEF Goto, mailVars, bindVars, serviceVars, runVars, readyVars, sleepVars, eventVars, externalVars, collectVars, assignVars
<1>1. Least(Pending) \in Pending
  <2>1. Pending \subseteq Worker /\ Pending # {}
    BY DEF GetPendingJobs, Pending
  <2> QED BY <2>1, LeastWorkerType
<1>2. serviceReady[Least(Pending)] \in Service
  BY <1>1 DEF Pending, Stealable, TypeOK, TypeWorker, Job
<1>3. jobs' \in Seq(Service)
  BY <1>2, QueueType DEF GetPendingJobs, TypeOK, TypeTask
<1>4. serviceReady' \in [Worker -> Job] /\ waiting' \in [Worker -> Job]
  BY DEF GetPendingJobs, TypeOK, TypeWorker, Job
<1> QED BY <1>3, <1>4 DEF GetPendingJobs, TypeOK, TypeService, TypeWorker, TypeTask, Addressed

\* CountFreeSlots keeps the types.
LEMMA CountFreeSlotsType ==
  ASSUME TypeOK, Addressed, NEW w \in Worker, CountFreeSlots(w)
  PROVE  TypeOK' /\ Addressed'
<1> USE DEF Goto, mailVars, bindVars, serviceVars, runVars, readyVars, sleepVars, eventVars, externalVars, collectVars, assignVars
<1>1. \A i \in Refilled :
        Head(bindingQueue[i]) \in Service /\ Tail(bindingQueue[i]) \in Seq(Service)
  BY QueueType DEF Refilled, TypeOK, TypeWorker
<1>2. IsFiniteSet(Free)
  <2>1. IsFiniteSet(Worker) /\ Free \subseteq Worker
    BY ConstantsAssumption, FS_Interval DEF Free, Worker
  <2> QED BY <2>1, FS_Subset
<1>3. Cardinality(Free) \in Nat /\ Len(jobs) \in Nat
  BY <1>2, FS_CardinalityType DEF TypeOK, TypeTask
<1>4. slots' \in Nat
  BY <1>3 DEF CountFreeSlots
<1>5. serviceReady' \in [Worker -> Job] /\ waiting' \in [Worker -> Job]
  BY <1>1 DEF CountFreeSlots, TypeOK, TypeWorker, Job
<1>6. bindingQueue' \in [Worker -> Seq(Service)]
  BY <1>1 DEF CountFreeSlots, TypeOK, TypeWorker
<1> QED BY <1>4, <1>5, <1>6 DEF CountFreeSlots, Wake, TypeOK, TypeService, TypeWorker, TypeTask, Addressed, Label

\* PrepareUnbound keeps the types.
LEMMA PrepareUnboundType ==
  ASSUME TypeOK, Addressed, NEW w \in Worker, PrepareUnbound(w)
  PROVE  TypeOK' /\ Addressed'
<1> USE DEF Goto, mailVars, bindVars, serviceVars, runVars, readyVars, sleepVars, eventVars, externalVars, collectVars, assignVars
<1>1. Head(schedule) \in Service /\ Tail(schedule) \in Seq(Service)
  BY QueueType DEF PrepareUnbound, TypeOK, TypeTask
<1>2. Append(jobs, Head(schedule)) \in Seq(Service)
  BY <1>1, QueueType DEF TypeOK, TypeTask
<1> QED BY <1>1, <1>2 DEF PrepareUnbound, TypeOK, TypeService, TypeWorker, TypeTask, Addressed

\* PrepareBound keeps the types.
LEMMA PrepareBoundType ==
  ASSUME TypeOK, Addressed, NEW w \in Worker, PrepareBound(w)
  PROVE  TypeOK' /\ Addressed'
<1> USE DEF Goto, mailVars, bindVars, serviceVars, runVars, readyVars, sleepVars, eventVars, externalVars, collectVars, assignVars
<1> DEFINE s == Head(schedule)
           i == BindingOf(s)
           q == Append(bindingQueue[i], s)
<1>1. s \in Service /\ Tail(schedule) \in Seq(Service)
  BY QueueType DEF PrepareBound, TypeOK, TypeTask
<1>2. Append(Tail(schedule), s) \in Seq(Service)
  BY <1>1, QueueType
<1>3. i \in Worker
  BY <1>1, ConstantsAssumption DEF PrepareBound, BindingOf, TypeOK, TypeService, Worker
<1>4. q \in Seq(Service) /\ q # <<>>
  BY <1>1, <1>3, QueueType DEF TypeOK, TypeWorker
<1> HIDE DEF q, i, s
<1>5. Head(q) \in Service /\ Tail(q) \in Seq(Service)
  BY <1>4, QueueType
<1>6. bindingQueue' \in [Worker -> Seq(Service)]
  BY <1>4, <1>5 DEF PrepareBound, q, i, s, TypeOK, TypeWorker
<1>7. serviceReady' \in [Worker -> Job] /\ waiting' \in [Worker -> Job]
  BY <1>5 DEF PrepareBound, q, i, s, TypeOK, TypeWorker, Job
<1>8. schedule' \in Seq(Service) /\ slots' \in Nat /\ blockedService' \in BOOLEAN
  BY <1>1, <1>2 DEF PrepareBound, s, TypeOK, TypeTask
<1> QED BY <1>6, <1>7, <1>8 DEF PrepareBound, Wake, TypeOK, TypeService, TypeWorker, TypeTask, Addressed

\* AssignPrepare keeps the types.
LEMMA AssignPrepareType ==
  ASSUME TypeOK, Addressed, NEW w \in Worker, AssignPrepare(w)
  PROVE  TypeOK' /\ Addressed'
<1> USE DEF Goto, mailVars, bindVars, serviceVars, runVars, readyVars, sleepVars, eventVars, externalVars, collectVars, assignVars
<1>1. jobs # <<>> /\ Head(jobs) \in Service /\ Tail(jobs) \in Seq(Service)
  BY QueueType DEF AssignPrepare, TypeOK, TypeTask
<1>2. \A i \in Worker : bindingQueue[i] # <<>> =>
        Head(bindingQueue[i]) \in Service /\ Tail(bindingQueue[i]) \in Seq(Service)
  BY QueueType DEF TypeOK, TypeWorker
<1>3. serviceReady' \in [Worker -> Job]
  BY <1>1, <1>2 DEF AssignPrepare, TypeOK, TypeWorker, Job
<1>4. bindingQueue' \in [Worker -> Seq(Service)]
  BY <1>1, <1>2 DEF AssignPrepare, TypeOK, TypeWorker
<1>5. jobs' \in Seq(Service) /\ visit' \in 0 .. NWorker /\ pass' \in 0 .. 2
  BY <1>1, ConstantsAssumption DEF AssignPrepare, TypeOK, TypeTask
<1> QED BY <1>3, <1>4, <1>5 DEF AssignPrepare, Wake, TypeOK, TypeService, TypeWorker, TypeTask, Addressed

\* TriggerBlockedWorkers keeps the types.
LEMMA TriggerBlockedWorkersType ==
  ASSUME TypeOK, Addressed, NEW w \in Worker, TriggerBlockedWorkers(w)
  PROVE  TypeOK' /\ Addressed'
<1> USE DEF Goto, mailVars, bindVars, serviceVars, runVars, readyVars, sleepVars, eventVars, externalVars, collectVars, assignVars
<1>1. waiting' \in [Worker -> Job] /\ blockedService' \in BOOLEAN
  BY DEF TriggerBlockedWorkers, TypeOK, TypeWorker, Job
<1>2. event' \in [Event -> {"invalid", "clear", "set", "closed"}]
  BY DEF TriggerBlockedWorkers, Triggered, TypeOK, TypeTask
<1>3. pc' \in [Worker -> Label] /\ visit' \in 0 .. NWorker /\ pass' \in 0 .. 2
  BY ConstantsAssumption DEF TriggerBlockedWorkers, TypeOK, TypeWorker, Label
<1> QED BY <1>1, <1>2, <1>3 DEF TriggerBlockedWorkers, TypeOK, TypeService, TypeWorker, TypeTask, Addressed, Label

\* Schedule keeps the types.
LEMMA ScheduleType ==
  ASSUME TypeOK, Addressed, NEW w \in Worker, Schedule(w)
  PROVE  TypeOK' /\ Addressed'
<1> USE DEF Goto, mailVars, bindVars, serviceVars, runVars, readyVars, sleepVars, eventVars, externalVars, collectVars, assignVars
<1>1. serviceReady' \in [Worker -> Job] /\ waiting' \in [Worker -> Job]
  <2>1. Victim # {} => Least(Victim) \in Worker
    BY LeastWorkerType DEF Victim
  <2> QED BY <2>1 DEF Schedule, TypeOK, TypeWorker, Job
<1> QED BY <1>1 DEF Schedule, TypeOK, TypeService, TypeWorker, TypeTask, Addressed, Label

\* Yield keeps the types.
LEMMA YieldType ==
  ASSUME TypeOK, Addressed, NEW w \in Worker, Yield(w)
  PROVE  TypeOK' /\ Addressed'
<1> USE DEF Goto, mailVars, bindVars, serviceVars, runVars, readyVars, sleepVars, eventVars, externalVars, collectVars, assignVars
<1>1. Receive(running[w])
  BY DEF Yield
<1>2. /\ receipt' \in [Service -> Receipt] /\ bounce' \in [Service -> Message]
      /\ inbox' \in [Service -> Seq(Message)]
      /\ \A t \in Service : receipt'[t] = "response" => bounce'[t].to \in Service
  BY <1>1, ReceiveType
<1>5. TypeService'
  BY <1>2 DEF Yield, Finish, TypeOK, TypeService, Status
<1>6. Addressed'
  BY <1>2 DEF Yield, Finish, TypeOK, TypeService, Addressed
<1> QED BY <1>5, <1>6 DEF Yield, Finish, TypeOK, TypeWorker, TypeTask, Job, Label

\* Send keeps the types.
LEMMA SendType ==
  ASSUME TypeOK, Addressed, NEW w \in Worker, NEW t \in Service, Send(w, t)
  PROVE  TypeOK' /\ Addressed'
<1> USE DEF Goto, mailVars, bindVars, serviceVars, runVars, readyVars, sleepVars, eventVars, externalVars, collectVars, assignVars
<1>1. Receive(running[w])
  BY DEF Send
<1>2. /\ receipt' \in [Service -> Receipt] /\ bounce' \in [Service -> Message]
      /\ inbox' \in [Service -> Seq(Message)]
      /\ \A u \in Service : receipt'[u] = "response" => bounce'[u].to \in Service
  BY <1>1, ReceiveType
<1>4. [typ |-> "request", to |-> t, about |-> NoService] \in Message
  BY ConstantsAssumption DEF Message, MessageType
<1>5. TypeService'
  BY <1>2, <1>4 DEF Send, Finish, Post, TypeOK, TypeService, Status
<1>6. Addressed'
  BY <1>2, <1>4 DEF Send, Finish, Post, TypeOK, TypeService, Addressed
<1> QED BY <1>5, <1>6, <1>4 DEF Send, Finish, TypeOK, TypeWorker, TypeTask, Job, Label

\* Spawn keeps the types.
LEMMA SpawnType ==
  ASSUME TypeOK, Addressed, NEW w \in Worker, Spawn(w)
  PROVE  TypeOK' /\ Addressed'
<1> USE DEF Goto, mailVars, bindVars, serviceVars, runVars, readyVars, sleepVars, eventVars, externalVars, collectVars, assignVars
<1>1. Receive(running[w])
  BY DEF Spawn
<1>2. /\ receipt' \in [Service -> Receipt] /\ bounce' \in [Service -> Message]
      /\ inbox' \in [Service -> Seq(Message)]
      /\ \A t \in Service : receipt'[t] = "response" => bounce'[t].to \in Service
  BY <1>1, ReceiveType
<1>4. [typ |-> "new", to |-> System, about |-> NoService] \in Message
  BY ConstantsAssumption DEF Message, MessageType
<1>5. TypeService'
  BY <1>2, <1>4 DEF Spawn, Finish, Post, TypeOK, TypeService, Status
<1>6. Addressed'
  BY <1>2, <1>4 DEF Spawn, Finish, Post, TypeOK, TypeService, Addressed
<1> QED BY <1>5, <1>6, <1>4 DEF Spawn, Finish, TypeOK, TypeWorker, TypeTask, Job, Label

\* InitService keeps the types.
LEMMA InitServiceType ==
  ASSUME TypeOK, Addressed, NEW w \in Worker, NEW x \in Worker \cup {threadNone}, InitService(w, x)
  PROVE  TypeOK' /\ Addressed'
<1> USE DEF Goto, mailVars, bindVars, serviceVars, runVars, readyVars, sleepVars, eventVars, externalVars, collectVars, assignVars
<1>1. Receive(running[w])
  BY DEF InitService
<1>2. /\ receipt' \in [Service -> Receipt] /\ bounce' \in [Service -> Message]
      /\ inbox' \in [Service -> Seq(Message)]
      /\ \A t \in Service : receipt'[t] = "response" => bounce'[t].to \in Service
  BY <1>1, ReceiveType
<1>3. bounce[running[w]].to \in Service
  BY ConstantsAssumption DEF InitService, Spawned, Addressed
<1>4. [typ |-> "request", to |-> bounce[running[w]].to, about |-> NoService] \in Message
  BY <1>3, ConstantsAssumption DEF Message, MessageType
<1>5. TypeService'
  BY <1>2, <1>3, <1>4 DEF InitService, Finish, Post, TypeOK, TypeService, Status
<1>6. Addressed'
  BY <1>2, <1>3, <1>4 DEF InitService, Finish, Post, TypeOK, TypeService, Addressed
<1> QED BY <1>5, <1>6, <1>3, <1>4 DEF InitService, Finish, TypeOK, TypeWorker, TypeTask, Job, Label

\* InitServiceFails keeps the types.
LEMMA InitServiceFailsType ==
  ASSUME TypeOK, Addressed, NEW w \in Worker, InitServiceFails(w)
  PROVE  TypeOK' /\ Addressed'
<1> USE DEF Goto, mailVars, bindVars, serviceVars, runVars, readyVars, sleepVars, eventVars, externalVars, collectVars, assignVars
<1>1. Receive(running[w])
  BY DEF InitServiceFails
<1>2. /\ receipt' \in [Service -> Receipt] /\ bounce' \in [Service -> Message]
      /\ inbox' \in [Service -> Seq(Message)]
      /\ \A t \in Service : receipt'[t] = "response" => bounce'[t].to \in Service
  BY <1>1, ReceiveType
<1>5. TypeService'
  BY <1>2 DEF InitServiceFails, Finish, Freed, TypeOK, TypeService, Status
<1>6. Addressed'
  BY <1>2 DEF InitServiceFails, Finish, Freed, TypeOK, TypeService, Addressed
<1> QED BY <1>5, <1>6 DEF InitServiceFails, Finish, TypeOK, TypeWorker, TypeTask, Job, Label

\* QuitService keeps the types.
LEMMA QuitServiceType ==
  ASSUME TypeOK, Addressed, NEW w \in Worker, QuitService(w)
  PROVE  TypeOK' /\ Addressed'
<1> USE DEF Goto, mailVars, bindVars, serviceVars, runVars, readyVars, sleepVars, eventVars, externalVars, collectVars, assignVars
<1>1. Receive(running[w])
  BY DEF QuitService
<1>2. /\ receipt' \in [Service -> Receipt] /\ bounce' \in [Service -> Message]
      /\ inbox' \in [Service -> Seq(Message)]
      /\ \A t \in Service : receipt'[t] = "response" => bounce'[t].to \in Service
  BY <1>1, ReceiveType
<1>3. running[w] \in Service \cup {NoService}
  BY DEF TypeOK, TypeWorker, Job
<1>4. [typ |-> "signal", to |-> Root, about |-> running[w]] \in Message
  BY <1>3, ConstantsAssumption DEF Message, MessageType
<1>5. TypeService'
  BY <1>2, <1>4 DEF QuitService, Finish, TypeOK, TypeService, Status
<1>6. Addressed'
  BY <1>2, <1>4 DEF QuitService, Finish, TypeOK, TypeService, Addressed
<1> QED BY <1>5, <1>6, <1>4 DEF QuitService, Finish, TypeOK, TypeWorker, TypeTask, Job, Label

\* Bind keeps the types.
LEMMA BindType ==
  ASSUME TypeOK, Addressed, NEW w \in Worker, NEW x \in Worker \cup {threadNone}, Bind(w, x)
  PROVE  TypeOK' /\ Addressed'
<1> USE DEF Goto, mailVars, bindVars, serviceVars, runVars, readyVars, sleepVars, eventVars, externalVars, collectVars, assignVars
<1>1. Receive(running[w])
  BY DEF Bind
<1>2. /\ receipt' \in [Service -> Receipt] /\ bounce' \in [Service -> Message]
      /\ inbox' \in [Service -> Seq(Message)]
      /\ \A t \in Service : receipt'[t] = "response" => bounce'[t].to \in Service
  BY <1>1, ReceiveType
<1>5. TypeService'
  BY <1>2 DEF Bind, Finish, TypeOK, TypeService, Status
<1>6. Addressed'
  BY <1>2 DEF Bind, Finish, TypeOK, TypeService, Addressed
<1> QED BY <1>5, <1>6 DEF Bind, Finish, TypeOK, TypeWorker, TypeTask, Job, Label

\* EventInit keeps the types.
LEMMA EventInitType ==
  ASSUME TypeOK, Addressed, NEW w \in Worker, EventInit(w)
  PROVE  TypeOK' /\ Addressed'
<1> USE DEF Goto, mailVars, bindVars, serviceVars, runVars, readyVars, sleepVars, eventVars, externalVars, collectVars, assignVars
<1> DEFINE free == {e \in DOMAIN event : ~eventInit[e]}
<1>1. /\ receipt' \in [Service -> Receipt] /\ bounce' \in [Service -> Message]
      /\ inbox' \in [Service -> Seq(Message)]
      /\ \A t \in Service : receipt'[t] = "response" => bounce'[t].to \in Service
  BY ReceiveType DEF EventInit
<1>2. Least(free) \in Event
  <2>1. free # {} /\ free \subseteq Event /\ free \in SUBSET Nat
    BY DEF EventInit, TypeOK, TypeTask, Event
  <2> QED BY <2>1, LeastIn
<1>3. TypeService'
  BY <1>1, <1>2 DEF EventInit, Finish, TypeOK, TypeService, Status
<1>4. event' \in [Event -> {"invalid", "clear", "set", "closed"}] /\ eventInit' \in [Event -> BOOLEAN]
  BY DEF EventInit, TypeOK, TypeTask
<1>5. busy' \in [Worker -> BOOLEAN] /\ binding' \in [Worker -> Job] /\ pc' \in [Worker -> Label]
  BY DEF EventInit, Finish, TypeOK, TypeWorker, Job, Label
<1> QED BY <1>1, <1>3, <1>4, <1>5 DEF EventInit, Finish, Addressed, TypeOK, TypeWorker, TypeTask, TypeService

\* EventWait keeps the types.
LEMMA EventWaitType ==
  ASSUME TypeOK, Addressed, NEW w \in Worker, EventWait(w)
  PROVE  TypeOK' /\ Addressed'
<1> USE DEF Goto, mailVars, bindVars, serviceVars, runVars, readyVars, sleepVars, eventVars, externalVars, collectVars, assignVars
<1>1. /\ receipt' \in [Service -> Receipt] /\ bounce' \in [Service -> Message]
      /\ inbox' \in [Service -> Seq(Message)]
      /\ \A t \in Service : receipt'[t] = "response" => bounce'[t].to \in Service
  BY ReceiveType DEF EventWait
<1> QED BY <1>1 DEF EventWait, Addressed, TypeOK, TypeService, TypeWorker, TypeTask, Label

\* EventWaited keeps the types.
LEMMA EventWaitedType ==
  ASSUME TypeOK, Addressed, NEW w \in Worker, EventWaited(w)
  PROVE  TypeOK' /\ Addressed'
<1> USE DEF Goto, mailVars, bindVars, serviceVars, runVars, readyVars, sleepVars, eventVars, externalVars, collectVars, assignVars
<1>1. TypeService' /\ Addressed'
  BY DEF EventWaited, Finish, TypeOK, TypeService, Addressed, Status
<1> QED BY <1>1 DEF EventWaited, Finish, TypeOK, TypeWorker, TypeTask, Job, Label

\* QuitRoot keeps the types.
LEMMA QuitRootType ==
  ASSUME TypeOK, Addressed, NEW w \in Worker, QuitRoot(w)
  PROVE  TypeOK' /\ Addressed'
<1> USE DEF Goto, mailVars, bindVars, serviceVars, runVars, readyVars, sleepVars, eventVars, externalVars, collectVars, assignVars
<1>1. /\ receipt' \in [Service -> Receipt] /\ bounce' \in [Service -> Message]
      /\ inbox' \in [Service -> Seq(Message)]
      /\ \A t \in Service : receipt'[t] = "response" => bounce'[t].to \in Service
  BY ReceiveType DEF QuitRoot
<1>2. TypeService' /\ Addressed'
  BY <1>1 DEF QuitRoot, TypeOK, TypeService, Addressed, Status
<1>3. event' \in [Event -> {"invalid", "clear", "set", "closed"}]
  BY DEF QuitRoot, Triggered, TypeOK, TypeTask
<1> QED BY <1>2, <1>3 DEF QuitRoot, TypeOK, TypeWorker, TypeTask, Label

\* Every step keeps the types, action by action.
LEMMA TypeNext ==
  ASSUME TypeOK, Addressed, [Next]_vars
  PROVE  TypeOK' /\ Addressed'
<1> USE DEF Goto, mailVars, bindVars, serviceVars, runVars, readyVars, sleepVars, eventVars, externalVars, collectVars, assignVars
<1>1. CASE UNCHANGED vars
  BY <1>1 DEF vars, TypeOK, TypeService, TypeWorker, TypeTask, Addressed
<1>2. CASE ExternalSend
  BY <1>2 DEF ExternalSend, TypeOK, TypeService, TypeWorker, TypeTask, Addressed
<1>3. ASSUME NEW w \in Worker, Step(w)
      PROVE  TypeOK' /\ Addressed'
  <2>1. CASE GetJob(w)
    BY <2>1 DEF GetJob, TypeOK, TypeService, TypeWorker, TypeTask, Addressed, Label, Job
  <2>2. CASE NoJob(w)
    BY <2>2 DEF NoJob, TypeOK, TypeService, TypeWorker, TypeTask, Addressed, Label, Job
  <2>3. CASE Rest(w)
    BY <2>3 DEF Rest, TypeOK, TypeService, TypeWorker, TypeTask, Addressed, Label, Job
  <2>4. CASE Sleep(w)
    BY <2>4 DEF Sleep, TypeOK, TypeService, TypeWorker, TypeTask, Addressed, Label, Job
  <2>5. CASE Park(w)
    BY <2>5 DEF Park, TypeOK, TypeService, TypeWorker, TypeTask, Addressed, Label, Job
  <2>6. CASE Wait(w)
    BY <2>6 DEF Wait, TypeOK, TypeService, TypeWorker, TypeTask, Addressed, Label, Job
  <2>7. CASE Wakened(w)
    BY <2>7 DEF Wakened, TypeOK, TypeService, TypeWorker, TypeTask, Addressed, Label, Job
  <2>8. CASE Quit(w)
    BY <2>8 DEF Quit, TypeOK, TypeService, TypeWorker, TypeTask, Addressed, Label, Job
  <2>9. CASE AcquireScheduler(w)
    BY <2>9 DEF AcquireScheduler, Acquire, DispatchEntry, TypeOK, TypeService, TypeWorker, TypeTask, Addressed, Label, Job
  <2>10. CASE ReleaseScheduler(w)
    BY <2>10 DEF ReleaseScheduler, TypeOK, TypeService, TypeWorker, TypeTask, Addressed, Label, Job
  <2>11. CASE ExternalPush(w)
    BY <2>11, ExternalPushType
  <2>12. CASE ExternalDone(w)
    BY <2>12, ExternalDoneType
  <2>13. CASE CollectDoneJobs(w)
    BY <2>13 DEF CollectDoneJobs, TypeOK, TypeService, TypeWorker, TypeTask, Addressed, Label, Job
  <2>14. CASE DispatchSignal(w)
    BY <2>14, DispatchSignalType
  <2>15. CASE ScheduleNew(w)
    BY <2>15, ScheduleNewType
  <2>16. CASE ScheduleDel(w)
    BY <2>16, ScheduleDelType
  <2>17. CASE DispatchToDead(w)
    BY <2>17, DispatchToDeadType
  <2>18. CASE DispatchOutMessage(w)
    BY <2>18 DEF DispatchOutMessage, TypeOK, TypeService, TypeWorker, TypeTask, Addressed, Label, Job
  <2>19. CASE PushMessage(w)
    BY <2>19, PushMessageType
  <2>20. CASE Settle(w)
    BY <2>20, SettleType
  <2>21. CASE GetPendingJobs(w)
    BY <2>21, GetPendingJobsType
  <2>22. CASE CountFreeSlots(w)
    BY <2>22, CountFreeSlotsType
  <2>23. CASE PrepareUnbound(w)
    BY <2>23, PrepareUnboundType
  <2>24. CASE PrepareBound(w)
    BY <2>24, PrepareBoundType
  <2>25. CASE PrepareDone(w)
    BY <2>25 DEF PrepareDone, TypeOK, TypeService, TypeWorker, TypeTask, Addressed, Label, Job
  <2>26. CASE AssignPrepare(w)
    BY <2>26, AssignPrepareType
  <2>27. CASE TriggerBlockedWorkers(w)
    BY <2>27, TriggerBlockedWorkersType
  <2>28. CASE Schedule(w)
    BY <2>28, ScheduleType
  <2>29. CASE Start(w)
    BY <2>29, StartType
  <2>30. CASE Yield(w)
    BY <2>30, YieldType
  <2>31. CASE Spawn(w)
    BY <2>31, SpawnType
  <2>32. CASE InitServiceFails(w)
    BY <2>32, InitServiceFailsType
  <2>33. CASE CloseService(w)
    BY <2>33, CloseServiceType
  <2>34. CASE QuitService(w)
    BY <2>34, QuitServiceType
  <2>35. CASE QuitRoot(w)
    BY <2>35, QuitRootType
  <2>36. CASE EventInit(w)
    BY <2>36, EventInitType
  <2>37. CASE EventWait(w)
    BY <2>37, EventWaitType
  <2>38. CASE EventWaited(w)
    BY <2>38, EventWaitedType
  <2>39. CASE Complete(w)
    BY <2>39 DEF Complete, CompleteJob, DispatchEntry, TypeOK, TypeService, TypeWorker, TypeTask, Addressed, Label, Job
  <2>40. CASE CompleteAcquire(w)
    BY <2>40 DEF CompleteAcquire, Acquire, TypeOK, TypeService, TypeWorker, TypeTask, Addressed, Label, Job
  <2>41. CASE Drain(w)
    BY <2>41 DEF Drain, DispatchEntry, TypeOK, TypeService, TypeWorker, TypeTask, Addressed, Label, Job
  <2>42. CASE \E t \in Service : Send(w, t)
    BY <2>42, SendType
  <2>43. CASE \E x \in Worker \cup {threadNone} : InitService(w, x)
    BY <2>43, InitServiceType
  <2>44. CASE \E x \in Worker \cup {threadNone} : Bind(w, x)
    BY <2>44, BindType
  <2> QED BY <1>3, <2>1, <2>2, <2>3, <2>4, <2>5, <2>6, <2>7, <2>8, <2>9, <2>10, <2>11, <2>12, <2>13, <2>14, <2>15, <2>16, <2>17, <2>18, <2>19, <2>20, <2>21, <2>22, <2>23, <2>24, <2>25, <2>26, <2>27, <2>28, <2>29, <2>30, <2>31, <2>32, <2>33, <2>34, <2>35, <2>36, <2>37, <2>38, <2>39, <2>40, <2>41, <2>42, <2>43, <2>44
       DEF Step, Lull, Dispatch, DispatchOut, Run
<1> QED BY <1>1, <1>2, <1>3 DEF Next

\* The state bootstrap.go leaves is well typed.
LEMMA TypeInit == Init => TypeOK /\ Addressed
<1> SUFFICES ASSUME Init PROVE TypeOK /\ Addressed
  OBVIOUS
<1>1. TypeService
  <2>1. [typ |-> "request", to |-> Root, about |-> NoService] \in Message
    BY ConstantsAssumption DEF Message, MessageType
  <2> QED BY <2>1, NoMessageType, ConstantsAssumption DEF Init, TypeService, Status, Receipt
<1>2. TypeWorker
  BY DEF Init, TypeWorker, Job, Label
<1>3. TypeTask
  <2>1. <<>> \in Seq(Service) /\ <<Root>> \in Seq(Service)
    BY ConstantsAssumption
  <2>2. event \in [Event -> {"invalid", "clear", "set", "closed"}] /\ eventInit \in [Event -> BOOLEAN]
    BY DEF Init, Event
  <2>3. visit \in 0 .. NWorker /\ pass \in 0 .. 2 /\ slots \in Nat
    BY ConstantsAssumption DEF Init
  <2> QED BY <2>1, <2>2, <2>3 DEF Init, TypeTask, Job
<1>4. Addressed
  BY NoMessageType DEF Init, Addressed
<1> QED BY <1>1, <1>2, <1>3, <1>4 DEF TypeOK

\* Type correctness, for any number of workers, services and messages: no
\* queue, slot or message ever holds a value its Go field cannot hold, and a
\* request or a new service's id always names a service (service.go:39-54,
\* worker.go:19-34, core.go:15-30).
THEOREM TypeCorrect == Spec => [](TypeOK /\ Addressed)
BY TypeInit, TypeNext, PTL DEF Spec

\* Every step keeps the lock exclusive: the steps of a round, which need it,
\* are taken by its owner, and no step of another worker enters a round.
LEMMA LockNext ==
  ASSUME TypeOK, LockExclusive, [Next]_vars
  PROVE  LockExclusive'
<1> USE DEF Goto, mailVars, bindVars, serviceVars, runVars, readyVars, sleepVars,
        eventVars, externalVars, collectVars, assignVars, LockExclusive, Locked
<1> SUFFICES ASSUME pc \in [Worker -> Label], scheduleOwner \in Worker \cup {threadNone}
             PROVE  LockExclusive'
  BY DEF TypeOK, TypeWorker, TypeTask
<1> USE DEF Worker, threadNone
<1>1. CASE UNCHANGED vars \/ ExternalSend
  BY <1>1 DEF vars, ExternalSend
<1>2. ASSUME NEW w \in Worker, Step(w)
      PROVE  LockExclusive'
  <2>1. CASE GetJob(w)
    BY <2>1 DEF GetJob
  <2>2. CASE NoJob(w)
    BY <2>2 DEF NoJob
  <2>3. CASE Rest(w)
    BY <2>3 DEF Rest
  <2>4. CASE Sleep(w)
    BY <2>4 DEF Sleep
  <2>5. CASE Park(w)
    BY <2>5 DEF Park
  <2>6. CASE Wait(w)
    BY <2>6 DEF Wait
  <2>7. CASE Wakened(w)
    BY <2>7 DEF Wakened
  <2>8. CASE Quit(w)
    BY <2>8 DEF Quit
  <2>9. CASE AcquireScheduler(w)
    BY <2>9 DEF AcquireScheduler, Acquire, DispatchEntry
  <2>10. CASE ReleaseScheduler(w)
    BY <2>10 DEF ReleaseScheduler
  <2>11. CASE ExternalPush(w)
    BY <2>11 DEF ExternalPush
  <2>12. CASE ExternalDone(w)
    BY <2>12 DEF ExternalDone
  <2>13. CASE CollectDoneJobs(w)
    BY <2>13 DEF CollectDoneJobs
  <2>14. CASE DispatchSignal(w)
    BY <2>14 DEF DispatchSignal, Dispatching
  <2>15. CASE ScheduleNew(w)
    BY <2>15 DEF ScheduleNew, Dispatching
  <2>16. CASE ScheduleDel(w)
    BY <2>16 DEF ScheduleDel, Dispatching
  <2>17. CASE DispatchToDead(w)
    BY <2>17 DEF DispatchToDead, Dispatching
  <2>18. CASE DispatchOutMessage(w)
    BY <2>18 DEF DispatchOutMessage, Dispatching
  <2>19. CASE PushMessage(w)
    BY <2>19 DEF PushMessage
  <2>20. CASE Settle(w)
    BY <2>20 DEF Settle, Dispatching
  <2>21. CASE GetPendingJobs(w)
    BY <2>21 DEF GetPendingJobs
  <2>22. CASE CountFreeSlots(w)
    BY <2>22 DEF CountFreeSlots, Counting, Wake
  <2>23. CASE PrepareUnbound(w)
    BY <2>23 DEF PrepareUnbound
  <2>24. CASE PrepareBound(w)
    BY <2>24 DEF PrepareBound
  <2>25. CASE PrepareDone(w)
    BY <2>25 DEF PrepareDone
  <2>26. CASE AssignPrepare(w)
    BY <2>26 DEF AssignPrepare
  <2>27. CASE TriggerBlockedWorkers(w)
    BY <2>27 DEF TriggerBlockedWorkers
  <2>28. CASE Schedule(w)
    BY <2>28 DEF Schedule
  <2>29. CASE Start(w)
    BY <2>29 DEF Start
  <2>30. CASE Yield(w)
    BY <2>30 DEF Yield, Finish, AtWill, Resumes
  <2>31. CASE Spawn(w)
    BY <2>31 DEF Spawn, Finish, AtWill, Resumes
  <2>32. CASE InitServiceFails(w)
    BY <2>32 DEF InitServiceFails, Finish, Resumes
  <2>33. CASE CloseService(w)
    BY <2>33 DEF CloseService, Finish, Resumes
  <2>34. CASE QuitService(w)
    BY <2>34 DEF QuitService, Finish, AtWill, Resumes
  <2>35. CASE QuitRoot(w)
    BY <2>35 DEF QuitRoot, AtWill, Resumes
  <2>36. CASE EventInit(w)
    BY <2>36 DEF EventInit, Finish, AtWill, Resumes
  <2>37. CASE EventWait(w)
    BY <2>37 DEF EventWait, AtWill, Resumes
  <2>38. CASE EventWaited(w)
    BY <2>38 DEF EventWaited, Finish
  <2>39. CASE Complete(w)
    BY <2>39 DEF Complete, CompleteJob, DispatchEntry
  <2>40. CASE CompleteAcquire(w)
    BY <2>40 DEF CompleteAcquire, Acquire
  <2>41. CASE Drain(w)
    BY <2>41 DEF Drain, DispatchEntry
  <2>42. CASE \E t \in Service : Send(w, t)
    BY <2>42 DEF Send, Finish, AtWill, Resumes
  <2>43. CASE \E x \in Worker \cup {threadNone} : InitService(w, x)
    BY <2>43 DEF InitService, Finish, Resumes
  <2>44. CASE \E x \in Worker \cup {threadNone} : Bind(w, x)
    BY <2>44 DEF Bind, Finish, AtWill, Resumes
  <2> QED BY <1>2, <2>1, <2>2, <2>3, <2>4, <2>5, <2>6, <2>7, <2>8, <2>9, <2>10, <2>11, <2>12, <2>13, <2>14, <2>15, <2>16, <2>17, <2>18, <2>19, <2>20, <2>21, <2>22, <2>23, <2>24, <2>25, <2>26, <2>27, <2>28, <2>29, <2>30, <2>31, <2>32, <2>33, <2>34, <2>35, <2>36, <2>37, <2>38, <2>39, <2>40, <2>41, <2>42, <2>43, <2>44
       DEF Step, Lull, Dispatch, DispatchOut, Run
<1> QED BY <1>1, <1>2 DEF Next

\* The scheduler lock works, for any number of workers: a worker is inside a
\* round of dispatch() or schedule() exactly while it is scheduleOwner, so that
\* two workers never dispatch at once (worker.go:76-91).
THEOREM LockIsExclusive == Spec => []LockExclusive
<1>1. Init => LockExclusive
  BY DEF Init, LockExclusive, Locked, Worker, threadNone
<1> QED BY <1>1, LockNext, TypeCorrect, PTL DEF Spec

\* The panic of releaseScheduler ("Worker trying to release scheduler it does
\* not own", worker.go:85-91) is unreachable.
THEOREM ReleasedByOwner == Spec => []~PanicNotOwner
<1>1. LockExclusive => ~PanicNotOwner
  BY DEF LockExclusive, Locked, PanicNotOwner
<1> QED BY <1>1, LockIsExclusive, PTL
=============================================================================
