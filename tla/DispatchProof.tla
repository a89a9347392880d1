---------------------------- MODULE DispatchProof ----------------------------
(***************************************************************************)
(* Proofs about what the dispatcher does with messages, receipts, bindings,*)
(* events, slots and deaths, about the panics, and about sleeping workers, *)
(* for any number of workers and services.  They rest on the invariant of  *)
(* module TokenProof, which says where a service is.                       *)
(***************************************************************************)
EXTENDS TokenProof

\* A slot without a service, or with one that root has not initialised
Unborn == {"none", "retired", "uninitialized"}

\* A step of worker w that leaves all services and their messages alone
Aside(w) ==
  /\ UNCHANGED <<serviceVars, externalVars, sent, eventInit>>
  /\ event' = event \/ \E E : event' = Triggered(E)
  /\ pc[w] \notin Active \cup {"external"} /\ pc'[w] \notin Active
  /\ \A v \in Worker \ {w} : pc'[v] = pc[v]

LEMMA StepKinds ==
  ASSUME TypeOK, NEW w \in Worker, Step(w)
  PROVE  Aside(w) \/ ExternalPush(w) \/ ExternalDone(w) \/ DispatchOut(w) \/ Start(w) \/ Run(w)
  <1> USE DEF serviceVars, runVars, readyVars, sleepVars, eventVars, externalVars,
          collectVars, assignVars, Aside, Active, Goto
  <1>1. pc \in [Worker -> Label] BY DEF TypeOK, TypeWorker
  <1>2. \A l : pc' = [pc EXCEPT ![w] = l] =>
               pc'[w] = l /\ \A v \in Worker \ {w} : pc'[v] = pc[v]
    BY <1>1
  <1>3. CASE GetJob(w) BY <1>2, <1>3 DEF GetJob
  <1>4. CASE NoJob(w) BY <1>2, <1>4 DEF NoJob
  <1>5. CASE Rest(w) BY <1>2, <1>5 DEF Rest
  <1>6. CASE Sleep(w) BY <1>2, <1>6 DEF Sleep
  <1>7. CASE Park(w) BY <1>2, <1>7 DEF Park
  <1>8. CASE Wait(w) BY <1>2, <1>8 DEF Wait
  <1>9. CASE Wakened(w) BY <1>2, <1>9 DEF Wakened
  <1>10. CASE Quit(w) BY <1>2, <1>10 DEF Quit
  <1>11. CASE AcquireScheduler(w)
    BY <1>2, <1>11 DEF AcquireScheduler, Acquire, DispatchEntry
  <1>12. CASE ReleaseScheduler(w) BY <1>2, <1>12 DEF ReleaseScheduler
  <1>13. CASE CollectDoneJobs(w) BY <1>2, <1>13 DEF CollectDoneJobs
  <1>14. CASE GetPendingJobs(w) BY <1>14 DEF GetPendingJobs
  <1>15. CASE CountFreeSlots(w) BY <1>2, <1>15 DEF CountFreeSlots, Counting
  <1>16. CASE PrepareUnbound(w) BY <1>16 DEF PrepareUnbound
  <1>17. CASE PrepareBound(w) BY <1>17 DEF PrepareBound
  <1>18. CASE PrepareDone(w) BY <1>2, <1>18 DEF PrepareDone
  <1>19. CASE AssignPrepare(w) BY <1>19 DEF AssignPrepare
  <1>20. CASE TriggerBlockedWorkers(w) BY <1>2, <1>20 DEF TriggerBlockedWorkers
  <1>21. CASE Schedule(w) BY <1>2, <1>21 DEF Schedule
  <1>22. CASE Complete(w) BY <1>2, <1>22 DEF Complete, CompleteJob, DispatchEntry
  <1>23. CASE CompleteAcquire(w) BY <1>2, <1>23 DEF CompleteAcquire, Acquire
  <1>24. CASE Drain(w) BY <1>2, <1>24 DEF Drain, DispatchEntry
  <1> QED BY <1>3, <1>4, <1>5, <1>6, <1>7, <1>8, <1>9, <1>10, <1>11, <1>12, <1>13, <1>14,
             <1>15, <1>16, <1>17, <1>18, <1>19, <1>20, <1>21, <1>22, <1>23, <1>24
          DEF Step, Lull, Dispatch

----------------------------------------------------------------------------
(* Receipts and messages: what a service holds fits its status *)

\* A service has a receipt to read exactly while it waits for one
Answered(s) == awaiting[s] <=> receipt[s] # "none"
Clean(s) == /\ inbox[s] = <<>> /\ out[s] = NoMessage
            /\ receipt[s] = "none" /\ ~awaiting[s]

\* Only root gets messages, the external ones, without being scheduled at once
Told(s) == s # Root \/ ExtCap = 0

Fits(s) ==
  /\ out[s].typ = "nil" => out[s] = NoMessage
  /\ status[s] \in Unborn => Clean(s)
  /\ status[s] \in {"idle", "schedule", "running"} => out[s] = NoMessage /\ Answered(s)
  /\ status[s] = "idle" => receipt[s] = "none" /\ (Told(s) => inbox[s] = <<>>)
  /\ status[s] = "schedule" => HasMessage(s)
  /\ status[s] = "done" => IF out[s] = NoMessage THEN Answered(s)
                                                 ELSE awaiting[s] /\ receipt[s] = "none"
  /\ status[s] = "dead" => out[s].typ \in {"nil", "signal"}

\* External messages are in root's inbox before root is checked for them
ExternalInv ==
  /\ sent => \E w \in Worker : pc[w] = "external"
  /\ sent /\ status[Root] = "idle" => inbox[Root] # <<>>
  /\ ExtCap = 0 => externalMessage = 0 /\ ~externalLast /\ ~sent

FitInv == (\A s \in Service : Fits(s)) /\ ExternalInv

\* Nothing of service s changes
Same(s) == /\ status'[s] = status[s] /\ inbox'[s] = inbox[s] /\ out'[s] = out[s]
           /\ receipt'[s] = receipt[s] /\ awaiting'[s] = awaiting[s]
\* Service s may get a message, and is scheduled if it is idle
Checked(s) == /\ UNCHANGED <<out[s], receipt[s], awaiting[s]>>
              /\ inbox'[s] # <<>> /\ status[s] \notin Unborn
              /\ status'[s] = IF status[s] = "idle" THEN "schedule" ELSE status[s]

LEMMA SameFits ==
  ASSUME NEW s \in Service, Fits(s), Same(s)
  PROVE  Fits(s)'
  BY DEF Fits, Same, Clean, Answered, Told, HasMessage

LEMMA CheckedFits ==
  ASSUME NEW s \in Service, Fits(s), Checked(s)
  PROVE  Fits(s)'
  BY DEF Fits, Checked, Clean, Answered, Told, HasMessage, Unborn

\* What the out slot and the inbox of a finished service can hold.
LEMMA CurrentFits ==
  ASSUME Inv, FitInv, Undone # {}
  PROVE  /\ Current \in Service /\ Fits(Current)
         /\ status[Current] \in {"done", "dead"}
         /\ out[Current].typ = "signal" => Current # Root
  <1>1. Current \in Service /\ Ran(Current)
    BY CurrentType DEF Inv, Ran, Holds, Current
  <1>2. out[Current].typ = "signal" => Current # Root BY <1>1 DEF Inv, MailInv
  <1>3. status[Current] \in {"done", "dead"} BY <1>1 DEF Inv, TokenInv, Stage
  <1> QED BY <1>1, <1>2, <1>3 DEF FitInv

LEMMA CheckEffect ==
  ASSUME TypeOK, NEW t \in Service, CheckMessageTo(t)
  PROVE  \A s \in Service : status'[s] =
           IF s = t /\ status[s] = "idle" THEN "schedule" ELSE status[s]
  BY DEF CheckMessageTo, StatusOf, Vacant, TypeOK, TypeService

LEMMA PushEffect ==
  ASSUME TypeOK, NEW t \in Service, NEW m \in Message,
         inbox' = [inbox EXCEPT ![t] = Append(@, m)]
  PROVE  /\ inbox'[t] # <<>>
         /\ \A s \in Service \ {t} : inbox'[s] = inbox[s]
  <1>1. inbox[t] \in Seq(Message) /\ inbox'[t] = Append(inbox[t], m)
    BY DEF TypeOK, TypeService
  <1>2. inbox'[t] # <<>> BY <1>1, QueueType
  <1>3. \A s \in Service \ {t} : inbox'[s] = inbox[s] BY DEF TypeOK, TypeService
  <1> QED BY <1>2, <1>3

LEMMA FullHas ==
  ASSUME NEW s \in Service, Full(s)
  PROVE  inbox[s] # <<>>
  BY ConstantsAssumption, Len(<<>>) = 0 DEF Full

LEMMA DispatchSignalFits ==
  ASSUME Inv, FitInv, NEW w \in Worker, DispatchSignal(w)
  PROVE  \A s \in Service : Fits(s)'
  <1> SUFFICES ASSUME NEW c \in Service, c = Current PROVE \A s \in Service : Fits(s)'
    BY CurrentType DEF Inv, DispatchSignal, Dispatching
  <1>1. /\ Fits(c) /\ out[c].typ = "signal" /\ c # Root /\ status[c] = "dead"
        /\ out' = [out EXCEPT ![c] = NoMessage]
    BY CurrentFits DEF DispatchSignal, Dispatching, StatusOf, Vacant
  <1>2. /\ status \in [Service -> Status] /\ inbox \in [Service -> Seq(Message)]
        /\ out \in [Service -> Message] /\ receipt \in [Service -> Receipt]
        /\ awaiting \in [Service -> BOOLEAN] /\ Root \in Service
    BY ConstantsAssumption DEF Inv, TypeOK, TypeService
  <1>3. out'[c] = NoMessage /\ \A s \in Service \ {c} : out'[s] = out[s]
    BY <1>1, <1>2
  <1>4. CASE StatusOf(Root) = "dead"
    <2>1. /\ ResetSlot(c, Freed)
          /\ receipt' = [receipt EXCEPT ![c] = "none"]
          /\ awaiting' = [awaiting EXCEPT ![c] = FALSE]
      BY <1>4 DEF DispatchSignal
    <2>2. \A s \in Service \ {c} : Same(s)
      BY <1>2, <1>3, <2>1 DEF ResetSlot, Same
    <2>3. status'[c] \in {"none", "retired"} /\ Clean(c)'
      BY <1>2, <1>3, <2>1 DEF ResetSlot, Clean, Freed
    <2>4. Fits(c)' BY <2>3, NoMessageType DEF Fits, Unborn, Clean
    <2> QED BY <2>2, <2>4, SameFits DEF FitInv
  <1>5. CASE StatusOf(Root) # "dead"
    <2>1. UNCHANGED <<receipt, awaiting>> BY <1>5 DEF DispatchSignal, bindVars
    <2>2. CASE Full(Root)
      <3>1. UNCHANGED <<inbox, status>> BY <1>5, <2>2 DEF DispatchSignal
      <3>2. \A s \in Service \ {c} : Same(s) BY <1>3, <2>1, <3>1 DEF Same
      <3>3. Fits(c)' BY <1>1, <1>3, <3>1, NoMessageType DEF Fits, Unborn
      <3> QED BY <3>2, <3>3, SameFits DEF FitInv
    <2>3. CASE ~Full(Root)
      <3>1. /\ inbox' = [inbox EXCEPT ![Root] = Append(@, out[c])]
            /\ CheckMessageTo(Root) /\ out[c] \in Message
        BY <1>2, <1>5, <2>3 DEF DispatchSignal
      <3>2. /\ inbox'[Root] # <<>> /\ \A s \in Service \ {Root} : inbox'[s] = inbox[s]
            /\ \A s \in Service : status'[s] =
                 IF s = Root /\ status[s] = "idle" THEN "schedule" ELSE status[s]
        BY <1>2, <3>1, PushEffect, CheckEffect DEF Inv
      <3>3. Checked(Root)
        BY <1>1, <1>2, <1>3, <2>1, <3>2 DEF Checked, Inv, MailInv, Vacant, Unborn
      <3>4. \A s \in Service \ {c, Root} : Same(s) BY <1>3, <2>1, <3>2 DEF Same
      <3>5. Fits(c)' BY <1>1, <1>3, <3>2, NoMessageType DEF Fits, Unborn
      <3> QED BY <1>2, <3>3, <3>4, <3>5, SameFits, CheckedFits DEF FitInv
    <2> QED BY <2>2, <2>3
  <1> QED BY <1>4, <1>5

LEMMA ScheduleNewFits ==
  ASSUME Inv, FitInv, NEW w \in Worker, ScheduleNew(w)
  PROVE  \A s \in Service : Fits(s)'
  <1> SUFFICES ASSUME NEW c \in Service, c = Current PROVE \A s \in Service : Fits(s)'
    BY CurrentType DEF Inv, ScheduleNew, Dispatching
  <1>1. /\ Fits(c) /\ out[c].typ = "new" /\ status[c] \in {"done", "dead"}
        /\ out' = [out EXCEPT ![c] = NoMessage]
    BY CurrentFits DEF ScheduleNew, Dispatching
  <1>2. /\ status \in [Service -> Status] /\ inbox \in [Service -> Seq(Message)]
        /\ out \in [Service -> Message] /\ receipt \in [Service -> Receipt]
        /\ awaiting \in [Service -> BOOLEAN]
    BY DEF Inv, TypeOK, TypeService
  <1>3. /\ status[c] = "done" /\ awaiting[c] /\ UNCHANGED awaiting
        /\ out'[c] = NoMessage /\ \A s \in Service \ {c} : out'[s] = out[s]
    BY <1>1, <1>2, NoMessageType DEF Fits, ScheduleNew
  <1>4. CASE Current # Root \/ FreeSlot = {}
    <2>1. /\ UNCHANGED <<status, inbox>> /\ receipt' = [receipt EXCEPT ![c] = "error"]
      BY <1>4 DEF ScheduleNew, WriteReceipt
    <2>2. \A s \in Service \ {c} : Same(s) BY <1>2, <1>3, <2>1 DEF Same
    <2>3. Fits(c)' BY <1>2, <1>3, <2>1, NoMessageType DEF Fits, Answered, Unborn
    <2> QED BY <2>2, <2>3, SameFits DEF FitInv
  <1>5. CASE ~(Current # Root \/ FreeSlot = {})
    <2>1. PICK n \in FreeSlot :
             /\ ResetSlot(n, "uninitialized")
             /\ WriteReceipt(Current, "response", [out[Current] EXCEPT !.to = n])
      BY <1>5 DEF ScheduleNew
    <2>2. n \in Service /\ status[n] = "none" /\ n # c /\ Fits(n)
      BY <1>3, <2>1 DEF FreeSlot, FitInv
    <2>3. receipt' = [receipt EXCEPT ![c] = "response"] BY <2>1 DEF WriteReceipt
    <2>4. \A s \in Service \ {c, n} : Same(s)
      BY <1>2, <1>3, <2>1, <2>3 DEF ResetSlot, Same
    <2>5. /\ status'[n] = "uninitialized" /\ inbox'[n] = <<>> /\ status'[c] = status[c]
          /\ receipt'[n] = receipt[n] /\ receipt'[c] = "response"
      BY <1>2, <2>1, <2>2, <2>3 DEF ResetSlot
    <2>6. Fits(c)' BY <1>3, <2>5, NoMessageType DEF Fits, Answered, Unborn
    <2>7. Fits(n)' BY <1>3, <2>2, <2>5 DEF Fits, Clean, Unborn
    <2> QED BY <2>4, <2>6, <2>7, SameFits DEF FitInv
  <1> QED BY <1>4, <1>5

LEMMA ScheduleDelFits ==
  ASSUME Inv, FitInv, NEW w \in Worker, ScheduleDel(w)
  PROVE  \A s \in Service : Fits(s)'
  <1> SUFFICES ASSUME NEW c \in Service, c = Current PROVE \A s \in Service : Fits(s)'
    BY CurrentType DEF Inv, ScheduleDel, Dispatching
  <1> SUFFICES ASSUME NEW n \in Service, n = out[c].about PROVE \A s \in Service : Fits(s)'
    BY DEF Inv, MailInv, ScheduleDel
  <1>1. /\ Fits(c) /\ out[c].typ = "del" /\ status[c] \in {"done", "dead"}
        /\ out' = [out EXCEPT ![c] = NoMessage] /\ ResetSlot(n, Freed)
        /\ receipt' = [receipt EXCEPT ![c] = "done"]
    BY CurrentFits DEF ScheduleDel, Dispatching, WriteReceipt
  <1>2. /\ status \in [Service -> Status] /\ inbox \in [Service -> Seq(Message)]
        /\ out \in [Service -> Message] /\ receipt \in [Service -> Receipt]
        /\ awaiting \in [Service -> BOOLEAN]
    BY DEF Inv, TypeOK, TypeService
  <1>3. /\ status[c] = "done" /\ awaiting[c] /\ UNCHANGED awaiting
        /\ out'[c] = NoMessage /\ \A s \in Service \ {c} : out'[s] = out[s]
    BY <1>1, <1>2, NoMessageType DEF Fits, ScheduleDel
  <1>4. Vacant(n) /\ n # c /\ Fits(n)
    BY <1>1, <1>3 DEF Inv, MailInv, Vacant, FitInv
  <1>5. \A s \in Service \ {c, n} : Same(s) BY <1>1, <1>2, <1>3 DEF ResetSlot, Same
  <1>6. /\ status'[n] \in {"none", "retired"} /\ inbox'[n] = <<>> /\ status'[c] = "done"
        /\ receipt'[n] = receipt[n] /\ receipt'[c] = "done"
    BY <1>1, <1>2, <1>3, <1>4 DEF ResetSlot, Freed
  <1>7. Fits(c)' BY <1>3, <1>6, NoMessageType DEF Fits, Answered, Unborn
  <1>8. Fits(n)' BY <1>3, <1>4, <1>6 DEF Fits, Clean, Unborn, Vacant
  <1> QED BY <1>5, <1>7, <1>8, SameFits DEF FitInv

LEMMA DispatchToDeadFits ==
  ASSUME Inv, FitInv, NEW w \in Worker, DispatchToDead(w)
  PROVE  \A s \in Service : Fits(s)'
  <1> SUFFICES ASSUME NEW c \in Service, c = Current PROVE \A s \in Service : Fits(s)'
    BY CurrentType DEF Inv, DispatchToDead, Dispatching
  <1>1. /\ Fits(c) /\ out[c].typ = "request" /\ status[c] \in {"done", "dead"}
        /\ out' = [out EXCEPT ![c] = NoMessage] /\ StatusOf(out[c].to) = "dead"
        /\ receipt' = [receipt EXCEPT ![c] = "error"] /\ UNCHANGED inbox
    BY CurrentFits DEF DispatchToDead, Dispatching, WriteReceipt
  <1>2. /\ status \in [Service -> Status]
        /\ out \in [Service -> Message] /\ receipt \in [Service -> Receipt]
        /\ awaiting \in [Service -> BOOLEAN]
    BY DEF Inv, TypeOK, TypeService
  <1>3. /\ status[c] = "done" /\ awaiting[c] /\ UNCHANGED <<awaiting, status>>
        /\ out'[c] = NoMessage /\ \A s \in Service \ {c} : out'[s] = out[s]
    BY <1>1, <1>2, NoMessageType DEF Fits, DispatchToDead, CheckMessageTo
  <1>4. \A s \in Service \ {c} : Same(s) BY <1>1, <1>2, <1>3 DEF Same
  <1>5. Fits(c)' BY <1>1, <1>2, <1>3, NoMessageType DEF Fits, Answered, Unborn
  <1> QED BY <1>4, <1>5, SameFits DEF FitInv

LEMMA PushMessageFits ==
  ASSUME Inv, FitInv, ~Panic, NEW w \in Worker, PushMessage(w)
  PROVE  \A s \in Service : Fits(s)'
  <1> SUFFICES ASSUME NEW c \in Service, c = Current PROVE \A s \in Service : Fits(s)'
    BY CurrentType DEF Inv, PushMessage
  <1> SUFFICES ASSUME NEW t \in Service, t = out[c].to PROVE \A s \in Service : Fits(s)'
    BY DEF Inv, Addressed, PushMessage
  <1>1. /\ Fits(c) /\ out[c].typ = "request" /\ status[c] \in {"done", "dead"}
        /\ out' = [out EXCEPT ![c] = NoMessage] /\ CheckMessageTo(t)
        /\ status[t] # "uninitialized"
    BY CurrentFits DEF PushMessage, Panic, PanicNilInbox
  <1>2. /\ status \in [Service -> Status] /\ inbox \in [Service -> Seq(Message)]
        /\ out \in [Service -> Message] /\ receipt \in [Service -> Receipt]
        /\ awaiting \in [Service -> BOOLEAN]
    BY DEF Inv, TypeOK, TypeService
  <1>3. /\ status[c] = "done" /\ awaiting[c] /\ UNCHANGED awaiting
        /\ out'[c] = NoMessage /\ \A s \in Service \ {c} : out'[s] = out[s]
    BY <1>1, <1>2, NoMessageType DEF Fits, PushMessage
  <1>4. /\ \A s \in Service : status'[s] =
             IF s = t /\ status[s] = "idle" THEN "schedule" ELSE status[s]
        /\ \A r : receipt' = [receipt EXCEPT ![c] = r] =>
             receipt'[c] = r /\ \A s \in Service \ {c} : receipt'[s] = receipt[s]
    BY <1>1, <1>2, CheckEffect DEF Inv
  <1>5. /\ receipt'[c] # "none" /\ \A s \in Service \ {c} : receipt'[s] = receipt[s]
        /\ \A s \in Service \ {t} : inbox'[s] = inbox[s]
        /\ StatusOf(t) = "dead" => inbox' = inbox
        /\ StatusOf(t) # "dead" => inbox'[t] # <<>>
    <2>1. CASE StatusOf(t) = "dead"
      BY <1>4, <2>1 DEF PushMessage, WriteReceipt
    <2>2. CASE StatusOf(t) # "dead" /\ Full(t)
      BY <1>4, <2>2, FullHas DEF PushMessage, WriteReceipt
    <2>3. CASE StatusOf(t) # "dead" /\ ~Full(t)
      <3>1. /\ inbox' = [inbox EXCEPT ![t] = Append(@, out[c])]
            /\ receipt' = [receipt EXCEPT ![c] = "done"] /\ out[c] \in Message
        BY <1>2, <2>3 DEF PushMessage, WriteReceipt
      <3>2. inbox'[t] # <<>> /\ \A s \in Service \ {t} : inbox'[s] = inbox[s]
        BY <3>1, PushEffect DEF Inv
      <3>3. receipt'[c] = "done" /\ \A s \in Service \ {c} : receipt'[s] = receipt[s]
        BY <1>2, <3>1
      <3> QED BY <2>3, <3>2, <3>3
    <2> QED BY <2>1, <2>2, <2>3
  <1>6. Fits(c)' BY <1>3, <1>4, <1>5, NoMessageType DEF Fits, Answered, Unborn
  <1>7. \A s \in Service \ {c, t} : Same(s) BY <1>3, <1>4, <1>5 DEF Same
  <1>8. t # c => Fits(t)'
    <2>1. CASE StatusOf(t) = "dead" /\ t # c
      <3>1. Same(t) BY <1>3, <1>4, <1>5, <2>1 DEF Same, StatusOf, Vacant
      <3> QED BY <3>1, SameFits DEF FitInv
    <2>2. CASE StatusOf(t) # "dead" /\ t # c
      <3>1. Checked(t) BY <1>1, <1>3, <1>4, <1>5, <2>2 DEF Checked, StatusOf, Vacant, Unborn
      <3> QED BY <3>1, CheckedFits DEF FitInv
    <2> QED BY <2>1, <2>2
  <1> QED BY <1>6, <1>7, <1>8, SameFits DEF FitInv

LEMMA SettleFits ==
  ASSUME Inv, FitInv, NEW w \in Worker, Settle(w)
  PROVE  \A s \in Service : Fits(s)'
  <1> SUFFICES ASSUME NEW c \in Service, c = Current PROVE \A s \in Service : Fits(s)'
    BY CurrentType DEF Inv, Settle, Dispatching
  <1>1. /\ Fits(c) /\ out[c].typ = "nil" /\ status[c] = "done"
        /\ UNCHANGED <<out, receipt, awaiting>>
    BY CurrentFits DEF Settle, Dispatching, StatusOf, Vacant
  <1>2. /\ status \in [Service -> Status] /\ inbox \in [Service -> Seq(Message)]
        /\ receipt \in [Service -> Receipt] /\ awaiting \in [Service -> BOOLEAN]
    BY DEF Inv, TypeOK, TypeService
  <1>3. out[c] = NoMessage /\ Answered(c) BY <1>1 DEF Fits
  <1> DEFINE m == [typ |-> "idle", to |-> c, about |-> NoService]
  <1>4. m \in Message BY DEF Message, MessageType
  <1> HIDE DEF m
  <1>5. \/ inbox' = inbox /\ HasMessage(c) /\ status'[c] = "schedule"
        \/ inbox' = [inbox EXCEPT ![c] = Append(@, m)] /\ status'[c] = "schedule"
        \/ inbox' = inbox /\ ~HasMessage(c) /\ status'[c] = "idle"
    BY <1>2 DEF Settle, m
  <1>6. \A s \in Service \ {c} : status'[s] = status[s] BY <1>2 DEF Settle
  <1>7. \A s \in Service \ {c} : inbox'[s] = inbox[s] BY <1>2, <1>5
  <1>8. \A s \in Service \ {c} : Same(s) BY <1>1, <1>6, <1>7 DEF Same
  <1>9. \/ status'[c] = "schedule" /\ (receipt[c] # "none" \/ inbox'[c] # <<>>)
        \/ status'[c] = "idle" /\ inbox'[c] = <<>> /\ receipt[c] = "none"
    BY <1>4, <1>5, PushEffect DEF Inv, HasMessage
  <1>10. Fits(c)' BY <1>1, <1>3, <1>9 DEF Fits, Answered, HasMessage, Unborn
  <1> QED BY <1>8, <1>10, SameFits DEF FitInv

LEMMA ExternalFits ==
  ASSUME Inv, FitInv, NEW w \in Worker, ExternalPush(w) \/ ExternalDone(w)
  PROVE  FitInv'
  <1>1. /\ status \in [Service -> Status] /\ inbox \in [Service -> Seq(Message)]
        /\ pc \in [Worker -> Label] /\ Root \in Service /\ Fits(Root)
        /\ ~Vacant(Root) /\ status[Root] # "uninitialized"
        /\ pc[w] = "external" /\ UNCHANGED <<out, receipt, awaiting>>
    BY ConstantsAssumption
       DEF Inv, TypeOK, TypeService, TypeWorker, FitInv, MailInv, ExternalPush, ExternalDone, mailVars
  <1> DEFINE m == [typ |-> "request", to |-> Root, about |-> NoService]
  <1>2. m \in Message BY <1>1 DEF Message, MessageType
  <1> HIDE DEF m
  <1>3. CASE ExternalPush(w)
    <2>1. UNCHANGED status BY <1>3 DEF ExternalPush
    <2>2. ExtCap # 0 BY <1>3, ConstantsAssumption DEF ExternalPush, FitInv, ExternalInv
    <2>3. \/ inbox' = inbox
          \/ inbox' = [inbox EXCEPT ![Root] = Append(@, m)] /\ StatusOf(Root) # "dead"
      BY <1>3 DEF ExternalPush, m
    <2>4. \A s \in Service \ {Root} : inbox'[s] = inbox[s] BY <1>1, <2>3
    <2>5. \A s \in Service \ {Root} : Same(s) BY <1>1, <2>1, <2>4 DEF Same
    <2>6. inbox'[Root] = inbox[Root] \/ inbox'[Root] # <<>>
      BY <1>1, <1>2, <2>3, PushEffect DEF Inv
    <2>7. Fits(Root)'
      BY <1>1, <2>1, <2>2, <2>6 DEF Fits, Told, Answered, HasMessage, Unborn, Vacant
    <2>8. sent' => \E v \in Worker : pc'[v] = "external"
      BY <1>1, <1>3 DEF ExternalPush, Goto
    <2>9. sent' /\ status'[Root] = "idle" => inbox'[Root] # <<>>
      <3> SUFFICES ASSUME sent', status[Root] = "idle" PROVE inbox'[Root] # <<>>
        BY <2>1
      <3>1. StatusOf(Root) # "dead" BY DEF StatusOf, Vacant
      <3>2. inbox' = [inbox EXCEPT ![Root] = Append(@, m)] BY <1>3, <3>1 DEF ExternalPush, m
      <3> QED BY <1>1, <1>2, <3>2, PushEffect DEF Inv
    <2> QED BY <2>2, <2>5, <2>7, <2>8, <2>9, SameFits DEF FitInv, ExternalInv
  <1>4. CASE ExternalDone(w)
    <2>1. UNCHANGED <<inbox, externalVars>> /\ ~sent'
      BY <1>4 DEF ExternalDone, mailVars
    <2>2. CASE sent
      <3>1. \A s \in Service : status'[s] =
              IF s = Root /\ status[s] = "idle" THEN "schedule" ELSE status[s]
        BY <1>1, <1>4, <2>2, CheckEffect DEF ExternalDone, Inv
      <3>2. \A s \in Service \ {Root} : Same(s) BY <1>1, <2>1, <3>1 DEF Same
      <3>3. status[Root] = "idle" => Checked(Root)
        BY <1>1, <2>1, <2>2, <3>1 DEF Checked, FitInv, ExternalInv, Unborn
      <3>4. status[Root] # "idle" => Same(Root) BY <1>1, <2>1, <3>1 DEF Same
      <3> QED BY <1>1, <2>1, <3>2, <3>3, <3>4, SameFits, CheckedFits
              DEF FitInv, ExternalInv, externalVars
    <2>3. CASE ~sent
      <3>1. \A s \in Service : Same(s) BY <1>1, <1>4, <2>1, <2>3 DEF ExternalDone, Same
      <3> QED BY <2>1, <3>1, SameFits DEF FitInv, ExternalInv, externalVars
    <2> QED BY <2>2, <2>3
  <1> QED BY <1>3, <1>4

LEMMA StartFits ==
  ASSUME Inv, FitInv, NEW w \in Worker, Start(w)
  PROVE  FitInv'
  <1> SUFFICES ASSUME NEW c \in Service, c = job[w] PROVE FitInv'
    BY DEF Start, Inv, PcInv, TypeOK, TypeWorker, Job
  <1>1. /\ status \in [Service -> Status] /\ pc \in [Worker -> Label]
        /\ UNCHANGED <<inbox, out, receipt, awaiting, externalVars, sent>>
        /\ pc[w] = "start" /\ \A v \in Worker \ {w} : pc'[v] = pc[v]
    BY DEF Start, Goto, mailVars, collectVars, Inv, TypeOK, TypeService, TypeWorker
  <1>2. \/ UNCHANGED status
        \/ status[c] = "schedule" /\ status' = [status EXCEPT ![c] = "running"]
    BY DEF Start, StatusOf, Vacant
  <1>3. \A s \in Service \ {c} : Same(s) BY <1>1, <1>2 DEF Same
  <1>4. Fits(c)'
    <2>1. CASE UNCHANGED status
      <3>1. Same(c) BY <1>1, <2>1 DEF Same
      <3> QED BY <3>1, SameFits DEF FitInv
    <2>2. CASE status[c] = "schedule" /\ status' = [status EXCEPT ![c] = "running"]
      <3>1. Fits(c) /\ status'[c] = "running" BY <1>1, <2>2 DEF FitInv
      <3> QED BY <1>1, <2>2, <3>1 DEF Fits, Answered, Unborn
    <2> QED BY <1>2, <2>1, <2>2
  <1>5. ExternalInv'
    <2>1. status'[Root] = "idle" => status[Root] = "idle"
      BY <1>1, <1>2, ConstantsAssumption
    <2> QED BY <1>1, <2>1 DEF FitInv, ExternalInv, externalVars
  <1> QED BY <1>3, <1>4, <1>5, SameFits DEF FitInv

LEMMA ReceiveEffect ==
  ASSUME TypeOK, NEW s \in Service, Fits(s), status[s] = "running", Receive(s)
  PROVE  /\ receipt'[s] = "none"
         /\ \A t \in Service \ {s} : receipt'[t] = receipt[t] /\ inbox'[t] = inbox[t]
  BY DEF Receive, Fits, Answered, TypeOK, TypeService

\* A service that runs on or stops, sending a message or none
Stops(s, st) ==
  /\ Receive(s) /\ status' = [status EXCEPT ![s] = st]
  /\ \/ awaiting' = [awaiting EXCEPT ![s] = FALSE] /\ UNCHANGED out
     \/ st = "done" /\ \E m \in Message : m.typ \in {"request", "new"}
          /\ out' = [out EXCEPT ![s] = m] /\ awaiting' = [awaiting EXCEPT ![s] = TRUE]
     \/ st = "dead" /\ awaiting' = [awaiting EXCEPT ![s] = FALSE]
          /\ \E m \in Message : m.typ = "signal" /\ out' = [out EXCEPT ![s] = m]

LEMMA StopFits ==
  ASSUME Inv, FitInv, NEW s \in Service, status[s] = "running",
         NEW st \in {"done", "dead"}, Stops(s, st)
  PROVE  \A t \in Service : Fits(t)'
  <1>1. /\ status \in [Service -> Status] /\ out \in [Service -> Message]
        /\ awaiting \in [Service -> BOOLEAN]
    BY DEF Inv, TypeOK, TypeService
  <1>2. /\ receipt'[s] = "none" /\ Fits(s)
        /\ \A t \in Service \ {s} : receipt'[t] = receipt[t] /\ inbox'[t] = inbox[t]
    BY ReceiveEffect DEF Inv, FitInv, Stops
  <1>3. \A t \in Service \ {s} : status'[t] = status[t] BY <1>1 DEF Stops
  <1>4. \A t \in Service \ {s} : out'[t] = out[t] /\ awaiting'[t] = awaiting[t]
    BY <1>1 DEF Stops
  <1>5. \A t \in Service \ {s} : Same(t) BY <1>2, <1>3, <1>4 DEF Same
  <1>6. /\ status'[s] = st /\ out[s] = NoMessage
        /\ \/ ~awaiting'[s] /\ out'[s] = out[s]
           \/ st = "done" /\ awaiting'[s] /\ out'[s].typ \in {"request", "new"}
           \/ st = "dead" /\ out'[s].typ = "signal"
    BY <1>1, <1>2 DEF Stops, Fits
  <1>7. Fits(s)' BY <1>2, <1>6, NoMessageType DEF Fits, Answered, Unborn
  <1> QED BY <1>5, <1>7, SameFits DEF FitInv

\* What a run changes besides the mail: nothing an external message depends on.
LEMMA ExternalKeep ==
  ASSUME TypeOK, ExternalInv, NEW w \in Worker, pc[w] # "external",
         \A v \in Worker \ {w} : pc'[v] = pc[v],
         UNCHANGED <<externalVars, sent>>,
         status'[Root] = "idle" => status[Root] = "idle" /\ inbox'[Root] = inbox[Root]
  PROVE  ExternalInv'
  BY DEF ExternalInv, externalVars

LEMMA RunFits ==
  ASSUME Inv, FitInv, NEW w \in Worker, Run(w)
  PROVE  FitInv'
  <1> SUFFICES ASSUME NEW s \in Service, s = running[w], pc[w] \in Active PROVE FitInv'
    BY DEF Run, Inv, PcInv, Active, Resumes, AtWill, Yield, Send, Spawn, InitServiceFails,
           CloseService, QuitService, QuitRoot, InitService, Bind, EventInit, EventWait,
           EventWaited
  <1>1. /\ status \in [Service -> Status] /\ inbox \in [Service -> Seq(Message)]
        /\ out \in [Service -> Message] /\ receipt \in [Service -> Receipt]
        /\ awaiting \in [Service -> BOOLEAN] /\ pc \in [Worker -> Label]
        /\ Root \in Service /\ NoMessage \in Message
    BY ConstantsAssumption, NoMessageType DEF Inv, TypeOK, TypeService, TypeWorker
  <1>2. /\ status[s] = "running" /\ Fits(s) /\ Answered(s) /\ out[s] = NoMessage
    BY DEF Inv, TokenInv, RunStage, FitInv, Fits
  <1>3. pc[w] # "external" /\ \A v \in Worker \ {w} : pc'[v] = pc[v]
    BY <1>1 DEF Active, Run, Goto, Yield, Send, Spawn, InitServiceFails,
           CloseService, QuitService, QuitRoot, InitService, Bind, EventInit, EventWait,
           EventWaited, Finish
  <1>4. UNCHANGED <<externalVars, sent>>
    BY DEF Run, Yield, Send, Spawn, InitServiceFails,
           CloseService, QuitService, QuitRoot, InitService, Bind, EventInit, EventWait,
           EventWaited, Finish, collectVars
  <1>5. ASSUME NEW st \in {"done", "dead"}, Stops(s, st) PROVE FitInv'
    <2>1. \A t \in Service : Fits(t)' BY <1>2, <1>5, StopFits
    <2>2. status'[Root] = "idle" => status[Root] = "idle" /\ Root # s
      BY <1>1, <1>5 DEF Stops
    <2>3. s # Root => inbox'[Root] = inbox[Root]
      BY <1>1, <1>2, <1>5, ReceiveEffect DEF Stops, Inv
    <2> QED BY <1>3, <1>4, <2>1, <2>2, <2>3, ExternalKeep DEF FitInv, Inv
  <1>6. CASE Yield(w) \/ EventInit(w) \/ QuitRoot(w) \/ \E x \in Worker \cup {threadNone} : Bind(w, x)
    <2>1. \E st \in {"done", "dead"} : Stops(s, st)
      BY <1>6 DEF Yield, EventInit, QuitRoot, Bind, Stops
    <2> QED BY <1>5, <2>1
  <1>7. CASE Spawn(w) \/ \E t \in Service : Send(w, t)
    <2>1. \E m \in Message : m.typ \in {"request", "new"} /\ Post(w, s, m)
      <3>1. CASE Spawn(w)
        <4>1. [typ |-> "new", to |-> System, about |-> NoService] \in Message
          BY DEF Message, MessageType
        <4> QED BY <3>1, <4>1 DEF Spawn
      <3>2. CASE \E t \in Service : Send(w, t)
        <4>1. PICK t \in Service : Send(w, t) BY <3>2
        <4>2. [typ |-> "request", to |-> t, about |-> NoService] \in Message
          BY DEF Message, MessageType
        <4> QED BY <4>1, <4>2 DEF Send
      <3> QED BY <1>7, <3>1, <3>2
    <2>2. Receive(s) /\ status' = [status EXCEPT ![s] = "done"]
      BY <1>7 DEF Spawn, Send
    <2>3. Stops(s, "done") BY <2>1, <2>2 DEF Stops, Post
    <2> QED BY <1>5, <2>3
  <1>8. CASE QuitService(w)
    <2>1. [typ |-> "signal", to |-> Root, about |-> s] \in Message
      BY <1>1 DEF Message, MessageType
    <2>2. Stops(s, "dead") BY <1>8, <2>1 DEF QuitService, Stops
    <2> QED BY <1>5, <2>2
  <1>9. CASE EventWait(w)
    <2>1. /\ UNCHANGED <<status, out, awaiting>> /\ Receive(s)
      BY <1>9 DEF EventWait
    <2>2. /\ receipt'[s] = "none" /\ ~awaiting[s]
          /\ \A t \in Service \ {s} : receipt'[t] = receipt[t] /\ inbox'[t] = inbox[t]
      BY <1>2, <1>9, <2>1, ReceiveEffect DEF Inv, EventWait, AtIdle
    <2>3. \A t \in Service \ {s} : Same(t) BY <2>1, <2>2 DEF Same
    <2>4. Fits(s)' BY <1>2, <2>1, <2>2 DEF Fits, Answered, Unborn
    <2>5. ExternalInv'
      BY <1>1, <1>2, <1>3, <1>4, <2>1, <2>2, ExternalKeep DEF FitInv, Inv
    <2> QED BY <2>3, <2>4, <2>5, SameFits DEF FitInv
  <1>10. CASE EventWaited(w)
    <2>1. UNCHANGED <<inbox, out, receipt, awaiting>> /\ status' = [status EXCEPT ![s] = "done"]
      BY <1>10 DEF EventWaited, mailVars
    <2>2. \A t \in Service \ {s} : Same(t) BY <1>1, <2>1 DEF Same
    <2>3. Fits(s)' BY <1>1, <1>2, <2>1 DEF Fits, Answered, Unborn
    <2>4. ExternalInv' BY <1>1, <1>3, <1>4, <2>1, ExternalKeep DEF FitInv, Inv
    <2> QED BY <2>2, <2>3, <2>4, SameFits DEF FitInv
  <1>11. CASE InitServiceFails(w) \/ \E x \in Worker \cup {threadNone} : InitService(w, x)
    <2> SUFFICES ASSUME NEW n \in Service, n = bounce[s].to PROVE FitInv'
      BY <1>11 DEF InitServiceFails, InitService, Spawned, Inv, Addressed
    <2>1. s = Root /\ receipt[s] = "response" /\ Receive(s)
      BY <1>11 DEF InitServiceFails, InitService, Spawned
    <2>2. status[n] = "uninitialized" /\ n # s
      BY <1>2, <2>1 DEF Inv, MailInv
    <2>3. /\ receipt'[s] = "none"
          /\ \A t \in Service \ {s} : receipt'[t] = receipt[t] /\ inbox'[t] = inbox[t]
      BY <1>2, <2>1, ReceiveEffect DEF Inv
    <2> DEFINE m == [typ |-> "request", to |-> n, about |-> NoService]
    <2>4. m \in Message /\ m.typ = "request" BY DEF Message, MessageType
    <2> HIDE DEF m
    <2>5. \/ /\ status' = [status EXCEPT ![s] = "done", ![n] = Freed] /\ UNCHANGED out
             /\ awaiting' = [awaiting EXCEPT ![s] = FALSE]
          \/ /\ status' = [status EXCEPT ![s] = "done", ![n] = "idle"]
             /\ out' = [out EXCEPT ![s] = m] /\ awaiting' = [awaiting EXCEPT ![s] = TRUE]
      BY <1>11 DEF InitServiceFails, InitService, Post, m
    <2>6. \A t \in Service \ {s} :
             out'[t] = out[t] /\ awaiting'[t] = awaiting[t] /\ (t # n => status'[t] = status[t])
      BY <1>1, <2>5
    <2>7. \A t \in Service \ {s, n} : Same(t) BY <2>3, <2>6 DEF Same
    <2>8. status'[s] = "done" /\ status'[n] \in {"none", "retired", "idle"}
      BY <1>1, <2>2, <2>5 DEF Freed
    <2>9. \/ ~awaiting'[s] /\ out'[s] = NoMessage
          \/ awaiting'[s] /\ out'[s].typ = "request"
      BY <1>1, <1>2, <2>4, <2>5
    <2>10. Fits(s)' BY <2>3, <2>8, <2>9, NoMessageType DEF Fits, Answered, Unborn
    <2>11. Clean(n)'
      BY <2>2, <2>3, <2>6 DEF FitInv, Fits, Clean, Unborn
    <2>12. Fits(n)' BY <2>8, <2>11, NoMessageType DEF Fits, Answered, Clean, Unborn
    <2>13. ExternalInv' BY <1>3, <1>4, <2>1, <2>8, ExternalKeep DEF FitInv, Inv
    <2> QED BY <2>7, <2>10, <2>12, <2>13, SameFits DEF FitInv
  <1>12. CASE CloseService(w)
    <2> SUFFICES ASSUME NEW c \in Service, c = Head(inbox[s]).about PROVE FitInv'
      BY <1>12, SignalledService DEF CloseService, Inv
    <2>1. s = Root /\ ~awaiting[s] /\ c # s
      BY <1>12, SignalledService DEF CloseService, Signalled, Inv
    <2> DEFINE m == [typ |-> "del", to |-> System, about |-> c]
    <2>2. m.typ = "del" OBVIOUS
    <2> HIDE DEF m
    <2>3. /\ status' = [status EXCEPT ![s] = "done", ![c] = Freed]
          /\ inbox' = [inbox EXCEPT ![s] = Tail(@), ![c] = <<>>]
          /\ receipt' = [receipt EXCEPT ![c] = "none"]
          /\ out' = [out EXCEPT ![c] = NoMessage, ![s] = m]
          /\ awaiting' = [awaiting EXCEPT ![c] = FALSE, ![s] = TRUE]
      BY <1>12 DEF CloseService, m
    <2>4. /\ status'[c] \in {"none", "retired"} /\ status'[s] = "done"
          /\ \A t \in Service \ {s, c} : status'[t] = status[t]
      BY <1>1, <2>1, <2>3 DEF Freed
    <2>5. inbox'[c] = <<>> /\ receipt'[c] = "none" /\ receipt'[s] = receipt[s]
      BY <1>1, <2>1, <2>3
    <2>6. /\ out'[c] = NoMessage /\ ~awaiting'[c] /\ out'[s].typ = "del" /\ awaiting'[s]
      BY <1>1, <2>1, <2>2, <2>3
    <2>7. \A t \in Service \ {s, c} : inbox'[t] = inbox[t] /\ receipt'[t] = receipt[t]
      BY <1>1, <2>3
    <2>8. \A t \in Service \ {s, c} : out'[t] = out[t] /\ awaiting'[t] = awaiting[t]
      BY <1>1, <2>3
    <2>9. \A t \in Service \ {s, c} : Same(t) BY <2>4, <2>7, <2>8 DEF Same
    <2>10. Fits(c)' BY <2>4, <2>5, <2>6, NoMessageType DEF Fits, Clean, Unborn
    <2>11. Fits(s)' BY <1>2, <2>1, <2>4, <2>5, <2>6, NoMessageType DEF Fits, Answered, Unborn
    <2>12. ExternalInv' BY <1>3, <1>4, <2>1, <2>4, ExternalKeep DEF FitInv, Inv
    <2> QED BY <2>9, <2>10, <2>11, <2>12, SameFits DEF FitInv
  <1> QED BY <1>6, <1>7, <1>8, <1>9, <1>10, <1>11, <1>12 DEF Run

\* Nothing is on its way from the host while another part of a round runs.
LEMMA OutFits ==
  ASSUME Inv, FitInv, ~Panic, NEW w \in Worker, DispatchOut(w)
  PROVE  FitInv'
  <1> USE DEF DispatchOut, DispatchSignal, ScheduleNew, ScheduleDel, DispatchToDead,
          DispatchOutMessage, PushMessage, Settle, Dispatching
  <1>1. /\ pc[w] \in {"out", "push"} /\ pc'[w] \in {"out", "push"}
        /\ \A v \in Worker \ {w} : pc'[v] = pc[v]
    BY DEF Goto, Inv, TypeOK, TypeWorker
  <1>2. UNCHANGED <<sent, externalVars>> BY DEF collectVars
  <1>3. \A v \in Worker : pc[v] # "external"
    BY <1>1 DEF Inv, LockExclusive, Locked
  <1>4. ~sent BY <1>3 DEF FitInv, ExternalInv
  <1>5. ExternalInv' BY <1>2, <1>4 DEF FitInv, ExternalInv, externalVars
  <1>6. \A s \in Service : Fits(s)'
    <2>1. CASE DispatchOutMessage(w)
      <3>1. \A s \in Service : Same(s) BY <2>1 DEF Same, serviceVars, mailVars
      <3> QED BY <3>1, SameFits DEF FitInv
    <2> QED BY <2>1, DispatchSignalFits, ScheduleNewFits, ScheduleDelFits, DispatchToDeadFits,
               PushMessageFits, SettleFits
  <1> QED BY <1>5, <1>6 DEF FitInv

LEMMA FitNext ==
  ASSUME Inv, FitInv, [Next]_vars
  PROVE  FitInv'
  <1>1. CASE UNCHANGED vars
    <2>1. \A s \in Service : Same(s) BY <1>1 DEF Same, vars, serviceVars, mailVars
    <2>2. ExternalInv' BY <1>1 DEF FitInv, ExternalInv, vars, serviceVars, mailVars,
                                   externalVars, collectVars
    <2> QED BY <2>1, <2>2, SameFits DEF FitInv
  <1>2. CASE ExternalSend
    <2>1. \A s \in Service : Same(s) BY <1>2 DEF ExternalSend, Same, serviceVars, mailVars
    <2>2. externalMessage < ExtCap /\ externalMessage \in Nat /\ ExtCap \in Nat
      BY <1>2, ConstantsAssumption DEF ExternalSend, Inv, TypeOK, TypeTask
    <2>3. UNCHANGED <<sent, status, inbox, pc>>
      BY <1>2 DEF ExternalSend, serviceVars, mailVars, collectVars
    <2>4. ExternalInv' BY <2>2, <2>3 DEF FitInv, ExternalInv
    <2> QED BY <2>1, <2>4, SameFits DEF FitInv
  <1>3. ASSUME ~Panic, NEW w \in Worker, Step(w) PROVE FitInv'
    <2>1. CASE Aside(w)
      <3>1. \A s \in Service : Same(s) BY <2>1 DEF Aside, Same, serviceVars, mailVars
      <3>2. ExternalInv'
        BY <2>1 DEF Aside, FitInv, ExternalInv, serviceVars, mailVars, externalVars
      <3> QED BY <3>1, <3>2, SameFits DEF FitInv
    <2> QED BY <1>3, <2>1, StepKinds, ExternalFits, OutFits, StartFits, RunFits DEF Inv
  <1> QED BY <1>1, <1>2, <1>3 DEF Next

LEMMA FitInit == Init => FitInv
  <1> SUFFICES ASSUME Init PROVE FitInv
    OBVIOUS
  <1>1. /\ Root \in Service /\ inbox[Root] # <<>> /\ ~sent /\ externalMessage = 0 /\ ~externalLast
        /\ \A s \in Service : /\ status[s] = IF s = Root THEN "schedule" ELSE "none"
                              /\ s # Root => inbox[s] = <<>>
                              /\ out[s] = NoMessage /\ receipt[s] = "none" /\ ~awaiting[s]
    BY ConstantsAssumption DEF Init
  <1>2. \A s \in Service : Fits(s)
    BY <1>1, NoMessageType DEF Fits, Clean, Answered, HasMessage, Unborn
  <1> QED BY <1>1, <1>2 DEF FitInv, ExternalInv

LEMMA FitAlways == Spec => [](Inv /\ FitInv)
  <1>1. Inv /\ FitInv /\ [Next]_vars => FitInv' BY FitNext
  <1> QED BY <1>1, FitInit, InvAlways, PTL DEF Spec

\* A receipt is there exactly when it is waited for, whatever the dispatcher and
\* root do to other services meanwhile: a scheduled service has something to
\* handle, and one that is resumed inside post_message has its one receipt
\* ("No receipt", bootstrap.go:153-155, core.go:254-317).
THEOREM ReceiptAwaited == Spec => []ReceiptProtocol
  <1>1. FitInv => ReceiptProtocol
    BY DEF FitInv, Fits, Answered, HasMessage, ReceiptProtocol
  <1> QED BY <1>1, FitAlways, PTL

\* No wakeup is lost: when the host has no queue for external messages, the inbox
\* of an idle service is empty, between the push of a message and the check of
\* its target, and between the last look at the inbox and the status idle
\* (core.go:103-118, 348-369).  With such a queue it can fail for root.
THEOREM NoWakeupLost ==
  ASSUME ExtCap = 0
  PROVE  Spec => []IdleMeansDrained
  <1>1. FitInv => IdleMeansDrained
    BY DEF FitInv, Fits, Told, IdleMeansDrained
  <1> QED BY <1>1, FitAlways, PTL

\* With such a queue it still holds of every service but root.
THEOREM OthersDrained ==
  Spec => [](\A s \in Service \ {Root} : status[s] = "idle" =>
               inbox[s] = <<>> /\ receipt[s] = "none" /\ out[s] = NoMessage)
  <1>1. FitInv => \A s \in Service \ {Root} : status[s] = "idle" =>
                    inbox[s] = <<>> /\ receipt[s] = "none" /\ out[s] = NoMessage
    BY DEF FitInv, Fits, Told
  <1> QED BY <1>1, FitAlways, PTL

----------------------------------------------------------------------------
(* Bindings: the service in a worker's hands is bound to it or to none *)

MayRun(s, w) == bindingThread[s] \in {threadNone, w}
BindInv ==
  /\ \A w \in Worker, s \in Service :
       /\ Contains(bindingQueue[w], s) => bindingThread[s] = w
       /\ serviceReady[w] = s \/ job[w] = s => MayRun(s, w)
       /\ running[w] = s /\ pc[w] \in Active => MayRun(s, w)
  /\ \A s \in Service : Contains(jobs, s) => bindingThread[s] = threadNone

\* The tables of waiting services do not change, and who runs goes on or stops
SameTables ==
  /\ UNCHANGED <<bindingQueue, serviceReady, job, jobs>>
  /\ \A w \in Worker : pc'[w] \in Active => pc[w] \in Active /\ running'[w] = running[w]
InHand(s) == Waits(s) \/ \E w \in Worker : running'[w] = s /\ pc'[w] \in Active

LEMMA BindKept ==
  ASSUME BindInv, SameTables,
         \A s \in Service : bindingThread'[s] = bindingThread[s] \/ ~InHand(s)
  PROVE  BindInv'
  <1>1. ASSUME NEW w \in Worker, NEW s \in Service
        PROVE  /\ Contains(bindingQueue'[w], s) => bindingThread'[s] = w
               /\ serviceReady'[w] = s \/ job'[w] = s => bindingThread'[s] \in {threadNone, w}
               /\ running'[w] = s /\ pc'[w] \in Active => bindingThread'[s] \in {threadNone, w}
    BY DEF BindInv, MayRun, SameTables, InHand, Waits, Queued, Holds
  <1>2. \A s \in Service : Contains(jobs', s) => bindingThread'[s] = threadNone
    BY DEF BindInv, SameTables, InHand, Waits
  <1>3. \A w \in Worker, s \in Service :
          Contains(bindingQueue[w], s)' <=> Contains(bindingQueue'[w], s)
    BY DEF Contains
  <1>4. \A s \in Service : Contains(jobs, s)' <=> Contains(jobs', s) BY DEF Contains
  <1> QED BY <1>1, <1>2, <1>3, <1>4 DEF BindInv, MayRun

\* A waiting service has its binding in its slot.
LEMMA WaitingBinding ==
  ASSUME Inv, NEW s \in Service, Waits(s)
  PROVE  BindingOf(s) = bindingThread[s] /\ bindingThread[s] \in Worker \cup {threadNone}
  <1>1. status[s] \in {"schedule", "dead"} BY DEF Inv, TokenInv, Stage
  <1> QED BY <1>1 DEF BindingOf, Vacant, Inv, TypeOK, TypeService

LEMMA GetJobBinds ==
  ASSUME Inv, BindInv, NEW w \in Worker, GetJob(w)
  PROVE  BindInv'
  <1> USE DEF GetJob, Goto, Inv, TypeOK, TypeWorker, serviceVars, bindVars, assignVars
  <1>1. UNCHANGED <<bindingThread, bindingQueue, jobs, running>> OBVIOUS
  <1>2. \A v \in Worker : /\ pc'[v] \in Active => pc[v] \in Active
                          /\ serviceReady'[v] \in {serviceReady[v], NoService}
                          /\ job'[v] \in {serviceReady[v], job[v]}
    BY DEF Active
  <1> QED BY <1>1, <1>2, ConstantsAssumption DEF BindInv, MayRun, Contains

LEMMA StartBinds ==
  ASSUME Inv, BindInv, NEW w \in Worker, Start(w)
  PROVE  BindInv'
  <1>1. /\ UNCHANGED <<bindingThread, bindingQueue, jobs, serviceReady>>
        /\ running' = [running EXCEPT ![w] = job[w]] /\ job' = [job EXCEPT ![w] = NoService]
        /\ \E l : pc' = [pc EXCEPT ![w] = l]
        /\ pc \in [Worker -> Label] /\ job \in [Worker -> Job] /\ running \in [Worker -> Job]
    BY DEF Start, Goto, serviceVars, bindVars, assignVars, Inv, TypeOK, TypeWorker
  <1>2. \A v \in Worker : /\ running'[v] = IF v = w THEN job[w] ELSE running[v]
                          /\ job'[v] \in {job[v], NoService}
                          /\ v # w => pc'[v] = pc[v]
    BY <1>1
  <1> QED BY <1>1, <1>2, ConstantsAssumption DEF BindInv, MayRun, Contains

LEMMA TablesBind ==
  ASSUME BindInv, UNCHANGED <<bindingThread, running, job>>,
         \A w \in Worker : pc'[w] \in Active => pc[w] \in Active,
         \A w \in Worker, s \in Service :
           /\ Contains(bindingQueue'[w], s) => bindingThread[s] = w
           /\ serviceReady'[w] = s => MayRun(s, w),
         \A s \in Service : Contains(jobs', s) => bindingThread[s] = threadNone
  PROVE  BindInv'
  <1>1. /\ \A w \in Worker, s \in Service :
             Contains(bindingQueue[w], s)' <=> Contains(bindingQueue'[w], s)
        /\ \A s \in Service : Contains(jobs, s)' <=> Contains(jobs', s)
    BY DEF Contains
  <1> QED BY <1>1 DEF BindInv, MayRun

LEMMA GetPendingJobsBinds ==
  ASSUME Inv, BindInv, NEW w \in Worker, GetPendingJobs(w)
  PROVE  BindInv'
  <1> DEFINE i == Least(Pending)
             x == serviceReady[i]
  <1>1. i \in Pending /\ i \in Worker
    BY LeastWorkerType DEF Pending, GetPendingJobs, Inv
  <1>2. /\ x \in Service /\ BindingOf(x) # i /\ jobs' = Append(jobs, x)
        /\ serviceReady' = [serviceReady EXCEPT ![i] = NoService]
        /\ UNCHANGED <<bindingThread, running, job, bindingQueue, pc>>
    BY <1>1 DEF Pending, Stealable, GetPendingJobs, Inv, TypeOK, TypeWorker, Job,
                serviceVars, bindVars, runVars
  <1> HIDE DEF i, x
  <1>3. jobs \in Seq(Service) /\ serviceReady \in [Worker -> Job]
    BY DEF Inv, TypeOK, TypeWorker, TypeTask
  <1>4. x = serviceReady[i] BY DEF x
  <1>5. bindingThread[x] = threadNone
    BY <1>1, <1>2, <1>4, WaitingBinding DEF BindInv, MayRun, Waits, Holds
  <1>6. \A s \in Service : Contains(jobs', s) => bindingThread[s] = threadNone
    BY <1>2, <1>3, <1>5, AppendHas DEF BindInv
  <1>7. \A v \in Worker, s \in Service : serviceReady'[v] = s => MayRun(s, v)
    BY <1>2, <1>3, ConstantsAssumption DEF BindInv
  <1>8. \A v \in Worker, s \in Service : Contains(bindingQueue'[v], s) => bindingThread[s] = v
    BY <1>2 DEF BindInv
  <1> QED BY <1>2, <1>6, <1>7, <1>8, TablesBind

LEMMA CountFreeSlotsBinds ==
  ASSUME Inv, BindInv, NEW w \in Worker, CountFreeSlots(w)
  PROVE  BindInv'
  <1>1. /\ UNCHANGED <<bindingThread, running, job, jobs>>
        /\ pc' = [pc EXCEPT ![w] = "prepare"]
        /\ pc \in [Worker -> Label] /\ bindingQueue \in [Worker -> Seq(Service)]
    BY DEF CountFreeSlots, Goto, serviceVars, bindVars, runVars, Inv, TypeOK, TypeWorker
  <1>2. ASSUME NEW v \in Worker
        PROVE  \/ serviceReady'[v] = serviceReady[v] /\ bindingQueue'[v] = bindingQueue[v]
               \/ /\ bindingQueue[v] # <<>> /\ serviceReady'[v] = Head(bindingQueue[v])
                  /\ bindingQueue'[v] = Tail(bindingQueue[v])
    BY DEF CountFreeSlots, Refilled
  <1>3. ASSUME NEW v \in Worker, NEW s \in Service
        PROVE  /\ Contains(bindingQueue'[v], s) => bindingThread[s] = v
               /\ serviceReady'[v] = s => MayRun(s, v)
    <2>1. CASE serviceReady'[v] = serviceReady[v] /\ bindingQueue'[v] = bindingQueue[v]
      BY <2>1 DEF BindInv
    <2>2. CASE /\ bindingQueue[v] # <<>> /\ serviceReady'[v] = Head(bindingQueue[v])
               /\ bindingQueue'[v] = Tail(bindingQueue[v])
      <3>1. bindingQueue[v] \in Seq(Service) BY <1>1
      <3>2. Contains(bindingQueue'[v], s) \/ s = serviceReady'[v] => Contains(bindingQueue[v], s)
        BY <2>2, <3>1, TailHas
      <3> QED BY <3>2 DEF BindInv, MayRun
    <2> QED BY <1>2, <2>1, <2>2
  <1>4. \A v \in Worker : pc'[v] \in Active => pc[v] \in Active BY <1>1 DEF Active
  <1>5. \A s \in Service : Contains(jobs', s) => bindingThread[s] = threadNone
    BY <1>1 DEF BindInv
  <1> QED BY <1>1, <1>3, <1>4, <1>5, TablesBind

LEMMA PrepareUnboundBinds ==
  ASSUME Inv, BindInv, NEW w \in Worker, PrepareUnbound(w)
  PROVE  BindInv'
  <1>1. /\ UNCHANGED <<bindingThread, running, job, serviceReady, bindingQueue, pc>>
        /\ schedule # <<>> /\ jobs' = Append(jobs, Head(schedule))
        /\ BindingOf(Head(schedule)) = threadNone
        /\ schedule \in Seq(Service) /\ jobs \in Seq(Service)
    BY DEF PrepareUnbound, serviceVars, bindVars, runVars, readyVars, Inv, TypeOK, TypeTask
  <1>2. Head(schedule) \in Service /\ Contains(schedule, Head(schedule))
    BY <1>1, QueueType, TailHas
  <1>3. bindingThread[Head(schedule)] = threadNone
    BY <1>1, <1>2, WaitingBinding DEF Waits
  <1>4. \A s \in Service : Contains(jobs', s) => bindingThread[s] = threadNone
    BY <1>1, <1>2, <1>3, AppendHas DEF BindInv
  <1>5. \A v \in Worker, s \in Service :
           /\ Contains(bindingQueue'[v], s) => bindingThread[s] = v
           /\ serviceReady'[v] = s => MayRun(s, v)
    BY <1>1 DEF BindInv
  <1> QED BY <1>1, <1>4, <1>5, TablesBind

LEMMA PrepareBoundBinds ==
  ASSUME Inv, BindInv, NEW w \in Worker, PrepareBound(w)
  PROVE  BindInv'
  <1> DEFINE t == Head(schedule)
             i == BindingOf(t)
             q == Append(bindingQueue[i], t)
  <1>1. /\ UNCHANGED <<bindingThread, running, job, jobs, pc>> /\ schedule # <<>>
        /\ schedule \in Seq(Service) /\ bindingQueue \in [Worker -> Seq(Service)]
        /\ serviceReady \in [Worker -> Job]
    BY DEF PrepareBound, serviceVars, bindVars, runVars, Inv, TypeOK, TypeTask, TypeWorker
  <1>2. t \in Service /\ Contains(schedule, t) BY <1>1, QueueType, TailHas
  <1>3. i \in Worker /\ bindingThread[t] = i
    BY <1>2, WaitingBinding DEF Waits, PrepareBound
  <1>4. /\ q \in Seq(Service) /\ q # <<>>
        /\ \A s : Contains(q, s) <=> Contains(bindingQueue[i], s) \/ s = t
    BY <1>1, <1>2, <1>3, AppendHas, QueueType
  <1>5. \A s : Contains(q, s) <=> Contains(Tail(q), s) \/ s = Head(q) BY <1>4, TailHas
  <1>6. \/ /\ bindingQueue' = [bindingQueue EXCEPT ![i] = Tail(q)]
           /\ serviceReady' = [serviceReady EXCEPT ![i] = Head(q)]
        \/ bindingQueue' = [bindingQueue EXCEPT ![i] = q] /\ UNCHANGED serviceReady
        \/ UNCHANGED <<bindingQueue, serviceReady>>
    <2> HIDE DEF q
    <2> QED BY <1>1, <1>3 DEF PrepareBound, q
  <1> HIDE DEF t, i, q
  <1>7. ASSUME NEW v \in Worker, NEW s \in Service
        PROVE  /\ Contains(bindingQueue'[v], s) =>
                    Contains(bindingQueue[v], s) \/ (v = i /\ Contains(q, s))
               /\ serviceReady'[v] = s => serviceReady[v] = s \/ (v = i /\ Contains(q, s))
    <2>1. CASE /\ bindingQueue' = [bindingQueue EXCEPT ![i] = Tail(q)]
               /\ serviceReady' = [serviceReady EXCEPT ![i] = Head(q)]
      <3>1. /\ bindingQueue'[v] = IF v = i THEN Tail(q) ELSE bindingQueue[v]
            /\ serviceReady'[v] = IF v = i THEN Head(q) ELSE serviceReady[v]
        BY <1>1, <2>1
      <3> QED BY <1>5, <3>1
    <2>2. CASE bindingQueue' = [bindingQueue EXCEPT ![i] = q] /\ UNCHANGED serviceReady
      <3>1. bindingQueue'[v] = IF v = i THEN q ELSE bindingQueue[v]
        BY <1>1, <2>2
      <3> QED BY <2>2, <3>1
    <2> QED BY <1>6, <2>1, <2>2
  <1>8. ASSUME NEW v \in Worker, NEW s \in Service
        PROVE  /\ Contains(bindingQueue'[v], s) => bindingThread[s] = v
               /\ serviceReady'[v] = s => MayRun(s, v)
    BY <1>3, <1>4, <1>7 DEF BindInv, MayRun
  <1>9. \A s \in Service : Contains(jobs', s) => bindingThread[s] = threadNone
    BY <1>1 DEF BindInv
  <1> QED BY <1>1, <1>8, <1>9, TablesBind

LEMMA AssignPrepareBinds ==
  ASSUME Inv, BindInv, NEW w \in Worker, AssignPrepare(w)
  PROVE  BindInv'
  <1> DEFINE i == IF visit = NWorker THEN 0 ELSE visit
  <1>1. /\ UNCHANGED <<bindingThread, running, job, pc>> /\ jobs # <<>>
        /\ jobs \in Seq(Service) /\ bindingQueue \in [Worker -> Seq(Service)]
        /\ serviceReady \in [Worker -> Job]
    BY DEF AssignPrepare, serviceVars, bindVars, runVars, Inv, TypeOK, TypeTask, TypeWorker
  <1>0. i \in Worker BY ConstantsAssumption DEF Inv, TypeOK, TypeTask, Worker
  <1>2. \/ /\ bindingQueue[i] # <<>> /\ UNCHANGED jobs
           /\ bindingQueue' = [bindingQueue EXCEPT ![i] = Tail(@)]
           /\ serviceReady' = [serviceReady EXCEPT ![i] = Head(bindingQueue[i])]
        \/ /\ jobs' = Tail(jobs) /\ UNCHANGED bindingQueue
           /\ serviceReady' = [serviceReady EXCEPT ![i] = Head(jobs)]
        \/ UNCHANGED <<bindingQueue, serviceReady, jobs>>
    BY <1>0, <1>1 DEF AssignPrepare
  <1> HIDE DEF i
  <1>3. \A s : Contains(jobs, s) <=> Contains(Tail(jobs), s) \/ s = Head(jobs)
    BY <1>1, TailHas
  <1>4. bindingQueue[i] # <<>> => \A s :
          Contains(bindingQueue[i], s) <=> Contains(Tail(bindingQueue[i]), s) \/ s = Head(bindingQueue[i])
    BY <1>0, <1>1, TailHas
  <1>5. ASSUME NEW v \in Worker, NEW s \in Service
        PROVE  /\ Contains(bindingQueue'[v], s) => Contains(bindingQueue[v], s)
               /\ serviceReady'[v] = s =>
                    serviceReady[v] = s \/ Contains(bindingQueue[v], s) \/ Contains(jobs, s)
    BY <1>0, <1>1, <1>2, <1>3, <1>4
  <1>6. \A v \in Worker, s \in Service :
           /\ Contains(bindingQueue'[v], s) => bindingThread[s] = v
           /\ serviceReady'[v] = s => MayRun(s, v)
    BY <1>5 DEF BindInv, MayRun
  <1>7. \A s \in Service : Contains(jobs', s) => bindingThread[s] = threadNone
    BY <1>2, <1>3 DEF BindInv
  <1> QED BY <1>1, <1>6, <1>7, TablesBind

LEMMA ScheduleBinds ==
  ASSUME Inv, BindInv, NEW w \in Worker, Schedule(w)
  PROVE  BindInv'
  <1> DEFINE i == Least(Victim)
             x == serviceReady[i]
             steal == serviceReady[w] = NoService /\ binding[w] = NoService /\ Victim # {}
  <1>1. /\ UNCHANGED <<bindingThread, running, job, jobs, bindingQueue>>
        /\ pc' = [pc EXCEPT ![w] = "release"] /\ pc \in [Worker -> Label]
        /\ serviceReady \in [Worker -> Job]
    BY DEF Schedule, Goto, serviceVars, bindVars, runVars, assignVars, Inv, TypeOK, TypeWorker
  <1>2. serviceReady' = IF steal THEN [serviceReady EXCEPT ![i] = NoService, ![w] = x]
                                 ELSE serviceReady
    BY DEF Schedule
  <1>3. ASSUME steal PROVE i \in Worker /\ x \in Service /\ bindingThread[x] = threadNone
    <2>1. i \in Victim BY <1>3, LeastWorkerType DEF Victim, Inv
    <2>2. i \in Worker /\ x \in Service /\ BindingOf(x) # i
      BY <1>1, <2>1 DEF Victim, Stealable, Job
    <2> QED BY <2>2, WaitingBinding DEF BindInv, MayRun, Waits, Holds
  <1> HIDE DEF i, x, steal
  <1>4. ASSUME NEW v \in Worker, NEW s \in Service
        PROVE  serviceReady'[v] = s => serviceReady[v] = s \/ (steal /\ s = x)
    BY <1>1, <1>2, <1>3, ConstantsAssumption
  <1>5. \A v \in Worker, s \in Service :
           /\ Contains(bindingQueue'[v], s) => bindingThread[s] = v
           /\ serviceReady'[v] = s => MayRun(s, v)
    BY <1>1, <1>3, <1>4 DEF BindInv, MayRun
  <1>6. \A s \in Service : Contains(jobs', s) => bindingThread[s] = threadNone
    BY <1>1 DEF BindInv
  <1>7. \A v \in Worker : pc'[v] \in Active => pc[v] \in Active BY <1>1 DEF Active
  <1> QED BY <1>1, <1>5, <1>6, <1>7, TablesBind

\* A slot is reset only when nobody holds its service.
LEMMA OutBinds ==
  ASSUME Inv, BindInv, NEW w \in Worker, DispatchOut(w)
  PROVE  BindInv'
  <1> USE DEF DispatchOut, DispatchSignal, ScheduleNew, ScheduleDel, DispatchToDead,
          DispatchOutMessage, PushMessage, Settle, Dispatching
  <1>1. /\ UNCHANGED <<bindingQueue, serviceReady, job, jobs, running>>
        /\ pc[w] \in {"out", "push"} /\ pc'[w] \in {"out", "push"}
        /\ \A v \in Worker \ {w} : pc'[v] = pc[v]
    BY DEF Goto, Inv, TypeOK, TypeWorker, runVars, readyVars, assignVars
  <1>2. SameTables BY <1>1 DEF SameTables, Active
  <1>3. ASSUME NEW s \in Service, Ran(s) \/ Vacant(s) PROVE ~InHand(s)
    <2>1. Stage(s) /\ InOnePlace(s) /\ \A v \in Worker : RunStage(v) BY DEF Inv, TokenInv
    <2>2. ~Waits(s) BY <1>3, <2>1 DEF Stage, InOnePlace, Vacant
    <2>3. ASSUME NEW v \in Worker, running'[v] = s, pc'[v] \in Active PROVE FALSE
      <3>1. running[v] = s /\ pc[v] \in Active BY <1>1, <2>3 DEF Active
      <3>2. status[s] = "running" BY <2>1, <3>1 DEF RunStage
      <3> QED BY <1>3, <2>1, <3>2 DEF Stage, Vacant
    <2> QED BY <2>2, <2>3 DEF InHand
  <1>4. \A s \in Service : bindingThread'[s] = bindingThread[s] \/ Ran(s) \/ Vacant(s)
    <2>1. bindingThread \in [Service -> Worker \cup {threadNone}]
      BY DEF Inv, TypeOK, TypeService
    <2>2. CASE DispatchSignal(w)
      <3>1. Current \in Service /\ Ran(Current)
        BY <2>2, CurrentType DEF Inv, Ran, Holds, Current
      <3> QED BY <2>1, <2>2, <3>1 DEF ResetSlot, bindVars
    <2>3. CASE ScheduleNew(w)
      BY <2>1, <2>3 DEF ResetSlot, bindVars, FreeSlot, Vacant
    <2>4. CASE ScheduleDel(w)
      <3>1. Vacant(out[Current].about)
        BY <2>4, CurrentType DEF Inv, MailInv
      <3> QED BY <2>1, <2>4, <3>1 DEF ResetSlot
    <2> QED BY <2>2, <2>3, <2>4 DEF bindVars, serviceVars
  <1> QED BY <1>2, <1>3, <1>4, BindKept

LEMMA RunBinds ==
  ASSUME Inv, BindInv, NEW w \in Worker, Run(w)
  PROVE  BindInv'
  <1> USE DEF Run, Yield, Send, Spawn, InitServiceFails, CloseService, QuitService, QuitRoot,
          InitService, Bind, EventInit, EventWait, EventWaited, Resumes, AtWill, Finish
  <1>1. /\ UNCHANGED <<bindingQueue, serviceReady, job, jobs, running>>
        /\ pc[w] \in Active /\ pc'[w] \in {"complete", "quit", "eventwait"}
        /\ \A v \in Worker \ {w} : pc'[v] = pc[v]
    BY DEF Goto, Inv, TypeOK, TypeWorker, runVars, readyVars, assignVars, Active
  <1>2. SameTables BY <1>1 DEF SameTables
  <1> SUFFICES ASSUME NEW s \in Service, s = running[w] PROVE BindInv'
    BY <1>1 DEF Inv, PcInv
  <1>3. ASSUME NEW t \in Service, ~Placed(t) PROVE ~InHand(t)
    BY <1>1, <1>3 DEF Placed, Holds, InHand
  <1>4. pc'[w] # "eventwait" => ~InHand(s)
    <2>1. InOnePlace(s) /\ NoShare(running) /\ Holds(running, s)
      BY DEF Inv, TokenInv, Tidy, Holds
    <2> QED BY <1>1, <2>1, ConstantsAssumption DEF InOnePlace, InHand, NoShare, Active
  <1>5. bindingThread \in [Service -> Worker \cup {threadNone}]
    BY DEF Inv, TypeOK, TypeService
  <1>6. CASE \E x \in Worker \cup {threadNone} : InitService(w, x)
    <2>1. PICK x : bindingThread' = [bindingThread EXCEPT ![bounce[s].to] = x] BY <1>6
    <2>2. s = Root /\ receipt[Root] = "response" BY <1>6 DEF Spawned
    <2>3. bounce[s].to \in Service /\ status[bounce[s].to] = "uninitialized"
      BY <2>2 DEF Inv, MailInv, Addressed
    <2>4. ~Placed(bounce[s].to) BY <2>3, PlacedStatus DEF Inv
    <2>5. \A t \in Service : bindingThread'[t] = bindingThread[t] \/ t = bounce[s].to
      BY <1>5, <2>1
    <2> QED BY <1>2, <1>3, <2>4, <2>5, BindKept
  <1>7. CASE \E x \in Worker \cup {threadNone} : Bind(w, x)
    <2>1. \E x : bindingThread' = [bindingThread EXCEPT ![s] = x] BY <1>7
    <2>2. \A t \in Service : bindingThread'[t] = bindingThread[t] \/ t = s
      BY <1>5, <2>1
    <2>3. pc'[w] # "eventwait" BY <1>7 DEF Goto, Inv, TypeOK, TypeWorker
    <2> QED BY <1>2, <1>4, <2>2, <2>3, BindKept
  <1>8. CASE CloseService(w)
    <2>1. Head(inbox[s]).about \in Service /\ ~Placed(Head(inbox[s]).about)
      BY <1>8, SignalledService DEF Inv
    <2>2. \A t \in Service : bindingThread'[t] = bindingThread[t] \/ t = Head(inbox[s]).about
      BY <1>5, <1>8
    <2> QED BY <1>2, <1>3, <2>1, <2>2, BindKept
  <1>9. CASE UNCHANGED bindingThread
    BY <1>2, <1>9, BindKept
  <1>10. UNCHANGED bindingThread \/ CloseService(w)
         \/ \E x \in Worker \cup {threadNone} : InitService(w, x) \/ Bind(w, x)
    BY DEF bindVars
  <1> QED BY <1>6, <1>7, <1>8, <1>9, <1>10

LEMMA BindNext ==
  ASSUME Inv, BindInv, [Next]_vars
  PROVE  BindInv'
  <1> USE DEF serviceVars, bindVars, runVars, readyVars, assignVars
  <1>1. CASE UNCHANGED vars \/ ExternalSend
    <2>1. SameTables /\ UNCHANGED bindingThread
      BY <1>1 DEF vars, ExternalSend, SameTables
    <2> QED BY <2>1, BindKept
  <1>2. ASSUME NEW w \in Worker, Step(w),
               ~(GetJob(w) \/ Start(w) \/ GetPendingJobs(w) \/ CountFreeSlots(w)
                 \/ PrepareUnbound(w) \/ PrepareBound(w) \/ AssignPrepare(w) \/ Schedule(w)
                 \/ DispatchOut(w) \/ Run(w))
        PROVE  BindInv'
    <2> USE DEF Step, Lull, Dispatch, NoJob, Rest, Sleep, Park, Wait, Wakened, Quit,
            AcquireScheduler, Acquire, DispatchEntry, ReleaseScheduler, ExternalPush,
            ExternalDone, CollectDoneJobs, PrepareDone, TriggerBlockedWorkers,
            Complete, CompleteJob, CompleteAcquire, Drain
    <2>1. UNCHANGED <<bindingThread, bindingQueue, serviceReady, job, jobs>>
      BY <1>2
    <2>2. /\ running' = running \/ (running' = [running EXCEPT ![w] = NoService])
          /\ \E l \in Label \ Active : pc' = [pc EXCEPT ![w] = l]
      BY <1>2 DEF Goto, Label, Active
    <2>3. SameTables BY <2>1, <2>2 DEF SameTables, Inv, TypeOK, TypeWorker
    <2> QED BY <2>1, <2>3, BindKept
  <1> QED BY <1>1, <1>2, GetJobBinds, StartBinds, GetPendingJobsBinds, CountFreeSlotsBinds,
             PrepareUnboundBinds, PrepareBoundBinds, AssignPrepareBinds, ScheduleBinds,
             OutBinds, RunBinds
          DEF Next

\* A bound service is handed to, and run by, its own worker only, although jobs
\* are stolen, pass from a busy worker to another and go through three queues
\* (core.go:183-281, worker.go:105-190).
THEOREM OwnWorkerOnly == Spec => []BindingRespected
  <1>1. Init => BindInv
    BY ConstantsAssumption DEF Init, BindInv, MayRun, Contains
  <1>2. Inv /\ BindInv /\ [Next]_vars => BindInv' BY BindNext
  <1>3. Inv /\ BindInv => BindingRespected
    <2> SUFFICES ASSUME Inv, BindInv, NEW w \in Worker
                 PROVE  /\ \A s \in {serviceReady[w], job[w]} \ {NoService} :
                             BindingOf(s) \in {threadNone, w}
                        /\ pc[w] \in {"resume", "eventwait"} =>
                             BindingOf(running[w]) \in {threadNone, w}
      BY DEF BindingRespected
    <2>1. ASSUME NEW s \in {serviceReady[w], job[w]} \ {NoService}
          PROVE  BindingOf(s) \in {threadNone, w}
      <3>1. s \in Service /\ Waits(s)
        BY <2>1 DEF Inv, TypeOK, TypeWorker, Job, Waits, Holds
      <3> QED BY <2>1, <3>1, WaitingBinding DEF BindInv, MayRun
    <2>2. ASSUME pc[w] \in {"resume", "eventwait"}
          PROVE  BindingOf(running[w]) \in {threadNone, w}
      <3>1. running[w] \in Service /\ status[running[w]] = "running"
        BY <2>2 DEF Inv, PcInv, Active, TokenInv, RunStage
      <3> QED BY <2>2, <3>1 DEF BindInv, MayRun, Active, BindingOf, Vacant
    <2> QED BY <2>1, <2>2
  <1> QED BY <1>1, <1>2, <1>3, InvAlways, PTL DEF Spec

----------------------------------------------------------------------------
(* Slots: whoever assigns jobs has counted a free slot for each *)

SlotInv == \A w \in Worker :
  pc[w] \in {"prepare", "assign"} => Len(jobs) + slots <= Cardinality(Free)

LEMMA WorkerSets ==
  ASSUME NEW S \in SUBSET Worker
  PROVE  /\ IsFiniteSet(S) /\ Cardinality(S) \in Nat
         /\ \A T \in SUBSET S : Cardinality(T) <= Cardinality(S)
         /\ \A i \in S : Cardinality(S \ {i}) = Cardinality(S) - 1
  <1>1. IsFiniteSet(Worker) BY ConstantsAssumption, FS_Interval DEF Worker
  <1>2. IsFiniteSet(S) BY <1>1, FS_Subset
  <1>3. Cardinality(S) \in Nat BY <1>2, FS_CardinalityType
  <1>4. \A T \in SUBSET S : Cardinality(T) <= Cardinality(S) BY <1>2, FS_Subset
  <1>5. \A i \in S : Cardinality(S \ {i}) = Cardinality(S) - 1 BY <1>2, FS_RemoveElement
  <1> QED BY <1>2, <1>3, <1>4, <1>5

\* The slots used up and the jobs to come balance in each step of an owner.
SlotStep ==
  Len(jobs) + slots <= Cardinality(Free) => Len(jobs)' + slots' <= Cardinality(Free)'

LEMMA CountFreeSlotsSlots ==
  ASSUME Inv, NEW w \in Worker, CountFreeSlots(w)
  PROVE  Len(jobs)' + slots' <= Cardinality(Free)'
  <1>1. Free' = Free
    <2>1. \A i \in Worker : bindingQueue[i] # <<>> => Head(bindingQueue[i]) # NoService
      BY ConstantsAssumption, QueueType DEF Inv, TypeOK, TypeWorker
    <2>2. \A i \in Worker : i \in Free' <=> i \in Free
      BY <2>1 DEF CountFreeSlots, Free, Refilled
    <2> QED BY <2>2 DEF Free
  <1>2. /\ jobs' = jobs /\ slots' = Cardinality(Free) - Len(jobs) BY DEF CountFreeSlots
  <1>3. Cardinality(Free) \in Nat BY WorkerSets DEF Free
  <1>4. Len(jobs) \in Nat BY DEF Inv, TypeOK, TypeTask
  <1> QED BY <1>1, <1>2, <1>3, <1>4

LEMMA PrepareUnboundSlots ==
  ASSUME Inv, NEW w \in Worker, PrepareUnbound(w)
  PROVE  SlotStep
  <1>1. /\ jobs' = Append(jobs, Head(schedule)) /\ slots' = slots - 1 /\ slots \in Nat
        /\ UNCHANGED <<serviceReady, bindingQueue>> /\ jobs \in Seq(Service)
        /\ Head(schedule) \in Service
    BY QueueType DEF PrepareUnbound, readyVars, Inv, TypeOK, TypeTask
  <1>2. Len(jobs') = Len(jobs) + 1 /\ Len(jobs) \in Nat BY <1>1
  <1>3. Free' = Free BY <1>1 DEF Free
  <1> QED BY <1>1, <1>2, <1>3 DEF SlotStep

LEMMA PrepareBoundSlots ==
  ASSUME Inv, NEW w \in Worker, PrepareBound(w)
  PROVE  SlotStep
  <1>1. jobs' = jobs /\ slots' = slots - 1 /\ slots \in Nat /\ Len(jobs) \in Nat
    BY DEF PrepareBound, Inv, TypeOK, TypeTask
  <1>2. PICK i : i = BindingOf(Head(schedule)) OBVIOUS
  <1>3. /\ \A v \in Worker \ {i} : serviceReady'[v] = serviceReady[v]
        /\ \A v \in Worker \ {i} : bindingQueue'[v] = bindingQueue[v]
    BY <1>2 DEF PrepareBound, Inv, TypeOK, TypeWorker
  <1>4. Free \ {i} \subseteq Free' BY <1>3 DEF Free
  <1>5. Cardinality(Free \ {i}) >= Cardinality(Free) - 1
    BY WorkerSets, Free \in SUBSET Worker, Free \ {i} = Free \/ i \in Free DEF Free
  <1>6. Cardinality(Free') >= Cardinality(Free \ {i}) BY <1>4, WorkerSets DEF Free
  <1>7. /\ Cardinality(Free') \in Nat /\ Cardinality(Free) \in Nat
        /\ Cardinality(Free \ {i}) \in Nat
    BY WorkerSets DEF Free
  <1> QED BY <1>1, <1>5, <1>6, <1>7 DEF SlotStep

LEMMA AssignPrepareSlots ==
  ASSUME Inv, NEW w \in Worker, AssignPrepare(w)
  PROVE  SlotStep
  <1> DEFINE i == IF visit = NWorker THEN 0 ELSE visit
  <1>0. i \in Worker BY ConstantsAssumption DEF Inv, TypeOK, TypeTask, Worker
  <1>1. /\ jobs # <<>> /\ jobs \in Seq(Service) /\ bindingQueue \in [Worker -> Seq(Service)]
        /\ serviceReady \in [Worker -> Job] /\ slots' = slots /\ slots \in Nat
    BY DEF AssignPrepare, Inv, TypeOK, TypeTask, TypeWorker
  <1>2. \/ /\ bindingQueue[i] # <<>> /\ UNCHANGED jobs
           /\ bindingQueue' = [bindingQueue EXCEPT ![i] = Tail(@)]
           /\ serviceReady' = [serviceReady EXCEPT ![i] = Head(bindingQueue[i])]
        \/ /\ jobs' = Tail(jobs) /\ UNCHANGED bindingQueue
           /\ serviceReady' = [serviceReady EXCEPT ![i] = Head(jobs)]
        \/ UNCHANGED <<bindingQueue, serviceReady, jobs>>
    BY <1>0, <1>1 DEF AssignPrepare
  <1> HIDE DEF i
  <1>3. CASE UNCHANGED <<bindingQueue, serviceReady, jobs>>
    BY <1>1, <1>3 DEF SlotStep, Free
  <1>4. CASE /\ bindingQueue[i] # <<>> /\ UNCHANGED jobs
             /\ bindingQueue' = [bindingQueue EXCEPT ![i] = Tail(@)]
             /\ serviceReady' = [serviceReady EXCEPT ![i] = Head(bindingQueue[i])]
    <2>1. Free \subseteq Free' BY <1>0, <1>1, <1>4 DEF Free
    <2>2. Cardinality(Free) <= Cardinality(Free') BY <2>1, WorkerSets DEF Free
    <2>3. Cardinality(Free) \in Nat /\ Cardinality(Free') \in Nat /\ Len(jobs) \in Nat
      BY <1>1, WorkerSets DEF Free
    <2> QED BY <1>1, <1>4, <2>2, <2>3 DEF SlotStep
  <1>5. CASE /\ jobs' = Tail(jobs) /\ UNCHANGED bindingQueue
             /\ serviceReady' = [serviceReady EXCEPT ![i] = Head(jobs)]
    <2>1. Free \ {i} \subseteq Free' BY <1>0, <1>1, <1>5 DEF Free
    <2>2. Cardinality(Free \ {i}) >= Cardinality(Free) - 1
      BY WorkerSets, Free \in SUBSET Worker, Free \ {i} = Free \/ i \in Free DEF Free
    <2>3. Cardinality(Free') >= Cardinality(Free \ {i}) BY <2>1, WorkerSets DEF Free
    <2>4. /\ Cardinality(Free') \in Nat /\ Cardinality(Free) \in Nat
          /\ Cardinality(Free \ {i}) \in Nat
      BY WorkerSets DEF Free
    <2>5. Len(jobs') = Len(jobs) - 1 /\ Len(jobs) \in Nat BY <1>1, <1>5, HeadTailProperties
    <2> QED BY <1>1, <2>2, <2>3, <2>4, <2>5 DEF SlotStep
  <1> QED BY <1>2, <1>3, <1>4, <1>5

\* What others do meanwhile: a worker may take its job, which frees its slot.
LEMMA SlotsKept ==
  ASSUME Inv, SlotInv, UNCHANGED <<jobs, slots>>, Free \subseteq Free',
         \A v \in Worker : pc'[v] \in {"prepare", "assign"} => pc[v] \in {"prepare", "assign"}
  PROVE  SlotInv'
  <1>1. Cardinality(Free) <= Cardinality(Free') BY WorkerSets DEF Free
  <1>2. Cardinality(Free) \in Nat /\ Cardinality(Free') \in Nat BY WorkerSets DEF Free
  <1>3. Len(jobs) \in Nat /\ slots \in Nat BY DEF Inv, TypeOK, TypeTask
  <1> QED BY <1>1, <1>2, <1>3 DEF SlotInv

LEMMA SlotNext ==
  ASSUME Inv, SlotInv, [Next]_vars
  PROVE  SlotInv'
  <1> USE DEF serviceVars, bindVars, runVars, readyVars, assignVars
  <1>1. CASE UNCHANGED vars \/ ExternalSend
    <2>1. UNCHANGED <<jobs, slots, serviceReady, bindingQueue, pc>> BY <1>1 DEF vars, ExternalSend
    <2> QED BY <2>1, SlotsKept DEF Free
  <1>2. ASSUME NEW w \in Worker, Step(w),
               ~(GetPendingJobs(w) \/ CountFreeSlots(w) \/ PrepareUnbound(w) \/ PrepareBound(w)
                 \/ PrepareDone(w) \/ AssignPrepare(w) \/ Schedule(w))
        PROVE  SlotInv'
    <2> USE DEF Step, Lull, Dispatch, DispatchOut, Run, GetJob, NoJob, Rest, Sleep, Park, Wait,
            Wakened, Quit, AcquireScheduler, Acquire, DispatchEntry, ReleaseScheduler,
            ExternalPush, ExternalDone, CollectDoneJobs, DispatchSignal, ScheduleNew,
            ScheduleDel, DispatchToDead, DispatchOutMessage, PushMessage, Settle,
            TriggerBlockedWorkers, Start, Yield, Send, Spawn, InitServiceFails, CloseService,
            QuitService, QuitRoot, InitService, Bind, EventInit, EventWait, EventWaited,
            Finish, Complete, CompleteJob, CompleteAcquire, Drain
    <2>1. UNCHANGED <<jobs, slots, bindingQueue>> BY <1>2
    <2>2. UNCHANGED serviceReady \/ serviceReady' = [serviceReady EXCEPT ![w] = NoService]
      BY <1>2
    <2>3. UNCHANGED pc \/ \E l \in Label \ {"prepare", "assign"} : pc' = [pc EXCEPT ![w] = l]
      BY <1>2 DEF Goto, Label
    <2>4. Free \subseteq Free' BY <2>1, <2>2 DEF Free, Inv, TypeOK, TypeWorker
    <2>5. \A v \in Worker : pc'[v] \in {"prepare", "assign"} => pc[v] \in {"prepare", "assign"}
      BY <2>3 DEF Inv, TypeOK, TypeWorker
    <2> QED BY <2>1, <2>4, <2>5, SlotsKept
  <1>3. ASSUME NEW w \in Worker, pc[w] \in Locked, \A v \in Worker \ {w} : pc'[v] = pc[v],
               pc'[w] \in {"prepare", "assign"} => Len(jobs)' + slots' <= Cardinality(Free)'
        PROVE  SlotInv'
    BY <1>3 DEF Inv, LockExclusive, Locked, SlotInv
  <1>4. ASSUME NEW w \in Worker, GetPendingJobs(w) \/ Schedule(w) PROVE SlotInv'
    <2>1. pc'[w] \notin {"prepare", "assign"} /\ pc[w] \in Locked
          /\ \A v \in Worker \ {w} : pc'[v] = pc[v]
      BY <1>4 DEF GetPendingJobs, Schedule, Goto, Locked, Inv, TypeOK, TypeWorker
    <2> QED BY <1>3, <2>1
  <1>5. ASSUME NEW w \in Worker, CountFreeSlots(w) PROVE SlotInv'
    <2>1. pc[w] \in Locked /\ \A v \in Worker \ {w} : pc'[v] = pc[v]
      BY <1>5 DEF CountFreeSlots, Counting, Goto, Locked, Inv, TypeOK, TypeWorker
    <2> QED BY <1>3, <1>5, <2>1, CountFreeSlotsSlots
  <1>6. ASSUME NEW w \in Worker, PrepareUnbound(w) \/ PrepareBound(w) \/ AssignPrepare(w)
        PROVE  SlotInv'
    <2>1. pc[w] \in {"prepare", "assign"} /\ UNCHANGED pc
      BY <1>6 DEF PrepareUnbound, PrepareBound, AssignPrepare
    <2>2. SlotStep BY <1>6, PrepareUnboundSlots, PrepareBoundSlots, AssignPrepareSlots
    <2>3. Len(jobs)' + slots' <= Cardinality(Free)' BY <2>1, <2>2 DEF SlotStep, SlotInv
    <2> QED BY <1>3, <2>1, <2>3 DEF Locked
  <1>7. ASSUME NEW w \in Worker, PrepareDone(w) PROVE SlotInv'
    <2>1. /\ pc[w] = "prepare" /\ \A v \in Worker \ {w} : pc'[v] = pc[v]
          /\ slots' = 0 /\ UNCHANGED <<jobs, serviceReady, bindingQueue>>
      BY <1>7 DEF PrepareDone, Goto, Inv, TypeOK, TypeWorker
    <2>2. Len(jobs) + slots <= Cardinality(Free) BY <2>1 DEF SlotInv
    <2>3. Len(jobs) \in Nat /\ slots \in Nat /\ Cardinality(Free) \in Nat /\ Free' = Free
      BY <2>1, WorkerSets DEF Free, Inv, TypeOK, TypeTask
    <2> QED BY <1>3, <2>1, <2>2, <2>3 DEF Locked
  <1> QED BY <1>1, <1>2, <1>4, <1>5, <1>6, <1>7 DEF Next

\* assignPrepare, a loop with no exit but success, is only entered with enough
\* free slots, for any number of workers, whoever takes jobs meanwhile
\* (core.go:215-252): each bound service the round hands out costs a slot, even
\* when it goes to a queue.
THEOREM RoomForJobs == Spec => []SlotsSuffice
  <1>1. Init => SlotInv BY DEF Init, SlotInv
  <1>2. Inv /\ SlotInv /\ [Next]_vars => SlotInv' BY SlotNext
  <1>3. Inv /\ SlotInv => SlotsSuffice
    <2> SUFFICES ASSUME Inv, SlotInv, NEW w \in Worker, pc[w] = "assign"
                 PROVE  Len(jobs) <= Cardinality({i \in Worker : serviceReady[i] = NoService})
      BY DEF SlotsSuffice
    <2> DEFINE E == {i \in Worker : serviceReady[i] = NoService}
    <2>1. Cardinality(Free) <= Cardinality(E) /\ Cardinality(Free) \in Nat /\ Cardinality(E) \in Nat
      BY WorkerSets, Free \in SUBSET E DEF Free
    <2>2. Len(jobs) + slots <= Cardinality(Free) BY DEF SlotInv
    <2>3. Len(jobs) \in Nat /\ slots \in Nat BY DEF Inv, TypeOK, TypeTask
    <2> QED BY <2>1, <2>2, <2>3
  <1> QED BY <1>1, <1>2, <1>3, InvAlways, PTL DEF Spec

----------------------------------------------------------------------------
(* Events: a service with an event waits in it only for what is to come *)

HasEvent(s) == sockevent[s] # -1
Idles(q) == \E k \in DOMAIN q : q[k].typ = "idle"
IdleFirst(q) == \A k \in DOMAIN q : q[k].typ = "idle" => k = 1

\* An event that a service has is open, in use, and its own
OwnInv ==
  /\ \A s \in Service : HasEvent(s) =>
       /\ s \in Waiter /\ status[s] \notin Unborn
       /\ eventInit[sockevent[s]] /\ event[sockevent[s]] \in {"clear", "set"}
  /\ \A s, t \in Service : HasEvent(s) /\ sockevent[s] = sockevent[t] => s = t

\* The idle message is the first; one that has come after it has set the event
IdleFits(s) ==
  /\ IdleFirst(inbox[s])
  /\ Idles(inbox[s]) => /\ HasEvent(s) /\ receipt[s] = "none"
                        /\ status[s] \in {"schedule", "running"}
                        /\ Told(s) /\ Len(inbox[s]) > 1 => event[sockevent[s]] = "set"
EventWaits(w) == pc[w] = "eventwait" =>
  LET s == running[w] IN
    /\ HasEvent(s) /\ ~Idles(inbox[s])
    /\ Told(s) /\ inbox[s] # <<>> => event[sockevent[s]] = "set"

WakeInv == (\A s \in Service : IdleFits(s)) /\ \A w \in Worker : EventWaits(w)
EventInv == OwnInv /\ WakeInv

\* Service s keeps its event or has none
Keeps(s) == \/ sockevent'[s] = -1
            \/ /\ sockevent'[s] = sockevent[s] /\ status'[s] \notin Unborn
               /\ eventInit'[sockevent[s]] /\ event'[sockevent[s]] \in {"clear", "set"}

\* Service s gets no message, and its event is not cleared
Calm(s) == /\ inbox'[s] = inbox[s] /\ receipt'[s] = receipt[s] /\ sockevent'[s] = sockevent[s]
           /\ \/ status'[s] = status[s]
              \/ status[s] = "idle" /\ status'[s] = "schedule"
              \/ status[s] = "schedule" /\ status'[s] = "running"
           /\ HasEvent(s) /\ event[sockevent[s]] = "set" => event'[sockevent[s]] = "set"
\* Service s gets a message, or may have got one, and is scheduled or woken
Pushed(s) == /\ receipt'[s] = receipt[s] /\ sockevent'[s] = sockevent[s]
             /\ \/ inbox'[s] = inbox[s]
                \/ \E m \in Message : m.typ # "idle" /\ inbox'[s] = Append(inbox[s], m)
             /\ IF status[s] = "idle" THEN status'[s] = "schedule"
                ELSE /\ status'[s] = status[s]
                     /\ HasEvent(s) /\ Told(s) => event'[sockevent[s]] = "set"
\* No worker is in the event of service s, whose inbox has no idle message
Silent(s) == /\ ~Idles(inbox'[s])
             /\ \A v \in Worker : running[v] = s => pc'[v] # "eventwait"

LEMMA IdleQueue ==
  ASSUME NEW q \in Seq(Message)
  PROVE  /\ Idles(q) => q # <<>>
         /\ \A m \in Message :
              /\ m.typ # "idle" /\ IdleFirst(q) => IdleFirst(Append(q, m))
              /\ m.typ # "idle" => (Idles(Append(q, m)) <=> Idles(q))
              /\ q # <<>> => Len(Append(q, m)) > 1
              /\ q = <<>> => IdleFirst(Append(q, m)) /\ Len(Append(q, m)) = 1
         /\ q # <<>> /\ IdleFirst(q) => ~Idles(Tail(q))
         /\ q # <<>> /\ Tail(q) # <<>> => Len(q) > 1
         /\ q # <<>> /\ Head(q).typ = "idle" => Idles(q)
  <1>1. Idles(q) => q # <<>> BY DEF Idles
  <1>2. ASSUME NEW m \in Message
        PROVE  /\ m.typ # "idle" /\ IdleFirst(q) => IdleFirst(Append(q, m))
               /\ m.typ # "idle" => (Idles(Append(q, m)) <=> Idles(q))
               /\ q # <<>> => Len(Append(q, m)) > 1
               /\ q = <<>> => IdleFirst(Append(q, m)) /\ Len(Append(q, m)) = 1
    <2> DEFINE r == Append(q, m)
               n == Len(q)
    <2>1. /\ n \in Nat /\ Len(r) = n + 1 /\ r[n + 1] = m
          /\ DOMAIN q = 1 .. n /\ DOMAIN r = 1 .. n + 1
          /\ \A k \in 1 .. n : r[k] = q[k]
          /\ q = <<>> <=> n = 0
      BY AppendProperties
    <2> HIDE DEF r, n
    <2>2. \A k \in 1 .. n + 1 : k \in 1 .. n \/ k = n + 1 BY <2>1
    <2>3. \A k \in 1 .. n : k \in 1 .. n + 1 BY <2>1
    <2>4. m.typ # "idle" /\ IdleFirst(q) => IdleFirst(r) BY <2>1, <2>2 DEF IdleFirst
    <2>5. m.typ # "idle" => (Idles(r) <=> Idles(q)) BY <2>1, <2>2, <2>3 DEF Idles
    <2>6. (q # <<>> => Len(r) > 1) /\ (q = <<>> => Len(r) = 1) BY <2>1
    <2>7. q = <<>> => IdleFirst(r) BY <2>1 DEF IdleFirst
    <2> QED BY <2>4, <2>5, <2>6, <2>7 DEF r
  <1>3. ASSUME q # <<>>
        PROVE  /\ IdleFirst(q) => ~Idles(Tail(q))
               /\ Tail(q) # <<>> => Len(q) > 1
               /\ Head(q).typ = "idle" => Idles(q)
    <2>1. /\ Len(q) \in Nat /\ Len(q) >= 1 /\ DOMAIN q = 1 .. Len(q) /\ Head(q) = q[1]
          /\ Tail(q) \in Seq(Message) /\ Len(Tail(q)) = Len(q) - 1
          /\ \A k \in 1 .. Len(q) - 1 : Tail(q)[k] = q[k + 1]
      BY <1>3, HeadTailProperties
    <2>2. DOMAIN Tail(q) = 1 .. Len(q) - 1 /\ (Tail(q) = <<>> <=> Len(Tail(q)) = 0) BY <2>1
    <2>3. \A k \in 1 .. Len(q) - 1 : k + 1 \in 1 .. Len(q) /\ k + 1 # 1 BY <2>1
    <2>4. IdleFirst(q) => ~Idles(Tail(q)) BY <2>1, <2>2, <2>3 DEF IdleFirst, Idles
    <2>5. 1 \in 1 .. Len(q) BY <2>1
    <2> QED BY <2>1, <2>2, <2>4, <2>5 DEF Idles
  <1> QED BY <1>1, <1>2, <1>3

LEMMA OwnKept ==
  ASSUME OwnInv, \A s \in Service : Keeps(s)
  PROVE  OwnInv'
  BY DEF OwnInv, Keeps, HasEvent

LEMMA PushedQueue ==
  ASSUME Inv, NEW s \in Service, Pushed(s)
  PROVE  /\ IdleFirst(inbox[s]) => IdleFirst(inbox'[s])
         /\ Idles(inbox'[s]) <=> Idles(inbox[s])
  <1>1. inbox[s] \in Seq(Message) BY DEF Inv, TypeOK, TypeService
  <1>2. CASE inbox'[s] = inbox[s] BY <1>2
  <1>3. ASSUME NEW m \in Message, m.typ # "idle", inbox'[s] = Append(inbox[s], m)
        PROVE  /\ IdleFirst(inbox[s]) => IdleFirst(inbox'[s])
               /\ Idles(inbox'[s]) <=> Idles(inbox[s])
    BY <1>1, <1>3, IdleQueue
  <1> QED BY <1>2, <1>3 DEF Pushed

LEMMA CalmIdle ==
  ASSUME Inv, NEW s \in Service, IdleFits(s), Calm(s) \/ Pushed(s) \/ Silent(s)
  PROVE  IdleFits(s)'
  <1>1. CASE Calm(s)
    BY <1>1 DEF IdleFits, Calm, HasEvent, Told, Idles, IdleFirst
  <1>2. CASE Silent(s)
    BY <1>2 DEF IdleFits, Silent, Idles, IdleFirst
  <1>3. CASE Pushed(s)
    <2>1. /\ IdleFirst(inbox'[s])
          /\ Idles(inbox'[s]) => Idles(inbox[s])
      BY <1>3, PushedQueue DEF IdleFits
    <2>2. Idles(inbox'[s]) => /\ HasEvent(s) /\ receipt[s] = "none"
                              /\ status[s] \in {"schedule", "running"}
      BY <2>1 DEF IdleFits
    <2> QED BY <1>3, <2>1, <2>2 DEF Pushed, IdleFits, HasEvent, Told, Idles, IdleFirst
  <1> QED BY <1>1, <1>2, <1>3

LEMMA CalmWait ==
  ASSUME Inv, NEW w \in Worker, EventWaits(w), running[w] \in Service,
         pc'[w] = "eventwait" => pc[w] = "eventwait" /\ running'[w] = running[w],
         Calm(running[w]) \/ Pushed(running[w]) \/ Silent(running[w])
  PROVE  EventWaits(w)'
  <1> SUFFICES ASSUME pc'[w] = "eventwait", NEW s \in Service, s = running[w]
               PROVE  EventWaits(w)'
    BY DEF EventWaits
  <1>1. /\ HasEvent(s) /\ ~Idles(inbox[s]) /\ status[s] = "running"
        /\ Told(s) /\ inbox[s] # <<>> => event[sockevent[s]] = "set"
    BY DEF EventWaits, Inv, TokenInv, RunStage, Active
  <1>2. Calm(s) \/ Pushed(s) BY DEF Silent
  <1>3. sockevent'[s] = sockevent[s] BY <1>2 DEF Calm, Pushed
  <1>4. ~Idles(inbox'[s]) BY <1>1, <1>2, PushedQueue DEF Calm
  <1>5. Told(s) /\ inbox'[s] # <<>> => event'[sockevent[s]] = "set"
    BY <1>1, <1>2 DEF Calm, Pushed
  <1> QED BY <1>1, <1>3, <1>4, <1>5 DEF EventWaits, HasEvent, Told, Idles

LEMMA EventKept ==
  ASSUME Inv, EventInv,
         \A v \in Worker : pc'[v] = "eventwait" => pc[v] = "eventwait" /\ running'[v] = running[v],
         \A s \in Service : Keeps(s) /\ (Calm(s) \/ Pushed(s) \/ Silent(s))
  PROVE  EventInv'
  <1>1. OwnInv' BY OwnKept DEF EventInv
  <1>2. \A s \in Service : IdleFits(s)' BY CalmIdle DEF EventInv, WakeInv
  <1>3. ASSUME NEW w \in Worker PROVE EventWaits(w)'
    <2>1. CASE pc'[w] = "eventwait"
      <3>1. running[w] \in Service BY <2>1 DEF Inv, PcInv, Active
      <3> QED BY <3>1, CalmWait DEF EventInv, WakeInv
    <2>2. CASE pc'[w] # "eventwait" BY <2>2 DEF EventWaits
    <2> QED BY <2>1, <2>2
  <1> QED BY <1>1, <1>2, <1>3 DEF EventInv, WakeInv

LEMMA Rung ==
  ASSUME Inv, OwnInv, event' = event \/ (\E E : event' = Triggered(E)), UNCHANGED eventInit,
         NEW s \in Service, sockevent'[s] = sockevent[s],
         status'[s] = status[s] \/ status'[s] \notin Unborn
  PROVE  /\ Keeps(s)
         /\ HasEvent(s) /\ event[sockevent[s]] = "set" => event'[sockevent[s]] = "set"
  <1>1. HasEvent(s) => sockevent[s] \in Event /\ DOMAIN event = Event
    BY DEF HasEvent, Inv, TypeOK, TypeService, TypeTask
  <1>2. HasEvent(s) => event'[sockevent[s]] \in {event[sockevent[s]], "set"}
    BY <1>1 DEF Triggered
  <1> QED BY <1>2 DEF OwnInv, Keeps, HasEvent

\* checkMessageTo schedules an idle service and triggers the event of another.
LEMMA CheckRings ==
  ASSUME Inv, OwnInv, NEW t \in Service, CheckMessageTo(t)
  PROVE  /\ event' = event \/ (\E E : event' = Triggered(E))
         /\ \A s \in Service : status'[s] =
              IF s = t /\ status[s] = "idle" THEN "schedule" ELSE status[s]
         /\ HasEvent(t) /\ status[t] # "idle" => event'[sockevent[t]] = "set"
  <1>1. event' = event \/ (\E E : event' = Triggered(E)) BY DEF CheckMessageTo
  <1>2. ASSUME HasEvent(t), status[t] # "idle" PROVE event'[sockevent[t]] = "set"
    <2>1. ~Vacant(t) /\ event[sockevent[t]] \in {"clear", "set"}
      BY <1>2 DEF OwnInv, Vacant, Unborn
    <2>2. event' = Triggered({sockevent[t]})
      BY <1>2, <2>1 DEF CheckMessageTo, StatusOf, SockeventOf
    <2>3. sockevent[t] \in Event /\ DOMAIN event = Event
      BY <1>2 DEF HasEvent, Inv, TypeOK, TypeService, TypeTask
    <2> QED BY <2>1, <2>2, <2>3 DEF Triggered
  <1> QED BY <1>1, <1>2, CheckEffect DEF Inv

\* A service that is not scheduled or running has no idle message, and nobody
\* waits in its event.
LEMMA OffSilent ==
  ASSUME Inv, EventInv, NEW s \in Service, status[s] \notin {"schedule", "running"},
         ~Idles(inbox[s]) => ~Idles(inbox'[s]),
         \A v \in Worker : pc'[v] = "eventwait" => pc[v] = "eventwait"
  PROVE  Silent(s)
  <1>1. ~Idles(inbox[s]) BY DEF EventInv, WakeInv, IdleFits
  <1>2. ASSUME NEW v \in Worker, running[v] = s, pc'[v] = "eventwait" PROVE FALSE
    BY <1>2 DEF Inv, TokenInv, RunStage, Active
  <1> QED BY <1>1, <1>2 DEF Silent

LEMMA EmptyNotIdle == ~Idles(<<>>)
  BY DEF Idles

LEMMA DispatchSignalEvents ==
  ASSUME Inv, FitInv, EventInv, NEW w \in Worker, DispatchSignal(w)
  PROVE  EventInv'
  <1> SUFFICES ASSUME NEW c \in Service, c = Current PROVE EventInv'
    BY CurrentType DEF Inv, DispatchSignal, Dispatching
  <1>1. /\ out[c].typ = "signal" /\ c # Root /\ status[c] = "dead"
        /\ UNCHANGED <<pc, running, eventInit>>
    BY CurrentFits DEF DispatchSignal, Dispatching, StatusOf, Vacant, runVars
  <1>2. /\ status \in [Service -> Status] /\ inbox \in [Service -> Seq(Message)]
        /\ out \in [Service -> Message] /\ receipt \in [Service -> Receipt]
        /\ sockevent \in [Service -> Event \cup {-1}] /\ Root \in Service
    BY ConstantsAssumption DEF Inv, TypeOK, TypeService
  <1>3. CASE StatusOf(Root) = "dead"
    <2>1. /\ ResetSlot(c, Freed) /\ UNCHANGED event
          /\ receipt' = [receipt EXCEPT ![c] = "none"]
      BY <1>3 DEF DispatchSignal
    <2>2. inbox'[c] = <<>> /\ sockevent'[c] = -1 BY <1>2, <2>1 DEF ResetSlot
    <2>3. Silent(c) BY <1>1, <2>2, OffSilent, EmptyNotIdle
    <2>4. \A s \in Service \ {c} :
            /\ UNCHANGED <<status[s], inbox[s], receipt[s], sockevent[s]>>
      BY <1>2, <2>1 DEF ResetSlot
    <2>5. \A s \in Service \ {c} : Calm(s) BY <2>1, <2>4 DEF Calm
    <2>6. \A s \in Service : Keeps(s) BY <1>1, <2>1, <2>2, <2>4, Rung DEF Keeps, EventInv
    <2> QED BY <1>1, <2>3, <2>5, <2>6, EventKept
  <1>4. CASE StatusOf(Root) # "dead"
    <2>1. UNCHANGED <<receipt, sockevent>> BY <1>4 DEF DispatchSignal, bindVars
    <2>2. CASE Full(Root)
      <3>1. UNCHANGED <<inbox, status, event>> BY <1>4, <2>2 DEF DispatchSignal
      <3>2. \A s \in Service : Calm(s) /\ Keeps(s)
        BY <1>1, <2>1, <3>1, Rung DEF Calm, EventInv
      <3> QED BY <1>1, <3>2, EventKept
    <2>3. CASE ~Full(Root)
      <3>1. /\ inbox' = [inbox EXCEPT ![Root] = Append(@, out[c])]
            /\ CheckMessageTo(Root) /\ out[c] \in Message
        BY <1>2, <1>4, <2>3 DEF DispatchSignal
      <3>2. /\ event' = event \/ (\E E : event' = Triggered(E))
            /\ \A s \in Service : status'[s] =
                 IF s = Root /\ status[s] = "idle" THEN "schedule" ELSE status[s]
            /\ HasEvent(Root) /\ status[Root] # "idle" => event'[sockevent[Root]] = "set"
        BY <1>2, <3>1, CheckRings DEF EventInv
      <3>3. /\ inbox'[Root] = Append(inbox[Root], out[c])
            /\ \A s \in Service \ {Root} : inbox'[s] = inbox[s]
        BY <1>2, <3>1
      <3>4. Pushed(Root) BY <1>1, <1>2, <2>1, <3>1, <3>2, <3>3 DEF Pushed
      <3>5. \A s \in Service : Keeps(s)
               /\ (HasEvent(s) /\ event[sockevent[s]] = "set" => event'[sockevent[s]] = "set")
        BY <1>1, <2>1, <3>2, Rung DEF EventInv, Unborn
      <3>6. \A s \in Service \ {Root} : Calm(s) BY <2>1, <3>2, <3>3, <3>5 DEF Calm
      <3> QED BY <1>1, <3>4, <3>5, <3>6, EventKept
    <2> QED BY <2>2, <2>3
  <1> QED BY <1>3, <1>4

LEMMA ScheduleEvents ==
  ASSUME Inv, FitInv, EventInv, NEW w \in Worker, ScheduleNew(w) \/ ScheduleDel(w)
  PROVE  EventInv'
  <1> SUFFICES ASSUME NEW c \in Service, c = Current PROVE EventInv'
    BY CurrentType DEF Inv, ScheduleNew, ScheduleDel, Dispatching
  <1>1. /\ status[c] = "done" /\ UNCHANGED <<pc, running, eventInit, event>>
        /\ \E r : receipt' = [receipt EXCEPT ![c] = r]
    BY CurrentFits, NoMessageType
       DEF Fits, ScheduleNew, ScheduleDel, Dispatching, WriteReceipt, runVars, eventVars
  <1>2. /\ status \in [Service -> Status] /\ inbox \in [Service -> Seq(Message)]
        /\ receipt \in [Service -> Receipt]
        /\ sockevent \in [Service -> Event \cup {-1}]
    BY DEF Inv, TypeOK, TypeService
  <1>3. \A s \in Service \ {c} : receipt'[s] = receipt[s] BY <1>1, <1>2
  <1>4. CASE UNCHANGED <<status, inbox, sockevent>>
    <2>1. \A s \in Service \ {c} : Calm(s) BY <1>1, <1>3, <1>4 DEF Calm
    <2>2. Silent(c) BY <1>1, <1>4, OffSilent
    <2>3. \A s \in Service : Keeps(s) BY <1>1, <1>4, Rung DEF EventInv
    <2> QED BY <1>1, <2>1, <2>2, <2>3, EventKept
  <1>5. ASSUME NEW n \in Service, n # c, status[n] \in Unborn, NEW st \in Unborn, ResetSlot(n, st)
        PROVE  EventInv'
    <2>1. \A s \in Service \ {n} : UNCHANGED <<status[s], inbox[s], sockevent[s]>>
      BY <1>2, <1>5 DEF ResetSlot
    <2>2. inbox'[n] = <<>> /\ sockevent'[n] = -1 BY <1>2, <1>5 DEF ResetSlot
    <2>3. \A s \in Service \ {c, n} : Calm(s) BY <1>1, <1>3, <2>1 DEF Calm
    <2>4. Silent(c) BY <1>1, <1>5, <2>1, OffSilent
    <2>5. Silent(n) BY <1>1, <1>5, <2>2, OffSilent, EmptyNotIdle DEF Unborn
    <2>6. \A s \in Service : Keeps(s) BY <1>1, <2>1, <2>2, Rung DEF EventInv, Keeps
    <2> QED BY <1>1, <2>3, <2>4, <2>5, <2>6, EventKept
  <1>6. CASE ScheduleNew(w) /\ (Current # Root \/ FreeSlot = {})
    BY <1>4, <1>6 DEF ScheduleNew, bindVars
  <1>7. CASE ScheduleNew(w) /\ ~(Current # Root \/ FreeSlot = {})
    <2>1. PICK n \in FreeSlot : ResetSlot(n, "uninitialized") BY <1>7 DEF ScheduleNew
    <2>2. n \in Service /\ n # c /\ status[n] \in Unborn BY <1>1, <2>1 DEF FreeSlot, Unborn
    <2> QED BY <1>5, <2>1, <2>2 DEF Unborn
  <1>8. CASE ScheduleDel(w)
    <2>1. ResetSlot(out[c].about, Freed) /\ Freed \in Unborn
      BY <1>8 DEF ScheduleDel, Freed, Unborn
    <2>2. out[c].about \in Service /\ status[out[c].about] \in Unborn
      BY <1>8 DEF ScheduleDel, Inv, MailInv, Vacant, Unborn
    <2>3. out[c].about # c BY <1>1, <2>2 DEF Unborn
    <2> QED BY <1>5, <2>1, <2>2, <2>3
  <1> QED BY <1>6, <1>7, <1>8

LEMMA DispatchToDeadEvents ==
  ASSUME Inv, FitInv, EventInv, NEW w \in Worker, DispatchToDead(w)
  PROVE  EventInv'
  <1> SUFFICES ASSUME NEW c \in Service, c = Current PROVE EventInv'
    BY CurrentType DEF Inv, DispatchToDead, Dispatching
  <1> SUFFICES ASSUME NEW t \in Service, t = out[c].to PROVE EventInv'
    BY DEF Inv, Addressed, DispatchToDead
  <1>1. /\ status[c] \in {"done", "dead"} /\ CheckMessageTo(t) /\ StatusOf(t) = "dead"
        /\ receipt' = [receipt EXCEPT ![c] = "error"]
        /\ UNCHANGED <<inbox, sockevent, eventInit, pc, running>>
    BY CurrentFits DEF DispatchToDead, Dispatching, WriteReceipt, bindVars, runVars
  <1>2. UNCHANGED status /\ \E E : event' = Triggered(E) BY <1>1 DEF CheckMessageTo
  <1>3. \A s \in Service \ {c} : receipt'[s] = receipt[s]
    BY <1>1 DEF Inv, TypeOK, TypeService
  <1>4. \A s \in Service : Keeps(s)
          /\ (HasEvent(s) /\ event[sockevent[s]] = "set" => event'[sockevent[s]] = "set")
    BY <1>1, <1>2, Rung DEF EventInv
  <1>5. \A s \in Service \ {c} : Calm(s) BY <1>1, <1>2, <1>3, <1>4 DEF Calm
  <1>6. Silent(c) BY <1>1, OffSilent
  <1> QED BY <1>1, <1>4, <1>5, <1>6, EventKept

LEMMA PushMessageEvents ==
  ASSUME Inv, FitInv, EventInv, ~Panic, NEW w \in Worker, PushMessage(w)
  PROVE  EventInv'
  <1> SUFFICES ASSUME NEW c \in Service, c = Current PROVE EventInv'
    BY CurrentType DEF Inv, PushMessage
  <1> SUFFICES ASSUME NEW t \in Service, t = out[c].to PROVE EventInv'
    BY DEF Inv, Addressed, PushMessage
  <1>1. /\ status[c] \in {"done", "dead"} /\ CheckMessageTo(t)
        /\ out[c].typ = "request" /\ out[c] \in Message
        /\ UNCHANGED <<sockevent, eventInit, running>>
        /\ \E r : receipt' = [receipt EXCEPT ![c] = r]
        /\ inbox' = inbox \/ inbox' = [inbox EXCEPT ![t] = Append(@, out[c])]
    BY CurrentFits DEF PushMessage, WriteReceipt, bindVars, runVars, Inv, TypeOK, TypeService
  <1>2. \A v \in Worker : pc'[v] = "eventwait" => pc[v] = "eventwait"
    BY DEF PushMessage, Goto, Inv, TypeOK, TypeWorker
  <1>3. /\ \A s \in Service \ {c} : receipt'[s] = receipt[s]
        /\ \A s \in Service \ {t} : inbox'[s] = inbox[s]
        /\ inbox'[t] = inbox[t] \/ inbox'[t] = Append(inbox[t], out[c])
    BY <1>1 DEF Inv, TypeOK, TypeService
  <1>4. /\ event' = event \/ (\E E : event' = Triggered(E))
        /\ \A s \in Service : status'[s] =
             IF s = t /\ status[s] = "idle" THEN "schedule" ELSE status[s]
        /\ HasEvent(t) /\ status[t] # "idle" => event'[sockevent[t]] = "set"
    BY <1>1, CheckRings DEF EventInv
  <1>5. \A s \in Service : Keeps(s)
          /\ (HasEvent(s) /\ event[sockevent[s]] = "set" => event'[sockevent[s]] = "set")
    BY <1>1, <1>4, Rung DEF EventInv, Unborn
  <1>6. Silent(c)
    <2>1. ~Idles(inbox[c]) => ~Idles(inbox'[c])
      <3>1. inbox[c] \in Seq(Message) BY DEF Inv, TypeOK, TypeService
      <3>2. inbox'[c] = inbox[c] \/ inbox'[c] = Append(inbox[c], out[c]) BY <1>3
      <3>3. Idles(Append(inbox[c], out[c])) <=> Idles(inbox[c])
        BY <1>1, <3>1, IdleQueue
      <3> QED BY <3>2, <3>3
    <2> QED BY <1>1, <1>2, <2>1, OffSilent
  <1>7. t # c => Pushed(t) BY <1>1, <1>3, <1>4 DEF Pushed
  <1>8. \A s \in Service \ {c, t} : Calm(s) BY <1>1, <1>3, <1>4, <1>5 DEF Calm
  <1> QED BY <1>1, <1>2, <1>5, <1>6, <1>7, <1>8, EventKept

\* The one place an idle message comes from: an empty inbox, no receipt, and an
\* event of its own.
LEMMA SettleEvents ==
  ASSUME Inv, FitInv, EventInv, NEW w \in Worker, Settle(w)
  PROVE  EventInv'
  <1> SUFFICES ASSUME NEW c \in Service, c = Current PROVE EventInv'
    BY CurrentType DEF Inv, Settle, Dispatching
  <1>1. /\ status[c] = "done" /\ UNCHANGED <<receipt, sockevent, event, eventInit, pc, running>>
    BY CurrentFits DEF Settle, Dispatching, StatusOf, Vacant, bindVars, runVars, eventVars
  <1>2. /\ status \in [Service -> Status] /\ inbox \in [Service -> Seq(Message)]
        /\ sockevent \in [Service -> Event \cup {-1}]
    BY DEF Inv, TypeOK, TypeService
  <1> DEFINE m == [typ |-> "idle", to |-> c, about |-> NoService]
  <1>3. m \in Message BY DEF Message, MessageType
  <1> HIDE DEF m
  <1>4. /\ \A s \in Service \ {c} : status'[s] = status[s]
        /\ status'[c] \notin Unborn
    BY <1>2 DEF Settle, Unborn
  <1>5. \/ inbox' = inbox
        \/ /\ inbox' = [inbox EXCEPT ![c] = Append(@, m)] /\ ~HasMessage(c)
           /\ status'[c] = "schedule" /\ SockeventOf(c) >= 0
    BY <1>2 DEF Settle, m
  <1>6. \A s \in Service \ {c} : inbox'[s] = inbox[s] BY <1>2, <1>5
  <1>7. \A s \in Service : Keeps(s) BY <1>1, <1>4, Rung DEF EventInv
  <1>8. \A s \in Service \ {c} : Calm(s) BY <1>1, <1>4, <1>6 DEF Calm
  <1>9. \A v \in Worker : EventWaits(v)'
    <2>1. \A v \in Worker : pc[v] = "eventwait" =>
            running[v] \in Service /\ running[v] # c
      BY <1>1 DEF Inv, PcInv, TokenInv, RunStage, Active
    <2>2. ASSUME NEW v \in Worker, pc[v] = "eventwait" PROVE EventWaits(v)'
      BY <1>1, <1>8, <2>1, <2>2, CalmWait DEF EventInv, WakeInv
    <2>3. ASSUME NEW v \in Worker, pc[v] # "eventwait" PROVE EventWaits(v)'
      BY <1>1, <2>3 DEF EventWaits
    <2> QED BY <2>2, <2>3
  <1>10. IdleFits(c)'
    <2>1. CASE inbox' = inbox
      <3>1. Silent(c) BY <1>1, <2>1, OffSilent
      <3> QED BY <3>1, CalmIdle DEF EventInv, WakeInv
    <2>2. CASE /\ inbox' = [inbox EXCEPT ![c] = Append(@, m)] /\ ~HasMessage(c)
               /\ status'[c] = "schedule" /\ SockeventOf(c) >= 0
      <3>1. inbox[c] = <<>> /\ receipt[c] = "none" /\ sockevent[c] >= 0
        BY <1>1, <2>2 DEF HasMessage, SockeventOf, Vacant
      <3>2. inbox'[c] = Append(inbox[c], m) /\ inbox[c] \in Seq(Message) BY <1>2, <2>2
      <3>3. IdleFirst(inbox'[c]) /\ Len(inbox'[c]) = 1
        <4>1. IdleFirst(Append(inbox[c], m)) /\ Len(Append(inbox[c], m)) = 1
          BY <1>3, <3>1, <3>2, IdleQueue
        <4> QED BY <3>2, <4>1
      <3>4. sockevent[c] # -1 BY <3>1
      <3> QED BY <1>1, <2>2, <3>1, <3>3, <3>4 DEF IdleFits, HasEvent, IdleFirst, Idles
    <2> QED BY <1>5, <2>1, <2>2
  <1>11. \A s \in Service \ {c} : IdleFits(s)' BY <1>8, CalmIdle DEF EventInv, WakeInv
  <1>12. OwnInv' BY <1>7, OwnKept DEF EventInv
  <1> QED BY <1>9, <1>10, <1>11, <1>12 DEF EventInv, WakeInv

LEMMA ExternalEvents ==
  ASSUME Inv, FitInv, EventInv, NEW w \in Worker, ExternalPush(w) \/ ExternalDone(w)
  PROVE  EventInv'
  <1>1. /\ inbox \in [Service -> Seq(Message)] /\ Root \in Service
        /\ UNCHANGED <<receipt, sockevent, eventInit, running>>
    BY ConstantsAssumption
       DEF Inv, TypeOK, TypeService, ExternalPush, ExternalDone, bindVars, mailVars, eventVars, runVars
  <1>2. \A v \in Worker : pc'[v] = "eventwait" => pc[v] = "eventwait"
    BY DEF ExternalPush, ExternalDone, Goto, Inv, TypeOK, TypeWorker
  <1> DEFINE m == [typ |-> "request", to |-> Root, about |-> NoService]
  <1>3. m \in Message /\ m.typ # "idle" BY <1>1 DEF Message, MessageType
  <1> HIDE DEF m
  <1>4. CASE ExternalPush(w)
    <2>1. UNCHANGED <<status, event>> BY <1>4 DEF ExternalPush, eventVars
    <2>2. ~Told(Root)
      BY <1>4, ConstantsAssumption DEF ExternalPush, FitInv, ExternalInv, Told
    <2>3. \/ inbox' = inbox
          \/ inbox' = [inbox EXCEPT ![Root] = Append(@, m)]
      BY <1>4 DEF ExternalPush, m
    <2>4. /\ \A s \in Service \ {Root} : inbox'[s] = inbox[s]
          /\ inbox'[Root] = inbox[Root] \/ inbox'[Root] = Append(inbox[Root], m)
      BY <1>1, <2>3
    <2>5. \A s \in Service : Keeps(s) BY <1>1, <2>1, Rung DEF EventInv
    <2>6. \A s \in Service \ {Root} : Calm(s) BY <1>1, <2>1, <2>4 DEF Calm
    <2>7. status[Root] # "idle" => Pushed(Root)
      BY <1>1, <1>3, <2>1, <2>2, <2>4 DEF Pushed
    <2>8. status[Root] = "idle" => Silent(Root)
      <3>1. Idles(Append(inbox[Root], m)) <=> Idles(inbox[Root])
        BY <1>1, <1>3, IdleQueue
      <3>2. ~Idles(inbox[Root]) => ~Idles(inbox'[Root]) BY <2>4, <3>1
      <3> QED BY <1>1, <1>2, <3>2, OffSilent
    <2> QED BY <1>1, <1>2, <2>5, <2>6, <2>7, <2>8, EventKept
  <1>5. CASE ExternalDone(w)
    <2>1. UNCHANGED inbox BY <1>5 DEF ExternalDone, mailVars
    <2>2. /\ event' = event \/ (\E E : event' = Triggered(E))
          /\ UNCHANGED status \/ \A s \in Service : status'[s] =
               IF s = Root /\ status[s] = "idle" THEN "schedule" ELSE status[s]
      BY <1>1, <1>5, CheckRings DEF ExternalDone, EventInv
    <2>3. \A s \in Service : Keeps(s)
            /\ (HasEvent(s) /\ event[sockevent[s]] = "set" => event'[sockevent[s]] = "set")
      BY <1>1, <2>2, Rung DEF EventInv, Unborn
    <2>4. \A s \in Service : Calm(s) BY <1>1, <2>1, <2>2, <2>3 DEF Calm
    <2> QED BY <1>1, <1>2, <2>3, <2>4, EventKept
  <1> QED BY <1>4, <1>5

LEMMA StartEvents ==
  ASSUME Inv, EventInv, NEW w \in Worker, Start(w)
  PROVE  EventInv'
  <1>1. /\ UNCHANGED <<inbox, receipt, sockevent, event, eventInit>>
        /\ \A v \in Worker : pc'[v] = "eventwait" => pc[v] = "eventwait" /\ running'[v] = running[v]
    BY DEF Start, Goto, mailVars, bindVars, eventVars, Inv, TypeOK, TypeWorker
  <1>2. \/ UNCHANGED status
        \/ status[job[w]] = "schedule" /\ status' = [status EXCEPT ![job[w]] = "running"]
    BY DEF Start, StatusOf, Vacant
  <1>3. \A s \in Service : status'[s] = status[s]
                           \/ (status[s] = "schedule" /\ status'[s] = "running")
    BY <1>2 DEF Inv, TypeOK, TypeService
  <1>4. \A s \in Service : Calm(s) BY <1>1, <1>3 DEF Calm
  <1>5. \A s \in Service : Keeps(s) BY <1>1, <1>3, Rung DEF EventInv, Unborn
  <1> QED BY <1>1, <1>4, <1>5, EventKept

\* The idle message is gone once its service has run on.
LEMMA ReceiveQuiet ==
  ASSUME Inv, FitInv, EventInv, NEW s \in Service, status[s] = "running", Receive(s)
  PROVE  /\ ~Idles(inbox'[s])
         /\ \A t \in Service \ {s} : receipt'[t] = receipt[t] /\ inbox'[t] = inbox[t]
  <1>1. inbox[s] \in Seq(Message) /\ IdleFits(s) /\ Fits(s)
    BY DEF Inv, TypeOK, TypeService, EventInv, WakeInv, FitInv
  <1>2. CASE awaiting[s]
    <2>1. ~Idles(inbox[s]) BY <1>1, <1>2 DEF IdleFits, Fits, Answered
    <2> QED BY <1>1, <1>2, <2>1, ReceiveEffect DEF Receive, Inv
  <1>3. CASE ~awaiting[s] /\ inbox[s] = <<>>
    BY <1>1, <1>3, ReceiveEffect, EmptyNotIdle DEF Receive, Inv
  <1>4. CASE ~awaiting[s] /\ inbox[s] # <<>>
    <2>1. inbox'[s] = Tail(inbox[s]) BY <1>4 DEF Receive, Inv, TypeOK, TypeService
    <2>2. ~Idles(Tail(inbox[s])) BY <1>1, <1>4, IdleQueue DEF IdleFits
    <2> QED BY <1>1, <2>1, <2>2, ReceiveEffect DEF Inv
  <1> QED BY <1>2, <1>3, <1>4

\* Steps of a running service that end its run and leave the events alone.
LEMMA StopEvents ==
  ASSUME Inv, FitInv, EventInv, NEW w \in Worker, NEW s \in Service, s = running[w],
         pc[w] \in Active, pc'[w] # "eventwait", UNCHANGED <<running, sockevent, eventInit>>,
         \A v \in Worker \ {w} : pc'[v] = pc[v], Receive(s), status'[s] \in {"done", "dead"},
         event' = event \/ (\E E : event' = Triggered(E)),
         \A t \in Service \ {s} : status'[t] = status[t] \/ status[t] = "uninitialized"
  PROVE  EventInv'
  <1>1. status[s] = "running" BY DEF Inv, TokenInv, RunStage
  <1>2. /\ ~Idles(inbox'[s])
        /\ \A t \in Service \ {s} : receipt'[t] = receipt[t] /\ inbox'[t] = inbox[t]
    BY <1>1, ReceiveQuiet
  <1>3. \A v \in Worker : pc'[v] = "eventwait" => pc[v] = "eventwait" /\ running'[v] = running[v]
    OBVIOUS
  <1>4. Silent(s)
    <2>1. \A v \in Worker : running[v] = s => v = w
      BY ConstantsAssumption DEF Inv, TokenInv, Tidy, NoShare
    <2> QED BY <1>2, <2>1 DEF Silent
  <1>5. \A t \in Service : t = s \/ status'[t] = status[t] =>
          /\ Keeps(t)
          /\ HasEvent(t) /\ event[sockevent[t]] = "set" => event'[sockevent[t]] = "set"
    BY Rung DEF EventInv, Unborn
  <1>6. ASSUME NEW t \in Service \ {s}, status[t] = "uninitialized" PROVE Keeps(t) /\ Silent(t)
    <2>1. sockevent[t] = -1 BY <1>6 DEF EventInv, OwnInv, HasEvent, Unborn
    <2> QED BY <1>2, <1>3, <1>6, <2>1, OffSilent DEF Keeps
  <1>7. \A t \in Service \ {s} : status'[t] = status[t] => Calm(t) BY <1>2, <1>5 DEF Calm
  <1> QED BY <1>3, <1>4, <1>5, <1>6, <1>7, EventKept

LEMMA EventInitEvents ==
  ASSUME Inv, FitInv, EventInv, NEW w \in Worker, EventInit(w)
  PROVE  EventInv'
  <1> DEFINE s == running[w]
             free == {e \in DOMAIN event : ~eventInit[e]}
             e == Least(free)
             ok == event[e] = "invalid"
  <1>1. /\ s \in Service /\ s \in Waiter /\ sockevent[s] < 0 /\ free # {} /\ Receive(s)
        /\ status' = [status EXCEPT ![s] = "done"]
        /\ eventInit' = [eventInit EXCEPT ![e] = TRUE]
        /\ event' = [event EXCEPT ![e] = IF ok THEN "set" ELSE @]
        /\ sockevent' = [sockevent EXCEPT ![s] = IF ok THEN e ELSE @]
        /\ UNCHANGED running /\ pc[w] \in Active
    BY DEF EventInit, Finish, AtWill, Resumes, Active, Inv, PcInv
  <1>2. /\ status \in [Service -> Status] /\ sockevent \in [Service -> Event \cup {-1}]
        /\ event \in [Event -> {"invalid", "clear", "set", "closed"}]
        /\ eventInit \in [Event -> BOOLEAN]
    BY DEF Inv, TypeOK, TypeService, TypeTask
  <1>3. e \in Event /\ ~eventInit[e]
    <2>1. free \in SUBSET Nat BY <1>2 DEF Event
    <2>2. e \in free
      <3> HIDE DEF free
      <3> QED BY <1>1, <2>1, LeastIn
    <2> QED BY <1>2, <2>2
  <1>4. /\ \A v \in Worker : pc'[v] = "eventwait" => pc[v] = "eventwait" /\ v # w
        /\ pc'[w] # "eventwait"
    BY DEF EventInit, Finish, Goto, Inv, TypeOK, TypeWorker
  <1> HIDE DEF free, e
  <1>5. sockevent[s] = -1 BY <1>1, <1>2 DEF Event
  <1>6. /\ status'[s] = "done" /\ eventInit'[e] /\ (sockevent'[s] # -1 => sockevent'[s] = e /\ event'[e] = "set")
        /\ \A x \in Event \ {e} : event'[x] = event[x] /\ eventInit'[x] = eventInit[x]
        /\ \A t \in Service \ {s} : sockevent'[t] = sockevent[t] /\ status'[t] = status[t]
    BY <1>1, <1>2, <1>3, <1>5
  <1>7. \A t \in Service : HasEvent(t) => sockevent[t] \in Event \ {e} /\ t # s
    BY <1>2, <1>3, <1>5 DEF EventInv, OwnInv, HasEvent
  <1> HIDE DEF s
  <1>8. OwnInv'
    <2>1. ASSUME NEW t \in Service, sockevent'[t] # -1
          PROVE  /\ t \in Waiter /\ status'[t] \notin Unborn
                 /\ eventInit'[sockevent'[t]] /\ event'[sockevent'[t]] \in {"clear", "set"}
      BY <1>1, <1>6, <1>7, <2>1 DEF EventInv, OwnInv, HasEvent, Unborn
    <2>2. ASSUME NEW t \in Service, NEW u \in Service, sockevent'[t] # -1, sockevent'[t] = sockevent'[u]
          PROVE  t = u
      BY <1>6, <1>7, <2>2 DEF EventInv, OwnInv, HasEvent
    <2> QED BY <2>1, <2>2 DEF OwnInv, HasEvent
  <1>9. status[s] = "running" BY <1>1 DEF Inv, TokenInv, RunStage, s
  <1>10. /\ ~Idles(inbox'[s])
         /\ \A t \in Service \ {s} : receipt'[t] = receipt[t] /\ inbox'[t] = inbox[t]
    BY <1>1, <1>9, ReceiveQuiet
  <1>11. Silent(s)
    <2>1. \A v \in Worker : running[v] = s => v = w
      BY <1>1, ConstantsAssumption DEF Inv, TokenInv, Tidy, NoShare, s
    <2> QED BY <1>4, <1>10, <2>1 DEF Silent
  <1>12. \A t \in Service \ {s} : Calm(t) BY <1>6, <1>7, <1>10 DEF Calm
  <1>13. \A t \in Service : IdleFits(t)' BY <1>11, <1>12, CalmIdle DEF EventInv, WakeInv
  <1>14. ASSUME NEW v \in Worker PROVE EventWaits(v)'
    <2>1. CASE pc'[v] = "eventwait"
      <3>1. running[v] \in Service BY <1>4, <2>1 DEF Inv, PcInv, Active
      <3> QED BY <1>1, <1>4, <1>11, <1>12, <3>1, CalmWait DEF EventInv, WakeInv
    <2>2. CASE pc'[v] # "eventwait" BY <2>2 DEF EventWaits
    <2> QED BY <2>1, <2>2
  <1> QED BY <1>8, <1>13, <1>14 DEF EventInv, WakeInv

LEMMA EventWaitEvents ==
  ASSUME Inv, FitInv, EventInv, NEW w \in Worker, EventWait(w)
  PROVE  EventInv'
  <1> SUFFICES ASSUME NEW s \in Service, s = running[w] PROVE EventInv'
    BY DEF EventWait, AtWill, Resumes, Active, Inv, PcInv
  <1>1. /\ AtIdle(s) /\ sockevent[s] >= 0 /\ Receive(s) /\ pc[w] \in Active
        /\ UNCHANGED <<status, sockevent, event, eventInit, running>>
        /\ pc' = [pc EXCEPT ![w] = "eventwait"]
    BY DEF EventWait, AtWill, Resumes, Active, Goto, bindVars, runVars, eventVars
  <1>2. inbox \in [Service -> Seq(Message)] /\ pc \in [Worker -> Label]
    BY DEF Inv, TypeOK, TypeService, TypeWorker
  <1>3. status[s] = "running" /\ IdleFits(s)
    BY <1>1 DEF Inv, TokenInv, RunStage, EventInv, WakeInv
  <1>4. /\ ~Idles(inbox'[s])
        /\ \A t \in Service \ {s} : receipt'[t] = receipt[t] /\ inbox'[t] = inbox[t]
    BY <1>1, <1>3, ReceiveQuiet
  <1>5. Told(s) /\ inbox'[s] # <<>> => event[sockevent[s]] = "set"
    <2>1. inbox'[s] = Tail(inbox[s]) /\ inbox[s] # <<>> BY <1>1, <1>2 DEF Receive, AtIdle
    <2>2. Tail(inbox[s]) # <<>> => Len(inbox[s]) > 1 BY <1>2, <2>1, IdleQueue
    <2>3. Idles(inbox[s]) BY <1>1, <1>2, <2>1, IdleQueue DEF AtIdle
    <2> QED BY <1>3, <2>1, <2>2, <2>3 DEF IdleFits
  <1>6. \A t \in Service : Keeps(t) BY <1>1, Rung DEF EventInv
  <1>7. \A t \in Service \ {s} : Calm(t) BY <1>1, <1>4 DEF Calm
  <1>8. IdleFits(s)' BY <1>4 DEF IdleFits, Idles, IdleFirst
  <1>9. EventWaits(w)'
    <2>1. sockevent[s] # -1 BY <1>1
    <2> QED BY <1>1, <1>4, <1>5, <2>1 DEF EventWaits, HasEvent, Told, Idles
  <1>10. ASSUME NEW v \in Worker \ {w} PROVE EventWaits(v)'
    <2>1. pc'[v] = pc[v] /\ running'[v] = running[v] BY <1>1, <1>2
    <2>2. CASE pc[v] = "eventwait"
      <3>1. running[v] \in Service BY <2>2 DEF Inv, PcInv, Active
      <3>2. running[v] # s BY <3>1, ConstantsAssumption DEF Inv, TokenInv, Tidy, NoShare
      <3> QED BY <1>7, <2>1, <2>2, <3>1, <3>2, CalmWait DEF EventInv, WakeInv
    <2>3. CASE pc[v] # "eventwait" BY <2>1, <2>3 DEF EventWaits
    <2> QED BY <2>2, <2>3
  <1>11. \A t \in Service \ {s} : IdleFits(t)' BY <1>7, CalmIdle DEF EventInv, WakeInv
  <1>12. OwnInv' BY <1>6, OwnKept DEF EventInv
  <1> QED BY <1>8, <1>9, <1>10, <1>11, <1>12 DEF EventInv, WakeInv

LEMMA EventWaitedEvents ==
  ASSUME Inv, FitInv, EventInv, NEW w \in Worker, EventWaited(w)
  PROVE  EventInv'
  <1> SUFFICES ASSUME NEW s \in Service, s = running[w] PROVE EventInv'
    BY DEF EventWaited, Active, Inv, PcInv
  <1> DEFINE e == sockevent[s]
  <1>1. /\ pc[w] = "eventwait" /\ UNCHANGED <<inbox, receipt, sockevent, eventInit, running>>
        /\ \E left \in {"clear", "set"} : event' = [event EXCEPT ![e] = left]
        /\ status' = [status EXCEPT ![s] = "done"] /\ pc' = [pc EXCEPT ![w] = "complete"]
    BY DEF EventWaited, Finish, Goto, mailVars, bindVars
  <1>2. /\ pc \in [Worker -> Label] /\ status \in [Service -> Status]
        /\ sockevent \in [Service -> Event \cup {-1}]
        /\ event \in [Event -> {"invalid", "clear", "set", "closed"}]
    BY DEF Inv, TypeOK, TypeWorker, TypeService, TypeTask
  <1>3. HasEvent(s) /\ ~Idles(inbox[s]) BY <1>1 DEF EventInv, WakeInv, EventWaits
  <1>4. e \in Event BY <1>2, <1>3 DEF HasEvent
  <1>5. \A t \in Service \ {s} : HasEvent(t) => sockevent[t] \in Event \ {e}
    BY <1>2, <1>3 DEF EventInv, OwnInv, HasEvent
  <1>6. /\ event'[e] \in {"clear", "set"} /\ \A x \in Event \ {e} : event'[x] = event[x]
        /\ status'[s] = "done" /\ \A t \in Service \ {s} : status'[t] = status[t]
        /\ pc'[w] = "complete" /\ \A v \in Worker \ {w} : pc'[v] = pc[v]
    BY <1>1, <1>2, <1>4
  <1> HIDE DEF e
  <1>7. \A v \in Worker : pc'[v] = "eventwait" => pc[v] = "eventwait" /\ running'[v] = running[v]
    BY <1>1, <1>6
  <1>8. Silent(s)
    <2>1. \A v \in Worker : running[v] = s => v = w
      BY ConstantsAssumption DEF Inv, TokenInv, Tidy, NoShare
    <2>2. inbox'[s] = inbox[s] BY <1>1
    <2> QED BY <1>3, <1>6, <2>1, <2>2 DEF Silent
  <1>9. \A t \in Service \ {s} : Calm(t) BY <1>1, <1>5, <1>6 DEF Calm
  <1>10. Keeps(s)
    BY <1>1, <1>3, <1>6 DEF Keeps, EventInv, OwnInv, Unborn, e
  <1>11. ASSUME NEW t \in Service \ {s} PROVE Keeps(t)
    <2>1. CASE HasEvent(t)
      BY <1>1, <1>5, <1>6, <2>1 DEF Keeps, EventInv, OwnInv
    <2>2. CASE ~HasEvent(t) BY <1>1, <2>2 DEF Keeps, HasEvent
    <2> QED BY <2>1, <2>2
  <1> QED BY <1>7, <1>8, <1>9, <1>10, <1>11, EventKept

\* close_service frees the event of a dead service: no other service has it.
LEMMA CloseServiceEvents ==
  ASSUME Inv, FitInv, EventInv, NEW w \in Worker, CloseService(w)
  PROVE  EventInv'
  <1> SUFFICES ASSUME NEW s \in Service, s = running[w], NEW c, c = Head(inbox[s]).about
               PROVE  EventInv'
    BY DEF CloseService, Resumes, Active, Inv, PcInv
  <1> DEFINE e == sockevent[c]
  <1>1. /\ s = Root /\ pc[w] = "resume" /\ inbox[s] # <<>>
        /\ UNCHANGED running /\ pc' = [pc EXCEPT ![w] = "complete"]
        /\ status' = [status EXCEPT ![s] = "done", ![c] = Freed]
        /\ inbox' = [inbox EXCEPT ![s] = Tail(@), ![c] = <<>>]
        /\ receipt' = [receipt EXCEPT ![c] = "none"]
        /\ sockevent' = [sockevent EXCEPT ![c] = -1]
        /\ event' = [x \in DOMAIN event |-> IF x = e THEN "closed" ELSE event[x]]
        /\ eventInit' = [x \in DOMAIN event |-> eventInit[x] /\ x # e]
    BY DEF CloseService, Signalled, Resumes, Finish, Goto
  <1>2. /\ pc \in [Worker -> Label] /\ status \in [Service -> Status]
        /\ inbox \in [Service -> Seq(Message)] /\ receipt \in [Service -> Receipt]
        /\ sockevent \in [Service -> Event \cup {-1}]
        /\ event \in [Event -> {"invalid", "clear", "set", "closed"}]
        /\ eventInit \in [Event -> BOOLEAN]
    BY DEF Inv, TypeOK, TypeWorker, TypeService, TypeTask
  <1>3. c \in Service \ {s} /\ status[c] = "dead"
    BY <1>1, SignalledService DEF CloseService, Inv
  <1>4. /\ status'[s] = "done" /\ \A t \in Service \ {c, s} : status'[t] = status[t]
        /\ inbox'[s] = Tail(inbox[s]) /\ inbox'[c] = <<>>
        /\ \A t \in Service \ {c, s} : inbox'[t] = inbox[t]
        /\ \A t \in Service \ {c} : sockevent'[t] = sockevent[t] /\ receipt'[t] = receipt[t]
        /\ sockevent'[c] = -1
        /\ pc'[w] = "complete" /\ \A v \in Worker \ {w} : pc'[v] = pc[v]
    BY <1>1, <1>2, <1>3
  <1>5. ASSUME NEW t \in Service \ {c}, HasEvent(t)
        PROVE  event'[sockevent[t]] = event[sockevent[t]] /\ eventInit'[sockevent[t]]
    <2>1. sockevent[t] \in Event /\ sockevent[t] # e /\ eventInit[sockevent[t]]
      BY <1>2, <1>3, <1>5 DEF EventInv, OwnInv, HasEvent
    <2> QED BY <1>1, <1>2, <2>1
  <1> HIDE DEF e
  <1>6. \A v \in Worker : pc'[v] = "eventwait" => pc[v] = "eventwait" /\ running'[v] = running[v]
    BY <1>1, <1>4
  <1>7. Silent(s)
    <2>1. \A v \in Worker : running[v] = s => v = w
      BY ConstantsAssumption DEF Inv, TokenInv, Tidy, NoShare
    <2>2. inbox[s] \in Seq(Message) /\ IdleFirst(inbox[s])
      BY <1>2 DEF EventInv, WakeInv, IdleFits
    <2>3. ~Idles(Tail(inbox[s])) BY <1>1, <2>2, IdleQueue
    <2> QED BY <1>4, <2>1, <2>3 DEF Silent
  <1>8. Silent(c) BY <1>3, <1>4, <1>6, OffSilent, EmptyNotIdle
  <1>9. \A t \in Service \ {c, s} : Calm(t) BY <1>4, <1>5 DEF Calm
  <1>10. Keeps(c) BY <1>4 DEF Keeps
  <1>11. ASSUME NEW t \in Service \ {c} PROVE Keeps(t)
    <2>1. CASE HasEvent(t)
      <3>1. status'[t] \notin Unborn
        BY <1>4, <2>1 DEF EventInv, OwnInv, Unborn
      <3> QED BY <1>4, <1>5, <2>1, <3>1 DEF Keeps, EventInv, OwnInv
    <2>2. CASE ~HasEvent(t) BY <1>4, <2>2 DEF Keeps, HasEvent
    <2> QED BY <2>1, <2>2
  <1> QED BY <1>3, <1>6, <1>7, <1>8, <1>9, <1>10, <1>11, EventKept

LEMMA RunEvents ==
  ASSUME Inv, FitInv, EventInv, NEW w \in Worker, Run(w)
  PROVE  EventInv'
  <1> USE DEF Finish, AtWill, Resumes, Goto, runVars, bindVars, eventVars, Active
  <1> SUFFICES ASSUME NEW s \in Service, s = running[w] PROVE EventInv'
    <2>1. pc[w] \in Active
      BY DEF Run, Yield, Send, Spawn, InitServiceFails, CloseService, QuitService, QuitRoot,
             InitService, Bind, EventInit, EventWait, EventWaited
    <2> QED BY <2>1 DEF Inv, PcInv
  <1>1. pc \in [Worker -> Label] /\ status \in [Service -> Status]
    BY DEF Inv, TypeOK, TypeWorker, TypeService
  <1>2. ASSUME pc[w] \in Active, Receive(s), UNCHANGED <<running, sockevent, eventInit>>,
               event' = event \/ (\E E : event' = Triggered(E)),
               \E l \in {"complete", "quit"} : pc' = [pc EXCEPT ![w] = l],
               \/ \E st \in {"done", "dead"} : status' = [status EXCEPT ![s] = st]
               \/ \E n, st : /\ n \in Service \ {s} /\ status[n] = "uninitialized"
                             /\ status' = [status EXCEPT ![s] = "done", ![n] = st]
        PROVE  EventInv'
    <2>1. pc'[w] # "eventwait" /\ \A v \in Worker \ {w} : pc'[v] = pc[v]
      BY <1>1, <1>2
    <2>2. status'[s] \in {"done", "dead"}
          /\ \A t \in Service \ {s} : status'[t] = status[t] \/ status[t] = "uninitialized"
      BY <1>1, <1>2
    <2> QED BY <1>2, <2>1, <2>2, StopEvents
  <1>3. ASSUME Yield(w) \/ (\E t \in Service : Send(w, t)) \/ Spawn(w)
               \/ QuitService(w) \/ (\E x \in Worker \cup {threadNone} : Bind(w, x))
        PROVE  EventInv'
    BY <1>2, <1>3 DEF Yield, Send, Spawn, QuitService, Bind
  <1>4. CASE QuitRoot(w)
    BY <1>2, <1>4 DEF QuitRoot
  <1>5. ASSUME (\E x \in Worker \cup {threadNone} : InitService(w, x)) \/ InitServiceFails(w)
        PROVE  EventInv'
    <2>1. s = Root /\ receipt[Root] = "response" BY <1>5 DEF InitService, InitServiceFails, Spawned
    <2>2. bounce[s].to \in Service \ {s} /\ status[bounce[s].to] = "uninitialized"
      BY <2>1 DEF Inv, MailInv, Addressed
    <2>3. \E st : status' = [status EXCEPT ![s] = "done", ![bounce[s].to] = st]
      BY <1>5 DEF InitService, InitServiceFails
    <2>4. /\ pc[w] \in Active /\ Receive(s) /\ UNCHANGED <<running, sockevent, eventInit, event>>
          /\ pc' = [pc EXCEPT ![w] = "complete"]
      BY <1>5 DEF InitService, InitServiceFails
    <2>5. \E n, st : /\ n \in Service \ {s} /\ status[n] = "uninitialized"
                     /\ status' = [status EXCEPT ![s] = "done", ![n] = st]
      BY <2>2, <2>3
    <2> QED BY <1>2, <2>4, <2>5
  <1> QED BY <1>3, <1>4, <1>5, CloseServiceEvents, EventInitEvents, EventWaitEvents,
             EventWaitedEvents
          DEF Run

LEMMA OutEvents ==
  ASSUME Inv, FitInv, EventInv, ~Panic, NEW w \in Worker, DispatchOut(w)
  PROVE  EventInv'
  <1>1. CASE DispatchOutMessage(w)
    <2>1. UNCHANGED <<serviceVars, running, eventVars>>
          /\ pc' \in {pc, [pc EXCEPT ![w] = "push"], [pc EXCEPT ![w] = "prepare"]}
      BY <1>1 DEF DispatchOutMessage, Goto, runVars
    <2>2. \A v \in Worker : pc'[v] = "eventwait" => pc[v] = "eventwait" /\ running'[v] = running[v]
      BY <2>1 DEF Inv, TypeOK, TypeWorker
    <2>3. \A s \in Service : Calm(s) /\ Keeps(s)
      BY <2>1, Rung DEF Calm, EventInv, serviceVars, bindVars, mailVars, eventVars
    <2> QED BY <2>2, <2>3, EventKept
  <1>2. CASE DispatchSignal(w) BY <1>2, DispatchSignalEvents
  <1>3. CASE ScheduleNew(w) \/ ScheduleDel(w) BY <1>3, ScheduleEvents
  <1>4. CASE DispatchToDead(w) BY <1>4, DispatchToDeadEvents
  <1>5. CASE PushMessage(w) BY <1>5, PushMessageEvents
  <1>6. CASE Settle(w) BY <1>6, SettleEvents
  <1> QED BY <1>1, <1>2, <1>3, <1>4, <1>5, <1>6 DEF DispatchOut

LEMMA EventNext ==
  ASSUME Inv, FitInv, EventInv, [Next]_vars
  PROVE  EventInv'
  <1> USE DEF serviceVars, mailVars, bindVars, eventVars, runVars
  <1>1. CASE UNCHANGED vars \/ ExternalSend
    <2>1. UNCHANGED <<serviceVars, running, eventVars, pc>> BY <1>1 DEF vars, ExternalSend
    <2>2. \A s \in Service : Calm(s) /\ Keeps(s) BY <2>1, Rung DEF Calm, EventInv
    <2> QED BY <2>1, <2>2, EventKept
  <1>2. ASSUME NEW w \in Worker, Step(w), Aside(w) PROVE EventInv'
    <2>1. /\ UNCHANGED <<serviceVars, eventInit>> /\ pc'[w] # "eventwait"
          /\ event' = event \/ (\E E : event' = Triggered(E))
          /\ \A v \in Worker \ {w} : pc'[v] = pc[v]
      BY <1>2 DEF Aside, Active
    <2>2. \A v \in Worker \ {w} : running'[v] = running[v]
      <3>1. running' = running \/ \E x : running' = [running EXCEPT ![w] = x]
        BY <1>2 DEF Step, Run, DispatchOut, Aside, Active, Resumes, AtWill, Finish,
            GetJob, NoJob, Lull, Rest, Sleep, Park, Wait, Wakened, Quit, AcquireScheduler,
            Acquire, Dispatch, ExternalPush, ExternalDone, CollectDoneJobs, DispatchSignal,
            ScheduleNew, ScheduleDel, DispatchToDead, DispatchOutMessage, PushMessage, Settle,
            GetPendingJobs, CountFreeSlots, PrepareUnbound, PrepareBound, PrepareDone,
            AssignPrepare, TriggerBlockedWorkers, Schedule, ReleaseScheduler, Start, Yield,
            Send, Spawn, InitServiceFails, CloseService, QuitService, QuitRoot, InitService,
            Bind, EventInit, EventWait, EventWaited, Complete, CompleteJob, CompleteAcquire,
            Drain
      <3> QED BY <3>1 DEF Inv, TypeOK, TypeWorker
    <2>3. \A s \in Service : Keeps(s)
            /\ (HasEvent(s) /\ event[sockevent[s]] = "set" => event'[sockevent[s]] = "set")
      BY <2>1, Rung DEF EventInv
    <2>4. \A s \in Service : Calm(s) BY <2>1, <2>3 DEF Calm
    <2> QED BY <2>1, <2>2, <2>3, <2>4, EventKept
  <1>3. ASSUME NEW w \in Worker, Step(w), ~Panic, ~Aside(w) PROVE EventInv'
    BY <1>3, StepKinds, ExternalEvents, OutEvents, StartEvents, RunEvents DEF Inv
  <1> QED BY <1>1, <1>2, <1>3 DEF Next

\* A worker that waits in the event of its service is woken for every message
\* that arrives meanwhile: the event is set before the inbox, checked under no
\* lock, is left behind (core.go:103-118, bootstrap.go:279-295).  Root gets the
\* external messages of a round before it is told of them, so with an external
\* queue this needs a Root that does not wait.
THEOREM WaiterIsWoken ==
  ASSUME ExtCap = 0 \/ Root \notin Waiter
  PROVE  Spec => []EventNotLost
  <1>1. Init => EventInv
    <2> SUFFICES ASSUME Init PROVE EventInv
      OBVIOUS
    <2>1. \A s \in Service : ~HasEvent(s) BY DEF Init, HasEvent
    <2>2. \A s \in Service : ~Idles(inbox[s])
      BY ConstantsAssumption DEF Init, Idles
    <2>3. \A w \in Worker : pc[w] # "eventwait" BY DEF Init
    <2> QED BY <2>1, <2>2, <2>3 DEF EventInv, OwnInv, WakeInv, IdleFits, Idles, IdleFirst, EventWaits
  <1>2. Inv /\ FitInv /\ EventInv /\ [Next]_vars => EventInv' BY EventNext
  <1>3. Inv /\ EventInv => EventNotLost
    <2> SUFFICES ASSUME Inv, EventInv, NEW w \in Worker, pc[w] = "eventwait",
                        NEW s, s = running[w], inbox[s] # <<>>
                 PROVE  event[sockevent[s]] = "set"
      BY DEF EventNotLost
    <2>1. s \in Service BY DEF Inv, PcInv, Active
    <2>2. /\ HasEvent(s)
          /\ Told(s) /\ inbox[s] # <<>> => event[sockevent[s]] = "set"
      BY DEF EventInv, WakeInv, EventWaits
    <2>3. Told(s) BY <2>1, <2>2 DEF EventInv, OwnInv, Told
    <2> QED BY <2>2, <2>3
  <1> QED BY <1>1, <1>2, <1>3, FitAlways, PTL DEF Spec

----------------------------------------------------------------------------
(* Who a message may go to *)

\* A slot that nobody has been told of
Raw == {"none", "uninitialized"}

\* A request is for a service that has been initialised; the one being pushed
\* is in the out slot of the service that the dispatcher is at
KnownInv ==
  /\ \A s \in Service : out[s].typ = "request" => status[out[s].to] \notin Raw
  /\ \A w \in Worker : pc[w] = "push" => Undone # {} /\ out[Current].typ = "request"

\* A slot that is not to be used again does not become one to be initialised.
LEMMA NotRaw ==
  ASSUME ~Recycle, Inv, [Next]_vars, NEW t \in Service, status[t] \notin Raw
  PROVE  status'[t] \notin Raw
  <1> DEFINE Grows == \A s \in Service : status'[s] = status[s] \/ status[s] = "none"
                                          \/ status'[s] \notin Raw
  <1> SUFFICES Grows BY DEF Raw
  <1>1. status \in [Service -> Status] /\ Freed \notin Raw BY DEF Inv, TypeOK, TypeService, Freed, Raw
  <1>2. CASE UNCHANGED vars \/ ExternalSend BY <1>2 DEF vars, serviceVars, ExternalSend
  <1>3. ASSUME NEW w \in Worker, ExternalDone(w) \/ DispatchToDead(w) \/ PushMessage(w) PROVE Grows
    <2>1. UNCHANGED status \/ \E s : status' = [status EXCEPT ![s] = "schedule"]
      BY <1>3 DEF ExternalDone, DispatchToDead, PushMessage, CheckMessageTo
    <2> QED BY <1>1, <2>1 DEF Raw
  <1>4. ASSUME NEW w \in Worker, DispatchSignal(w) PROVE Grows
    <2>1. UNCHANGED status \/ (\E s : status' = [status EXCEPT ![s] = "schedule"])
          \/ (\E s : status' = [status EXCEPT ![s] = Freed])
      BY <1>4 DEF DispatchSignal, CheckMessageTo, ResetSlot
    <2> QED BY <1>1, <2>1 DEF Raw
  <1>5. ASSUME NEW w \in Worker, ScheduleNew(w) PROVE Grows
    <2>1. UNCHANGED status
          \/ (\E s \in Service : status[s] = "none" /\ status' = [status EXCEPT ![s] = "uninitialized"])
      BY <1>5 DEF ScheduleNew, FreeSlot, ResetSlot
    <2> QED BY <1>1, <2>1
  <1>6. ASSUME NEW w \in Worker, ScheduleDel(w) PROVE Grows
    <2>1. \E s : status' = [status EXCEPT ![s] = Freed] BY <1>6 DEF ScheduleDel, ResetSlot
    <2> QED BY <1>1, <2>1
  <1>7. ASSUME NEW w \in Worker, Settle(w) PROVE Grows
    <2>1. \E s, x : x \notin Raw /\ status' = [status EXCEPT ![s] = x]
      BY <1>7 DEF Settle, Raw
    <2> QED BY <1>1, <2>1
  <1>8. ASSUME NEW w \in Worker, Start(w) PROVE Grows
    <2>1. UNCHANGED status \/ \E s : status' = [status EXCEPT ![s] = "running"]
      BY <1>8 DEF Start
    <2> QED BY <1>1, <2>1 DEF Raw
  <1>9. ASSUME NEW w \in Worker, Run(w) PROVE Grows
    <2> DEFINE One == \E s, x : x \notin Raw /\ status' = [status EXCEPT ![s] = x]
               Two == \E s, r, x : x \notin Raw
                                   /\ status' = [status EXCEPT ![s] = "done", ![r] = x]
    <2>1. UNCHANGED status \/ One \/ Two
      <3>1. ASSUME NEW s, status' = [status EXCEPT ![s] = "done"]
                          \/ status' = [status EXCEPT ![s] = "dead"]
            PROVE  One
        BY <3>1 DEF Raw
      <3>2. ASSUME NEW s, NEW r, status' = [status EXCEPT ![s] = "done", ![r] = "idle"]
                                 \/ status' = [status EXCEPT ![s] = "done", ![r] = Freed]
            PROVE  Two
        BY <1>1, <3>2 DEF Raw
      <3> HIDE DEF One, Two
      <3>3. CASE Yield(w) \/ (\E t1 \in Service : Send(w, t1)) \/ Spawn(w)
        BY <3>1, <3>3 DEF Yield, Send, Spawn
      <3>4. CASE QuitService(w) \/ QuitRoot(w) \/ EventInit(w) \/ EventWaited(w)
                 \/ \E x \in Worker \cup {threadNone} : Bind(w, x)
        BY <3>1, <3>4 DEF QuitService, QuitRoot, EventInit, EventWaited, Bind
      <3>5. CASE InitServiceFails(w) \/ CloseService(w)
                 \/ \E x \in Worker \cup {threadNone} : InitService(w, x)
        BY <3>2, <3>5 DEF InitServiceFails, CloseService, InitService
      <3>6. CASE EventWait(w) BY <3>6 DEF EventWait
      <3> QED BY <1>9, <3>3, <3>4, <3>5, <3>6 DEF Run
    <2> QED BY <1>1, <2>1 DEF Raw
  <1>10. ASSUME NEW w \in Worker, Aside(w) \/ ExternalPush(w) \/ DispatchOutMessage(w) PROVE Grows
    BY <1>10 DEF Aside, ExternalPush, DispatchOutMessage, serviceVars
  <1> HIDE DEF Grows
  <1>11. ASSUME NEW w \in Worker, Step(w) PROVE Grows
    BY <1>3, <1>4, <1>5, <1>6, <1>7, <1>8, <1>9, <1>10, <1>11, StepKinds DEF DispatchOut, Inv
  <1> QED BY <1>2, <1>11 DEF Next

\* A request appears in an out slot with its address initialised.
LEMMA OutKnown ==
  ASSUME ~Recycle, Inv, KnownInv, [Next]_vars, NEW s \in Service, out'[s].typ = "request"
  PROVE  status'[out'[s].to] \notin Raw
  <1>1. out \in [Service -> Message] /\ status \in [Service -> Status]
    BY DEF Inv, TypeOK, TypeService
  <1>2. ASSUME out'[s] = out[s] PROVE status'[out'[s].to] \notin Raw
    BY <1>2, NotRaw DEF KnownInv, Inv, Addressed
  <1>3. CASE UNCHANGED vars \/ ExternalSend
    BY <1>2, <1>3 DEF vars, serviceVars, mailVars, ExternalSend
  <1>4. ASSUME NEW w \in Worker, Aside(w) \/ ExternalPush(w) \/ ExternalDone(w) \/ Start(w)
        PROVE  status'[out'[s].to] \notin Raw
    BY <1>2, <1>4 DEF Aside, ExternalPush, ExternalDone, Start, serviceVars, mailVars
  <1>5. ASSUME NEW w \in Worker, DispatchOut(w) PROVE status'[out'[s].to] \notin Raw
    <2>1. UNCHANGED out \/ \E c : out' = [out EXCEPT ![c] = NoMessage]
      BY <1>5 DEF DispatchOut, DispatchSignal, ScheduleNew, ScheduleDel, DispatchToDead,
         DispatchOutMessage, PushMessage, Settle, serviceVars, mailVars
    <2>2. out'[s] = out[s] BY <1>1, <2>1, NoMessageType DEF NoMessage
    <2> QED BY <1>2, <2>2
  <1>6. ASSUME NEW w \in Worker, Run(w) PROVE status'[out'[s].to] \notin Raw
    <2>1. CASE \E t \in Service : Send(w, t)
      <3>1. PICK t \in Service : Send(w, t) BY <2>1
      <3>2. status[t] \notin Raw BY <3>1 DEF Send, Known, Raw
      <3>3. status'[t] \notin Raw BY <3>2, NotRaw
      <3>4. out'[s] = out[s] \/ out'[s].to = t BY <1>1, <3>1 DEF Send, Post
      <3> QED BY <1>2, <3>3, <3>4
    <2>2. CASE \E x \in Worker \cup {threadNone} : InitService(w, x)
      <3>1. PICK x \in Worker \cup {threadNone} : InitService(w, x) BY <2>2
      <3> SUFFICES ASSUME NEW n, n = bounce[running[w]].to
                   PROVE  status'[out'[s].to] \notin Raw
        OBVIOUS
      <3>4. /\ running[w] = Root /\ receipt[Root] = "response"
            /\ status' = [status EXCEPT ![running[w]] = "done", ![n] = "idle"]
            /\ out' = [out EXCEPT ![running[w]] =
                 [typ |-> "request", to |-> n, about |-> NoService]]
        BY <3>1 DEF InitService, Post, Spawned
      <3>5. out'[s] = out[s] \/ out'[s].to = n BY <1>1, <3>4
      <3>2. n \in Service BY <3>4, ConstantsAssumption DEF Inv, Addressed
      <3>3. status'[n] \notin Raw BY <1>1, <3>4, <3>2 DEF Raw
      <3> QED BY <1>2, <3>5, <3>3
    <2>3. ASSUME ~(\E t \in Service : Send(w, t)),
                 ~(\E x \in Worker \cup {threadNone} : InitService(w, x))
          PROVE  status'[out'[s].to] \notin Raw
      <3>1. CASE UNCHANGED out BY <1>2, <3>1
      <3>2. ASSUME NEW c, NEW m, m.typ # "request", out' = [out EXCEPT ![c] = m]
            PROVE  status'[out'[s].to] \notin Raw
        <4>1. out'[s] = out[s] BY <1>1, <3>2
        <4> QED BY <1>2, <4>1
      <3>3. CASE Spawn(w) \/ QuitService(w)
        <4>1. PICK c, m : m.typ # "request" /\ out' = [out EXCEPT ![c] = m]
          BY <3>3 DEF Spawn, Post, QuitService
        <4> QED BY <3>2, <4>1
      <3>5. CASE CloseService(w)
        <4>1. PICK c, d, m : /\ m.typ # "request"
                             /\ out' = [out EXCEPT ![c] = NoMessage, ![d] = m]
          BY <3>5 DEF CloseService
        <4>2. out'[s] = out[s] BY <1>1, <4>1, NoMessageType DEF NoMessage
        <4> QED BY <1>2, <4>2
      <3>6. CASE Yield(w) \/ InitServiceFails(w) \/ QuitRoot(w) \/ EventInit(w) \/ EventWait(w)
                 \/ EventWaited(w) \/ \E x \in Worker \cup {threadNone} : Bind(w, x)
        BY <3>1, <3>6 DEF Yield, InitServiceFails, QuitRoot, Bind, EventInit, EventWait,
           EventWaited, mailVars
      <3> QED BY <1>6, <2>3, <3>3, <3>5, <3>6 DEF Run
    <2> QED BY <2>1, <2>2, <2>3
  <1> QED BY <1>3, <1>4, <1>5, <1>6, StepKinds DEF Next, Inv
\* Only the owner of the lock moves on from a service that has run, and nobody
\* else changes what that one sends.
LEMMA CurrentKept ==
  ASSUME Inv, NEW w \in Worker, Step(w), pc[w] \notin Locked, Undone # {}
  PROVE  UNCHANGED doneJobs /\ out'[Current] = out[Current]
  <1>1. UNCHANGED doneJobs
    BY DEF Locked, Step, Run, DispatchOut, Resumes, AtWill, Finish, GetJob, NoJob, Lull, Rest, Sleep,
       Park, Wait, Wakened, Quit, AcquireScheduler, Acquire, Dispatch, ExternalPush, ExternalDone,
       CollectDoneJobs, DispatchSignal, ScheduleNew, ScheduleDel, Dispatching, DispatchToDead,
       DispatchOutMessage, PushMessage, Settle, GetPendingJobs, CountFreeSlots, Counting,
       PrepareUnbound, PrepareBound, PrepareDone, AssignPrepare, TriggerBlockedWorkers,
       Schedule, ReleaseScheduler, Start, Yield, Send, Spawn, InitServiceFails, CloseService,
       QuitService, QuitRoot, InitService, Bind, EventInit, EventWait, EventWaited, Complete,
       CompleteJob, CompleteAcquire, Drain, collectVars
  <1> SUFFICES ASSUME NEW c \in Service, c = Current PROVE out'[c] = out[c]
    BY <1>1, CurrentType DEF Inv
  <1>2. Ran(c) /\ ~Holds(running, c)
    BY CurrentType DEF Inv, TokenInv, InOnePlace, Ran, Holds, Current
  <1>3. out \in [Service -> Message] BY DEF Inv, TypeOK, TypeService
  <1>4. ~DispatchOut(w) /\ ~ExternalPush(w) /\ ~ExternalDone(w)
    BY DEF Locked, DispatchOut, DispatchSignal, ScheduleNew, ScheduleDel, DispatchToDead,
       DispatchOutMessage, PushMessage, Settle, Dispatching, ExternalPush, ExternalDone
  <1>5. CASE Aside(w) \/ Start(w) BY <1>5 DEF Aside, Start, serviceVars, mailVars
  <1>6. CASE Run(w)
    <2>1. running[w] # c BY <1>2 DEF Holds
    <2>2. CASE CloseService(w)
      <3>1. PICK d, m : /\ d = Head(inbox[running[w]]).about
                        /\ out' = [out EXCEPT ![d] = NoMessage, ![running[w]] = m]
        BY <2>2 DEF CloseService
      <3>2. running[w] \in Service
        BY <2>2 DEF CloseService, Resumes, Inv, PcInv, Active
      <3>3. d # c
        BY <1>2, <2>2, <3>1, <3>2, SignalledService DEF CloseService, Inv, Placed
      <3> QED BY <1>3, <2>1, <3>1, <3>3
    <2>3. CASE ~CloseService(w)
      <3>1. UNCHANGED out \/ \E m : out' = [out EXCEPT ![running[w]] = m]
        BY <1>6, <2>3 DEF Run, Yield, Send, Spawn, InitServiceFails, QuitService, QuitRoot,
           InitService, Bind, EventInit, EventWait, EventWaited, Post, mailVars
      <3> QED BY <1>3, <2>1, <3>1
    <2> QED BY <2>2, <2>3
  <1> QED BY <1>4, <1>5, <1>6, StepKinds DEF Inv

\* A step moves one worker; into `push` only from `out`.
LEMMA StepAlone ==
  ASSUME TypeOK, NEW w \in Worker, Step(w)
  PROVE  /\ \A v \in Worker \ {w} : pc'[v] = pc[v]
         /\ DispatchOutMessage(w) \/ pc'[w] # "push"
  <1>1. UNCHANGED pc \/ \E l : pc' = [pc EXCEPT ![w] = l]
    BY DEF Step, Run, DispatchOut, Finish, GetJob, NoJob, Lull, Rest, Sleep, Park, Wait, Wakened, Quit,
          AcquireScheduler, Acquire, Dispatch, DispatchEntry, ExternalPush, ExternalDone,
          CollectDoneJobs, DispatchSignal, ScheduleNew, ScheduleDel, DispatchToDead,
          DispatchOutMessage, PushMessage, Settle, GetPendingJobs, CountFreeSlots, PrepareUnbound,
          PrepareBound, PrepareDone, AssignPrepare, TriggerBlockedWorkers, Goto, Schedule,
          ReleaseScheduler, Start, Yield, Send, Spawn, InitServiceFails, CloseService,
          QuitService, QuitRoot, InitService, Bind, EventInit, EventWait, EventWaited, Complete,
          CompleteJob, CompleteAcquire, Drain
  <1>2. ASSUME ~DispatchOutMessage(w) PROVE pc'[w] # "push"
    <2>1. (pc[w] # "push" /\ UNCHANGED pc) \/ \E l \in Label \ {"push"} : pc' = [pc EXCEPT ![w] = l]
      BY <1>2 DEF Step, Run, DispatchOut, Finish, GetJob, NoJob, Lull, Rest, Sleep, Park, Wait, Wakened, Quit,
          AcquireScheduler, Acquire, Dispatch, DispatchEntry, ExternalPush, ExternalDone,
          CollectDoneJobs, DispatchSignal, ScheduleNew, ScheduleDel, DispatchToDead,
          DispatchOutMessage, PushMessage, Settle, GetPendingJobs, CountFreeSlots, PrepareUnbound,
          PrepareBound, PrepareDone, AssignPrepare, TriggerBlockedWorkers, Goto, Schedule,
          ReleaseScheduler, Start, Yield, Send, Spawn, InitServiceFails, CloseService,
          QuitService, QuitRoot, InitService, Bind, EventInit, EventWait, EventWaited, Complete,
          CompleteJob, CompleteAcquire, Drain,
          Label, Resumes, AtWill, Dispatching, Counting
    <2> QED BY <2>1 DEF TypeOK, TypeWorker
  <1> QED BY <1>1, <1>2 DEF TypeOK, TypeWorker

LEMMA PushNext ==
  ASSUME Inv, KnownInv, [Next]_vars, NEW w \in Worker, pc'[w] = "push"
  PROVE  Undone' # {} /\ out'[Current'].typ = "request"
  <1>1. CASE UNCHANGED vars \/ ExternalSend
    BY <1>1 DEF vars, serviceVars, mailVars, collectVars, ExternalSend, KnownInv, Undone, Current
  <1>2. ASSUME NEW v \in Worker, Step(v)
        PROVE  Undone' # {} /\ out'[Current'].typ = "request"
    <2>1. CASE v = w /\ DispatchOutMessage(w)
      BY <2>1 DEF DispatchOutMessage, Dispatching, serviceVars, mailVars, collectVars,
         Undone, Current
    <2>2. v = w => DispatchOutMessage(w) BY <1>2, StepAlone DEF Inv
    <2>3. CASE v # w
      <3>1. pc[w] = "push" BY <1>2, <2>3, StepAlone DEF Inv
      <3>2. pc[v] \notin Locked BY <2>3, <3>1 DEF Inv, LockExclusive, Locked
      <3>3. Undone # {} /\ out[Current].typ = "request" BY <3>1 DEF KnownInv
      <3>4. UNCHANGED doneJobs /\ out'[Current] = out[Current]
        BY <1>2, <3>2, <3>3, CurrentKept
      <3> QED BY <3>3, <3>4 DEF Undone, Current
    <2> QED BY <2>1, <2>2, <2>3
  <1> QED BY <1>1, <1>2 DEF Next

\* Nobody is sent a message before root has initialised it, as long as ids are not
\* given out again: pushMessage never finds a service without an inbox
\* (service.go:304-311).
THEOREM NobodyBeforeInit ==
  ASSUME ~Recycle
  PROVE  Spec => []~PanicNilInbox
  <1>1. Init => KnownInv
    BY ConstantsAssumption DEF Init, KnownInv, NoMessage
  <1>2. Inv /\ KnownInv /\ [Next]_vars => KnownInv'
    BY OutKnown, PushNext DEF KnownInv
  <1>3. Inv /\ KnownInv => ~PanicNilInbox
    <2> SUFFICES ASSUME Inv, KnownInv, NEW w \in Worker, pc[w] = "push"
                 PROVE  status[out[Current].to] # "uninitialized"
      BY DEF PanicNilInbox
    <2> QED BY CurrentType DEF KnownInv, Raw, Inv
  <1> QED BY <1>1, <1>2, <1>3, InvAlways, PTL DEF Spec

----------------------------------------------------------------------------
(* Slots for the jobs taken back, when no service is bound to a worker *)

Unbound == /\ \A s \in Service : bindingThread[s] = threadNone
           /\ \A w \in Worker : bindingQueue[w] = <<>>

\* Each job taken back has left a free slot behind; outside a round there is none
Collecting == {"out", "push"}
Assigning == Collecting \cup {"prepare", "assign"}
PendingInv ==
  /\ \A w \in Worker : pc[w] \in Collecting => Len(jobs) <= Cardinality(Free)
  /\ (\A w \in Worker : pc[w] \notin Assigning) => jobs = <<>>

LEMMA UnboundNext ==
  ASSUME Binder = {}, Inv, Unbound, [Next]_vars
  PROVE  Unbound'
  <1> USE DEF serviceVars, bindVars, runVars, readyVars, assignVars
  <1>1. bindingThread \in [Service -> Worker \cup {threadNone}] /\ bindingQueue \in [Worker -> Seq(Service)]
    BY DEF Inv, TypeOK, TypeService, TypeWorker
  <1>2. UNCHANGED bindingThread \/ \E s : bindingThread' = [bindingThread EXCEPT ![s] = threadNone]
    <2>1. CASE UNCHANGED vars \/ ExternalSend BY <2>1 DEF vars, ExternalSend
    <2>2. ASSUME NEW w \in Worker, Run(w)
          PROVE  UNCHANGED bindingThread \/ \E s : bindingThread' = [bindingThread EXCEPT ![s] = threadNone]
      BY <2>2 DEF Run, Yield, Send, Spawn, InitServiceFails, CloseService, QuitService, QuitRoot,
         InitService, Bind, EventInit, EventWait, EventWaited
    <2>3. ASSUME NEW w \in Worker, DispatchOut(w)
          PROVE  UNCHANGED bindingThread \/ \E s : bindingThread' = [bindingThread EXCEPT ![s] = threadNone]
      BY <2>3 DEF DispatchOut, DispatchSignal, ScheduleNew, ScheduleDel, DispatchToDead,
         DispatchOutMessage, PushMessage, Settle, ResetSlot
    <2>4. ASSUME NEW w \in Worker, Aside(w) \/ ExternalPush(w) \/ ExternalDone(w) \/ Start(w)
          PROVE  UNCHANGED bindingThread
      BY <2>4 DEF Aside, ExternalPush, ExternalDone, Start
    <2> QED BY <2>1, <2>2, <2>3, <2>4, StepKinds DEF Next, Inv
  <1>3. UNCHANGED bindingQueue
    <2>1. CASE UNCHANGED vars \/ ExternalSend BY <2>1 DEF vars, ExternalSend
    <2>2. ASSUME NEW w \in Worker, PrepareBound(w) PROVE FALSE
      <3> SUFFICES ASSUME NEW s, s = Head(schedule) PROVE FALSE
        OBVIOUS
      <3>1. schedule # <<>> /\ schedule \in Seq(Service) /\ BindingOf(s) # threadNone
        BY <2>2 DEF PrepareBound, Inv, TypeOK, TypeTask
      <3>2. s \in Service /\ Contains(schedule, s)
        BY <3>1, HeadTailProperties DEF Contains
      <3>3. ~Vacant(s) BY <3>2 DEF Waits, Inv, TokenInv, Stage, Vacant
      <3> QED BY <3>1, <3>2, <3>3 DEF Unbound, BindingOf
    <2>3. ASSUME NEW w \in Worker, CountFreeSlots(w) \/ AssignPrepare(w) PROVE UNCHANGED bindingQueue
      BY <1>1, <2>3 DEF CountFreeSlots, AssignPrepare, Refilled, Unbound
    <2>4. ASSUME NEW w \in Worker, Step(w), ~(CountFreeSlots(w) \/ PrepareBound(w) \/ AssignPrepare(w))
          PROVE  UNCHANGED bindingQueue
      BY <2>4 DEF Step, Run, DispatchOut, Finish, GetJob, NoJob, Lull, Rest, Sleep, Park, Wait,
         Wakened, Quit, AcquireScheduler, Acquire, Dispatch, ExternalPush, ExternalDone,
         CollectDoneJobs, DispatchSignal, ScheduleNew, ScheduleDel, DispatchToDead,
         DispatchOutMessage, PushMessage, Settle, GetPendingJobs, PrepareUnbound, PrepareDone,
         TriggerBlockedWorkers, Schedule, ReleaseScheduler, Start, Yield, Send, Spawn,
         InitServiceFails, CloseService, QuitService, QuitRoot, InitService, Bind, EventInit,
         EventWait, EventWaited, Complete, CompleteJob, CompleteAcquire, Drain
    <2> QED BY <2>1, <2>2, <2>3, <2>4 DEF Next
  <1> QED BY <1>1, <1>2, <1>3 DEF Unbound

LEMMA GetPendingJobsPending ==
  ASSUME Inv, Unbound, NEW w \in Worker, GetPendingJobs(w), Len(jobs) <= Cardinality(Free)
  PROVE  Len(jobs') <= Cardinality(Free')
  <1> DEFINE i == Least(Pending)
  <1>1. i \in Pending /\ i \in Worker
    <2>1. Pending \in SUBSET Worker /\ Pending # {} BY DEF GetPendingJobs, Pending
    <2> QED BY <2>1, LeastWorkerType DEF Inv
  <1>2. /\ jobs' = Append(jobs, serviceReady[i])
        /\ serviceReady' = [serviceReady EXCEPT ![i] = NoService] /\ UNCHANGED bindingQueue
    BY DEF GetPendingJobs
  <1> HIDE DEF i
  <1>3. serviceReady[i] \in Service /\ jobs \in Seq(Service) /\ serviceReady \in [Worker -> Job]
    BY <1>1 DEF Pending, Stealable, Inv, TypeOK, TypeWorker, TypeTask, Job
  <1>4. Len(jobs') = Len(jobs) + 1 BY <1>2, <1>3
  <1>5. i \in Free' /\ Free' \ {i} = Free
    BY <1>1, <1>2, <1>3, ConstantsAssumption DEF Free, Unbound
  <1>6. Free' \in SUBSET Worker BY DEF Free
  <1>7. Cardinality(Free') - 1 = Cardinality(Free) /\ Cardinality(Free') \in Nat
    BY <1>5, <1>6, WorkerSets
  <1>8. Len(jobs) \in Nat BY <1>3
  <1> QED BY <1>4, <1>7, <1>8

LEMMA PendingNext ==
  ASSUME Inv, Unbound, PendingInv, [Next]_vars
  PROVE  PendingInv'
  <1> USE DEF serviceVars, bindVars, runVars, readyVars, assignVars
  <1>1. ASSUME UNCHANGED jobs, Free \subseteq Free',
               \A v \in Worker : /\ pc'[v] \in Collecting => pc[v] \in Collecting
                                 /\ pc[v] \in Assigning => pc'[v] \in Assigning
        PROVE  PendingInv'
    <2>1. Cardinality(Free) <= Cardinality(Free') BY <1>1, WorkerSets DEF Free
    <2>2. Cardinality(Free) \in Nat /\ Cardinality(Free') \in Nat BY WorkerSets DEF Free
    <2>3. Len(jobs) \in Nat BY DEF Inv, TypeOK, TypeTask
    <2> QED BY <1>1, <2>1, <2>2, <2>3 DEF PendingInv
  <1>2. CASE UNCHANGED vars \/ ExternalSend
    <2>1. UNCHANGED <<jobs, serviceReady, bindingQueue, pc>> BY <1>2 DEF vars, ExternalSend
    <2> QED BY <1>1, <2>1 DEF Free
  <1>3. ASSUME NEW w \in Worker, pc[w] \in Locked, \A v \in Worker \ {w} : pc'[v] = pc[v],
               pc'[w] \in Collecting => Len(jobs') <= Cardinality(Free'),
               pc'[w] \notin Assigning => jobs' = <<>>
        PROVE  PendingInv'
    BY <1>3 DEF Inv, LockExclusive, Locked, PendingInv, Collecting
  <1>4. ASSUME NEW w \in Worker, CollectDoneJobs(w) PROVE PendingInv'
    <2>1. /\ pc[w] = "collect" /\ pc'[w] = "out" /\ \A v \in Worker \ {w} : pc'[v] = pc[v]
          /\ UNCHANGED jobs
      BY <1>4 DEF CollectDoneJobs, Goto, Inv, TypeOK, TypeWorker
    <2>2. \A v \in Worker : pc[v] \notin Assigning
      BY <2>1 DEF Inv, LockExclusive, Locked, Assigning, Collecting
    <2>3. Len(jobs') = 0 BY <2>1, <2>2 DEF PendingInv
    <2>4. Cardinality(Free') \in Nat BY WorkerSets DEF Free
    <2> QED BY <1>3, <2>1, <2>3, <2>4 DEF Locked, Assigning, Collecting
  <1>5. ASSUME NEW w \in Worker, GetPendingJobs(w) PROVE PendingInv'
    <2>1. pc[w] = "out" /\ UNCHANGED pc BY <1>5 DEF GetPendingJobs
    <2>2. Len(jobs') <= Cardinality(Free')
      BY <1>5, <2>1, GetPendingJobsPending DEF PendingInv, Collecting
    <2> QED BY <1>3, <2>1, <2>2 DEF Locked, Assigning, Collecting
  <1>6. ASSUME NEW w \in Worker, CountFreeSlots(w) \/ PrepareUnbound(w) \/ PrepareBound(w)
                                 \/ PrepareDone(w) \/ AssignPrepare(w)
        PROVE  PendingInv'
    <2>1. /\ pc[w] \in {"out", "prepare", "assign"} /\ pc'[w] \in {"prepare", "assign"}
          /\ \A v \in Worker \ {w} : pc'[v] = pc[v]
      BY <1>6 DEF CountFreeSlots, Counting, PrepareUnbound, PrepareBound, PrepareDone,
         AssignPrepare, Goto, Inv, TypeOK, TypeWorker
    <2> QED BY <1>3, <2>1 DEF Locked, Assigning, Collecting
  <1>7. ASSUME NEW w \in Worker, TriggerBlockedWorkers(w) PROVE PendingInv'
    <2>1. /\ pc[w] = "assign" /\ pc'[w] \in {"complete3", "schedule"}
          /\ \A v \in Worker \ {w} : pc'[v] = pc[v] /\ jobs' = <<>>
          /\ jobs' = <<>>
      BY <1>7 DEF TriggerBlockedWorkers, Goto, Inv, TypeOK, TypeWorker
    <2> QED BY <1>3, <2>1 DEF Locked, Assigning, Collecting
  <1>8. ASSUME NEW w \in Worker, Schedule(w) PROVE PendingInv'
    <2>1. /\ pc[w] = "schedule" /\ pc'[w] = "release" /\ UNCHANGED jobs
          /\ \A v \in Worker \ {w} : pc'[v] = pc[v]
      BY <1>8 DEF Schedule, Goto, Inv, TypeOK, TypeWorker
    <2>2. \A v \in Worker : pc[v] \notin Assigning
      BY <2>1 DEF Inv, LockExclusive, Locked, Assigning, Collecting
    <2> QED BY <1>3, <2>1, <2>2 DEF PendingInv, Locked, Assigning, Collecting
  <1>9. ASSUME NEW w \in Worker, Step(w),
               ~(CollectDoneJobs(w) \/ GetPendingJobs(w) \/ CountFreeSlots(w) \/ PrepareUnbound(w)
                 \/ PrepareBound(w) \/ PrepareDone(w) \/ AssignPrepare(w)
                 \/ TriggerBlockedWorkers(w) \/ Schedule(w))
        PROVE  PendingInv'
    <2>1. /\ UNCHANGED <<jobs, bindingQueue>>
          /\ UNCHANGED serviceReady \/ serviceReady' = [serviceReady EXCEPT ![w] = NoService]
      BY <1>9 DEF Step, Run, DispatchOut, Finish, GetJob, NoJob, Lull, Rest, Sleep, Park, Wait,
         Wakened, Quit, AcquireScheduler, Acquire, Dispatch, ExternalPush, ExternalDone,
         DispatchSignal, ScheduleNew, ScheduleDel, DispatchToDead, DispatchOutMessage,
         PushMessage, Settle, ReleaseScheduler, Start, Yield, Send, Spawn, InitServiceFails,
         CloseService, QuitService, QuitRoot, InitService, Bind, EventInit, EventWait,
         EventWaited, Complete, CompleteJob, CompleteAcquire, Drain
    <2>2. Free \subseteq Free' BY <2>1 DEF Free, Inv, TypeOK, TypeWorker
    <2>3. CASE DispatchOut(w)
      <3>1. /\ pc[w] \in Collecting /\ pc'[w] \in Collecting
            /\ \A v \in Worker \ {w} : pc'[v] = pc[v]
        BY <2>3 DEF DispatchOut, DispatchSignal, ScheduleNew, ScheduleDel, DispatchToDead,
           DispatchOutMessage, PushMessage, Settle, Dispatching, Goto, Collecting,
           Inv, TypeOK, TypeWorker
      <3> QED BY <1>1, <2>1, <2>2, <3>1 DEF Assigning
    <2>4. CASE ~DispatchOut(w)
      <3>1. pc[w] \notin Assigning
        BY <1>9, <2>4 DEF Step, Run, Resumes, AtWill, GetJob, NoJob, Lull, Rest, Sleep, Park,
           Wait, Wakened, Quit, AcquireScheduler, Acquire, Dispatch, ExternalPush, ExternalDone,
           ReleaseScheduler, Start, Yield, Send, Spawn, InitServiceFails, CloseService,
           QuitService, QuitRoot, InitService, Bind, EventInit, EventWait, EventWaited, Complete,
           CompleteJob, CompleteAcquire, Drain, Assigning, Collecting
      <3>2. pc'[w] \notin Collecting
        <4>1. UNCHANGED pc \/ \E l \in Label \ Collecting : pc' = [pc EXCEPT ![w] = l]
          BY <1>9, <2>4 DEF Step, Run, Resumes, AtWill, Finish, GetJob, NoJob, Lull, Rest, Sleep,
             Park, Wait, Wakened, Quit, AcquireScheduler, Acquire, Dispatch, DispatchEntry,
             ExternalPush, ExternalDone, ReleaseScheduler, Start, Yield, Send, Spawn,
             InitServiceFails, CloseService, QuitService, QuitRoot, InitService, Bind, EventInit,
             EventWait, EventWaited, Complete, CompleteJob, CompleteAcquire, Drain, Goto,
             Label, Collecting
        <4> QED BY <3>1, <4>1 DEF Assigning, Inv, TypeOK, TypeWorker
      <3>3. \A v \in Worker \ {w} : pc'[v] = pc[v] BY <1>9, StepAlone DEF Inv
      <3> QED BY <1>1, <2>1, <2>2, <3>1, <3>2, <3>3
    <2> QED BY <2>3, <2>4
  <1> QED BY <1>2, <1>4, <1>5, <1>6, <1>7, <1>8, <1>9 DEF Next

\* Without services bound to workers each job that waits behind a busy worker
\* finds a free slot: it takes a binding queue to reach the panic "Not enough
\* free slots to assign jobs" (worker.go:105-113).
THEOREM UnboundHaveSlots ==
  ASSUME Binder = {}
  PROVE  Spec => []~PanicNoSlot
  <1>1. Init => Unbound /\ PendingInv
    BY DEF Init, Unbound, PendingInv, Collecting
  <1>2. Inv /\ Unbound /\ PendingInv /\ [Next]_vars => (Unbound /\ PendingInv)'
    BY UnboundNext, PendingNext
  <1>3. Inv /\ PendingInv => ~PanicNoSlot
    <2>1. Cardinality(Free) \in Nat BY WorkerSets DEF Free
    <2> QED BY <2>1 DEF PendingInv, Collecting, PanicNoSlot, Counting, Inv, TypeOK, TypeTask
  <1> QED BY <1>1, <1>2, <1>3, InvAlways, PTL DEF Spec

----------------------------------------------------------------------------
(* The death of a service *)

\* The worker that ran root keeps it as its running service: it has left its loop
RootGone == status[Root] = "dead" =>
  \E w \in Worker : running[w] = Root /\ pc[w] \in {"quit", "exited"}

\* Until root has closed a dead service, its signal is in its out slot while the
\* scheduler holds it, and in root's inbox afterwards
Mourned(s) == status[s] = "dead" =>
  IF Placed(s) THEN out[s].typ = "signal"
               ELSE status[Root] = "dead" \/ Reports(inbox[Root], s)
DeathInv == RootGone /\ \A s \in Service \ {Root} : Mourned(s)

\* A signal finds root's inbox full: the dispatcher drops it (core.go:332-338)
SignalBlocked == \E w \in Worker :
  /\ Dispatching(w) /\ StatusOf(Current) = "dead" /\ out[Current].typ = "signal"
  /\ StatusOf(Root) # "dead" /\ Full(Root)

\* All of a queue's news but that of its head stays when the head is taken.
LEMMA ReportsRest ==
  ASSUME NEW q \in Seq(Message), q # <<>>, NEW c, Reports(q, c)
  PROVE  Reports(Tail(q), c) \/ (Head(q).typ = "signal" /\ Head(q).about = c)
  <1> DEFINE n == Len(q)
             r == Tail(q)
  <1>1. /\ n \in Nat /\ n >= 1 /\ DOMAIN q = 1 .. n
        /\ Len(r) = n - 1 /\ r \in Seq(Message) /\ Head(q) = q[1]
        /\ \A i \in 1 .. n - 1 : r[i] = q[i + 1]
    BY HeadTailProperties
  <1>2. DOMAIN r = 1 .. n - 1 BY <1>1
  <1> HIDE DEF n, r
  <1>3. \A k \in 1 .. n : k = 1 \/ (k - 1 \in 1 .. n - 1 /\ r[k - 1] = q[k]) BY <1>1
  <1>4. PICK k \in 1 .. n : q[k].typ = "signal" /\ q[k].about = c BY <1>1 DEF Reports
  <1>5. CASE k = 1 BY <1>1, <1>4, <1>5
  <1>6. CASE k # 1
    <2>1. k - 1 \in DOMAIN r /\ r[k - 1].typ = "signal" /\ r[k - 1].about = c
      BY <1>2, <1>3, <1>4, <1>6
    <2> QED BY <2>1 DEF Reports, r
  <1> QED BY <1>5, <1>6

\* Only the worker itself changes what it runs; once it has left its loop it no
\* longer does.
LEMMA RunningAlone ==
  ASSUME TypeOK, NEW v \in Worker, Step(v), NEW w \in Worker,
         w # v \/ pc[w] \in {"quit", "exited"}
  PROVE  running'[w] = running[w]
  <1>1. running \in [Worker -> Job] BY DEF TypeOK, TypeWorker
  <1>2. CASE Start(v)
    <2>1. \E x : running' = [running EXCEPT ![v] = x] BY <1>2 DEF Start
    <2> QED BY <1>1, <1>2, <2>1 DEF Start
  <1>3. CASE Complete(v)
    <2>1. \E x : running' = [running EXCEPT ![v] = x] BY <1>3 DEF Complete, CompleteJob
    <2> QED BY <1>1, <1>3, <2>1 DEF Complete
  <1>4. CASE ~Start(v) /\ ~Complete(v)
    <2>1. UNCHANGED running
      BY <1>4 DEF Step, Run, DispatchOut, Finish, GetJob, NoJob, Lull, Rest, Sleep, Park, Wait,
         Wakened, Quit, AcquireScheduler, Acquire, Dispatch, ExternalPush, ExternalDone,
         CollectDoneJobs, DispatchSignal, ScheduleNew, ScheduleDel, DispatchToDead,
         DispatchOutMessage, PushMessage, Settle, GetPendingJobs, CountFreeSlots,
         PrepareUnbound, PrepareBound, PrepareDone, AssignPrepare, TriggerBlockedWorkers,
         Schedule, ReleaseScheduler, Yield, Send, Spawn, InitServiceFails, CloseService,
         QuitService, QuitRoot, InitService, Bind, EventInit, EventWait, EventWaited,
         CompleteAcquire, Drain, runVars
    <2> QED BY <2>1
  <1> QED BY <1>2, <1>3, <1>4

\* A worker that has left its loop does nothing but exit.
LEMMA GoneForGood ==
  ASSUME TypeOK, NEW w \in Worker, Step(w), pc[w] \in {"quit", "exited"}
  PROVE  Quit(w)
  BY DEF Step, Run, DispatchOut, GetJob, NoJob, Lull, Rest, Sleep, Park, Wait, Wakened,
     AcquireScheduler, Dispatch, ExternalPush, ExternalDone, CollectDoneJobs, DispatchSignal,
     ScheduleNew, ScheduleDel, DispatchToDead, DispatchOutMessage, PushMessage, Settle,
     Dispatching, GetPendingJobs, CountFreeSlots, Counting, PrepareUnbound, PrepareBound,
     PrepareDone, AssignPrepare, TriggerBlockedWorkers, Schedule, ReleaseScheduler, Start,
     Yield, Send, Spawn, InitServiceFails, CloseService, QuitService, QuitRoot, InitService,
     Bind, EventInit, EventWait, EventWaited, AtWill, Resumes, Complete, CompleteAcquire, Drain

\* Nobody takes the death of root back.
LEMMA RootStaysDead ==
  ASSUME Inv, RootGone, [Next]_vars, status[Root] = "dead"
  PROVE  status'[Root] = "dead" /\ RootGone'
  <1>1. PICK g \in Worker : running[g] = Root /\ pc[g] \in {"quit", "exited"} BY DEF RootGone
  <1>2. /\ Root \in Service /\ ~Waits(Root) /\ ~Ran(Root)
        /\ status \in [Service -> Status] /\ pc \in [Worker -> Label]
    BY <1>1, ConstantsAssumption
       DEF Inv, TokenInv, InOnePlace, Holds, TypeOK, TypeService, TypeWorker
  <1>3. Undone # {} => Current \in Service /\ Current # Root
    BY <1>2, CurrentType DEF Ran, Holds, Current, Inv
  <1>4. CASE UNCHANGED vars \/ ExternalSend
    BY <1>1, <1>4 DEF RootGone, vars, serviceVars, runVars, ExternalSend
  <1>5. ASSUME NEW w \in Worker, Step(w)
        PROVE  running'[g] = Root /\ pc'[g] \in {"quit", "exited"}
    <2>1. running'[g] = Root BY <1>1, <1>5, RunningAlone DEF Inv
    <2>2. CASE w = g
      <3>1. Quit(g) BY <1>1, <1>5, <2>2, GoneForGood DEF Inv
      <3> QED BY <1>2, <2>1, <3>1 DEF Quit, Goto
    <2>3. CASE w # g BY <1>1, <1>5, <2>1, <2>3, StepAlone DEF Inv
    <2> QED BY <2>2, <2>3
  <1>6. ASSUME NEW w \in Worker, Aside(w) \/ ExternalPush(w) PROVE status'[Root] = "dead"
    BY <1>6 DEF Aside, ExternalPush, serviceVars
  <1>7. ASSUME NEW w \in Worker, ExternalDone(w) PROVE status'[Root] = "dead"
    BY <1>7 DEF ExternalDone, CheckMessageTo, StatusOf, Vacant
  <1>8. ASSUME NEW w \in Worker, DispatchOut(w) PROVE status'[Root] = "dead"
    <2>1. ASSUME NEW t \in Service, CheckMessageTo(t) PROVE status'[Root] = "dead"
      <3>1. UNCHANGED status \/ (status[t] = "idle" /\ status' = [status EXCEPT ![t] = "schedule"])
        BY <2>1 DEF CheckMessageTo, StatusOf, Vacant
      <3> QED BY <1>2, <3>1
    <2>2. ASSUME NEW c, NEW x, c # Root, status' = [status EXCEPT ![c] = x]
          PROVE  status'[Root] = "dead"
      BY <1>2, <2>2
    <2>3. CASE DispatchSignal(w)
      BY <1>2, <1>3, <2>1, <2>2, <2>3 DEF DispatchSignal, Dispatching, ResetSlot
    <2>4. CASE ScheduleNew(w)
      <3>1. UNCHANGED status \/ \E s \in FreeSlot : status' = [status EXCEPT ![s] = "uninitialized"]
        BY <2>4 DEF ScheduleNew, ResetSlot
      <3>2. \A s \in FreeSlot : s # Root BY DEF FreeSlot
      <3> QED BY <2>2, <3>1, <3>2
    <2>5. CASE ScheduleDel(w)
      BY <1>2, <1>3, <2>5 DEF ScheduleDel, Dispatching, Inv, MailInv, Vacant
    <2>6. CASE DispatchToDead(w)
      BY <1>3, <2>1, <2>6 DEF DispatchToDead, Dispatching, Inv, Addressed
    <2>7. CASE DispatchOutMessage(w) BY <2>7 DEF DispatchOutMessage, serviceVars
    <2>8. CASE PushMessage(w)
      BY <1>3, <2>1, <2>8 DEF PushMessage, Inv, Addressed
    <2>9. CASE Settle(w) BY <1>3, <2>2, <2>9 DEF Settle, Dispatching
    <2> QED BY <1>8, <2>3, <2>4, <2>5, <2>6, <2>7, <2>8, <2>9 DEF DispatchOut
  <1>9. ASSUME NEW w \in Worker, Start(w) PROVE status'[Root] = "dead"
    <2>1. UNCHANGED status \/ status' = [status EXCEPT ![job[w]] = "running"]
      BY <1>9 DEF Start
    <2>2. job[w] # Root BY <1>2 DEF Waits, Holds
    <2> QED BY <1>2, <2>1, <2>2
  <1>10. ASSUME NEW w \in Worker, Run(w) PROVE status'[Root] = "dead"
    <2>1. running[w] # Root
      <3>1. pc[w] \in Active
        BY <1>10 DEF Run, Yield, Send, Spawn, InitServiceFails, CloseService, QuitService, QuitRoot,
           InitService, Bind, EventInit, EventWait, EventWaited, AtWill, Resumes, Active
      <3> QED BY <1>2, <3>1 DEF Inv, TokenInv, RunStage
    <2>2. ~Spawned(running[w]) /\ ~Signalled(running[w]) BY <2>1 DEF Spawned, Signalled
    <2>3. UNCHANGED status \/ \E x : status' = [status EXCEPT ![running[w]] = x]
      BY <1>10, <2>1, <2>2 DEF Run, Yield, Send, Spawn, InitServiceFails, CloseService,
         QuitService, QuitRoot, InitService, Bind, EventInit, EventWait, EventWaited
    <2> QED BY <1>2, <2>1, <2>3
  <1>11. ASSUME NEW w \in Worker, Step(w) PROVE status'[Root] = "dead"
    BY <1>6, <1>7, <1>8, <1>9, <1>10, <1>11, StepKinds DEF Inv
  <1>12. ASSUME NEW w \in Worker, Step(w) PROVE status'[Root] = "dead" /\ RootGone'
    BY <1>5, <1>11, <1>12 DEF RootGone
  <1> QED BY <1>4, <1>12 DEF Next

LEMMA RootGoneNext ==
  ASSUME Inv, RootGone, [Next]_vars
  PROVE  RootGone'
  <1>1. CASE status[Root] = "dead" BY <1>1, RootStaysDead
  <1>2. ASSUME status[Root] # "dead", status'[Root] = "dead" PROVE RootGone'
    <2>0. status \in [Service -> Status] /\ Root \in Service /\ pc \in [Worker -> Label]
          /\ "dead" # Freed
      BY ConstantsAssumption DEF Inv, TypeOK, TypeService, TypeWorker, Freed
    <2>1. PICK w \in Worker : Step(w)
      BY <1>2 DEF Next, vars, serviceVars, ExternalSend
    <2>2. \A c, x : x # "dead" /\ status' = [status EXCEPT ![c] = x] => FALSE
      BY <1>2, <2>0
    <2>3. ~Aside(w) /\ ~ExternalPush(w) /\ ~Start(w)
      <3>1. ~Start(w) BY <1>2, <2>2 DEF Start
      <3> QED BY <1>2, <3>1 DEF Aside, ExternalPush, serviceVars
    <2>4. ~ExternalDone(w) BY <1>2, <2>2 DEF ExternalDone, CheckMessageTo
    <2>5. ~DispatchOut(w)
      <3>1. \A t : ~CheckMessageTo(t) BY <1>2, <2>2 DEF CheckMessageTo
      <3>2. ~DispatchToDead(w) /\ ~PushMessage(w) BY <3>1 DEF DispatchToDead, PushMessage
      <3>3. ~DispatchSignal(w) BY <1>2, <2>0, <2>2, <3>1 DEF DispatchSignal, ResetSlot
      <3>4. ~ScheduleNew(w) BY <1>2, <2>2 DEF ScheduleNew, ResetSlot
      <3>5. ~ScheduleDel(w) BY <2>0, <2>2 DEF ScheduleDel, ResetSlot
      <3>6. ~DispatchOutMessage(w) BY <1>2 DEF DispatchOutMessage, serviceVars
      <3>7. ~Settle(w)
        <4>1. Settle(w) => \E c, x : x # "dead" /\ status' = [status EXCEPT ![c] = x]
          BY DEF Settle
        <4> QED BY <2>2, <4>1
      <3> QED BY <3>2, <3>3, <3>4, <3>5, <3>6, <3>7 DEF DispatchOut
    <2>6. Run(w) BY <2>1, <2>3, <2>4, <2>5, StepKinds DEF Inv
    <2>7. \A r, c, x : x # "dead" /\ status' = [status EXCEPT ![r] = "done", ![c] = x] => FALSE
      BY <1>2, <2>0
    <2>8. CASE QuitRoot(w)
      BY <2>0, <2>8 DEF QuitRoot, runVars, Goto, RootGone
    <2>9. CASE QuitService(w)
      <3>1. running[w] # Root /\ status' = [status EXCEPT ![running[w]] = "dead"]
        BY <2>9 DEF QuitService
      <3> QED BY <1>2, <2>0, <3>1
    <2>10. ~Yield(w) /\ ~(\E t \in Service : Send(w, t)) /\ ~Spawn(w) /\ ~EventInit(w)
           /\ ~EventWaited(w) /\ ~(\E x \in Worker \cup {threadNone} : Bind(w, x))
      BY <2>2 DEF Yield, Send, Spawn, EventInit, EventWaited, Bind
    <2>11. ~EventWait(w) BY <1>2 DEF EventWait
    <2>12. ~InitServiceFails(w) /\ ~CloseService(w)
           /\ ~(\E x \in Worker \cup {threadNone} : InitService(w, x))
      <3>1. InitServiceFails(w) \/ CloseService(w) =>
              \E r, c : status' = [status EXCEPT ![r] = "done", ![c] = Freed]
        BY DEF InitServiceFails, CloseService
      <3>2. (\E x \in Worker \cup {threadNone} : InitService(w, x)) =>
              \E r, c : status' = [status EXCEPT ![r] = "done", ![c] = "idle"]
        BY DEF InitService
      <3> QED BY <2>0, <2>7, <3>1, <3>2
    <2> QED BY <2>6, <2>8, <2>9, <2>10, <2>11, <2>12 DEF Run
  <1> QED BY <1>1, <1>2 DEF RootGone

\* The dispatcher is through with a service when it hands over its signal, or
\* when it has settled it; nothing else takes a service from where it is.
LEMMA NotSettled ==
  ASSUME Inv, NEW w \in Worker, Step(w), ~DispatchSignal(w), ~Settle(w)
  PROVE  ~(Undone # {} /\ Handled)
  <1>1. doneJobs \in [Worker -> Job] BY DEF Inv, TypeOK, TypeTask
  <1>2. ASSUME UNCHANGED doneJobs, Undone # {} PROVE ~Handled
    <2>0. Undone \subseteq Worker BY DEF Undone
    <2>1. Least(Undone) \in Undone BY <1>2, <2>0, LeastWorkerType DEF Inv
    <2> QED BY <1>1, <1>2, <2>1 DEF Handled, Undone
  <1>3. CASE CollectDoneJobs(w)
    <2>1. pc[w] = "collect" BY <1>3 DEF CollectDoneJobs
    <2>2. \A v \in Worker : pc[v] \notin {"out", "push"}
      BY <2>1 DEF Inv, LockExclusive, Locked
    <2> QED BY <2>2 DEF Inv, PcInv, Undone
  <1>4. CASE ~CollectDoneJobs(w)
    <2>1. UNCHANGED doneJobs
      BY <1>4 DEF Step, Run, DispatchOut, Finish, GetJob, NoJob, Lull, Rest, Sleep, Park, Wait,
         Wakened, Quit, AcquireScheduler, Acquire, Dispatch, ExternalPush, ExternalDone,
         ScheduleNew, ScheduleDel, DispatchToDead, DispatchOutMessage, PushMessage,
         GetPendingJobs, CountFreeSlots, PrepareUnbound, PrepareBound, PrepareDone,
         AssignPrepare, TriggerBlockedWorkers, Schedule, ReleaseScheduler, Start, Yield, Send,
         Spawn, InitServiceFails, CloseService, QuitService, QuitRoot, InitService, Bind,
         EventInit, EventWait, EventWaited, Complete, CompleteJob, CompleteAcquire, Drain,
         collectVars
    <2> QED BY <1>2, <2>1
  <1> QED BY <1>3, <1>4

\* A dead service that stays where it is, with its signal, goes on being reported.
LEMMA StaysMourned ==
  ASSUME Inv, Kept, NEW s \in Service, Mourned(s), ~Settled(s),
         status'[s] = "dead" => status[s] = "dead",
         Placed(s) => out'[s] = out[s],
         status[Root] = "dead" => status'[Root] = "dead",
         Reports(inbox[Root], s) => Reports(inbox'[Root], s)
  PROVE  Mourned(s)'
  <1> SUFFICES ASSUME status'[s] = "dead"
               PROVE  IF Placed(s)' THEN out'[s].typ = "signal"
                                    ELSE status'[Root] = "dead" \/ Reports(inbox'[Root], s)
    BY DEF Mourned
  <1>1. status[s] = "dead" OBVIOUS
  <1>2. Placed(s)' <=> Placed(s) BY <1>1 DEF Kept
  <1> QED BY <1>1, <1>2 DEF Mourned

\* A message that is not a signal comes into some inbox, or none.
LEMMA PushedNews ==
  ASSUME TypeOK, NEW t \in Service, NEW m \in Message,
         inbox' = inbox \/ inbox' = [inbox EXCEPT ![t] = Append(@, m)]
  PROVE  \A s : Reports(inbox[Root], s) => Reports(inbox'[Root], s)
  <1>1. inbox \in [Service -> Seq(Message)] /\ Root \in Service /\ inbox[Root] \in Seq(Message)
    BY ConstantsAssumption DEF TypeOK, TypeService
  <1>2. \A s : Reports(inbox[Root], s) => Reports(Append(inbox[Root], m), s)
    BY <1>1, ReportsAppend
  <1>3. inbox'[Root] \in {inbox[Root], Append(inbox[Root], m)} BY <1>1
  <1> QED BY <1>2, <1>3

\* Root takes a signal out of its inbox only to close the service it is about.
LEMMA ReceivedNews ==
  ASSUME TypeOK, NEW r \in Service, Receive(r), ~Signalled(r)
  PROVE  \A s : Reports(inbox[Root], s) => Reports(inbox'[Root], s)
  <1>1. inbox \in [Service -> Seq(Message)] /\ Root \in Service /\ inbox[Root] \in Seq(Message)
    BY ConstantsAssumption DEF TypeOK, TypeService
  <1>2. CASE inbox'[Root] = inbox[Root] BY <1>2
  <1>3. CASE inbox'[Root] # inbox[Root]
    <2>1. r = Root /\ ~awaiting[Root] /\ inbox[Root] # <<>> /\ inbox'[Root] = Tail(inbox[Root])
      BY <1>1, <1>3 DEF Receive
    <2>2. Head(inbox[Root]).typ # "signal" BY <2>1 DEF Signalled
    <2> QED BY <1>1, <2>1, <2>2, ReportsRest
  <1> QED BY <1>2, <1>3

LEMMA DispatchSignalMourns ==
  ASSUME Inv, Inv', Kept, ~SignalBlocked, NEW w \in Worker, DispatchSignal(w),
         status[Root] = "dead" => status'[Root] = "dead",
         NEW s \in Service \ {Root}, Mourned(s)
  PROVE  Mourned(s)'
  <1> SUFFICES ASSUME NEW c \in Service, c = Current PROVE Mourned(s)'
    BY CurrentType DEF DispatchSignal, Dispatching, Inv
  <1>1. /\ status \in [Service -> Status] /\ out \in [Service -> Message]
        /\ inbox \in [Service -> Seq(Message)] /\ Root \in Service
        /\ Root # c /\ out[c].typ = "signal" /\ out[c].about = c /\ ~Vacant(Root)
    BY ConstantsAssumption DEF DispatchSignal, Inv, TypeOK, TypeService, MailInv
  <1>2. CASE status[Root] = "dead"
    <2>1. /\ status' = [status EXCEPT ![c] = Freed] /\ out' = [out EXCEPT ![c] = NoMessage]
          /\ inbox' = [inbox EXCEPT ![c] = <<>>]
      BY <1>2 DEF DispatchSignal, ResetSlot, StatusOf, Vacant
    <2>2. CASE s = c
      <3>1. status'[s] # "dead" BY <1>1, <2>1, <2>2 DEF Freed
      <3> QED BY <3>1 DEF Mourned
    <2>3. CASE s # c BY <1>1, <2>1, <2>3, StaysMourned DEF Settled
    <2> QED BY <2>2, <2>3
  <1>3. CASE status[Root] # "dead"
    <2>1. StatusOf(Root) # "dead" BY <1>1, <1>3 DEF StatusOf
    <2>2. ~Full(Root) BY <2>1 DEF SignalBlocked, DispatchSignal
    <2>3. /\ inbox' = [inbox EXCEPT ![Root] = Append(@, out[c])]
          /\ CheckMessageTo(Root) /\ out' = [out EXCEPT ![c] = NoMessage]
      BY <2>1, <2>2 DEF DispatchSignal
    <2>4. CASE s = c
      <3>1. inbox[Root] \in Seq(Message) /\ out[c] \in Message
            /\ inbox'[Root] = Append(inbox[Root], out[c])
        BY <1>1, <2>3
      <3>2. Reports(inbox'[Root], s) BY <1>1, <2>4, <3>1, ReportsAppend
      <3>3. ~Placed(s)' BY <3>2 DEF Inv, MailInv
      <3> QED BY <3>2, <3>3 DEF Mourned
    <2>5. CASE s # c
      <3>1. UNCHANGED status \/ status' = [status EXCEPT ![Root] = "schedule"]
        BY <2>3 DEF CheckMessageTo
      <3>2. status'[s] = status[s] /\ out'[s] = out[s] BY <1>1, <2>3, <2>5, <3>1
      <3>3. out[c] \in Message BY <1>1
      <3>4. Reports(inbox[Root], s) => Reports(inbox'[Root], s)
        BY <1>1, <2>3, <3>3, PushedNews DEF Inv
      <3> QED BY <2>5, <3>2, <3>4, StaysMourned DEF Settled
    <2> QED BY <2>4, <2>5
  <1> QED BY <1>2, <1>3

\* The dispatcher's other steps move messages that are not signals.
LEMMA OutMourns ==
  ASSUME Inv, Inv', Kept, ~SignalBlocked, NEW w \in Worker, DispatchOut(w), Step(w),
         status[Root] = "dead" => status'[Root] = "dead",
         NEW s \in Service \ {Root}, Mourned(s)
  PROVE  Mourned(s)'
  <1>1. CASE DispatchSignal(w) BY <1>1, DispatchSignalMourns
  <1>2. CASE DispatchOutMessage(w)
    <2>1. UNCHANGED <<status, out, inbox>> /\ ~Settled(s)
      BY <1>2, NotSettled DEF DispatchOutMessage, serviceVars, mailVars, Settled,
         DispatchSignal, Settle
    <2> QED BY <2>1, StaysMourned
  <1>3. CASE ~DispatchSignal(w) /\ ~DispatchOutMessage(w)
    <2>1. Undone # {}
      BY <1>3 DEF DispatchOut, ScheduleNew, ScheduleDel, DispatchToDead, PushMessage, Settle,
         Dispatching
    <2> SUFFICES ASSUME NEW c \in Service, c = Current PROVE Mourned(s)'
      BY <2>1, CurrentType DEF Inv
    <2>2. /\ status \in [Service -> Status] /\ out \in [Service -> Message]
          /\ inbox \in [Service -> Seq(Message)] /\ Root \in Service /\ NoMessage \in Message
          /\ ~Vacant(Root)
      BY ConstantsAssumption, NoMessageType DEF Inv, TypeOK, TypeService, MailInv
    <2>3. Ran(c) /\ Placed(c) BY <2>1, CurrentType DEF Inv, Ran, Holds, Current, Placed
    <2>4. ASSUME out[c].typ # "signal", status[c] = "dead", s = c PROVE FALSE
      BY <2>3, <2>4 DEF Mourned
    <2>5. ASSUME out[c].typ # "signal", out' = [out EXCEPT ![c] = NoMessage] \/ UNCHANGED out,
                 ~Settled(s), status'[s] = "dead" => status[s] = "dead",
                 Reports(inbox[Root], s) => Reports(inbox'[Root], s)
          PROVE  Mourned(s)'
      <3>1. CASE status'[s] # "dead" BY <3>1 DEF Mourned
      <3>2. CASE status'[s] = "dead"
        <4>1. s # c BY <2>4, <2>5, <3>2
        <4>2. out'[s] = out[s] BY <2>2, <2>5, <4>1
        <4> QED BY <2>5, <4>2, StaysMourned
      <3> QED BY <3>1, <3>2
    <2>6. ASSUME NEW t \in Service, CheckMessageTo(t) PROVE status'[s] = "dead" => status[s] = "dead"
      <3>1. UNCHANGED status \/ status' = [status EXCEPT ![t] = "schedule"]
        BY <2>6 DEF CheckMessageTo
      <3> QED BY <2>2, <3>1
    <2>7. ~Settle(w) => ~Settled(s) BY <1>3, NotSettled DEF Settled
    <2>8. CASE ScheduleNew(w)
      <3>1. /\ out[c].typ = "new" /\ out' = [out EXCEPT ![c] = NoMessage]
            /\ UNCHANGED <<status, inbox>> \/ \E f \in FreeSlot : ResetSlot(f, "uninitialized")
        BY <2>8 DEF ScheduleNew
      <3>2. ~Settled(s) BY <2>7, <2>8, <3>1 DEF ScheduleNew, Settle
      <3>3. CASE UNCHANGED <<status, inbox>> BY <2>5, <3>1, <3>2, <3>3
      <3>4. CASE \E f \in FreeSlot : ResetSlot(f, "uninitialized")
        <4>1. PICK f \in FreeSlot : ResetSlot(f, "uninitialized") BY <3>4
        <4>2. f # Root BY <2>2 DEF FreeSlot, Vacant
        <4>3. inbox'[Root] = inbox[Root] /\ (status'[s] = "dead" => status[s] = "dead")
          BY <2>2, <4>1, <4>2 DEF ResetSlot
        <4> QED BY <2>5, <3>1, <3>2, <4>3
      <3> QED BY <3>1, <3>3, <3>4
    <2>9. CASE ScheduleDel(w)
      <3>1. /\ out[c].typ = "del" /\ out' = [out EXCEPT ![c] = NoMessage]
            /\ ResetSlot(out[c].about, Freed)
        BY <2>9 DEF ScheduleDel
      <3>2. ~Settled(s) BY <2>7, <2>9, <3>1 DEF ScheduleDel, Settle
      <3>3. out[c].about # Root BY <2>2, <3>1 DEF Inv, MailInv
      <3>4. inbox'[Root] = inbox[Root] /\ (status'[s] = "dead" => status[s] = "dead")
        BY <2>2, <3>1, <3>3 DEF ResetSlot, Freed
      <3> QED BY <2>5, <3>1, <3>2, <3>4
    <2>10. CASE DispatchToDead(w)
      <3>1. /\ out[c].typ = "request" /\ out' = [out EXCEPT ![c] = NoMessage]
            /\ UNCHANGED inbox /\ out[c].to \in Service /\ CheckMessageTo(out[c].to)
        BY <2>10 DEF DispatchToDead, Inv, Addressed
      <3>2. ~Settled(s) BY <2>7, <2>10, <3>1 DEF DispatchToDead, Settle
      <3>3. status'[s] = "dead" => status[s] = "dead" BY <2>6, <3>1
      <3> QED BY <2>5, <3>1, <3>2, <3>3
    <2>11. CASE PushMessage(w)
      <3>1. /\ out[c].typ = "request" /\ out' = [out EXCEPT ![c] = NoMessage]
            /\ out[c].to \in Service /\ CheckMessageTo(out[c].to)
            /\ inbox' = inbox \/ inbox' = [inbox EXCEPT ![out[c].to] = Append(@, out[c])]
        BY <2>11 DEF PushMessage, Inv, Addressed
      <3>2. ~Settled(s) BY <2>7, <2>11, <3>1 DEF PushMessage, Settle
      <3>3. status'[s] = "dead" => status[s] = "dead" BY <2>6, <3>1
      <3>4. out[c] \in Message BY <2>2
      <3>5. Reports(inbox[Root], s) => Reports(inbox'[Root], s)
        BY <3>1, <3>4, PushedNews DEF Inv
      <3> QED BY <2>5, <3>1, <3>2, <3>3, <3>5
    <2>12. CASE Settle(w)
      <3> DEFINE m == [typ |-> "idle", to |-> c, about |-> NoService]
      <3>1. /\ out[c].typ = "nil" /\ UNCHANGED out /\ m \in Message
            /\ inbox' = inbox \/ inbox' = [inbox EXCEPT ![c] = Append(@, m)]
            /\ status' = [status EXCEPT ![c] = "schedule"] \/ status' = [status EXCEPT ![c] = "idle"]
        BY <2>12 DEF Settle, Message, MessageType
      <3> HIDE DEF m
      <3>2. CASE s = c
        <4>1. status'[s] # "dead" BY <2>2, <3>1, <3>2
        <4> QED BY <4>1 DEF Mourned
      <3>3. CASE s # c
        <4>1. ~Settled(s) /\ status'[s] = status[s] BY <2>2, <3>1, <3>3 DEF Settled
        <4>2. Reports(inbox[Root], s) => Reports(inbox'[Root], s)
          BY <3>1, PushedNews DEF Inv
        <4> QED BY <2>5, <3>1, <4>1, <4>2
      <3> QED BY <3>2, <3>3
    <2> QED BY <1>3, <2>8, <2>9, <2>10, <2>11, <2>12 DEF DispatchOut
  <1> QED BY <1>1, <1>2, <1>3

\* A service that runs is alive; when it dies it leaves a signal.  Root closes the
\* service whose signal it takes.
LEMMA RunMourns ==
  ASSUME Inv, Kept, NEW w \in Worker, Run(w), Step(w),
         status[Root] = "dead" => status'[Root] = "dead",
         NEW s \in Service \ {Root}, Mourned(s)
  PROVE  Mourned(s)'
  <1>1. pc[w] \in Active
    BY DEF Run, Yield, Send, Spawn, InitServiceFails, CloseService, QuitService, QuitRoot,
       InitService, Bind, EventInit, EventWait, EventWaited, AtWill, Resumes, Active
  <1> SUFFICES ASSUME NEW r \in Service, r = running[w] PROVE Mourned(s)'
    BY <1>1 DEF Inv, PcInv
  <1>2. /\ status \in [Service -> Status] /\ out \in [Service -> Message]
        /\ inbox \in [Service -> Seq(Message)] /\ Root \in Service
        /\ status[r] = "running"
    BY <1>1, ConstantsAssumption DEF Inv, TypeOK, TypeService, TokenInv, RunStage
  <1>3. ~Settled(s)
    <2>1. ~DispatchSignal(w) /\ ~Settle(w)
      BY <1>1 DEF DispatchSignal, Settle, Dispatching, Active
    <2> QED BY <2>1, NotSettled DEF Settled
  <1>4. ASSUME status'[s] = "dead" => status[s] = "dead",
               UNCHANGED out \/ (\E m : out' = [out EXCEPT ![r] = m]),
               (Receive(r) /\ ~Signalled(r)) \/ UNCHANGED inbox
        PROVE  Mourned(s)'
    <2>1. CASE status'[s] # "dead" BY <2>1 DEF Mourned
    <2>2. CASE status'[s] = "dead"
      <3>1. s # r BY <1>2, <1>4, <2>2
      <3>2. out'[s] = out[s] BY <1>2, <1>4, <3>1
      <3>3. Reports(inbox[Root], s) => Reports(inbox'[Root], s)
        BY <1>4, ReceivedNews DEF Inv
      <3> QED BY <1>3, <1>4, <3>2, <3>3, StaysMourned
    <2> QED BY <2>1, <2>2
  <1>5. CASE QuitService(w) /\ r = s
    <2>1. Placed(s)' BY <1>5 DEF QuitService, Finish, Placed, Holds
    <2>2. out'[s].typ = "signal" BY <1>2, <1>5 DEF QuitService
    <2> QED BY <2>1, <2>2 DEF Mourned
  <1>6. CASE QuitService(w) /\ r # s
    <2>1. /\ status' = [status EXCEPT ![r] = "dead"] /\ \E m : out' = [out EXCEPT ![r] = m]
          /\ Receive(r) /\ ~Signalled(r)
      BY <1>6 DEF QuitService, AtWill
    <2> QED BY <1>2, <1>4, <1>6, <2>1
  <1>7. CASE QuitRoot(w)
    <2>1. /\ status' = [status EXCEPT ![Root] = "dead"] /\ UNCHANGED out
          /\ Receive(r) /\ ~Signalled(r)
      BY <1>7 DEF QuitRoot, AtWill
    <2> QED BY <1>2, <1>4, <2>1
  <1>8. CASE Yield(w) \/ (\E t \in Service : Send(w, t)) \/ Spawn(w) \/ EventInit(w)
             \/ \E x \in Worker \cup {threadNone} : Bind(w, x)
    <2>1. /\ status' = [status EXCEPT ![r] = "done"]
          /\ UNCHANGED out \/ \E m : out' = [out EXCEPT ![r] = m]
          /\ Receive(r) /\ ~Signalled(r)
      BY <1>8 DEF Yield, Send, Spawn, EventInit, Bind, AtWill, Post
    <2> QED BY <1>2, <1>4, <2>1
  <1>9. CASE EventWait(w)
    BY <1>4, <1>9 DEF EventWait, AtWill
  <1>10. CASE EventWaited(w)
    <2>1. status' = [status EXCEPT ![r] = "done"] /\ UNCHANGED <<out, inbox>>
      BY <1>10 DEF EventWaited, mailVars
    <2> QED BY <1>2, <1>4, <2>1
  <1>11. CASE InitServiceFails(w) \/ \E x \in Worker \cup {threadNone} : InitService(w, x)
    <2>1. \E c, x : x # "dead" /\ status' = [status EXCEPT ![r] = "done", ![c] = x]
      BY <1>11 DEF InitServiceFails, InitService, Freed
    <2>2. /\ UNCHANGED out \/ \E m : out' = [out EXCEPT ![r] = m]
          /\ Receive(r) /\ ~Signalled(r)
      BY <1>11 DEF InitServiceFails, InitService, Post, Spawned, Signalled
    <2>3. status'[s] = "dead" => status[s] = "dead" BY <1>2, <2>1
    <2> QED BY <1>4, <2>2, <2>3
  <1>12. CASE CloseService(w)
    <2> SUFFICES ASSUME NEW c, c = Head(inbox[r]).about PROVE Mourned(s)'
      OBVIOUS
    <2>1. /\ r = Root /\ Signalled(r) /\ inbox[Root] # <<>> /\ inbox[Root] \in Seq(Message)
          /\ c \in Service \ {Root} /\ ~Placed(c)
      BY <1>12, SignalledService DEF CloseService, Inv
    <2>2. /\ status' = [status EXCEPT ![r] = "done", ![c] = Freed]
          /\ inbox' = [inbox EXCEPT ![r] = Tail(@), ![c] = <<>>]
          /\ \E m : out' = [out EXCEPT ![c] = NoMessage, ![r] = m]
      BY <1>12 DEF CloseService
    <2>3. CASE s = c
      <3>1. status'[s] # "dead" BY <1>2, <2>1, <2>2, <2>3 DEF Freed
      <3> QED BY <3>1 DEF Mourned
    <2>4. CASE s # c
      <3>1. status'[s] = status[s] /\ out'[s] = out[s] BY <1>2, <2>1, <2>2, <2>4
      <3>2. inbox'[Root] = Tail(inbox[Root]) BY <1>2, <2>1, <2>2
      <3>3. Reports(inbox[Root], s) => Reports(inbox'[Root], s)
        BY <2>1, <2>4, <3>2, ReportsRest
      <3> QED BY <1>3, <3>1, <3>3, StaysMourned
    <2> QED BY <2>3, <2>4
  <1> QED BY <1>5, <1>6, <1>7, <1>8, <1>9, <1>10, <1>11, <1>12 DEF Run

LEMMA DeathNext ==
  ASSUME Inv, Inv', DeathInv, ~SignalBlocked, [Next]_vars
  PROVE  DeathInv'
  <1>1. RootGone' /\ (status[Root] = "dead" => status'[Root] = "dead")
    BY RootGoneNext, RootStaysDead DEF DeathInv
  <1>2. Kept BY TokenNext DEF Inv
  <1> SUFFICES ASSUME NEW s \in Service \ {Root} PROVE Mourned(s)'
    BY <1>1 DEF DeathInv
  <1>3. Mourned(s) BY DEF DeathInv
  <1>4. ASSUME UNCHANGED <<status, out>>, ~Settled(s),
               Reports(inbox[Root], s) => Reports(inbox'[Root], s)
        PROVE  Mourned(s)'
    BY <1>2, <1>3, <1>4, StaysMourned
  <1>5. CASE UNCHANGED vars \/ ExternalSend
    <2>1. UNCHANGED <<status, out, inbox, doneJobs>>
      BY <1>5 DEF vars, serviceVars, mailVars, collectVars, ExternalSend
    <2>2. ~Settled(s)
      <3>1. ASSUME Undone # {} PROVE ~Handled
        <4>1. Undone \subseteq Worker BY DEF Undone
        <4>2. Least(Undone) \in Undone BY <3>1, <4>1, LeastWorkerType DEF Inv
        <4> QED BY <2>1, <4>2 DEF Handled, Undone, Inv, TypeOK, TypeTask
      <3> QED BY <3>1 DEF Settled
    <2> QED BY <1>4, <2>1, <2>2
  <1>6. ASSUME NEW w \in Worker, Step(w) PROVE Mourned(s)'
    <2>1. CASE DispatchOut(w) BY <1>1, <1>2, <1>3, <1>6, <2>1, OutMourns
    <2>2. CASE Run(w) BY <1>1, <1>2, <1>3, <1>6, <2>2, RunMourns
    <2>3. CASE ~DispatchOut(w)
      <3>1. ~Settled(s) BY <1>6, <2>3, NotSettled DEF DispatchOut, Settled
      <3>2. CASE Aside(w)
        BY <1>4, <3>1, <3>2 DEF Aside, serviceVars, mailVars
      <3>3. CASE ExternalPush(w)
        <4> DEFINE m == [typ |-> "request", to |-> Root, about |-> NoService]
        <4>1. /\ UNCHANGED <<status, out>> /\ m \in Message /\ Root \in Service
              /\ inbox' = inbox \/ inbox' = [inbox EXCEPT ![Root] = Append(@, m)]
          BY <3>3, ConstantsAssumption DEF ExternalPush, Message, MessageType
        <4> HIDE DEF m
        <4>2. Reports(inbox[Root], s) => Reports(inbox'[Root], s)
          BY <4>1, PushedNews DEF Inv
        <4> QED BY <1>4, <3>1, <4>1, <4>2
      <3>4. CASE ExternalDone(w)
        <4>1. /\ UNCHANGED status \/ status' = [status EXCEPT ![Root] = "schedule"]
              /\ UNCHANGED <<out, inbox>>
          BY <3>4 DEF ExternalDone, CheckMessageTo, mailVars
        <4>2. status'[s] = status[s] BY <4>1 DEF Inv, TypeOK, TypeService
        <4> QED BY <1>1, <1>2, <1>3, <3>1, <4>1, <4>2, StaysMourned
      <3>5. CASE Start(w)
        <4>1. /\ UNCHANGED status \/ status' = [status EXCEPT ![job[w]] = "running"]
              /\ UNCHANGED <<out, inbox>>
          BY <3>5 DEF Start, mailVars
        <4>2. status'[s] = "dead" => status[s] = "dead"
          BY <4>1 DEF Inv, TypeOK, TypeService
        <4> QED BY <1>1, <1>2, <1>3, <3>1, <4>1, <4>2, StaysMourned
      <3> QED BY <1>6, <2>2, <2>3, <3>2, <3>3, <3>4, <3>5, StepKinds DEF Inv
    <2> QED BY <2>1, <2>3
  <1> QED BY <1>5, <1>6 DEF Next

LEMMA DeathAlways == Spec /\ []~SignalBlocked => [](Inv /\ DeathInv)
  <1>1. Init => DeathInv
    BY ConstantsAssumption DEF Init, DeathInv, RootGone, Mourned
  <1>2. Inv /\ Inv' /\ DeathInv /\ ~SignalBlocked /\ [Next]_vars => DeathInv'
    BY DeathNext
  <1> QED BY <1>1, <1>2, InvAlways, PTL DEF Spec

\* The death of a service is never lost, for any number of workers and services,
\* except in one way: the dispatcher comes to its signal when root's inbox is full,
\* and drops it (core.go:324-344).
THEOREM DeathsReported == Spec /\ []~SignalBlocked => []DeadIsReported
  <1>1. Inv /\ DeathInv => DeadIsReported
    <2> SUFFICES ASSUME Inv, DeathInv, NEW s \in Service \ {Root},
                        status[s] = "dead", status[Root] # "dead"
                 PROVE  \/ Places(s) # {} /\ out[s].typ = "signal"
                        \/ \E k \in DOMAIN inbox[Root] :
                             inbox[Root][k].typ = "signal" /\ inbox[Root][k].about = s
      BY DEF DeadIsReported
    <2>1. Mourned(s) /\ (Places(s) # {} <=> Placed(s)) BY PlacesOf DEF DeathInv
    <2> QED BY <2>1 DEF Mourned, Reports
  <1> QED BY <1>1, DeathAlways, PTL

\* No panic of the scheduler is reachable but the one for want of slots, and that
\* one only with services bound to workers, for any number of workers and services
\* (core.go:122, 328 and 348, worker.go:87, 111 and 296, service.go:309), unless root's
\* inbox has no room for a signal, or an address is used that outlived its service
\* and now names another one (Recycle).
THEOREM NoOtherPanic ==
  ASSUME ~Recycle, IsFiniteSet(Service)
  PROVE  Spec /\ []~SignalBlocked => []OnlyNoSlot
  <1>1. Inv /\ DeathInv => ~PanicNoSignal
    <2> SUFFICES ASSUME Inv, DeathInv, Undone # {}, StatusOf(Current) = "dead"
                 PROVE  out[Current].typ = "signal"
      BY DEF PanicNoSignal, Dispatching
    <2>1. Current \in Service /\ Ran(Current) BY CurrentType DEF Inv, Ran, Holds, Current
    <2>2. Placed(Current) /\ status[Current] = "dead"
      BY <2>1 DEF Placed, Inv, TokenInv, Stage, StatusOf, Vacant
    <2>3. Current # Root
      <3>1. ASSUME Current = Root PROVE Holds(running, Root)
        BY <2>2, <3>1 DEF DeathInv, RootGone, Holds
      <3> QED BY <2>1, <3>1 DEF Inv, TokenInv, InOnePlace
    <2> QED BY <2>1, <2>2, <2>3 DEF DeathInv, Mourned
  <1>2. /\ ~PanicNoSignal /\ (~PanicNotDone /\ ~PanicNotScheduled)
        /\ (PanicNoSlot => Binder # {})
        /\ ~PanicScheduleFull /\ ~PanicNilInbox /\ ~PanicNotOwner
        => OnlyNoSlot
    BY DEF OnlyNoSlot, Panic
  <1>3. Spec => [](~PanicNotDone /\ ~PanicNotScheduled) BY RightStatus
  <1>4. Spec => [](PanicNoSlot => Binder # {})
    <2>1. CASE Binder = {}
      <3>1. Spec => []~PanicNoSlot BY <2>1, UnboundHaveSlots
      <3> QED BY <3>1, PTL
    <2>2. CASE Binder # {}
      <3>1. PanicNoSlot => Binder # {} BY <2>2
      <3> QED BY <3>1, PTL
    <2> QED BY <2>1, <2>2
  <1>5. Spec => []~PanicScheduleFull BY ScheduleHasRoom
  <1>6. Spec => []~PanicNilInbox BY NobodyBeforeInit
  <1>7. Spec => []~PanicNotOwner BY ReleasedByOwner
  <1> QED BY <1>1, <1>2, <1>3, <1>4, <1>5, <1>6, <1>7, DeathAlways, PTL

----------------------------------------------------------------------------
(* Sleep: whoever goes to sleep leaves no work behind, or somebody awake *)

\* Worker w has found no job in its round, and goes to sleep unless it is woken
Drowsy(w) ==
  \/ pc[w] \in {"release", "rest"} /\ noJob[w] /\ serviceDone[w] = NoService
  \/ pc[w] \in {"sleep", "park", "wait"}
  \/ pc[w] = "asleep" /\ ~signalled[w]
OthersDrowsy(w) == \A v \in Worker \ {w} : Drowsy(v)

Work == schedule # <<>> \/ \E w \in Worker : serviceReady[w] # NoService

\* As long as nobody else is awake to empty one, each slot free when they were
\* counted gets a job, if there are enough.
FillInv == \A w \in Worker : OthersDrowsy(w) =>
  /\ pc[w] = "prepare" => Len(jobs) + slots = Cardinality(Free)
  /\ pc[w] = "assign" /\ schedule # <<>> => Len(jobs) = Cardinality(Free)
  /\ pc[w] = "schedule" /\ schedule # <<>> => Free = {}

SleepInv ==
  /\ \A w \in Worker :
       /\ pc[w] \in {"sleep", "park", "wait", "asleep"} => serviceDone[w] = NoService
       /\ binding[w] = NoService
  /\ Work => \E w \in Worker : ~Drowsy(w)

\* What a step does to the tables of the jobs when its worker is drowsy afterwards:
\* nothing, but for the last step of a round.
LEMMA DrowsyStep ==
  ASSUME Inv, NEW w \in Worker, Step(w), Drowsy(w)', ~Schedule(w)
  PROVE  /\ Drowsy(w) /\ pc[w] \notin {"prepare", "assign", "schedule"}
         /\ UNCHANGED <<schedule, serviceReady, serviceDone, bindingQueue, jobs, slots>>
  <1>1. pc \in [Worker -> Label] /\ noJob \in [Worker -> BOOLEAN]
        /\ signalled \in [Worker -> BOOLEAN] /\ serviceDone \in [Worker -> Job]
    BY DEF Inv, TypeOK, TypeWorker
  <1>2. pc'[w] \in {"release", "rest", "sleep", "park", "wait", "asleep"} BY DEF Drowsy
  <1>3. ASSUME ~(ReleaseScheduler(w) \/ Rest(w) \/ Sleep(w) \/ Park(w) \/ Wait(w)) PROVE FALSE
    <2>1. UNCHANGED pc \/ \E l \in Label \ {"release", "rest", "sleep", "park", "wait", "asleep"} :
                              pc' = [pc EXCEPT ![w] = l]
      BY <1>3 DEF Step, Run, DispatchOut, Finish, GetJob, NoJob, Lull, Wakened, Quit,
          AcquireScheduler, Acquire, Dispatch, DispatchEntry, ExternalPush, ExternalDone,
          CollectDoneJobs, DispatchSignal, ScheduleNew, ScheduleDel, DispatchToDead,
          DispatchOutMessage, PushMessage, Settle, GetPendingJobs, CountFreeSlots, PrepareUnbound,
          PrepareBound, PrepareDone, AssignPrepare, TriggerBlockedWorkers, Goto,
          Start, Yield, Send, Spawn, InitServiceFails, CloseService,
          QuitService, QuitRoot, InitService, Bind, EventInit, EventWait, EventWaited, Complete,
          CompleteJob, CompleteAcquire, Drain, Label
    <2>2. pc[w] \in {"release", "rest", "sleep", "park", "wait", "asleep"} BY <1>1, <1>2, <2>1
    <2> QED BY <1>1, <1>2, <1>3, <2>1, <2>2
        DEF Step, Run, DispatchOut, Finish, GetJob, NoJob, Lull, Wakened, Quit, Goto,
          AcquireScheduler, Acquire, Dispatch, ExternalPush, ExternalDone,
          CollectDoneJobs, DispatchSignal, ScheduleNew, ScheduleDel, DispatchToDead, Dispatching,
          DispatchOutMessage, PushMessage, Settle, GetPendingJobs, CountFreeSlots, Counting,
          PrepareUnbound, PrepareBound, PrepareDone, AssignPrepare, TriggerBlockedWorkers,
          Start, Yield, Send, Spawn, InitServiceFails, CloseService, QuitService, QuitRoot,
          InitService, Bind, EventInit, EventWait, EventWaited, AtWill, Resumes, Complete,
          CompleteAcquire, Drain
  <1>4. CASE ReleaseScheduler(w)
    BY <1>1, <1>4 DEF ReleaseScheduler, Goto, Drowsy, runVars, readyVars, assignVars, sleepVars
  <1>5. CASE Rest(w)
    <2>1. UNCHANGED <<schedule, serviceReady, serviceDone, bindingQueue, jobs, slots>>
          /\ pc[w] = "rest"
      BY <1>5 DEF Rest, runVars, readyVars, assignVars
    <2>2. pc'[w] = IF serviceDone[w] # NoService THEN "acquire"
                   ELSE IF noJob[w] /\ ~blockedService THEN "sleep" ELSE "loop"
      BY <1>1, <1>5 DEF Rest, Goto
    <2>3. noJob[w] /\ serviceDone[w] = NoService BY <1>2, <2>2
    <2> QED BY <2>1, <2>3 DEF Drowsy
  <1>6. CASE Sleep(w) \/ Park(w) \/ Wait(w)
    BY <1>6 DEF Sleep, Park, Wait, Drowsy, runVars, readyVars, assignVars
  <1> QED BY <1>3, <1>4, <1>5, <1>6

\* Nobody makes another worker drowsy, except that the dispatcher collects its job.
LEMMA OthersStayAwake ==
  ASSUME Inv, NEW w \in Worker, Step(w), ~CollectDoneJobs(w),
         NEW v \in Worker \ {w}, Drowsy(v)'
  PROVE  Drowsy(v)
  <1>1. pc'[v] = pc[v] BY StepAlone DEF Inv
  <1>2. noJob'[v] = noJob[v]
    <2>1. UNCHANGED noJob \/ \E x : noJob' = [noJob EXCEPT ![w] = x]
      BY DEF Step, Run, DispatchOut, Finish, GetJob, NoJob, Lull, Rest, Sleep, Park, Wait, Wakened, Quit,
          AcquireScheduler, Acquire, Dispatch, ExternalPush, ExternalDone,
          CollectDoneJobs, DispatchSignal, ScheduleNew, ScheduleDel, DispatchToDead,
          DispatchOutMessage, PushMessage, Settle, GetPendingJobs, CountFreeSlots, PrepareUnbound,
          PrepareBound, PrepareDone, AssignPrepare, TriggerBlockedWorkers, Schedule,
          ReleaseScheduler, Start, Yield, Send, Spawn, InitServiceFails, CloseService,
          QuitService, QuitRoot, InitService, Bind, EventInit, EventWait, EventWaited, Complete,
          CompleteJob, CompleteAcquire, Drain
    <2> QED BY <2>1 DEF Inv, TypeOK, TypeWorker
  <1>3. serviceDone'[v] = serviceDone[v]
    <2>1. UNCHANGED serviceDone \/ \E x : serviceDone' = [serviceDone EXCEPT ![w] = x]
      BY DEF Step, Run, DispatchOut, Finish, GetJob, NoJob, Lull, Rest, Sleep, Park, Wait, Wakened, Quit,
          AcquireScheduler, Acquire, Dispatch, ExternalPush, ExternalDone,
          DispatchSignal, ScheduleNew, ScheduleDel, DispatchToDead,
          DispatchOutMessage, PushMessage, Settle, GetPendingJobs, CountFreeSlots, PrepareUnbound,
          PrepareBound, PrepareDone, AssignPrepare, TriggerBlockedWorkers, Schedule,
          ReleaseScheduler, Start, Yield, Send, Spawn, InitServiceFails, CloseService,
          QuitService, QuitRoot, InitService, Bind, EventInit, EventWait, EventWaited, Complete,
          CompleteJob, CompleteAcquire, Drain, runVars
    <2> QED BY <2>1 DEF Inv, TypeOK, TypeWorker
  <1>4. signalled[v] => signalled'[v]
    <2>1. UNCHANGED signalled \/ (\E x : signalled' = [signalled EXCEPT ![w] = x])
          \/ (\E f : signalled' = [i \in Worker |-> signalled[i] \/ f[i]])
      <3>1. CASE CountFreeSlots(w) \/ PrepareBound(w) \/ AssignPrepare(w)
        <4>1. \E W : Wake(W) BY <3>1 DEF CountFreeSlots, PrepareBound, AssignPrepare
        <4>2. PICK W : Wake(W) BY <4>1
        <4> DEFINE f == [i \in Worker |-> i \in W /\ sleeping[i] /\ pc[i] = "asleep"]
        <4>3. signalled' = [i \in Worker |-> signalled[i] \/ f[i]] BY <4>2 DEF Wake
        <4> QED BY <4>3
      <3>2. CASE QuitRoot(w)
        <4> DEFINE f == [i \in Worker |-> sleeping[i] /\ pc[i] = "asleep"]
        <4>1. signalled' = [i \in Worker |-> signalled[i] \/ f[i]] BY <3>2 DEF QuitRoot
        <4> QED BY <4>1
      <3>3. CASE ~(CountFreeSlots(w) \/ PrepareBound(w) \/ AssignPrepare(w) \/ QuitRoot(w))
        BY <3>3 DEF Step, Run, DispatchOut, Finish, GetJob, NoJob, Lull, Rest, Sleep, Park, Wait,
          Wakened, Quit, AcquireScheduler, Acquire, Dispatch, ExternalPush, ExternalDone,
          DispatchSignal, ScheduleNew, ScheduleDel, DispatchToDead,
          DispatchOutMessage, PushMessage, Settle, GetPendingJobs, PrepareUnbound,
          PrepareDone, TriggerBlockedWorkers, Schedule,
          ReleaseScheduler, Start, Yield, Send, Spawn, InitServiceFails, CloseService,
          QuitService, InitService, Bind, EventInit, EventWait, EventWaited, Complete,
          CompleteJob, CompleteAcquire, Drain, sleepVars
      <3> QED BY <3>1, <3>2, <3>3
    <2> QED BY <2>1 DEF Inv, TypeOK, TypeWorker
  <1> QED BY <1>1, <1>2, <1>3, <1>4 DEF Drowsy

\* A service that the scheduler holds is bound to no worker.
LEMMA UnboundJob ==
  ASSUME Inv, Unbound, NEW s \in Service, Placed(s)
  PROVE  BindingOf(s) = threadNone
  BY PlacedStatus DEF Inv, Unbound, BindingOf, Vacant

\* An owner of the lock fills the slots it has counted, as long as it is alone.
LEMMA FillOwner ==
  ASSUME Inv, Unbound, FillInv, NEW w \in Worker, Step(w),
         pc'[w] \in {"prepare", "assign", "schedule"}, OthersDrowsy(w)
  PROVE  /\ pc'[w] = "prepare" => Len(jobs)' + slots' = Cardinality(Free)'
         /\ pc'[w] = "assign" /\ schedule' # <<>> => Len(jobs)' = Cardinality(Free)'
         /\ pc'[w] = "schedule" /\ schedule' # <<>> => Free' = {}
  <1> DEFINE Good == /\ pc'[w] = "prepare" => Len(jobs)' + slots' = Cardinality(Free)'
                     /\ pc'[w] = "assign" /\ schedule' # <<>> => Len(jobs)' = Cardinality(Free)'
                     /\ pc'[w] = "schedule" /\ schedule' # <<>> => Free' = {}
  <1> SUFFICES Good OBVIOUS
  <1>1. /\ pc \in [Worker -> Label] /\ serviceReady \in [Worker -> Job]
        /\ jobs \in Seq(Service) /\ schedule \in Seq(Service) /\ Len(jobs) \in Nat /\ slots \in Nat
        /\ Free \in SUBSET Worker /\ Cardinality(Free) \in Nat
    BY WorkerSets DEF Inv, TypeOK, TypeWorker, TypeTask, Free
  <1>2. /\ pc[w] = "prepare" => Len(jobs) + slots = Cardinality(Free)
        /\ pc[w] = "assign" /\ schedule # <<>> => Len(jobs) = Cardinality(Free)
    BY DEF FillInv
  <1>3. \A i \in Worker : bindingQueue[i] = <<>> BY DEF Unbound
  <1>4. CASE CountFreeSlots(w)
    <2>1. Refilled = {} BY <1>3 DEF Refilled
    <2>2. /\ pc'[w] = "prepare" /\ slots' = Cardinality(Free) - Len(jobs) /\ UNCHANGED jobs
          /\ serviceReady' = [i \in Worker |-> serviceReady[i]]
          /\ bindingQueue' = [i \in Worker |-> bindingQueue[i]]
      BY <1>1, <1>4, <2>1 DEF CountFreeSlots, Goto
    <2>3. Free' = Free BY <2>2 DEF Free
    <2> QED BY <1>1, <2>2, <2>3
  <1>5. CASE PrepareUnbound(w)
    <2>1. /\ pc[w] = "prepare" /\ pc'[w] = "prepare" /\ slots' = slots - 1
          /\ jobs' = Append(jobs, Head(schedule)) /\ Head(schedule) \in Service
          /\ UNCHANGED <<serviceReady, bindingQueue>>
      BY <1>1, <1>5, QueueType DEF PrepareUnbound, readyVars
    <2>2. Len(jobs') = Len(jobs) + 1 BY <1>1, <2>1
    <2>3. Free' = Free BY <2>1 DEF Free
    <2> QED BY <1>1, <1>2, <2>1, <2>2, <2>3
  <1>6. CASE PrepareBound(w)
    <2>1. schedule # <<>> /\ BindingOf(Head(schedule)) # threadNone BY <1>6 DEF PrepareBound
    <2>2. Head(schedule) = schedule[1] /\ 1 \in DOMAIN schedule /\ Head(schedule) \in Service
      BY <1>1, <2>1, HeadTailProperties
    <2>3. Placed(Head(schedule)) BY <2>2 DEF Placed, Waits, Contains
    <2> QED BY <2>1, <2>2, <2>3, UnboundJob
  <1>7. CASE PrepareDone(w)
    <2>1. /\ pc[w] = "prepare" /\ pc'[w] = "assign" /\ (slots = 0 \/ schedule = <<>>)
          /\ UNCHANGED <<schedule, jobs, serviceReady, bindingQueue>>
      BY <1>1, <1>7 DEF PrepareDone, Goto, readyVars
    <2>2. Free' = Free BY <2>1 DEF Free
    <2> QED BY <1>1, <1>2, <1>7, <2>1, <2>2 DEF PrepareDone
  <1>8. CASE AssignPrepare(w)
    <2> DEFINE i == IF visit = NWorker THEN 0 ELSE visit
    <2>0. i \in Worker BY ConstantsAssumption DEF Inv, TypeOK, TypeTask, Worker
    <2>1. /\ pc[w] = "assign" /\ pc'[w] = "assign" /\ jobs # <<>> /\ UNCHANGED schedule
      BY <1>1, <1>8 DEF AssignPrepare
    <2>4. bindingQueue[i] = <<>> /\ bindingQueue \in [Worker -> Seq(Service)]
      BY <1>3, <2>0 DEF Inv, TypeOK, TypeWorker
    <2>5. \/ /\ serviceReady[i] = NoService /\ jobs' = Tail(jobs) /\ UNCHANGED bindingQueue
             /\ serviceReady' = [serviceReady EXCEPT ![i] = Head(jobs)]
          \/ UNCHANGED <<serviceReady, bindingQueue, jobs>>
      BY <1>1, <1>8, <2>0, <2>4 DEF AssignPrepare
    <2> HIDE DEF i
    <2>2. CASE UNCHANGED <<serviceReady, bindingQueue, jobs>>
      <3>1. Free' = Free BY <2>2 DEF Free
      <3> QED BY <1>2, <2>1, <2>2, <3>1
    <2>3. CASE /\ serviceReady[i] = NoService /\ jobs' = Tail(jobs)
               /\ serviceReady' = [serviceReady EXCEPT ![i] = Head(jobs)]
               /\ UNCHANGED bindingQueue
      <3>1. Head(jobs) \in Service /\ Len(jobs') = Len(jobs) - 1
        BY <1>1, <2>1, <2>3, HeadTailProperties
      <3>2. Head(jobs) # NoService BY <3>1, ConstantsAssumption
      <3>3. i \in Free BY <1>3, <2>0, <2>3 DEF Free
      <3>4. \A j \in Worker : bindingQueue'[j] = bindingQueue[j] BY <2>3
      <3>5. \A j \in Worker : j \in Free' <=> j \in Free \ {i}
        BY <1>1, <2>0, <2>3, <3>2, <3>4 DEF Free
      <3>6. Free' = Free \ {i} BY <3>5 DEF Free
      <3>7. Cardinality(Free') = Cardinality(Free) - 1 BY <1>1, <3>3, <3>6, WorkerSets
      <3> QED BY <1>1, <1>2, <2>1, <3>1, <3>7
    <2> QED BY <2>5, <2>2, <2>3
  <1>9. CASE TriggerBlockedWorkers(w)
    <2>1. /\ pc[w] = "assign" /\ jobs = <<>> /\ pc'[w] \notin {"prepare", "assign"}
          /\ UNCHANGED <<schedule, serviceReady, bindingQueue>>
      BY <1>1, <1>9 DEF TriggerBlockedWorkers, Goto
    <2>2. Free' = Free BY <2>1 DEF Free
    <2>3. ASSUME schedule # <<>> PROVE Free = {}
      <3>1. Cardinality(Free) = 0 BY <1>2, <2>1, <2>3
      <3>2. IsFiniteSet(Free) BY <1>1, WorkerSets
      <3> QED BY <3>1, <3>2, FS_EmptySet
    <2> QED BY <2>1, <2>2, <2>3
  <1>10. CASE ~(CountFreeSlots(w) \/ PrepareUnbound(w) \/ PrepareBound(w) \/ PrepareDone(w)
                \/ AssignPrepare(w) \/ TriggerBlockedWorkers(w))
    <2>1. (UNCHANGED pc /\ pc[w] \notin {"prepare", "assign", "schedule"})
          \/ \E l \in Label \ {"prepare", "assign", "schedule"} : pc' = [pc EXCEPT ![w] = l]
      BY <1>10 DEF Step, Run, DispatchOut, Finish, GetJob, NoJob, Lull, Rest, Sleep, Park, Wait,
          Wakened, Quit, AcquireScheduler, Acquire, Dispatch, DispatchEntry, ExternalPush,
          ExternalDone, CollectDoneJobs, DispatchSignal, ScheduleNew, ScheduleDel, DispatchToDead,
          DispatchOutMessage, PushMessage, Settle, Dispatching, GetPendingJobs, Goto, Schedule,
          ReleaseScheduler, Start, Yield, Send, Spawn, InitServiceFails, CloseService,
          QuitService, QuitRoot, InitService, Bind, EventInit, EventWait, EventWaited, Complete,
          CompleteJob, CompleteAcquire, Drain, Label
    <2> QED BY <1>1, <2>1
  <1> QED BY <1>4, <1>5, <1>6, <1>7, <1>8, <1>9, <1>10

LEMMA FillNext ==
  ASSUME Inv, Unbound, FillInv, [Next]_vars
  PROVE  FillInv'
  <1>1. CASE UNCHANGED vars \/ ExternalSend
    BY <1>1 DEF vars, runVars, readyVars, sleepVars, assignVars, ExternalSend, FillInv,
       OthersDrowsy, Drowsy, Free
  <1>2. ASSUME NEW u \in Worker, Step(u), NEW w \in Worker, OthersDrowsy(w)',
               pc'[w] \in {"prepare", "assign", "schedule"}
        PROVE  /\ pc'[w] = "prepare" => Len(jobs)' + slots' = Cardinality(Free)'
               /\ pc'[w] = "assign" /\ schedule' # <<>> => Len(jobs)' = Cardinality(Free)'
               /\ pc'[w] = "schedule" /\ schedule' # <<>> => Free' = {}
    <2>1. CASE u = w
      <3>1. ~CollectDoneJobs(w)
        BY <1>2 DEF CollectDoneJobs, Goto, Inv, TypeOK, TypeWorker
      <3>2. OthersDrowsy(w) BY <1>2, <2>1, <3>1, OthersStayAwake DEF OthersDrowsy
      <3> QED BY <1>2, <2>1, <3>2, FillOwner
    <2>2. CASE u # w
      <3>1. pc'[w] = pc[w] BY <1>2, <2>2, StepAlone DEF Inv
      <3>2. pc[u] \notin Locked BY <1>2, <2>2, <3>1 DEF Inv, LockExclusive, Locked
      <3>3. ~Schedule(u) /\ ~CollectDoneJobs(u)
        BY <3>2 DEF Schedule, CollectDoneJobs, Locked
      <3>4. /\ Drowsy(u)
            /\ UNCHANGED <<schedule, serviceReady, serviceDone, bindingQueue, jobs, slots>>
        BY <1>2, <2>2, <3>3, DrowsyStep DEF OthersDrowsy
      <3>5. OthersDrowsy(w)
        BY <1>2, <2>2, <3>3, <3>4, OthersStayAwake DEF OthersDrowsy
      <3>6. Free' = Free BY <3>4 DEF Free
      <3> QED BY <1>2, <3>1, <3>4, <3>5, <3>6 DEF FillInv
    <2> QED BY <2>1, <2>2
  <1> QED BY <1>1, <1>2 DEF FillInv, Next

Dozing == {"sleep", "park", "wait", "asleep"}

\* A worker that goes to sleep has handed its last job over.
LEMMA DoneGone ==
  ASSUME Inv, NEW u \in Worker, Step(u), NEW w \in Worker, pc'[w] \in Dozing,
         pc[w] \in Dozing => serviceDone[w] = NoService
  PROVE  serviceDone'[w] = NoService
  <1>1. pc \in [Worker -> Label] /\ serviceDone \in [Worker -> Job] BY DEF Inv, TypeOK, TypeWorker
  <1>2. CASE CollectDoneJobs(u) BY <1>2 DEF CollectDoneJobs
  <1>3. CASE Complete(u)
    <2>1. pc[u] \notin Dozing /\ pc'[u] \notin Dozing
      BY <1>1, <1>3 DEF Complete, Goto, DispatchEntry, Dozing
    <2>2. u # w BY <2>1
    <2>3. pc'[w] = pc[w] BY <2>2, StepAlone DEF Inv
    <2> QED BY <1>1, <1>3, <2>2, <2>3 DEF Complete, CompleteJob
  <1>4. CASE ~CollectDoneJobs(u) /\ ~Complete(u)
    <2>1. UNCHANGED serviceDone
      BY <1>4 DEF Step, Run, DispatchOut, Finish, GetJob, NoJob, Lull, Rest, Sleep, Park, Wait, Wakened, Quit,
          AcquireScheduler, Acquire, Dispatch, ExternalPush, ExternalDone,
          DispatchSignal, ScheduleNew, ScheduleDel, DispatchToDead,
          DispatchOutMessage, PushMessage, Settle, GetPendingJobs, CountFreeSlots, PrepareUnbound,
          PrepareBound, PrepareDone, AssignPrepare, TriggerBlockedWorkers, Schedule,
          ReleaseScheduler, Start, Yield, Send, Spawn, InitServiceFails, CloseService,
          QuitService, QuitRoot, InitService, Bind, EventInit, EventWait, EventWaited,
          CompleteAcquire, Drain, runVars
    <2>2. CASE pc[w] \in Dozing BY <2>1, <2>2
    <2>3. CASE pc[w] \notin Dozing
      <3>1. u = w BY <2>3, StepAlone DEF Inv
      <3>2. Rest(w)
        <4>1. CASE Rest(u) \/ Sleep(u) \/ Park(u) \/ Wait(u)
          BY <2>3, <3>1, <4>1 DEF Sleep, Park, Wait, Dozing
        <4>2. CASE ~(Rest(u) \/ Sleep(u) \/ Park(u) \/ Wait(u))
          <5>1. UNCHANGED pc \/ \E l \in Label \ Dozing : pc' = [pc EXCEPT ![u] = l]
            BY <1>4, <4>2 DEF Step, Run, DispatchOut, Finish, GetJob, NoJob, Lull, Wakened, Quit,
          AcquireScheduler, Acquire, Dispatch, DispatchEntry, ExternalPush, ExternalDone,
          DispatchSignal, ScheduleNew, ScheduleDel, DispatchToDead,
          DispatchOutMessage, PushMessage, Settle, GetPendingJobs, CountFreeSlots, PrepareUnbound,
          PrepareBound, PrepareDone, AssignPrepare, TriggerBlockedWorkers, Schedule, Goto,
          ReleaseScheduler, Start, Yield, Send, Spawn, InitServiceFails, CloseService,
          QuitService, QuitRoot, InitService, Bind, EventInit, EventWait, EventWaited,
          CompleteAcquire, Drain, Label, Dozing
          <5> QED BY <1>1, <2>3, <3>1, <5>1
        <4> QED BY <4>1, <4>2
      <3>3. serviceDone[w] = NoService BY <1>1, <3>2 DEF Rest, Goto, Dozing
      <3> QED BY <2>1, <3>3
    <2> QED BY <2>2, <2>3
  <1> QED BY <1>2, <1>3, <1>4

\* Without services bound to workers no worker is bound to one.
LEMMA NoBinding ==
  ASSUME Binder = {}, Inv, Unbound, NEW w \in Worker, Step(w),
         \A v \in Worker : binding[v] = NoService
  PROVE  \A v \in Worker : binding'[v] = NoService
  <1>1. pc \in [Worker -> Label] /\ binding \in [Worker -> Job] /\ w # threadNone
        /\ \A s \in Service : bindingThread[s] = threadNone
    <2>1. NWorker \in Nat BY ConstantsAssumption
    <2>2. w # threadNone BY <2>1 DEF Worker, threadNone
    <2> QED BY <2>2 DEF Inv, TypeOK, TypeWorker, Unbound
  <1>2. CASE Start(w)
    <2>1. Placed(job[w]) /\ job[w] \in Service
      BY <1>2 DEF Start, Inv, PcInv, TypeOK, TypeWorker, Job, Placed, Waits, Holds
    <2>2. BindingOf(job[w]) = threadNone BY <2>1, UnboundJob
    <2> QED BY <1>1, <1>2, <2>2 DEF Start
  <1>3. CASE Run(w)
    <2>1. (\E d \in BOOLEAN : Finish(w, d, threadNone)) \/ UNCHANGED binding
      <3>1. running[w] \in Service BY <1>3 DEF Run, Inv, PcInv, Active, Resumes, AtWill,
          Yield, Send, Spawn, InitServiceFails, CloseService, QuitService, QuitRoot,
          InitService, Bind, EventInit, EventWait, EventWaited
      <3> QED BY <1>1, <1>3, <3>1 DEF Run, Yield, Send, Spawn, InitServiceFails, CloseService,
          QuitService, QuitRoot, InitService, Bind, EventInit, EventWait, EventWaited, runVars
    <2> QED BY <1>1, <2>1 DEF Finish
  <1>4. CASE ~Start(w) /\ ~Run(w)
    <2>1. UNCHANGED binding
      BY <1>4 DEF Step, DispatchOut, GetJob, NoJob, Lull, Rest, Sleep, Park, Wait, Wakened, Quit,
          AcquireScheduler, Acquire, Dispatch, ExternalPush, ExternalDone, CollectDoneJobs,
          DispatchSignal, ScheduleNew, ScheduleDel, DispatchToDead,
          DispatchOutMessage, PushMessage, Settle, GetPendingJobs, CountFreeSlots, PrepareUnbound,
          PrepareBound, PrepareDone, AssignPrepare, TriggerBlockedWorkers, Schedule,
          ReleaseScheduler, Complete, CompleteJob, CompleteAcquire, Drain, runVars
    <2> QED BY <2>1
  <1> QED BY <1>2, <1>3, <1>4

\* A worker that ends its round without a job leaves no work that nobody sees.
LEMMA RoundLeavesNone ==
  ASSUME Inv, Unbound, FillInv, NEW w \in Worker, Schedule(w), Drowsy(w)',
         binding[w] = NoService, OthersDrowsy(w)
  PROVE  schedule' = <<>> /\ \A i \in Worker : serviceReady'[i] = NoService
  <1>1. /\ pc \in [Worker -> Label] /\ noJob \in [Worker -> BOOLEAN]
        /\ serviceReady \in [Worker -> Job]
    BY DEF Inv, TypeOK, TypeWorker
  <1>2. pc[w] = "schedule" /\ pc'[w] = "release" /\ noJob'[w]
    BY <1>1 DEF Schedule, Goto, Drowsy
  <1>3. serviceReady[w] = NoService /\ Victim = {} /\ UNCHANGED <<serviceReady, schedule>>
    BY <1>1, <1>2 DEF Schedule
  <1>4. ASSUME NEW i \in Worker, serviceReady[i] # NoService PROVE FALSE
    <2>1. serviceReady[i] \in Service /\ Placed(serviceReady[i])
      BY <1>1, <1>4 DEF Job, Placed, Waits, Holds
    <2>2. BindingOf(serviceReady[i]) = threadNone BY <2>1, UnboundJob
    <2>3. NWorker \in Nat BY ConstantsAssumption
    <2>4. i # threadNone BY <2>3 DEF Worker, threadNone
    <2>5. i \in Victim BY <1>4, <2>2, <2>4 DEF Victim, Stealable
    <2> QED BY <1>3, <2>5
  <1>5. schedule = <<>>
    <2>1. w \in Free BY <1>3 DEF Free, Unbound
    <2> QED BY <1>2, <2>1 DEF FillInv
  <1> QED BY <1>3, <1>4, <1>5

LEMMA SleepNext ==
  ASSUME Binder = {}, Inv, Unbound, FillInv, SleepInv, [Next]_vars
  PROVE  SleepInv'
  <1>1. CASE UNCHANGED vars \/ ExternalSend
    BY <1>1 DEF vars, runVars, readyVars, sleepVars, ExternalSend, SleepInv, Drowsy, Work
  <1>2. ASSUME NEW u \in Worker, Step(u) PROVE SleepInv'
    <2>1. ASSUME NEW w \in Worker, pc'[w] \in Dozing PROVE serviceDone'[w] = NoService
      <3>1. pc[w] \in Dozing => serviceDone[w] = NoService BY DEF SleepInv, Dozing
      <3> QED BY <1>2, <2>1, <3>1, DoneGone
    <2>2. \A w \in Worker : binding'[w] = NoService
      <3>1. \A w \in Worker : binding[w] = NoService BY DEF SleepInv
      <3> QED BY <1>2, <3>1, NoBinding
    <2>3. ASSUME Work', \A w \in Worker : Drowsy(w)' PROVE FALSE
      <3>1. ~CollectDoneJobs(u)
        <4>1. ASSUME CollectDoneJobs(u) PROVE pc'[u] = "out"
          BY <4>1 DEF CollectDoneJobs, Goto, Inv, TypeOK, TypeWorker
        <4> QED BY <2>3, <4>1 DEF Drowsy
      <3>2. OthersDrowsy(u) BY <1>2, <2>3, <3>1, OthersStayAwake DEF OthersDrowsy
      <3>3. CASE Schedule(u)
        <4>1. binding[u] = NoService /\ Drowsy(u)' BY <2>3 DEF SleepInv
        <4> QED BY <2>3, <3>2, <3>3, <4>1, RoundLeavesNone DEF Work
      <3>4. CASE ~Schedule(u)
        <4>1. Drowsy(u) /\ UNCHANGED <<schedule, serviceReady>>
          BY <1>2, <2>3, <3>4, DrowsyStep
        <4>2. Work BY <2>3, <4>1 DEF Work
        <4> QED BY <3>2, <4>1, <4>2 DEF OthersDrowsy, SleepInv
      <3> QED BY <3>3, <3>4
    <2> QED BY <2>1, <2>2, <2>3 DEF SleepInv, Dozing
  <1> QED BY <1>1, <1>2 DEF Next

\* When every worker sleeps and none has been signalled, no work is left, for any
\* number of workers and services, unless services are bound to workers: nobody goes
\* to sleep as the last one but after a round of its own that found nothing
\* (worker.go:205-237).
THEOREM NoWorkAsleep ==
  ASSUME Binder = {}
  PROVE  Spec => []NothingForgotten
  <1>1. Init => Unbound /\ FillInv /\ SleepInv
    <2> SUFFICES ASSUME Init PROVE Unbound /\ FillInv /\ SleepInv OBVIOUS
    <2>1. 0 \in Worker BY ConstantsAssumption DEF Worker
    <2>2. \A w \in Worker : pc[w] = "loop" BY DEF Init
    <2>3. Unbound /\ FillInv BY <2>2 DEF Init, Unbound, FillInv
    <2>4. \E w \in Worker : ~Drowsy(w) BY <2>1, <2>2 DEF Drowsy
    <2> QED BY <2>3, <2>4 DEF Init, SleepInv
  <1>2. Inv /\ Unbound /\ FillInv /\ SleepInv /\ [Next]_vars
          => (Unbound /\ FillInv /\ SleepInv)'
    BY UnboundNext, FillNext, SleepNext
  <1>3. Unbound /\ SleepInv => NothingForgotten
    BY DEF Unbound, SleepInv, Work, Drowsy, Quiescent, NothingForgotten
  <1> QED BY <1>1, <1>2, <1>3, InvAlways, PTL DEF Spec

----------------------------------------------------------------------------
(* The queue of external messages *)

\* An external message the dispatcher takes off the queue is in root's inbox, or
\* kept for the next round, or root is dead, however full that inbox is and
\* whatever else is sent meanwhile (core.go:144-177).
THEOREM NoExternalLost == Spec => ExternalKept
  <1> DEFINE Falls == Backlog' < Backlog
             Taken == StatusOf(Root) = "dead" \/ Len(inbox'[Root]) = Len(inbox[Root]) + 1
  <1>1. ASSUME Inv, [Next]_vars, Falls PROVE Taken
    <2>1. /\ externalMessage \in Nat /\ externalLast \in BOOLEAN
          /\ inbox \in [Service -> Seq(Message)] /\ Root \in Service
      BY <1>1, ConstantsAssumption DEF Inv, TypeOK, TypeService, TypeTask
    <2>2. ~UNCHANGED externalVars BY <1>1, <2>1 DEF externalVars, Backlog
    <2>3. ~ExternalSend BY <1>1, <2>1 DEF ExternalSend, Backlog
    <2>4. PICK w \in Worker : Step(w)
      BY <1>1, <2>2, <2>3 DEF Next, vars, externalVars
    <2>5. ExternalPush(w)
      <3>1. Aside(w) => UNCHANGED externalVars BY DEF Aside
      <3>2. ExternalDone(w) \/ Start(w) => UNCHANGED externalVars
        BY DEF ExternalDone, Start
      <3>3. DispatchOut(w) => UNCHANGED externalVars
        BY DEF DispatchOut, DispatchSignal, ScheduleNew, ScheduleDel, DispatchToDead,
           DispatchOutMessage, PushMessage, Settle
      <3>4. Run(w) => UNCHANGED externalVars
        BY DEF Run, Finish, Yield, Send, Spawn, InitServiceFails, CloseService, QuitService,
           QuitRoot, InitService, Bind, EventInit, EventWait, EventWaited
      <3> QED BY <1>1, <2>2, <2>4, <3>1, <3>2, <3>3, <3>4, StepKinds DEF Inv
    <2> DEFINE stuck == StatusOf(Root) # "dead" /\ Full(Root)
               m == [typ |-> "request", to |-> Root, about |-> NoService]
    <2>6. ~stuck
      <3> SUFFICES ASSUME stuck PROVE FALSE OBVIOUS
      <3>1. externalLast' /\ (externalLast \/ externalMessage > 0)
            /\ externalMessage' = IF externalLast THEN externalMessage ELSE externalMessage - 1
        BY <2>5 DEF ExternalPush
      <3> QED BY <1>1, <2>1, <3>1 DEF Backlog
    <2>7. CASE StatusOf(Root) # "dead"
      <3>1. inbox'[Root] = Append(inbox[Root], m) BY <2>1, <2>5, <2>6, <2>7 DEF ExternalPush
      <3>2. inbox[Root] \in Seq(Message) BY <2>1
      <3>3. m \in Message BY <2>1 DEF Message, MessageType
      <3> HIDE DEF m
      <3>4. Len(Append(inbox[Root], m)) = Len(inbox[Root]) + 1 BY <3>2, <3>3, AppendProperties
      <3> QED BY <3>1, <3>4
    <2> QED BY <2>7
  <1>2. Inv /\ [Next]_vars => [Falls => Taken]_vars BY <1>1
  <1> QED BY <1>2, InvAlways, PTL DEF Spec, ExternalKept
=============================================================================
