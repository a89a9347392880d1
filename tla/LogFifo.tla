------------------------------ MODULE LogFifo ------------------------------
(***************************************************************************)
(* What the log queue (logqueue.go) promises to the services: a FIFO any   *)
(* thread may push to and pop from.  A call takes effect in one instant    *)
(* between its start and its return.  A push drops its entry only when the *)
(* queue has all the entries there is memory for; the end of the queue     *)
(* drops what is left, when no call is under way, and nobody calls again.  *)
(***************************************************************************)
EXTENDS Naturals, Sequences

CONSTANTS
  Thread, Msg, NoMsg,
  Capacity      \* the entries there is memory for

VARIABLES
  log,        \* the entries nobody has popped yet
  op,         \* what each thread is doing: "idle", "push", "pop", "got" or "gone"
  val         \* the entry it pushes, or has got

vars == <<log, op, val>>

Init ==
  /\ log = <<>>
  /\ op = [t \in Thread |-> "idle"]
  /\ val = [t \in Thread |-> NoMsg]

Becomes(t, from, to, m) ==
  /\ op[t] = from /\ op' = [op EXCEPT ![t] = to]
  /\ val' = [val EXCEPT ![t] = m]

Push(t) == \E m \in Msg : Becomes(t, "idle", "push", m) /\ UNCHANGED log
Pushed(t) == /\ Becomes(t, "push", "idle", NoMsg)
             /\ log' = IF Len(log) < Capacity THEN Append(log, val[t]) ELSE log
Pop(t) == Becomes(t, "idle", "pop", NoMsg) /\ UNCHANGED log
Empty(t) == log = <<>> /\ Becomes(t, "pop", "idle", NoMsg) /\ UNCHANGED log
Popped(t) == /\ log # <<>>
             /\ Becomes(t, "pop", "got", Head(log))
             /\ log' = Tail(log)
Return(t) == Becomes(t, "got", "idle", NoMsg) /\ UNCHANGED log
\* delete() at the very end
Clear == /\ \A t \in Thread : op[t] = "idle"
         /\ op' = [t \in Thread |-> "gone"]
         /\ log' = <<>>
         /\ UNCHANGED val

Next ==
  \/ \E t \in Thread : \/ Push(t) \/ Pushed(t) \/ Pop(t)
                       \/ Empty(t) \/ Popped(t) \/ Return(t)
  \/ Clear

Spec == Init /\ [][Next]_vars
=============================================================================
