------------------------------- MODULE Event -------------------------------
(***************************************************************************)
(* What a sockEvent (sockevent.go) promises to the scheduler: a flag that  *)
(* any thread sets and one thread, its owner, waits for.  A call of        *)
(* trigger() leaves the flag set; a call of wait() returns only when it is *)
(* set.  It may leave it set: the next wait() then returns early.  While   *)
(* nobody waits, the event may go to another owner; it is then set.        *)
(***************************************************************************)
CONSTANT Trigger    \* the threads that may call trigger()

VARIABLES
  set,        \* the flag
  calling,    \* the threads inside trigger() whose call has no effect yet
  waiting     \* the owner is inside wait()

vars == <<set, calling, waiting>>

Init == set \in BOOLEAN /\ calling = {} /\ waiting = FALSE

Call(t) ==
  /\ t \notin calling
  /\ calling' = calling \cup {t}
  /\ UNCHANGED <<set, waiting>>

Take(t) ==
  /\ t \in calling
  /\ calling' = calling \ {t}
  /\ set' = TRUE
  /\ UNCHANGED waiting

Wait ==
  /\ ~waiting
  /\ waiting' = TRUE
  /\ UNCHANGED <<set, calling>>

Return ==
  /\ waiting /\ set
  /\ waiting' = FALSE
  /\ set' \in BOOLEAN
  /\ UNCHANGED calling

Renew ==
  /\ ~waiting
  /\ set' = TRUE
  /\ UNCHANGED <<calling, waiting>>

Next == (\E t \in Trigger : Call(t) \/ Take(t)) \/ Wait \/ Return \/ Renew

Spec == Init /\ [][Next]_vars
=============================================================================
