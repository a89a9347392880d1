-------------------------- MODULE MCSchedulerSlots --------------------------
(* An instance of the scheduler in which the free slots do not suffice.      *)
EXTENDS MCScheduler

CONSTANTS more, most

\* The executions in which worker 0 is held up between getJob and its mark as
\* busy until every worker has a job again and one is queued for it, and worker
\* 2 waits for the lock until then, so that worker 1 does all else.
AllAssigned == \A i \in Worker : serviceReady[i] # NoService
HeldUp ==
  /\ pc'[0] # pc[0] => pc'[0] = "start" \/ (AllAssigned /\ bindingQueue[0] # <<>>)
  /\ pc'[1] # pc[1] => ~busy[0]
  /\ pc'[2] # pc[2] => pc'[2] = "acquire" \/ busy[0]
HeldUpSpec == Init /\ [][Next /\ HeldUp]_vars
=============================================================================
