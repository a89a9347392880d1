---------------------------- MODULE MCScheduler ----------------------------
(* Small instances of the scheduler for TLC *)
EXTENDS SchedulerProps, TLC

CONSTANTS root, a, b

NoPair == {}
\* a calls b
LinkPair == {<<a, b>>}
\* root sends something to b
LinkR == {<<root, b>>}
\* everyone asks root for something
LinkRoot == {<<a, root>>, <<b, root>>}
\* a may be bound to worker 0
BindOne == {<<a, 0>>}

\* Bound on the states: while a service is bound to a worker none has an event
BoundOrWaiting == \/ \A s \in Service : bindingThread[s] = threadNone
                  \/ \A s \in Service : sockevent[s] < 0
=============================================================================
