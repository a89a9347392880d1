------------------------------ MODULE LogQueue ------------------------------
(***************************************************************************)
(* The log queue (logqueue.go): a linked list of items under a spin lock,  *)
(* with a free list the popped items go back to.  Any worker pushes, the   *)
(* logger and, when the task ends, root pop (service/logger.lua:5-18,      *)
(* service/root.lua:24-40), and ltask.wait deletes it (bootstrap.go:294).  *)
(***************************************************************************)
EXTENDS Integers, FiniteSets, Sequences

CONSTANTS
  Thread,
  Msg, NoMsg,
  Item,         \* the items malloc can give out; when all are, push fails
  nil

ASSUME LogQueueAssumption == NoMsg \notin Msg /\ nil \notin Item /\ IsFiniteSet(Item)

VARIABLES
  freeList, head, tail, l,      \* the queue
  next, msg,                    \* the items
  allocated,                    \* the items that have been malloc'ed
  pc, arg, item, ret            \* a thread's place, its m, its item, its result

vars == <<freeList, head, tail, l, next, msg, allocated, pc, arg, item, ret>>
listVars == <<freeList, head, tail, next>>
localVars == <<arg, item, ret>>

Init ==
  /\ freeList = nil /\ head = nil /\ tail = nil /\ l = 0
  /\ next = [i \in Item |-> nil]
  /\ msg = [i \in Item |-> NoMsg]
  /\ allocated = {}
  /\ pc = [t \in Thread |-> "idle"]
  /\ arg = [t \in Thread |-> NoMsg]
  /\ item = [t \in Thread |-> nil]
  /\ ret = [t \in Thread |-> NoMsg]

Goto(t, from, to) == pc[t] = from /\ pc' = [pc EXCEPT ![t] = to]

CallPush(t) ==
  /\ Goto(t, "idle", "push")
  /\ \E m \in Msg : arg' = [arg EXCEPT ![t] = m]
  /\ UNCHANGED <<listVars, l, msg, allocated, item, ret>>

CallPop(t) ==
  /\ Goto(t, "idle", "pop")
  /\ UNCHANGED <<listVars, l, msg, allocated, localVars>>

\* mutant of Lock: a plain increment
LockAnyway == l' = l + 1
Lock == l = 0 /\ l' = 1

AcquireLock(t) ==
  /\ Lock
  /\ Goto(t, "push", "alloc") \/ Goto(t, "pop", "unlink")
  /\ UNCHANGED <<listVars, msg, allocated, localVars>>

\* allocItem, and push's return if it gets none
AllocItem(t) ==
  /\ \E i \in (IF freeList # nil THEN {freeList}
               ELSE IF allocated # Item THEN Item \ allocated ELSE {nil}) :
       /\ item' = [item EXCEPT ![t] = i]
       /\ allocated' = allocated \cup ({i} \ {nil})
       /\ Goto(t, "alloc", IF i = nil THEN "pushed" ELSE "link")
  /\ freeList' = IF freeList = nil THEN nil ELSE next[freeList]
  /\ UNCHANGED <<head, tail, l, next, msg, arg, ret>>

\* mutant of Link: the item keeps the next it had in the free list
LinkStale(t) ==
  /\ Goto(t, "link", "fill")
  /\ head' = IF head = nil THEN item[t] ELSE head
  /\ tail' = item[t]
  /\ next' = IF head = nil THEN next ELSE [next EXCEPT ![tail] = item[t]]
  /\ UNCHANGED <<freeList, l, msg, allocated, localVars>>

Link(t) ==
  /\ Goto(t, "link", "fill")
  /\ head' = IF head = nil THEN item[t] ELSE head
  /\ tail' = item[t]
  /\ next' = [i \in Item |-> IF i = item[t] THEN nil
                             ELSE IF i = tail /\ head # nil THEN item[t]
                             ELSE next[i]]
  /\ UNCHANGED <<freeList, l, msg, allocated, localVars>>

\* mutant of Fill: the item keeps the message it had
FillNothing(t) ==
  /\ Goto(t, "fill", "pushed")
  /\ UNCHANGED <<listVars, l, msg, allocated, localVars>>

Fill(t) ==
  /\ Goto(t, "fill", "pushed")
  /\ msg' = [msg EXCEPT ![item[t]] = arg[t]]
  /\ UNCHANGED <<listVars, l, allocated, localVars>>

Unlink(t) ==
  /\ Goto(t, "unlink", IF head = nil THEN "popped" ELSE "recycle")
  /\ item' = [item EXCEPT ![t] = head]
  /\ head' = IF head = nil THEN nil ELSE next[head]
  /\ tail' = IF head' = nil THEN nil ELSE tail
  /\ UNCHANGED <<freeList, l, next, msg, allocated, arg, ret>>

Recycle(t) ==
  /\ Goto(t, "recycle", "popped")
  /\ next' = [next EXCEPT ![item[t]] = freeList]
  /\ freeList' = item[t]
  /\ ret' = [ret EXCEPT ![t] = msg[item[t]]]
  /\ UNCHANGED <<head, tail, l, msg, allocated, arg, item>>

\* the deferred releaseLock; the call returns
ReleaseLock(t) ==
  /\ l' = 0
  /\ Goto(t, "pushed", "idle") \/ Goto(t, "popped", "idle")
  /\ arg' = [arg EXCEPT ![t] = NoMsg]
  /\ item' = [item EXCEPT ![t] = nil]
  /\ ret' = [ret EXCEPT ![t] = NoMsg]
  /\ UNCHANGED <<listVars, msg, allocated>>

\* The n-th item of the list that starts at i, the first one being the 0th;
\* and the list: its length is bounded by the number of items unless it is cyclic
Bound == Cardinality(Item)
Walk(i) ==
  LET node[n \in 0 .. Bound] ==
        IF n = 0 THEN i ELSE IF node[n - 1] = nil THEN nil ELSE next[node[n - 1]]
  IN  node
List(i) == [k \in 1 .. Cardinality({n \in 0 .. Bound : Walk(i)[n] # nil}) |-> Walk(i)[k - 1]]
Items(i) == {List(i)[k] : k \in DOMAIN List(i)}

\* delete(), when all workers are gone: everything is popped, the free list
\* and the queue are freed
Delete ==
  /\ \A t \in Thread : pc[t] = "idle"
  /\ pc' = [t \in Thread |-> "gone"]
  /\ head' = nil /\ tail' = nil /\ freeList' = nil
  /\ allocated' = allocated \ (Items(head) \cup Items(freeList))
  /\ UNCHANGED <<l, next, msg, localVars>>

Push(t) == CallPush(t) \/ AllocItem(t) \/ Link(t) \/ Fill(t)
Pop(t) == CallPop(t) \/ Unlink(t) \/ Recycle(t)

Next == \/ \E t \in Thread : Push(t) \/ Pop(t) \/ AcquireLock(t) \/ ReleaseLock(t)
        \/ Delete

Spec == Init /\ [][Next]_vars

----------------------------------------------------------------------------

\* The type invariant (logqueue.go:11-28).
TypeOK ==
  /\ {freeList, head, tail} \subseteq Item \cup {nil}
  /\ l \in {0, 1}
  /\ next \in [Item -> Item \cup {nil}]
  /\ msg \in [Item -> Msg \cup {NoMsg}]
  /\ allocated \subseteq Item
  /\ pc \in [Thread -> {"idle", "push", "alloc", "link", "fill", "pushed",
                        "pop", "unlink", "recycle", "popped", "gone"}]
  /\ arg \in [Thread -> Msg \cup {NoMsg}]
  /\ item \in [Thread -> Item \cup {nil}]
  /\ ret \in [Thread -> Msg \cup {NoMsg}]

\* The spin lock excludes: at most one thread is between acquireLock and
\* releaseLock, and the lock says whether one is (logqueue.go:47-58).
Critical == {"alloc", "link", "fill", "pushed", "unlink", "recycle", "popped"}
Exclusive ==
  /\ l = IF \E t \in Thread : pc[t] \in Critical THEN 1 ELSE 0
  /\ \A t, u \in Thread : pc[t] \in Critical /\ pc[u] \in Critical => t = u

\* Every item malloc gave out is in the list, in the free list or in the hands
\* of one thread, and nowhere twice; both lists end; tail is the last item of
\* the first.  After delete() nothing is left (logqueue.go:60-141).
Held == {item[t] : t \in {u \in Thread : pc[u] \in {"link", "recycle"}}}
Partition ==
  /\ Len(List(head)) + Len(List(freeList)) + Cardinality(Held) = Cardinality(allocated)
  /\ Items(head) \cup Items(freeList) \cup Held = allocated
  /\ tail = IF head = nil THEN nil ELSE List(head)[Len(List(head))]

\* The queue is a FIFO that loses and repeats nothing, whatever calls overlap
\* (logqueue.go:72-123).  A push takes effect when its item is linked, a pop when
\* it is unlinked; a push fails only when all items hold an entry of the queue.
Content(i) ==
  IF \E t \in Thread : pc[t] = "fill" /\ item[t] = i
  THEN arg[CHOOSE t \in Thread : pc[t] = "fill" /\ item[t] = i]
  ELSE msg[i]
Entries == [k \in DOMAIN List(head) |-> Content(List(head)[k])]
Doing(t) ==
  CASE pc[t] \in {"push", "alloc", "link"} -> "push"
    [] pc[t] \in {"pop", "unlink"} -> "pop"
    [] pc[t] = "recycle" \/ (pc[t] = "popped" /\ ret[t] # NoMsg) -> "got"
    [] pc[t] = "gone" -> "gone"
    [] OTHER -> "idle"
Value(t) ==
  CASE Doing(t) = "push" -> arg[t]
    [] pc[t] = "recycle" -> msg[item[t]]
    [] OTHER -> ret[t]
Fifo == INSTANCE LogFifo WITH
  log <- Entries,
  op <- [t \in Thread |-> Doing(t)],
  val <- [t \in Thread |-> Value(t)],
  Capacity <- Cardinality(Item)
Implements == Fifo!Spec
=============================================================================
