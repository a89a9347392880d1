---------------------------- MODULE LogQueueProof ----------------------------
(***************************************************************************)
(* Proofs about the log queue, for any threads, messages and items: its    *)
(* spin lock excludes, its lists share out the items that malloc gave, and *)
(* it is a FIFO.                                                           *)
(***************************************************************************)
EXTENDS LogQueue, SequenceTheorems, FiniteSetTheorems, WellFoundedInduction, TLAPS

\* A thread that is to use an item has one.
Holding == \A t \in Thread : pc[t] \in {"link", "fill", "recycle"} => item[t] # nil

Inv == TypeOK /\ Holding /\ Exclusive

LEMMA InitInv == Init => Inv
  BY LogQueueAssumption DEF Init, Inv, TypeOK, Holding, Exclusive, Critical

LEMMA CallInv ==
  ASSUME Inv, NEW t \in Thread, CallPush(t) \/ CallPop(t) PROVE Inv'
<1> USE DEF Inv, TypeOK, Holding, Goto, listVars, localVars
<1>1. TypeOK'
  BY DEF CallPush, CallPop
<1>2. Exclusive'
  BY DEF CallPush, CallPop, Exclusive, Critical
<1>3. Holding'
  BY DEF CallPush, CallPop
<1> QED
  BY <1>1, <1>2, <1>3

LEMMA LockInv ==
  ASSUME Inv, NEW t \in Thread, AcquireLock(t) \/ ReleaseLock(t) PROVE Inv'
<1> USE DEF Inv, TypeOK, Holding, Goto, listVars, localVars
<1>1. CASE AcquireLock(t)
  <2>1. TypeOK'
    BY <1>1 DEF AcquireLock, Lock
  <2>2. Exclusive'
    BY <1>1 DEF AcquireLock, Lock, Exclusive, Critical
  <2>3. Holding'
    BY <1>1 DEF AcquireLock, Lock
  <2> QED
    BY <2>1, <2>2, <2>3
<1>2. CASE ReleaseLock(t)
  <2>1. TypeOK'
    BY <1>2 DEF ReleaseLock
  <2>2. Exclusive'
    BY <1>2 DEF ReleaseLock, Exclusive, Critical
  <2>3. Holding'
    BY <1>2 DEF ReleaseLock
  <2> QED
    BY <2>1, <2>2, <2>3
<1> QED
  BY <1>1, <1>2

LEMMA AllocInv == ASSUME Inv, NEW t \in Thread, AllocItem(t) PROVE Inv'
<1> USE DEF Inv, TypeOK, Holding, Goto
<1>1. TypeOK'
  <2>1. PICK i \in Item \cup {nil} :
          /\ item' = [item EXCEPT ![t] = i]
          /\ allocated' = allocated \cup ({i} \ {nil})
          /\ Goto(t, "alloc", IF i = nil THEN "pushed" ELSE "link")
    BY DEF AllocItem
  <2>2. freeList' \in Item \cup {nil}
    BY DEF AllocItem
  <2> QED
    BY <2>1, <2>2 DEF AllocItem
<1>2. Exclusive'
  BY DEF AllocItem, Exclusive, Critical
<1>3. Holding'
  BY DEF AllocItem
<1> QED
  BY <1>1, <1>2, <1>3

LEMMA PushInv ==
  ASSUME Inv, NEW t \in Thread, Link(t) \/ Fill(t) PROVE Inv'
<1> USE DEF Inv, TypeOK, Holding, Goto, listVars, localVars
<1>1. TypeOK'
  BY DEF Link, Fill
<1>2. Exclusive'
  BY DEF Link, Fill, Exclusive, Critical
<1>3. Holding'
  BY DEF Link, Fill
<1> QED
  BY <1>1, <1>2, <1>3

LEMMA PopInv ==
  ASSUME Inv, NEW t \in Thread, Unlink(t) \/ Recycle(t) PROVE Inv'
<1> USE DEF Inv, TypeOK, Holding, Goto
<1>1. TypeOK'
  BY DEF Unlink, Recycle
<1>2. Exclusive'
  BY DEF Unlink, Recycle, Exclusive, Critical
<1>3. Holding'
  BY DEF Unlink, Recycle
<1> QED
  BY <1>1, <1>2, <1>3

LEMMA DeleteInv == Inv /\ Delete => Inv'
  BY DEF Inv, TypeOK, Holding, Exclusive, Critical, Delete, localVars

LEMMA StutterInv == Inv /\ UNCHANGED vars => Inv'
  BY DEF Inv, TypeOK, Holding, Exclusive, vars

LEMMA NextInv == Inv /\ [Next]_vars => Inv'
  BY CallInv, LockInv, AllocInv, PushInv, PopInv, DeleteInv, StutterInv
     DEF Next, Push, Pop

LEMMA Invariance == Spec => []Inv
  BY InitInv, NextInv, PTL DEF Spec

\* The types of the queue, of its items and of what the threads hold.
THEOREM TypeCorrect == Spec => []TypeOK
<1>1. Inv => TypeOK
  BY DEF Inv
<1> QED
  BY Invariance, <1>1, PTL

\* acquireLock and releaseLock exclude one another's critical sections.
THEOREM LockIsExclusive == Spec => []Exclusive
<1>1. Inv => Exclusive
  BY DEF Inv
<1> QED
  BY Invariance, <1>1, PTL
----------------------------------------------------------------------------
(* The lists.  A chain of items is followed by induction over its length,  *)
(* here over a set of numbers: the least one that is not in it is not 0.   *)

LEMMA Climb ==
  ASSUME NEW n \in Nat, NEW S, 0 \in S, \A k \in 1 .. n : k - 1 \in S => k \in S
  PROVE  0 .. n \subseteq S
<1> DEFINE Bad == (0 .. n) \ S
           Below == {0 .. k : k \in Bad}
           R == StrictSubsetOrdering(Nat)
<1> SUFFICES ASSUME Bad # {} PROVE FALSE
  OBVIOUS
<1>1. Below \subseteq FiniteSubsetsOf(Nat) /\ Below # {}
  <2> SUFFICES ASSUME NEW k \in Bad PROVE 0 .. k \in FiniteSubsetsOf(Nat)
    BY Zenon
  <2>1. k \in Int
    OBVIOUS
  <2> QED BY <2>1, FS_Interval DEF FiniteSubsetsOf
<1>2. \E X \in Below : \A Y \in Below : <<Y, X>> \notin R
  <2> HIDE DEF Below
  <2> QED BY <1>1, FS_StrictSubsetOrderingWellFounded, WFMin, Zenon
<1>3. PICK x \in Bad : \A Y \in Below : <<Y, 0 .. x>> \notin R
  BY <1>2
<1>4. x # 0 /\ x - 1 \in Bad
  OBVIOUS
<1>5. 0 .. (x - 1) \subseteq 0 .. x /\ 0 .. (x - 1) # 0 .. x
  BY <1>4
<1>6. <<0 .. (x - 1), 0 .. x>> \in R
  BY <1>4, <1>5 DEF StrictSubsetOrdering
<1> QED BY <1>3, <1>4, <1>6

\* q is the list of the items from i on, in order
Chain(q, i) ==
  /\ i = IF q = <<>> THEN nil ELSE q[1]
  /\ \A k \in 1 .. Len(q) : next[q[k]] = IF k < Len(q) THEN q[k + 1] ELSE nil
Distinct(q) == \A j, k \in 1 .. Len(q) : q[j] = q[k] => j = k
Elems(q) == {q[k] : k \in 1 .. Len(q)}

\* Items that are all different are not more than there are.
LEMMA DistinctIsShort ==
  ASSUME NEW q \in Seq(Item), Distinct(q)
  PROVE  /\ Len(q) <= Bound /\ Bound \in Nat
         /\ IsFiniteSet(Elems(q)) /\ Cardinality(Elems(q)) = Len(q)
<1>1. IsFiniteSet(1 .. Len(q)) /\ Cardinality(1 .. Len(q)) = Len(q)
  <2>1. Len(q) \in Nat
    OBVIOUS
  <2> QED BY <2>1, FS_Interval
<1>2. IsFiniteSet(Item) /\ Cardinality(Item) \in Nat
  BY LogQueueAssumption, FS_CardinalityType
<1>3. q \in Surjection(1 .. Len(q), Elems(q)) /\ q \in Injection(1 .. Len(q), Elems(q))
  BY DEF Surjection, Injection, IsInjective, Elems, Distinct
<1>4. IsFiniteSet(Elems(q)) /\ Cardinality(Elems(q)) = Len(q)
  BY <1>1, <1>3, FS_Surjection
<1>5. Elems(q) \in SUBSET Item
  BY DEF Elems
<1>6. Cardinality(Elems(q)) <= Cardinality(Item)
  BY <1>2, <1>5, FS_Subset
<1> QED BY <1>2, <1>4, <1>6 DEF Bound

\* A function that obeys the equation of Walk is Walk.
Walks(g, i) ==
  g = [n \in 0 .. Bound |-> IF n = 0 THEN i ELSE IF g[n - 1] = nil THEN nil ELSE next[g[n - 1]]]
LEMMA WalkIsUnique ==
  ASSUME NEW i, NEW g, Walks(g, i), Bound \in Nat
  PROVE  Walk(i) = g
<1> DEFINE f == Walk(i)
<1>1. Walks(f, i)
  <2>1. f = CHOOSE h : Walks(h, i)
    BY DEF Walk, Walks
  <2> HIDE DEF f
  <2> QED BY <2>1, Zenon
<1> HIDE DEF f
<1> DEFINE S == {n \in 0 .. Bound : f[n] = g[n]}
<1>2. 0 .. Bound \subseteq S
  <2>1. 0 \in S
    BY <1>1 DEF Walks
  <2>2. ASSUME NEW n \in 1 .. Bound, n - 1 \in S PROVE n \in S
    <3>1. f[n - 1] = g[n - 1]
      BY <2>2
    <3>2. f[n] = IF f[n - 1] = nil THEN nil ELSE next[f[n - 1]]
      BY <1>1 DEF Walks
    <3>3. g[n] = IF g[n - 1] = nil THEN nil ELSE next[g[n - 1]]
      BY DEF Walks
    <3> QED BY <3>1, <3>2, <3>3
  <2> HIDE DEF S
  <2> QED BY <2>1, <2>2, Climb
<1>3. f = g
  BY <1>1, <1>2 DEF Walks
<1> QED BY <1>3 DEF f

\* What the definition of List computes: the chain, if there is one.
LEMMA ListOfChain ==
  ASSUME NEW q \in Seq(Item), NEW i, Chain(q, i), Distinct(q)
  PROVE  List(i) = q /\ Items(i) = Elems(q)
<1>1. Len(q) <= Bound /\ Bound \in Nat /\ Len(q) \in Nat
  BY DistinctIsShort
<1> DEFINE g == [n \in 0 .. Bound |-> IF n < Len(q) THEN q[n + 1] ELSE nil]
<1>2. \A n \in 0 .. Bound : /\ n < Len(q) => g[n] = q[n + 1] /\ g[n] \in Item /\ g[n] # nil
                            /\ ~(n < Len(q)) => g[n] = nil
  BY LogQueueAssumption
<1>3. Walks(g, i)
  <2> SUFFICES ASSUME NEW n \in 0 .. Bound
               PROVE  g[n] = IF n = 0 THEN i ELSE IF g[n - 1] = nil THEN nil ELSE next[g[n - 1]]
    BY DEF Walks
  <2>1. CASE n = 0
    BY <2>1, <1>1, <1>2 DEF Chain
  <2>2. CASE n # 0
    <3>1. n - 1 \in 0 .. Bound
      BY <2>2, <1>1
    <3>2. CASE n - 1 < Len(q)
      <4>1. g[n - 1] = q[n] /\ g[n - 1] # nil /\ n \in 1 .. Len(q)
        BY <3>1, <3>2, <1>1, <1>2, <2>2
      <4>2. next[q[n]] = IF n < Len(q) THEN q[n + 1] ELSE nil
        BY <4>1 DEF Chain
      <4> HIDE DEF g
      <4> QED BY <1>2, <2>2, <4>1, <4>2
    <3>3. CASE ~(n - 1 < Len(q))
      <4> HIDE DEF g
      <4> QED BY <1>1, <1>2, <2>2, <3>1, <3>3
    <3> QED BY <3>2, <3>3
  <2> QED BY <2>1, <2>2
<1>4. Walk(i) = g
  BY <1>1, <1>3, WalkIsUnique
<1>5. {n \in 0 .. Bound : Walk(i)[n] # nil} = 0 .. (Len(q) - 1)
  <2> HIDE DEF g
  <2> QED BY <1>1, <1>2, <1>4
<1>6. Cardinality(0 .. (Len(q) - 1)) = Len(q)
  <2>1. Len(q) - 1 \in Int /\ 0 \in Int
    BY <1>1
  <2>2. Cardinality(0 .. (Len(q) - 1)) =
          IF 0 > Len(q) - 1 THEN 0 ELSE Len(q) - 1 - 0 + 1
    BY <2>1, FS_Interval
  <2> QED BY <1>1, <2>2
<1>7. List(i) = [k \in 1 .. Len(q) |-> g[k - 1]]
  BY <1>4, <1>5, <1>6 DEF List
<1>8. \A k \in 1 .. Len(q) : g[k - 1] = q[k]
  BY <1>1
<1>9. List(i) = q
  <2> HIDE DEF g
  <2>1. q = [k \in 1 .. Len(q) |-> q[k]]
    BY LenProperties
  <2> QED BY <1>7, <1>8, <2>1
<1>10. Items(i) = Elems(q)
  BY <1>9 DEF Items, Elems
<1> QED BY <1>9, <1>10

----------------------------------------------------------------------------
(* The invariant of the lists: q is the queue and f the free list, what is *)
(* in neither is in the hands of the thread in the critical section.       *)

Filled(q) == \A k \in 1 .. Len(q) :
  msg[q[k]] \in Msg \/ \E t \in Thread : pc[t] = "fill" /\ item[t] = q[k]
Shape(q, f) ==
  /\ Chain(q, head) /\ Distinct(q) /\ Filled(q)
  /\ Chain(f, freeList) /\ Distinct(f)
  /\ tail = IF q = <<>> THEN nil ELSE q[Len(q)]
  /\ Elems(q) \cap Elems(f) = {}
  /\ Held \cap (Elems(q) \cup Elems(f)) = {}
  /\ Elems(q) \cup Elems(f) \cup Held = allocated

\* What a thread holds besides
Loaded == \A t \in Thread :
  /\ pc[t] \in {"push", "alloc", "link", "fill"} => arg[t] \in Msg
  /\ ret[t] # NoMsg => pc[t] = "popped"
  /\ pc[t] = "recycle" => msg[item[t]] \in Msg

ListInv == Inv /\ Loaded /\ \E q, f \in Seq(Item) : Shape(q, f)

LEMMA HeldByOne ==
  ASSUME Exclusive, NEW t \in Thread, pc[t] \in Critical
  PROVE  /\ \A u \in Thread : u # t => pc[u] \notin Critical
         /\ Held = IF pc[t] \in {"link", "recycle"} THEN {item[t]} ELSE {}
  BY DEF Exclusive, Critical, Held

LEMMA HeldByOneNext ==
  ASSUME Exclusive', NEW t \in Thread, pc'[t] \in Critical
  PROVE  /\ \A u \in Thread : u # t => pc'[u] \notin Critical
         /\ Held' = IF pc'[t] \in {"link", "recycle"} THEN {item'[t]} ELSE {}
  BY DEF Exclusive, Critical, Held

LEMMA HeldByNone ==
  ASSUME \A t \in Thread : pc[t] \notin Critical
  PROVE  Held = {}
  BY DEF Critical, Held

LEMMA LoadedNext ==
  ASSUME Inv, Inv', Loaded, NEW q \in Seq(Item), NEW f \in Seq(Item), Shape(q, f),
         NEW t \in Thread, Push(t) \/ Pop(t) \/ AcquireLock(t) \/ ReleaseLock(t)
  PROVE  Loaded'
<1> USE DEF Inv, TypeOK, Loaded, Goto, Push, Pop, listVars, localVars
<1>1. CASE CallPush(t) \/ CallPop(t)
  BY <1>1 DEF CallPush, CallPop
<1>2. CASE AcquireLock(t) \/ ReleaseLock(t)
  BY <1>2 DEF AcquireLock, ReleaseLock
<1>3. CASE AllocItem(t)
  BY <1>3 DEF AllocItem, Exclusive, Critical
<1>4. CASE Link(t)
  BY <1>4 DEF Link, Exclusive, Critical
<1>5. CASE Fill(t)
  <2>1. \A u \in Thread : u # t => pc[u] \notin Critical
    BY <1>5, HeldByOne DEF Fill, Critical
  <2> QED BY <1>5, <2>1 DEF Fill, Critical
<1>6. CASE Unlink(t)
  <2>1. \A u \in Thread : u # t => pc[u] \notin Critical
    BY <1>6, HeldByOne DEF Unlink, Critical
  <2>2. head # nil => msg[head] \in Msg
    <3> SUFFICES ASSUME head # nil PROVE msg[head] \in Msg
      OBVIOUS
    <3>1. q # <<>> /\ head = q[1] /\ 1 \in 1 .. Len(q)
      BY DEF Shape, Chain
    <3> QED BY <1>6, <2>1, <3>1 DEF Shape, Filled, Critical, Unlink
  <2> QED BY <1>6, <2>1, <2>2 DEF Unlink, Critical
<1>7. CASE Recycle(t)
  BY <1>7 DEF Recycle, Exclusive, Critical
<1> QED BY <1>1, <1>2, <1>3, <1>4, <1>5, <1>6, <1>7

\* Steps that neither move an item nor end a critical section with one in hand
LEMMA SameShape ==
  ASSUME Inv, Inv', Loaded, NEW q \in Seq(Item), NEW f \in Seq(Item), Shape(q, f),
         NEW t \in Thread,
         CallPush(t) \/ CallPop(t) \/ AcquireLock(t) \/ ReleaseLock(t) \/ Fill(t)
  PROVE  Shape(q, f)'
<1> USE DEF Inv, TypeOK, Goto, listVars, localVars
<1>1. UNCHANGED <<listVars, allocated>>
  BY DEF CallPush, CallPop, AcquireLock, ReleaseLock, Fill
<1>2. Held' = Held
  BY DEF CallPush, CallPop, AcquireLock, ReleaseLock, Fill, Held
<1>3. Filled(q)'
  <2> SUFFICES ASSUME NEW k \in 1 .. Len(q)
               PROVE  (msg[q[k]] \in Msg \/ \E u \in Thread : pc[u] = "fill" /\ item[u] = q[k])'
    BY DEF Filled
  <2>1. msg[q[k]] \in Msg \/ \E u \in Thread : pc[u] = "fill" /\ item[u] = q[k]
    BY DEF Shape, Filled
  <2>2. CASE Fill(t)
    <3>1. arg[t] \in Msg /\ item[t] \in Item /\ q[k] \in Item
      BY <2>2 DEF Fill, Loaded, Holding
    <3>2. msg' = [msg EXCEPT ![item[t]] = arg[t]] /\ item' = item
          /\ \A u \in Thread : u # t => pc'[u] = pc[u]
      BY <2>2 DEF Fill
    <3> QED BY <2>1, <3>1, <3>2
  <2>3. CASE CallPush(t) \/ CallPop(t) \/ AcquireLock(t) \/ ReleaseLock(t)
    <3>1. msg' = msg /\ \A u \in Thread : pc[u] = "fill" => pc'[u] = "fill" /\ item'[u] = item[u]
      BY <2>3 DEF CallPush, CallPop, AcquireLock, ReleaseLock
    <3> QED BY <2>1, <3>1
  <2> QED BY <2>2, <2>3
<1> QED BY <1>1, <1>2, <1>3 DEF Shape, Chain

\* The first item of a chain is taken off.
LEMMA TailChain ==
  ASSUME NEW f \in Seq(Item), f # <<>>, NEW i, Chain(f, i), Distinct(f)
  PROVE  /\ Tail(f) \in Seq(Item) /\ Len(Tail(f)) = Len(f) - 1
         /\ \A k \in 1 .. Len(Tail(f)) : Tail(f)[k] = f[k + 1]
         /\ Chain(Tail(f), next[i]) /\ Distinct(Tail(f))
         /\ i = f[1] /\ i \in Elems(f) /\ Elems(Tail(f)) = Elems(f) \ {i}
<1> DEFINE g == Tail(f)
<1>1. /\ g \in Seq(Item) /\ Len(g) = Len(f) - 1 /\ Len(f) \in Nat \ {0}
      /\ \A k \in 1 .. Len(g) : g[k] = f[k + 1]
  BY HeadTailProperties
<1>2. i = f[1] /\ next[i] = next[f[1]]
  BY DEF Chain
<1>3. \A k \in 1 .. Len(f) : next[f[k]] = IF k < Len(f) THEN f[k + 1] ELSE nil
  BY DEF Chain
<1> HIDE DEF g
<1>4. Chain(g, next[i])
  <2>1. next[i] = IF g = <<>> THEN nil ELSE g[1]
    <3>1. CASE Len(f) = 1
      BY <1>1, <1>2, <1>3, <3>1
    <3>2. CASE Len(f) # 1
      <4>1. 1 \in 1 .. Len(g) /\ 1 < Len(f) /\ 1 \in 1 .. Len(f)
        BY <1>1, <3>2
      <4>2. g # <<>> /\ g[1] = f[2]
        BY <1>1, <4>1
      <4>3. next[f[1]] = f[2]
        BY <1>3, <4>1
      <4> QED BY <1>2, <4>2, <4>3
    <3> QED BY <3>1, <3>2
  <2>2. ASSUME NEW k \in 1 .. Len(g)
        PROVE  next[g[k]] = IF k < Len(g) THEN g[k + 1] ELSE nil
    <3>1. k + 1 \in 1 .. Len(f) /\ g[k] = f[k + 1]
      BY <1>1
    <3>2. k < Len(g) <=> k + 1 < Len(f)
      BY <1>1
    <3>3. k < Len(g) => g[k + 1] = f[(k + 1) + 1]
      BY <1>1
    <3>4. next[f[k + 1]] = IF k + 1 < Len(f) THEN f[(k + 1) + 1] ELSE nil
      BY <1>3, <3>1
    <3> QED BY <3>1, <3>2, <3>3, <3>4
  <2> QED BY <2>1, <2>2 DEF Chain
<1>5. Distinct(g) /\ Elems(g) = Elems(f) \ {i} /\ i \in Elems(f)
  <2>1. \A j, k \in 1 .. Len(f) : f[j] = f[k] => j = k
    BY DEF Distinct
  <2>2. Distinct(g)
    BY <1>1, <2>1 DEF Distinct
  <2>3. ASSUME NEW x \in Elems(g) PROVE x \in Elems(f) \ {i}
    BY <1>1, <1>2, <2>1 DEF Elems
  <2>4. ASSUME NEW x \in Elems(f) \ {i} PROVE x \in Elems(g)
    <3>1. PICK k \in 1 .. Len(f) : x = f[k]
      BY DEF Elems
    <3>2. k - 1 \in 1 .. Len(g) /\ g[k - 1] = x
      BY <1>1, <1>2, <3>1
    <3> QED BY <3>2 DEF Elems
  <2>5. i \in Elems(f)
    BY <1>1, <1>2 DEF Elems
  <2> QED BY <2>2, <2>3, <2>4, <2>5
<1> QED BY <1>1, <1>2, <1>4, <1>5 DEF g

\* malloc, or an item off the free list
LEMMA AllocShape ==
  ASSUME Inv, Inv', NEW q \in Seq(Item), NEW f \in Seq(Item), Shape(q, f),
         NEW t \in Thread, AllocItem(t)
  PROVE  Shape(q, IF f = <<>> THEN f ELSE Tail(f))'
<1> USE DEF Inv, TypeOK, Goto
<1> DEFINE g == IF f = <<>> THEN f ELSE Tail(f)
<1>1. pc[t] = "alloc" /\ pc'[t] \in {"pushed", "link"} /\ Held = {}
      /\ Held' = IF pc'[t] = "link" THEN {item'[t]} ELSE {}
  BY HeldByOne, HeldByOneNext DEF AllocItem, Critical
<1>2. PICK i \in Item \cup {nil} :
        /\ i \in IF freeList # nil THEN {freeList}
                 ELSE IF allocated # Item THEN Item \ allocated ELSE {nil}
        /\ item'[t] = i
        /\ allocated' = allocated \cup ({i} \ {nil})
        /\ pc'[t] = IF i = nil THEN "pushed" ELSE "link"
  BY DEF AllocItem
<1>3. f = <<>> <=> freeList = nil
  BY LogQueueAssumption DEF Shape, Chain
<1>4. /\ Chain(g, freeList') /\ Distinct(g) /\ g \in Seq(Item)
      /\ Elems(g) = Elems(f) \ {freeList}
      /\ f # <<>> => freeList \in Elems(f)
  <2>1. CASE f = <<>>
    BY <1>3, <2>1, LogQueueAssumption DEF Shape, Chain, Distinct, Elems, AllocItem
  <2>2. CASE f # <<>>
    <3>1. freeList' = next[freeList]
      BY <1>3, <2>2 DEF AllocItem
    <3> QED BY <2>2, <3>1, TailChain DEF Shape
  <2> QED BY <2>1, <2>2
<1> HIDE DEF g
<1>5. UNCHANGED <<head, tail, next, msg>>
  BY DEF AllocItem
<1>6. Filled(q)'
  <2> SUFFICES ASSUME NEW k \in 1 .. Len(q) PROVE msg[q[k]] \in Msg
    BY <1>5 DEF Filled
  <2> QED BY <1>1, HeldByOne DEF Shape, Filled, Critical
<1>7. /\ Elems(q) \cap Elems(g) = {}
      /\ Held' \cap (Elems(q) \cup Elems(g)) = {}
      /\ Elems(q) \cup Elems(g) \cup Held' = allocated'
  <2>1. /\ Elems(q) \cap Elems(f) = {}
        /\ Elems(q) \cup Elems(f) = allocated
    BY <1>1 DEF Shape
  <2>2. CASE f = <<>>
    <3>1. Elems(f) = {}
      BY <2>2 DEF Elems
    <3> QED BY <1>1, <1>2, <1>3, <1>4, <2>1, <2>2, <3>1
  <2>3. CASE f # <<>>
    BY <1>1, <1>2, <1>3, <1>4, <2>1, <2>3
  <2> QED BY <2>2, <2>3
<1>8. Chain(q, head) /\ Chain(g, freeList') /\ next' = next
  BY <1>4, <1>5 DEF Shape
<1> QED BY <1>4, <1>5, <1>6, <1>7, <1>8 DEF Shape, Chain, g

LEMMA LinkShape ==
  ASSUME Inv, Inv', NEW q \in Seq(Item), NEW f \in Seq(Item), Shape(q, f),
         NEW t \in Thread, Link(t), NEW i, i = item[t]
  PROVE  Shape(Append(q, i), f)'
<1> USE DEF Inv, TypeOK, Goto
<1> DEFINE r == Append(q, i)
<1>1. /\ pc[t] = "link" /\ pc'[t] = "fill" /\ item' = item /\ i \in Item
      /\ Held = {i} /\ Held' = {}
      /\ \A u \in Thread : u # t => pc[u] \notin Critical
  BY HeldByOne, HeldByOneNext DEF Link, Critical, Holding, localVars
<1>2. /\ head' = IF head = nil THEN i ELSE head
      /\ tail' = i /\ freeList' = freeList /\ msg' = msg /\ allocated' = allocated
      /\ \A j \in Item : next'[j] = IF j = i THEN nil
                                    ELSE IF j = tail /\ head # nil THEN i ELSE next[j]
  BY DEF Link
<1>3. /\ r \in Seq(Item) /\ Len(r) = Len(q) + 1 /\ r # <<>> /\ Len(q) \in Nat
      /\ \A k \in 1 .. Len(q) : r[k] = q[k]
      /\ r[Len(q) + 1] = i
      /\ \A k \in 1 .. Len(r) : k \in 1 .. Len(q) \/ k = Len(q) + 1
      /\ \A k \in 1 .. Len(q) : k \in 1 .. Len(r)
      /\ Len(q) + 1 \in 1 .. Len(r)
  <2>1. /\ r \in Seq(Item) /\ Len(r) = Len(q) + 1 /\ r[Len(q) + 1] = i
        /\ \A k \in 1 .. Len(q) : r[k] = q[k]
    BY <1>1, AppendProperties
  <2>2. Len(q) \in Nat
    OBVIOUS
  <2> HIDE DEF r
  <2> QED BY <2>1, <2>2
<1>4. i \notin Elems(q) /\ i \notin Elems(f) /\ Elems(q) \cap Elems(f) = {}
      /\ Elems(q) \cup Elems(f) \cup {i} = allocated
  BY <1>1 DEF Shape
<1>5. \A k \in 1 .. Len(q) : q[k] \in Elems(q) /\ q[k] # i /\ q[k] \in Item
  BY <1>4 DEF Elems
<1>6. head = nil <=> q = <<>>
  BY LogQueueAssumption DEF Shape, Chain
<1> HIDE DEF r
<1>7. Chain(r, head)'
  <2>1. head' = r[1]
    <3>1. CASE q = <<>>
      BY <1>2, <1>3, <1>6, <3>1
    <3>2. CASE q # <<>>
      BY <1>2, <1>3, <1>6, <3>2 DEF Shape, Chain
    <3> QED BY <3>1, <3>2
  <2>2. ASSUME NEW k \in 1 .. Len(r)
        PROVE  next'[r[k]] = IF k < Len(r) THEN r[k + 1] ELSE nil
    <3>1. CASE k = Len(r)
      BY <1>1, <1>2, <1>3, <3>1
    <3>2. CASE k = Len(q)
      <4>1. r[k] = tail /\ r[k] # i /\ r[k] \in Item /\ q # <<>>
        BY <1>3, <1>5, <3>2 DEF Shape
      <4> QED BY <1>2, <1>3, <1>6, <3>2, <4>1
    <3>3. CASE k < Len(q)
      <4>1. /\ k \in 1 .. Len(q) /\ k + 1 \in 1 .. Len(q) /\ Len(q) \in 1 .. Len(q) /\ q # <<>>
        BY <1>3, <3>3
      <4>2. tail = q[Len(q)] /\ q[k] # q[Len(q)]
        BY <3>3, <4>1 DEF Shape, Distinct
      <4>3. next'[q[k]] = next[q[k]]
        BY <1>2, <1>5, <4>1, <4>2
      <4>4. next[q[k]] = q[k + 1]
        BY <3>3, <4>1 DEF Shape, Chain
      <4> QED BY <1>3, <3>3, <4>1, <4>3, <4>4
    <3> QED BY <1>3, <3>1, <3>2, <3>3
  <2> QED BY <1>3, <2>1, <2>2 DEF Chain
<1>8. Distinct(r) /\ Elems(r) = Elems(q) \cup {i}
  <2>1. Distinct(r)
    <3> SUFFICES ASSUME NEW j \in 1 .. Len(r), NEW k \in 1 .. Len(r), r[j] = r[k] PROVE j = k
      BY DEF Distinct
    <3>1. \A m, n \in 1 .. Len(q) : q[m] = q[n] => m = n
      BY DEF Shape, Distinct
    <3> QED BY <1>3, <1>5, <3>1
  <2>2. ASSUME NEW x \in Elems(r) PROVE x \in Elems(q) \cup {i}
    BY <1>3 DEF Elems
  <2>3. ASSUME NEW x \in Elems(q) \cup {i} PROVE x \in Elems(r)
    BY <1>3 DEF Elems
  <2> QED BY <2>1, <2>2, <2>3
<1>9. Filled(r)'
  <2> SUFFICES ASSUME NEW k \in 1 .. Len(r)
               PROVE  msg'[r[k]] \in Msg \/ \E u \in Thread : pc'[u] = "fill" /\ item'[u] = r[k]
    BY DEF Filled
  <2>1. CASE k = Len(q) + 1
    BY <1>1, <1>3, <2>1
  <2>2. CASE k \in 1 .. Len(q)
    BY <1>1, <1>2, <1>3, <2>2 DEF Shape, Filled, Critical
  <2> QED BY <1>3, <2>1, <2>2
<1>10. Chain(f, freeList)'
  <2>1. \A k \in 1 .. Len(f) : f[k] \in Elems(f) /\ f[k] \in Item /\ f[k] # i
    BY <1>4 DEF Elems
  <2>2. head # nil => tail \in Elems(q)
    BY <1>6 DEF Shape, Elems
  <2>3. \A k \in 1 .. Len(f) : next'[f[k]] = next[f[k]]
    BY <1>2, <1>4, <2>1, <2>2
  <2> QED BY <1>2, <2>3 DEF Shape, Chain
<1> QED BY <1>1, <1>2, <1>3, <1>4, <1>7, <1>8, <1>9, <1>10 DEF Shape, r

LEMMA UnlinkShape ==
  ASSUME Inv, Inv', NEW q \in Seq(Item), NEW f \in Seq(Item), Shape(q, f),
         NEW t \in Thread, Unlink(t)
  PROVE  Shape(IF q = <<>> THEN q ELSE Tail(q), f)'
<1> USE DEF Inv, TypeOK, Goto
<1>1. /\ pc[t] = "unlink" /\ pc'[t] = IF head = nil THEN "popped" ELSE "recycle"
      /\ item'[t] = head
      /\ head' = IF head = nil THEN nil ELSE next[head]
      /\ tail' = IF head' = nil THEN nil ELSE tail
      /\ UNCHANGED <<freeList, next, msg, allocated>>
  BY DEF Unlink
<1>2. /\ Held = {} /\ Held' = IF head = nil THEN {} ELSE {head}
      /\ \A u \in Thread : pc[u] # "fill"
  BY <1>1, HeldByOne, HeldByOneNext DEF Critical
<1>3. head = nil <=> q = <<>>
  BY LogQueueAssumption DEF Shape, Chain
<1>4. CASE q = <<>>
  BY <1>1, <1>2, <1>3, <1>4 DEF Shape, Chain, Filled
<1>5. CASE q # <<>>
  <2> DEFINE r == Tail(q)
  <2>1. /\ r \in Seq(Item) /\ Len(r) = Len(q) - 1 /\ \A k \in 1 .. Len(r) : r[k] = q[k + 1]
        /\ Chain(r, next[head]) /\ Distinct(r)
        /\ head = q[1] /\ head \in Elems(q) /\ Elems(r) = Elems(q) \ {head}
    BY <1>5, TailChain DEF Shape
  <2> HIDE DEF r
  <2>2. Chain(r, head)' /\ Chain(f, freeList)'
    BY <1>1, <1>3, <1>5, <2>1 DEF Shape, Chain
  <2>3. Filled(r)'
    <3> SUFFICES ASSUME NEW k \in 1 .. Len(r) PROVE msg[r[k]] \in Msg
      BY <1>1 DEF Filled
    <3>1. k + 1 \in 1 .. Len(q) /\ r[k] = q[k + 1]
      BY <2>1
    <3> QED BY <1>2, <3>1 DEF Shape, Filled
  <2>4. tail' = IF r = <<>> THEN nil ELSE r[Len(r)]
    <3>1. head' = nil <=> r = <<>>
      BY <2>1, <2>2, LogQueueAssumption DEF Chain
    <3>2. r # <<>> => r[Len(r)] = q[Len(q)]
      <4> SUFFICES ASSUME r # <<>> PROVE r[Len(r)] = q[Len(q)]
        OBVIOUS
      <4>1. Len(r) \in 1 .. Len(r)
        BY <2>1
      <4>2. r[Len(r)] = q[Len(r) + 1] /\ Len(r) + 1 = Len(q)
        BY <2>1, <4>1
      <4> QED BY <4>2
    <3> QED BY <1>1, <1>5, <3>1, <3>2 DEF Shape
  <2>5. /\ Elems(r) \cap Elems(f) = {}
        /\ Held' \cap (Elems(r) \cup Elems(f)) = {}
        /\ Elems(r) \cup Elems(f) \cup Held' = allocated'
    BY <1>1, <1>2, <1>3, <1>5, <2>1 DEF Shape
  <2> QED BY <1>1, <1>5, <2>1, <2>2, <2>3, <2>4, <2>5 DEF Shape, r
<1> QED BY <1>4, <1>5

LEMMA RecycleShape ==
  ASSUME Inv, Inv', NEW q \in Seq(Item), NEW f \in Seq(Item), Shape(q, f),
         NEW t \in Thread, Recycle(t), NEW i, i = item[t]
  PROVE  Shape(q, <<i>> \o f)'
<1> USE DEF Inv, TypeOK, Goto
<1> DEFINE g == <<i>> \o f
<1>1. /\ pc[t] = "recycle" /\ i \in Item /\ next' = [next EXCEPT ![i] = freeList]
      /\ freeList' = i /\ UNCHANGED <<head, tail, msg, allocated, item>>
      /\ pc'[t] = "popped"
  BY DEF Recycle, Holding
<1>2. Held = {i} /\ Held' = {} /\ \A u \in Thread : pc[u] # "fill"
  BY <1>1, HeldByOne, HeldByOneNext DEF Critical
<1>3. /\ g \in Seq(Item) /\ Len(g) = Len(f) + 1 /\ g # <<>> /\ Len(f) \in Nat
      /\ g[1] = i /\ \A k \in 1 .. Len(f) : g[k + 1] = f[k]
  <2>1. <<i>> \in Seq(Item) /\ Len(<<i>>) = 1 /\ <<i>>[1] = i
    BY <1>1
  <2> QED BY <2>1, ConcatProperties
<1> HIDE DEF g
<1>4. i \notin Elems(q) /\ i \notin Elems(f)
  BY <1>2 DEF Shape
<1>5. \A k \in 1 .. Len(f) : f[k] # i /\ f[k] \in Item
  BY <1>4 DEF Elems
<1>6. \A k \in 1 .. Len(q) : q[k] # i /\ q[k] \in Item
  BY <1>4 DEF Elems
<1>7. Chain(g, freeList)'
  <2>1. ASSUME NEW k \in 1 .. Len(g)
        PROVE  next'[g[k]] = IF k < Len(g) THEN g[k + 1] ELSE nil
    <3>1. CASE k = 1
      <4>1. next'[g[k]] = freeList
        BY <1>1, <1>3, <3>1
      <4>2. CASE f = <<>>
        BY <1>3, <3>1, <4>1, <4>2 DEF Shape, Chain
      <4>3. CASE f # <<>>
        <5>1. freeList = f[1] /\ 1 \in 1 .. Len(f)
          BY <4>3 DEF Shape, Chain
        <5>2. g[1 + 1] = f[1] /\ 1 < Len(g)
          BY <1>3, <5>1
        <5> QED BY <3>1, <4>1, <5>1, <5>2
      <4> QED BY <4>2, <4>3
    <3>2. CASE k # 1
      <4> DEFINE j == k - 1
      <4>1. j \in 1 .. Len(f) /\ k = j + 1 /\ g[k] = f[j]
        <5>1. j \in 1 .. Len(f) /\ k = j + 1
          BY <1>3, <3>2
        <5> HIDE DEF j
        <5> QED BY <1>3, <5>1
      <4>2. next'[g[k]] = next[f[j]]
        BY <1>1, <1>5, <4>1
      <4>3. next[f[j]] = IF j < Len(f) THEN f[j + 1] ELSE nil
        BY <4>1 DEF Shape, Chain
      <4>4. j < Len(f) => g[k + 1] = f[j + 1]
        BY <1>3, <4>1
      <4> QED BY <1>3, <4>1, <4>2, <4>3, <4>4
    <3> QED BY <3>1, <3>2
  <2> QED BY <1>1, <1>3, <2>1 DEF Chain
<1>8. Chain(q, head)'
  <2>1. \A k \in 1 .. Len(q) : next'[q[k]] = next[q[k]]
    BY <1>1, <1>6
  <2> QED BY <1>1, <2>1 DEF Shape, Chain
<1>9. Distinct(g) /\ Elems(g) = Elems(f) \cup {i}
  <2>1. ASSUME NEW k \in 1 .. Len(g)
        PROVE  (k = 1 /\ g[k] = i) \/ (k - 1 \in 1 .. Len(f) /\ g[k] = f[k - 1])
    <3>1. CASE k = 1
      BY <1>3, <3>1
    <3>2. CASE k # 1
      <4>1. k - 1 \in 1 .. Len(f) /\ (k - 1) + 1 = k
        BY <1>3, <3>2
      <4>2. g[(k - 1) + 1] = f[k - 1]
        BY <1>3, <4>1
      <4> QED BY <4>1, <4>2
    <3> QED BY <3>1, <3>2
  <2>2. Distinct(g)
    <3> SUFFICES ASSUME NEW j \in 1 .. Len(g), NEW k \in 1 .. Len(g), g[j] = g[k] PROVE j = k
      BY DEF Distinct
    <3>1. j - 1 \in 1 .. Len(f) /\ k - 1 \in 1 .. Len(f) /\ f[j - 1] = f[k - 1] => j - 1 = k - 1
      BY DEF Shape, Distinct
    <3> QED BY <1>3, <1>5, <2>1, <3>1
  <2>3. ASSUME NEW x \in Elems(g) PROVE x \in Elems(f) \cup {i}
    BY <2>1, <2>3 DEF Elems
  <2>4. ASSUME NEW x \in Elems(f) \cup {i} PROVE x \in Elems(g)
    <3>1. CASE x = i
      BY <1>3, <3>1 DEF Elems
    <3>2. CASE x \in Elems(f)
      <4>1. PICK k \in 1 .. Len(f) : x = f[k]
        BY <3>2 DEF Elems
      <4>2. k + 1 \in 1 .. Len(g) /\ g[k + 1] = x
        BY <1>3, <4>1
      <4> QED BY <4>2 DEF Elems
    <3> QED BY <3>1, <3>2
  <2> QED BY <2>2, <2>3, <2>4
<1>10. Filled(q)'
  BY <1>1, <1>2 DEF Shape, Filled
<1> QED BY <1>1, <1>2, <1>3, <1>4, <1>7, <1>8, <1>9, <1>10 DEF Shape, g

\* delete(): whatever was malloc'ed is in one of the lists
LEMMA DeleteShape ==
  ASSUME Inv, Inv', Loaded, NEW q \in Seq(Item), NEW f \in Seq(Item), Shape(q, f), Delete
  PROVE  Shape(<<>>, <<>>)' /\ Loaded'
<1> USE DEF Inv, TypeOK
<1>1. Held = {} /\ Held' = {}
  BY DEF Delete, Held
<1>2. Items(head) = Elems(q) /\ Items(freeList) = Elems(f)
  BY ListOfChain DEF Shape
<1>3. allocated' = {} /\ head' = nil /\ tail' = nil /\ freeList' = nil
  BY <1>1, <1>2 DEF Delete, Shape
<1>4. Elems(<<>>) = {} /\ Distinct(<<>>)
  BY DEF Elems, Distinct
<1>5. Shape(<<>>, <<>>)'
  BY <1>1, <1>3, <1>4 DEF Shape, Chain, Filled
<1>6. Loaded'
  BY DEF Delete, Loaded, localVars
<1> QED BY <1>5, <1>6

LEMMA InitList == Init => ListInv
<1> SUFFICES ASSUME Init PROVE ListInv
  OBVIOUS
<1>1. Held = {}
  BY DEF Init, Held
<1>2. Shape(<<>>, <<>>)
  BY <1>1 DEF Init, Shape, Chain, Distinct, Filled, Elems
<1>3. Loaded
  BY DEF Init, Loaded
<1>4. <<>> \in Seq(Item)
  OBVIOUS
<1> QED BY InitInv, <1>2, <1>3, <1>4 DEF ListInv

LEMMA NextList ==
  ASSUME ListInv, [Next]_vars PROVE ListInv'
<1>1. Inv /\ Inv' /\ Loaded
  BY NextInv DEF ListInv
<1>2. PICK q \in Seq(Item), f \in Seq(Item) : Shape(q, f)
  BY DEF ListInv
<1>3. ASSUME NEW t \in Thread, Push(t) \/ Pop(t) \/ AcquireLock(t) \/ ReleaseLock(t)
      PROVE  ListInv'
  <2>1. Loaded'
    BY <1>1, <1>2, <1>3, LoadedNext
  <2>2. CASE CallPush(t) \/ CallPop(t) \/ AcquireLock(t) \/ ReleaseLock(t) \/ Fill(t)
    BY <1>1, <1>2, <2>1, <2>2, SameShape DEF ListInv
  <2>3. CASE AllocItem(t)
    <3>1. (IF f = <<>> THEN f ELSE Tail(f)) \in Seq(Item)
      BY HeadTailProperties
    <3> QED BY <1>1, <1>2, <2>1, <2>3, <3>1, AllocShape DEF ListInv
  <2>4. CASE Link(t)
    <3> DEFINE i == item[t]
    <3>1. i \in Item
      BY <1>1, <2>4 DEF Inv, TypeOK, Holding, Link, Goto
    <3>2. PICK j \in Item : j = i
      BY <3>1
    <3>3. Append(q, j) \in Seq(Item)
      BY AppendProperties
    <3>4. Shape(Append(q, j), f)'
      BY <1>1, <1>2, <2>4, <3>2, LinkShape
    <3> QED BY <1>1, <2>1, <3>3, <3>4 DEF ListInv
  <2>5. CASE Unlink(t)
    <3>1. (IF q = <<>> THEN q ELSE Tail(q)) \in Seq(Item)
      BY HeadTailProperties
    <3> QED BY <1>1, <1>2, <2>1, <2>5, <3>1, UnlinkShape DEF ListInv
  <2>6. CASE Recycle(t)
    <3> DEFINE i == item[t]
    <3>1. i \in Item
      BY <1>1, <2>6 DEF Inv, TypeOK, Holding, Recycle, Goto
    <3>2. PICK j \in Item : j = i
      BY <3>1
    <3>3. <<j>> \o f \in Seq(Item)
      BY ConcatProperties
    <3>4. Shape(q, <<j>> \o f)'
      BY <1>1, <1>2, <2>6, <3>2, RecycleShape
    <3> QED BY <1>1, <2>1, <3>3, <3>4 DEF ListInv
  <2> QED BY <1>3, <2>2, <2>3, <2>4, <2>5, <2>6 DEF Push, Pop
<1>4. CASE Delete
  <2>1. <<>> \in Seq(Item)
    OBVIOUS
  <2> QED BY <1>1, <1>2, <1>4, <2>1, DeleteShape DEF ListInv
<1>5. CASE UNCHANGED vars
  <2>1. Shape(q, f)' /\ Loaded'
    BY <1>1, <1>2, <1>5 DEF vars, Shape, Chain, Filled, Held, Loaded
  <2> QED BY <1>1, <2>1 DEF ListInv
<1> QED BY <1>3, <1>4, <1>5 DEF Next

LEMMA ListInvariance == Spec => []ListInv
  BY InitList, NextList, PTL DEF Spec

\* Every item is in the queue, in the free list or in one hand, once.
THEOREM NoItemIsLost == Spec => []Partition
<1>1. ASSUME ListInv PROVE Partition
  <2>1. PICK q \in Seq(Item), f \in Seq(Item) : Shape(q, f)
    BY <1>1 DEF ListInv
  <2>2. /\ List(head) = q /\ Items(head) = Elems(q)
        /\ List(freeList) = f /\ Items(freeList) = Elems(f)
    BY <2>1, ListOfChain DEF Shape
  <2>3. /\ IsFiniteSet(Elems(q)) /\ Cardinality(Elems(q)) = Len(q)
        /\ IsFiniteSet(Elems(f)) /\ Cardinality(Elems(f)) = Len(f)
        /\ Len(q) \in Nat /\ Len(f) \in Nat
    BY <2>1, DistinctIsShort DEF Shape
  <2>4. IsFiniteSet(Held)
    <3>1. Held \subseteq Item
      BY <1>1, <2>1 DEF ListInv, Inv, TypeOK, Shape
    <3> QED BY <3>1, LogQueueAssumption, FS_Subset
  <2>5. Elems(q) \cap Elems(f) = {} /\ (Elems(q) \cup Elems(f)) \cap Held = {}
        /\ (Elems(q) \cup Elems(f)) \cup Held = allocated
    BY <2>1 DEF Shape
  <2>6. /\ IsFiniteSet(Elems(q) \cup Elems(f))
        /\ Cardinality(Elems(q) \cup Elems(f)) = Len(q) + Len(f)
    <3>1. /\ IsFiniteSet(Elems(q) \cup Elems(f))
          /\ Cardinality(Elems(q) \cup Elems(f)) =
               Cardinality(Elems(q)) + Cardinality(Elems(f)) - Cardinality(Elems(q) \cap Elems(f))
      BY <2>3, FS_Union
    <3>2. Cardinality(Elems(q) \cap Elems(f)) = 0
      BY <2>5, FS_EmptySet
    <3> QED BY <2>3, <3>1, <3>2
  <2>7. Cardinality(allocated) = Len(q) + Len(f) + Cardinality(Held)
    <3>1. Cardinality(Held) \in Nat
      BY <2>4, FS_CardinalityType
    <3>2. Cardinality(allocated) = Cardinality(Elems(q) \cup Elems(f)) + Cardinality(Held)
                                   - Cardinality((Elems(q) \cup Elems(f)) \cap Held)
      BY <2>4, <2>5, <2>6, FS_Union
    <3>3. Cardinality((Elems(q) \cup Elems(f)) \cap Held) = 0
      BY <2>5, FS_EmptySet
    <3> QED BY <2>3, <2>6, <3>1, <3>2, <3>3
  <2>8. tail = IF head = nil THEN nil ELSE q[Len(q)]
    BY <2>1, LogQueueAssumption DEF Shape, Chain
  <2> QED BY <2>2, <2>5, <2>7, <2>8 DEF Partition
<1> QED BY ListInvariance, <1>1, PTL
----------------------------------------------------------------------------
(* The queue implements a FIFO: where an item is linked its message is     *)
(* pushed, where it is unlinked it is popped.                              *)

\* The message an item holds, or is about to be given by the thread that is at Fill
LEMMA ContentAtFill ==
  ASSUME Exclusive, NEW t \in Thread, pc[t] = "fill", NEW i
  PROVE  Content(i) = IF i = item[t] THEN arg[t] ELSE msg[i]
<1>1. \A u \in Thread : pc[u] = "fill" => u = t
  BY DEF Exclusive, Critical
<1> QED BY <1>1 DEF Content

LEMMA ContentElsewhere ==
  ASSUME \A t \in Thread : pc[t] # "fill", NEW i
  PROVE  Content(i) = msg[i]
  BY DEF Content

LEMMA ContentNext ==
  ASSUME Exclusive', NEW i
  PROVE  /\ \A t \in Thread : pc'[t] = "fill" =>
              Content(i)' = IF i = item'[t] THEN arg'[t] ELSE msg'[i]
         /\ (\A t \in Thread : pc'[t] # "fill") => Content(i)' = msg'[i]
<1>1. \A t, u \in Thread : pc'[t] = "fill" /\ pc'[u] = "fill" => t = u
  BY DEF Exclusive, Critical
<1> QED BY <1>1 DEF Content

\* The entries of the FIFO, by the sequence that the list is
Lists == \A q \in Seq(Item) : \A i : Chain(q, i) /\ Distinct(q) => List(i) = q
LEMMA ListsHold == Lists
  BY ListOfChain DEF Lists
LEMMA ListsHoldNext == Lists'
  BY ListsHold, PTL

LEMMA EntriesOf ==
  ASSUME NEW q \in Seq(Item), NEW f, Shape(q, f)
  PROVE  Entries = [k \in 1 .. Len(q) |-> Content(q[k])]
<1>1. List(head) = q /\ DOMAIN q = 1 .. Len(q)
  BY ListsHold, LenProperties DEF Lists, Shape
<1> QED BY <1>1 DEF Entries

LEMMA EntriesOfNext ==
  ASSUME NEW q \in Seq(Item), NEW f, Shape(q, f)'
  PROVE  Entries' = [k \in 1 .. Len(q) |-> Content(q[k])']
<1>1. List(head)' = q /\ DOMAIN q = 1 .. Len(q)
  BY ListsHoldNext, LenProperties DEF Lists, Shape
<1> QED BY <1>1 DEF Entries

\* A step of the queue is one of the FIFO if the rest stays as it is.
Unmoved(u) == Doing(u)' = Doing(u) /\ Value(u)' = Value(u)

LEMMA Becoming ==
  ASSUME NEW t \in Thread, NEW from, NEW to, NEW m,
         Doing(t) = from, Doing(t)' = to, Value(t)' = m,
         \A u \in Thread : u # t => Unmoved(u)
  PROVE  Fifo!Becomes(t, from, to, m)
<1> DEFINE D(u) == Doing(u)
           V(u) == Value(u)
<1> HIDE DEF D, V
<1>1. /\ [u \in Thread |-> D(u)][t] = D(t)
      /\ D(t)' = to /\ V(t)' = m /\ D(t) = from
      /\ \A u \in Thread : u # t => D(u)' = D(u) /\ V(u)' = V(u)
  BY DEF Unmoved, D, V
<1>2. /\ [u \in Thread |-> D(u)]' = [[u \in Thread |-> D(u)] EXCEPT ![t] = to]
      /\ [u \in Thread |-> V(u)]' = [[u \in Thread |-> V(u)] EXCEPT ![t] = m]
  BY <1>1
<1> QED BY <1>1, <1>2 DEF Fifo!Becomes, D, V

LEMMA Staying ==
  ASSUME \A u \in Thread : Unmoved(u), Entries' = Entries
  PROVE  UNCHANGED Fifo!vars
  BY DEF Unmoved, Fifo!vars

\* What the threads that do not move are doing
LEMMA OthersStay ==
  ASSUME Inv, NEW t \in Thread, Push(t) \/ Pop(t) \/ AcquireLock(t) \/ ReleaseLock(t)
  PROVE  \A u \in Thread : u # t => Unmoved(u)
<1> SUFFICES ASSUME NEW u \in Thread, u # t PROVE Unmoved(u)
  OBVIOUS
<1>1. pc'[u] = pc[u] /\ arg'[u] = arg[u] /\ ret'[u] = ret[u] /\ item'[u] = item[u]
  BY DEF Inv, TypeOK, Push, Pop, AcquireLock, ReleaseLock, CallPush, CallPop, AllocItem,
         Link, Fill, Unlink, Recycle, Goto, localVars
<1>2. pc[u] = "recycle" => msg' = msg
  BY DEF Inv, TypeOK, Exclusive, Critical, Push, Pop, AcquireLock, ReleaseLock, CallPush,
         CallPop, AllocItem, Link, Fill, Unlink, Recycle, Goto
<1> QED BY <1>1, <1>2 DEF Unmoved, Doing, Value

\* A push starts
LEMMA CallPushFifo ==
  ASSUME Inv, Loaded, NEW t \in Thread, CallPush(t), Entries' = Entries
  PROVE  Fifo!Push(t)
<1>1. PICK m \in Msg : arg'[t] = m
  BY DEF CallPush, Inv, TypeOK
<1>2. Doing(t) = "idle" /\ Doing(t)' = "push" /\ Value(t)' = m
  BY <1>1 DEF CallPush, Goto, Inv, TypeOK, Doing, Value
<1>3. Fifo!Becomes(t, "idle", "push", m)
  BY <1>2, OthersStay, Becoming DEF Push
<1> QED BY <1>3 DEF Fifo!Push

LEMMA CallPopFifo ==
  ASSUME Inv, Loaded, NEW t \in Thread, CallPop(t), Entries' = Entries
  PROVE  Fifo!Pop(t)
<1>1. Doing(t) = "idle" /\ Doing(t)' = "pop" /\ Value(t)' = NoMsg
  BY DEF CallPop, Goto, Inv, TypeOK, Loaded, Doing, Value, localVars
<1>2. Fifo!Becomes(t, "idle", "pop", NoMsg)
  BY <1>1, OthersStay, Becoming DEF Pop
<1> QED BY <1>2 DEF Fifo!Pop

\* The push that gets no item has failed, since all items are in the queue.
LEMMA AllocFifo ==
  ASSUME Inv, Inv', Loaded, NEW q \in Seq(Item), NEW f \in Seq(Item), Shape(q, f),
         NEW t \in Thread, AllocItem(t), Entries' = Entries
  PROVE  Fifo!Pushed(t) \/ UNCHANGED Fifo!vars
<1>1. pc[t] = "alloc" /\ pc'[t] \in {"pushed", "link"} /\ UNCHANGED <<arg, ret>>
      /\ ret[t] = NoMsg
  BY DEF AllocItem, Goto, Inv, TypeOK, Loaded
<1>2. CASE pc'[t] = "link"
  <2>1. Unmoved(t)
    BY <1>1, <1>2 DEF Unmoved, Doing, Value
  <2> QED BY <2>1, OthersStay, Staying DEF Push
<1>3. CASE pc'[t] = "pushed"
  <2>1. Doing(t) = "push" /\ Doing(t)' = "idle" /\ Value(t)' = NoMsg
    BY <1>1, <1>3 DEF Doing, Value
  <2>2. Fifo!Becomes(t, "push", "idle", NoMsg)
    BY <2>1, OthersStay, Becoming DEF Push
  <2>3. freeList = nil /\ allocated = Item
    BY <1>1, <1>3, LogQueueAssumption DEF AllocItem, Goto, Inv, TypeOK
  <2>4. Elems(f) = {}
    <3>1. f = <<>>
      <4>1. f # <<>> => f[1] \in Item
        BY EmptySeq, LenProperties
      <4> QED BY <2>3, <4>1, LogQueueAssumption DEF Shape, Chain
    <3> QED BY <3>1 DEF Elems
  <2>5. Held = {}
    BY <1>1, HeldByOne DEF Inv, Critical
  <2>6. Len(q) = Cardinality(Item)
    BY <2>3, <2>4, <2>5, DistinctIsShort DEF Shape
  <2>7. Len(Entries) = Len(q)
    <3>1. Entries = [k \in 1 .. Len(q) |-> Content(q[k])]
      BY EntriesOf
    <3>2. Len(q) \in Nat
      BY LenProperties
    <3> QED BY <3>1, <3>2
  <2>8. ~(Len(Entries) < Cardinality(Item))
    BY <2>6, <2>7, LenProperties
  <2> QED BY <2>2, <2>8 DEF Fifo!Pushed
<1> QED BY <1>1, <1>2, <1>3

\* Steps that leave the queue's items where they are
LEMMA SameEntries ==
  ASSUME Inv, Inv', NEW q \in Seq(Item), NEW f, NEW g, Shape(q, f), Shape(q, g)',
         \A k \in 1 .. Len(q) : Content(q[k])' = Content(q[k])
  PROVE  Entries' = Entries
  BY EntriesOf, EntriesOfNext

LEMMA SameContent ==
  ASSUME Inv, Inv', NEW t \in Thread, NEW i \in Item,
         \/ CallPush(t) \/ CallPop(t) \/ AcquireLock(t) \/ ReleaseLock(t)
         \/ AllocItem(t) \/ Fill(t) \/ Recycle(t)
  PROVE  Content(i)' = Content(i)
<1> USE DEF Inv, TypeOK, Goto, listVars, localVars
<1>1. CASE Fill(t)
  <2>1. /\ pc[t] = "fill" /\ item[t] \in Item /\ msg' = [msg EXCEPT ![item[t]] = arg[t]]
        /\ pc'[t] = "pushed" /\ \A u \in Thread : u # t => pc'[u] = pc[u]
    BY <1>1 DEF Fill, Holding
  <2>2. \A u \in Thread : pc'[u] # "fill"
    BY <2>1 DEF Exclusive, Critical
  <2>3. Content(i)' = msg'[i]
    BY <2>2, ContentNext
  <2>4. Content(i) = IF i = item[t] THEN arg[t] ELSE msg[i]
    BY <2>1, ContentAtFill
  <2> QED BY <2>1, <2>3, <2>4
<1>2. CASE ~Fill(t)
  <2>1. pc[t] # "fill" /\ pc'[t] # "fill" /\ msg' = msg
        /\ \A u \in Thread : u # t => pc'[u] = pc[u] /\ item'[u] = item[u] /\ arg'[u] = arg[u]
    BY <1>2 DEF CallPush, CallPop, AllocItem, Recycle, AcquireLock, ReleaseLock
  <2>2. CASE \E u \in Thread : pc[u] = "fill"
    <3>1. PICK u \in Thread : pc[u] = "fill"
      BY <2>2
    <3>2. pc'[u] = "fill" /\ item'[u] = item[u] /\ arg'[u] = arg[u]
      BY <2>1, <3>1
    <3> QED BY <2>1, <3>1, <3>2, ContentAtFill, ContentNext
  <2>3. CASE \A u \in Thread : pc[u] # "fill"
    <3>1. \A u \in Thread : pc'[u] # "fill"
      BY <2>1, <2>3
    <3> QED BY <2>1, <2>3, <3>1, ContentElsewhere, ContentNext
  <2> QED BY <2>2, <2>3
<1> QED BY <1>1, <1>2

\* The messages of a list
LEMMA Mapped ==
  ASSUME NEW q \in Seq(Item), NEW S, NEW g \in [Item -> S],
         NEW e, e = [k \in 1 .. Len(q) |-> g[q[k]]]
  PROVE  /\ e \in Seq(S) /\ Len(e) = Len(q) /\ (e = <<>> <=> q = <<>>)
         /\ \A k \in 1 .. Len(q) : e[k] = g[q[k]]
<1>1. Len(q) \in Nat /\ \A k \in 1 .. Len(q) : q[k] \in Item /\ g[q[k]] \in S
  BY LenProperties
<1>2. e \in Seq(S) /\ Len(e) = Len(q)
  BY <1>1
<1>3. (e = <<>> <=> Len(e) = 0) /\ (q = <<>> <=> Len(q) = 0)
  BY <1>2, EmptySeq
<1> QED BY <1>2, <1>3

\* A push takes effect where the item is linked.
LEMMA LinkFifo ==
  ASSUME Inv, Inv', Loaded, NEW q \in Seq(Item), NEW f \in Seq(Item), Shape(q, f),
         NEW t \in Thread, Link(t), NEW i, i = item[t], Shape(Append(q, i), f)'
  PROVE  Fifo!Pushed(t)
<1> USE DEF Inv, TypeOK, Goto
<1> DEFINE r == Append(q, i)
<1>1. /\ pc[t] = "link" /\ pc'[t] = "fill" /\ i \in Item /\ item' = item
      /\ UNCHANGED <<arg, ret, msg>> /\ ret[t] = NoMsg
      /\ Held = {i} /\ \A u \in Thread : pc[u] # "fill"
  BY HeldByOne DEF Link, Critical, Holding, Loaded, localVars
<1>2. /\ r \in Seq(Item) /\ Len(r) = Len(q) + 1 /\ r[Len(q) + 1] = i /\ Len(q) \in Nat
      /\ \A k \in 1 .. Len(q) : r[k] = q[k]
  BY <1>1, AppendProperties, LenProperties
<1> HIDE DEF r
<1>3. Entries = [k \in 1 .. Len(q) |-> msg[q[k]]]
  <2>1. \A k \in 1 .. Len(q) : Content(q[k]) = msg[q[k]]
    BY <1>1, ContentElsewhere
  <2> QED BY <2>1, EntriesOf
<1>4. Entries' = [k \in 1 .. Len(q) + 1 |-> IF k = Len(q) + 1 THEN arg[t] ELSE msg[q[k]]]
  <2>1. Entries' = [k \in 1 .. Len(q) + 1 |-> Content(r[k])']
    BY <1>2, EntriesOfNext DEF r
  <2>2. ASSUME NEW k \in 1 .. Len(q) + 1
        PROVE  Content(r[k])' = IF k = Len(q) + 1 THEN arg[t] ELSE msg[q[k]]
    <3>1. Content(r[k])' = IF r[k] = i THEN arg[t] ELSE msg[r[k]]
      BY <1>1, ContentNext
    <3>2. CASE k = Len(q) + 1
      BY <1>2, <3>1, <3>2
    <3>3. CASE k # Len(q) + 1
      <4>1. k \in 1 .. Len(q) /\ r[k] = q[k]
        BY <1>2, <3>3
      <4>2. q[k] # i
        BY <1>1, <4>1 DEF Shape, Elems
      <4> QED BY <3>1, <3>3, <4>1, <4>2
    <3> QED BY <3>2, <3>3
  <2> QED BY <2>1, <2>2
<1>5. Entries' = Append(Entries, arg[t])
  <2> DEFINE e == Entries
  <2>1. e \in Seq(Msg \cup {NoMsg}) /\ Len(e) = Len(q)
    BY <1>3, Mapped
  <2>2. \A k \in 1 .. Len(q) : e[k] = msg[q[k]]
    BY <1>3
  <2> HIDE DEF e
  <2>3. Append(e, arg[t]) = [k \in 1 .. Len(q) + 1 |-> IF k = Len(q) + 1 THEN arg[t] ELSE e[k]]
    BY <1>2, <2>1
  <2> QED BY <1>2, <1>4, <2>2, <2>3 DEF e
<1>6. Doing(t) = "push" /\ Value(t) = arg[t] /\ Doing(t)' = "idle" /\ Value(t)' = NoMsg
  BY <1>1 DEF Doing, Value
<1>7. Fifo!Becomes(t, "push", "idle", NoMsg)
  BY <1>6, OthersStay, Becoming DEF Push
<1>8. Len(Entries) < Cardinality(Item)
  <2>1. Distinct(r)
    BY DEF r, Shape, Distinct
  <2>2. Len(r) <= Cardinality(Item) /\ Cardinality(Item) \in Nat
    BY <1>2, <2>1, DistinctIsShort DEF Bound
  <2>3. Len(Entries) = Len(q)
    BY <1>2, <1>3
  <2> QED BY <1>2, <2>2, <2>3
<1>9. [u \in Thread |-> Value(u)][t] = arg[t]
  BY <1>6
<1> QED BY <1>5, <1>7, <1>8, <1>9 DEF Fifo!Pushed

\* A pop takes effect where the item is unlinked.
LEMMA UnlinkFifo ==
  ASSUME Inv, Inv', Loaded, NEW q \in Seq(Item), NEW f \in Seq(Item), Shape(q, f),
         NEW t \in Thread, Unlink(t), Shape(IF q = <<>> THEN q ELSE Tail(q), f)'
  PROVE  Fifo!Empty(t) \/ Fifo!Popped(t)
<1> USE DEF Inv, TypeOK, Goto
<1>1. /\ pc[t] = "unlink" /\ pc'[t] = IF head = nil THEN "popped" ELSE "recycle"
      /\ item'[t] = head /\ UNCHANGED <<msg, ret, arg>> /\ ret[t] = NoMsg
  BY DEF Unlink, Loaded
<1>2. \A u \in Thread : pc[u] # "fill" /\ pc'[u] # "fill"
  BY <1>1, HeldByOne DEF Unlink, Critical
<1>3. /\ \A k \in 1 .. Len(q) : Content(q[k]) = msg[q[k]]
      /\ \A i : Content(i)' = msg[i]
  BY <1>1, <1>2, ContentElsewhere, ContentNext
<1>4. Entries = [k \in 1 .. Len(q) |-> msg[q[k]]]
  BY <1>3, EntriesOf
<1>5. head = IF q = <<>> THEN nil ELSE q[1]
  BY DEF Shape, Chain
<1>6. Doing(t) = "pop"
  BY <1>1 DEF Doing
<1>7. CASE q = <<>>
  <2>1. Entries = <<>> /\ Entries' = <<>>
    <3>1. Shape(q, f)'
      BY <1>7
    <3>2. Entries' = [k \in 1 .. Len(q) |-> msg[q[k]]]
      BY <1>3, <3>1, EntriesOfNext
    <3> QED BY <1>4, <1>7, <3>2, Mapped
  <2>2. Doing(t)' = "idle" /\ Value(t)' = NoMsg
    BY <1>1, <1>5, <1>7 DEF Doing, Value
  <2>3. Fifo!Becomes(t, "pop", "idle", NoMsg)
    BY <1>6, <2>2, OthersStay, Becoming DEF Pop
  <2> QED BY <2>1, <2>3 DEF Fifo!Empty
<1>8. CASE q # <<>>
  <2> DEFINE r == Tail(q)
             e == Entries
  <2>1. /\ r \in Seq(Item) /\ Len(r) = Len(q) - 1 /\ Len(q) \in Nat \ {0}
        /\ \A k \in 1 .. Len(r) : r[k] = q[k + 1]
    BY <1>8, HeadTailProperties
  <2>2. Shape(r, f)'
    BY <1>8
  <2> HIDE DEF r
  <2>3. Entries' = [k \in 1 .. Len(q) - 1 |-> msg[q[k + 1]]]
    <3>1. Entries' = [k \in 1 .. Len(r) |-> Content(r[k])']
      BY <2>1, <2>2, EntriesOfNext
    <3>2. \A k \in 1 .. Len(r) : Content(r[k])' = msg[q[k + 1]]
      BY <1>3, <2>1
    <3> QED BY <2>1, <3>1, <3>2
  <2>4. /\ e \in Seq(Msg \cup {NoMsg}) /\ Len(e) = Len(q) /\ e # <<>>
        /\ \A k \in 1 .. Len(q) : e[k] = msg[q[k]]
    <3> HIDE DEF Inv, TypeOK, Goto
    <3>1. msg \in [Item -> Msg \cup {NoMsg}]
      BY DEF Inv, TypeOK
    <3> QED BY <1>4, <1>8, <3>1, Mapped
  <2>5. head # nil /\ head = q[1] /\ head \in Item
    <3>1. q[1] \in Item
      BY <2>1
    <3> QED BY <1>5, <1>8, <3>1, LogQueueAssumption
  <2>6. Head(e) = msg[head] /\ Tail(e) = Entries'
    <3> HIDE DEF e
    <3>1. /\ Head(e) = e[1] /\ Len(Tail(e)) = Len(q) - 1 /\ Tail(e) \in Seq(Msg \cup {NoMsg})
          /\ \A k \in 1 .. Len(q) - 1 : Tail(e)[k] = e[k + 1]
      BY <2>4, HeadTailProperties
    <3>2. Tail(e) = [k \in 1 .. Len(q) - 1 |-> Tail(e)[k]]
      BY <3>1, LenProperties
    <3>3. \A k \in 1 .. Len(q) - 1 : Tail(e)[k] = msg[q[k + 1]]
      BY <2>1, <2>4, <3>1
    <3> QED BY <2>1, <2>3, <2>4, <2>5, <3>1, <3>2, <3>3
  <2>7. Doing(t)' = "got" /\ Value(t)' = Head(e)
    BY <1>1, <2>5, <2>6 DEF Doing, Value
  <2>8. Fifo!Becomes(t, "pop", "got", Head(e))
    <3> HIDE DEF e
    <3> QED BY <1>6, <2>7, OthersStay, Becoming DEF Pop
  <2> QED BY <2>4, <2>6, <2>8 DEF Fifo!Popped
<1> QED BY <1>7, <1>8

\* The rest of a call shows in nothing but its return.
LEMMA StayFifo ==
  ASSUME Inv, Inv', Loaded, NEW t \in Thread, Entries' = Entries,
         AcquireLock(t) \/ Fill(t) \/ Recycle(t) \/ ReleaseLock(t)
  PROVE  Fifo!Return(t) \/ UNCHANGED Fifo!vars
<1> USE DEF Inv, TypeOK, Goto
<1>1. CASE AcquireLock(t) \/ Fill(t) \/ Recycle(t)
  <2>1. Unmoved(t)
    <3>1. CASE AcquireLock(t)
      BY <3>1 DEF AcquireLock, Unmoved, Doing, Value, localVars
    <3>2. CASE Fill(t)
      BY <3>2 DEF Fill, Unmoved, Doing, Value, localVars, Loaded
    <3>3. CASE Recycle(t)
      <4>1. /\ pc[t] = "recycle" /\ pc'[t] = "popped" /\ ret'[t] = msg[item[t]]
            /\ msg[item[t]] # NoMsg
        BY <3>3, LogQueueAssumption DEF Recycle, Loaded
      <4> QED BY <4>1 DEF Unmoved, Doing, Value
    <3> QED BY <1>1, <3>1, <3>2, <3>3
  <2> QED BY <1>1, <2>1, OthersStay, Staying DEF Push, Pop
<1>2. CASE ReleaseLock(t)
  <2>1. /\ pc[t] \in {"pushed", "popped"} /\ pc'[t] = "idle" /\ ret'[t] = NoMsg
        /\ pc[t] = "pushed" => ret[t] = NoMsg
    BY <1>2 DEF ReleaseLock, Loaded
  <2>2. Doing(t)' = "idle" /\ Value(t)' = NoMsg
    BY <2>1 DEF Doing, Value
  <2>3. CASE ret[t] = NoMsg
    <3>1. Unmoved(t)
      BY <2>1, <2>2, <2>3 DEF Unmoved, Doing, Value
    <3> QED BY <1>2, <3>1, OthersStay, Staying
  <2>4. CASE ret[t] # NoMsg
    <3>1. Doing(t) = "got"
      BY <2>1, <2>4 DEF Doing
    <3>2. Fifo!Becomes(t, "got", "idle", NoMsg)
      BY <1>2, <2>2, <3>1, OthersStay, Becoming
    <3> QED BY <3>2 DEF Fifo!Return
  <2> QED BY <2>3, <2>4
<1> QED BY <1>1, <1>2

LEMMA DeleteFifo ==
  ASSUME Inv, Loaded, Delete, Shape(<<>>, <<>>)'
  PROVE  Fifo!Clear
<1>1. Entries' = <<>>
  <2>1. <<>> \in Seq(Item) /\ Len(<<>>) = 0
    OBVIOUS
  <2>2. Entries' = [k \in 1 .. 0 |-> Content(<<>>[k])']
    BY <2>1, EntriesOfNext
  <2> QED BY <2>2
<1>2. ASSUME NEW t \in Thread
      PROVE  /\ Doing(t) = "idle" /\ Doing(t)' = "gone"
             /\ Value(t)' = Value(t)
  <2>1. pc[t] = "idle" /\ pc'[t] = "gone" /\ ret' = ret /\ ret[t] = NoMsg
    BY DEF Delete, Loaded, Inv, TypeOK, localVars
  <2> QED BY <2>1 DEF Doing, Value
<1> QED BY <1>1, <1>2 DEF Fifo!Clear

LEMMA InitFifo == Init => Fifo!Init
<1> SUFFICES ASSUME Init PROVE Fifo!Init
  OBVIOUS
<1>1. Shape(<<>>, <<>>) /\ <<>> \in Seq(Item)
  <2>1. Held = {}
    BY DEF Init, Held
  <2> QED BY <2>1 DEF Init, Shape, Chain, Distinct, Filled, Elems
<1>2. Entries = <<>>
  <2>1. Len(<<>>) = 0
    OBVIOUS
  <2>2. Entries = [k \in 1 .. 0 |-> Content(<<>>[k])]
    BY <1>1, <2>1, EntriesOf
  <2> QED BY <2>2
<1>3. \A t \in Thread : Doing(t) = "idle" /\ Value(t) = NoMsg
  BY DEF Init, Doing, Value
<1> QED BY <1>2, <1>3 DEF Fifo!Init

LEMMA NextFifo ==
  ASSUME ListInv, [Next]_vars PROVE [Fifo!Next]_(Fifo!vars)
<1>1. Inv /\ Inv' /\ Loaded
  BY NextInv DEF ListInv
<1>2. PICK q \in Seq(Item), f \in Seq(Item) : Shape(q, f)
  BY DEF ListInv
<1>3. ASSUME NEW t \in Thread, Push(t) \/ Pop(t) \/ AcquireLock(t) \/ ReleaseLock(t)
      PROVE  \/ Fifo!Push(t) \/ Fifo!Pushed(t) \/ Fifo!Pop(t)
             \/ Fifo!Empty(t) \/ Fifo!Popped(t) \/ Fifo!Return(t)
             \/ UNCHANGED Fifo!vars
  <2>1. CASE CallPush(t) \/ CallPop(t) \/ AcquireLock(t) \/ ReleaseLock(t)
             \/ AllocItem(t) \/ Fill(t) \/ Recycle(t)
    <3>1. \E g : Shape(q, g)'
      <4>1. CASE AllocItem(t)
        BY <1>1, <1>2, <4>1, AllocShape
      <4>2. CASE Recycle(t)
        BY <1>1, <1>2, <4>2, RecycleShape
      <4>3. CASE ~(AllocItem(t) \/ Recycle(t))
        BY <1>1, <1>2, <2>1, <4>3, SameShape
      <4> QED BY <4>1, <4>2, <4>3
    <3>2. \A k \in 1 .. Len(q) : q[k] \in Item
      OBVIOUS
    <3>3. \A k \in 1 .. Len(q) : Content(q[k])' = Content(q[k])
      BY <1>1, <2>1, <3>2, SameContent
    <3>4. Entries' = Entries
      BY <1>1, <1>2, <3>1, <3>3, SameEntries
    <3> QED BY <1>1, <1>2, <2>1, <3>4, CallPushFifo, CallPopFifo, AllocFifo, StayFifo
  <2>2. CASE Link(t)
    <3> DEFINE i == item[t]
    <3>1. PICK j : j = i
      OBVIOUS
    <3>2. Shape(Append(q, j), f)'
      BY <1>1, <1>2, <2>2, <3>1, LinkShape
    <3> QED BY <1>1, <1>2, <2>2, <3>1, <3>2, LinkFifo
  <2>3. CASE Unlink(t)
    BY <1>1, <1>2, <2>3, UnlinkShape, UnlinkFifo
  <2> QED BY <1>3, <2>1, <2>2, <2>3 DEF Push, Pop
<1>4. CASE Delete
  BY <1>1, <1>2, <1>4, DeleteShape, DeleteFifo DEF Fifo!Next
<1>5. CASE UNCHANGED vars
  <2>1. Shape(q, f)'
    BY <1>2, <1>5 DEF vars, Shape, Chain, Filled, Held
  <2>2. \A k \in 1 .. Len(q) : Content(q[k])' = Content(q[k])
    BY <1>5 DEF vars, Content
  <2>3. Entries' = Entries
    BY <1>1, <1>2, <2>1, <2>2, SameEntries
  <2>4. \A t \in Thread : Unmoved(t)
    BY <1>5 DEF vars, Unmoved, Doing, Value
  <2> QED BY <2>3, <2>4, Staying
<1> QED BY <1>3, <1>4, <1>5 DEF Next, Fifo!Next

\* The log queue implements a FIFO that loses and repeats no entry.
THEOREM QueueIsFifo == Spec => Implements
  BY ListInvariance, InitFifo, NextFifo, PTL DEF Spec, Implements, Fifo!Spec
=============================================================================
