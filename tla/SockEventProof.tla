--------------------------- MODULE SockEventProof ---------------------------
(***************************************************************************)
(* For any set of triggering threads: no wakeup of a sockEvent is lost,    *)
(* and sockEvent.go implements the flag of module Event.                   *)
(***************************************************************************)
EXTENDS SockEvent, FiniteSetTheorems, TLAPS

\* The inductive invariant: the byte open() wrote is in the pipe until open()
\* has cleared e and the first wait() can read it.
Opening == owner = "opened" => bytes > 0
Inv == TypeOK /\ Opening /\ NoLostWakeup

LEMMA InitInv == Init => Inv
  BY DEF Init, Inv, TypeOK, Opening, NoLostWakeup, Pipe, Sound

LEMMA OwnInv == Inv /\ Own => Inv'
<1> SUFFICES ASSUME Inv, Own PROVE Inv'
  OBVIOUS
<1> USE DEF Inv, TypeOK, Opening, NoLostWakeup, Sound, Writing, Pipe, pipeVars
<1>1. CASE Open \/ OpenFails
  BY <1>1 DEF Open, OpenFails
<1>2. CASE OpenPipe
  BY <1>2 DEF OpenPipe, Fd
<1>3. CASE OpenDone
  BY <1>3 DEF OpenDone
<1>4. CASE Close
  BY <1>4 DEF Close, Closed
<1>5. CASE Wait
  BY <1>5 DEF Wait
<1>6. CASE Read
  BY <1>6 DEF Read
<1>7. CASE Clear
  BY <1>7 DEF Clear
<1> QED
  BY <1>1, <1>2, <1>3, <1>4, <1>5, <1>6, <1>7 DEF Own

LEMMA TriggerInv ==
  ASSUME Inv, NEW t \in Trigger, Call(t) \/ Load(t) \/ Store(t) \/ Write(t)
  PROVE Inv'
<1> USE DEF Inv, TypeOK, Opening, NoLostWakeup, Sound, Writing, Pipe, pipeVars, At
<1>1. CASE Call(t)
  BY <1>1 DEF Call
<1>2. CASE Load(t)
  BY <1>2 DEF Load
<1>3. CASE Store(t)
  BY <1>3 DEF Store
<1>4. CASE Write(t)
  BY <1>4 DEF Write
<1> QED
  BY <1>1, <1>2, <1>3, <1>4

LEMMA StutterInv == Inv /\ UNCHANGED vars => Inv'
  BY DEF Inv, TypeOK, Opening, NoLostWakeup, Sound, Writing, Pipe, vars

LEMMA Invariance == Spec => []Inv
<1>1. Inv /\ [Next]_vars => Inv'
  BY OwnInv, TriggerInv, StutterInv DEF Next
<1> QED
  BY InitInv, <1>1, PTL DEF Spec

\* Triggers are never all suppressed while the owner blocks in read().
THEOREM WakeupNotLost == Spec => []NoLostWakeup
<1>1. Inv => NoLostWakeup
  BY DEF Inv
<1> QED
  BY Invariance, <1>1, PTL

\* The fields hold what their Go types can hold.
THEOREM TypeCorrect == Spec => []TypeOK
<1>1. Inv => TypeOK
  BY DEF Inv
<1> QED
  BY Invariance, <1>1, PTL

----------------------------------------------------------------------------
(* Refinement: which steps of the two sides are steps of the promise *)

LEMMA InitPromise == Init => Promise!Init
  BY DEF Init, Promise!Init, Set, Sound

LEMMA OwnPromise == Inv /\ Own => [Promise!Next]_(Promise!vars)
<1> SUFFICES ASSUME Inv, Own PROVE [Promise!Next]_(Promise!vars)
  OBVIOUS
<1> USE DEF Inv, TypeOK, Pipe, Set, Sound, Writing, pipeVars, Promise!vars, Promise!Next
<1>1. CASE Open \/ OpenFails \/ OpenPipe
  BY <1>1 DEF Open, OpenFails, OpenPipe
<1>2. CASE OpenDone
  BY <1>2 DEF OpenDone, Opening
<1>3. CASE Close
  BY <1>3 DEF Close, Promise!Renew
<1>4. CASE Wait
  BY <1>4 DEF Wait, Promise!Wait
<1>5. CASE Read
  BY <1>5 DEF Read, Promise!Return
<1>6. CASE Clear
  BY <1>6 DEF Clear, Promise!Return
<1> QED
  BY <1>1, <1>2, <1>3, <1>4, <1>5, <1>6 DEF Own

LEMMA TriggerPromise ==
  ASSUME Inv, NEW t \in Trigger, Call(t) \/ Load(t) \/ Store(t) \/ Write(t)
  PROVE [Promise!Next]_(Promise!vars)
<1> USE DEF Inv, TypeOK, Set, Sound, pipeVars, At
<1>1. CASE Call(t)
  <2>1. Promise!Call(t)
    BY <1>1 DEF Call, Writing, Promise!Call
  <2> QED
    BY <2>1 DEF Promise!Next
<1>2. CASE Load(t) /\ trig'[t] = "idle"
  <2>1. wr = "invalid" \/ e = 1
    BY <1>2 DEF Load
  <2>2. Set
    BY <2>1 DEF NoLostWakeup
  <2>3. Set' = Set
    BY <1>2 DEF Load, Writing
  <2>4. Promise!Take(t)
    BY <1>2, <2>2, <2>3 DEF Load, Promise!Take
  <2> QED
    BY <2>4 DEF Promise!Next
<1>3. CASE Load(t) /\ trig'[t] = "store"
  BY <1>3 DEF Load, Writing, Promise!vars
<1>4. CASE Store(t)
  <2>1. Promise!Take(t)
    BY <1>4 DEF Store, Writing, Promise!Take
  <2> QED
    BY <2>1 DEF Promise!Next
<1>5. CASE Write(t)
  <2>1. Set /\ Set'
    BY <1>5 DEF Write, Writing
  <2> QED
    BY <1>5, <2>1 DEF Write, Promise!vars
<1> QED
  BY <1>1, <1>2, <1>3, <1>4, <1>5 DEF Load

LEMMA StutterPromise == UNCHANGED vars => UNCHANGED Promise!vars
  BY DEF vars, Promise!vars, Set, Sound, Writing

\* Every behaviour of sockevent.go is one of the flag: a trigger() leaves it
\* set even when it writes nothing, a wait() returns only when it is set.
THEOREM SockEventImplementsEvent == Spec => Implements
<1>1. Inv /\ [Next]_vars => [Promise!Next]_(Promise!vars)
  BY OwnPromise, TriggerPromise, StutterPromise DEF Next
<1> QED
  BY InitPromise, Invariance, <1>1, PTL DEF Spec, Implements, Promise!Spec
----------------------------------------------------------------------------
(* The bytes in the pipe.  Each is written by a thread that has loaded a   *)
(* flag 0; how often a flag can be 0 before the next read() is what limits *)
(* them.                                                                   *)

In(p) == {t \in Trigger : trig[t] = p}
Threads == Cardinality(Trigger)

\* What may still be written for the flag as it is: while it is 0 every thread
\* may load it, once it is 1 only those go on that have loaded it before.
ForFlag == IF e = 0 THEN Threads ELSE Cardinality(In("store"))
\* What may be written for the flag that wait() or open() is about to clear
ForClear == IF owner \in {"clear", "opened"} THEN Threads ELSE 0

Budget ==
  bytes + Cardinality(In("write")) + ForFlag + ForClear <= 3 * Threads + 1

\* Threads at two places of trigger() are counted once each.
LEMMA CountIn ==
  ASSUME TypeOK, IsFiniteSet(Trigger), NEW p, NEW q, p # q
  PROVE  /\ Cardinality(In(p)) \in Nat /\ Cardinality(In(q)) \in Nat /\ Threads \in Nat
         /\ Cardinality(In(p)) + Cardinality(In(q)) <= Threads
<1>1. In(p) \in SUBSET Trigger /\ In(q) \in SUBSET Trigger /\ In(p) \cup In(q) \in SUBSET Trigger
      /\ In(p) \cap In(q) = {}
  BY DEF In
<1>2. IsFiniteSet(In(p)) /\ IsFiniteSet(In(q))
  BY <1>1, FS_Subset
<1>3. Cardinality(In(p) \cup In(q)) <= Cardinality(Trigger)
  BY <1>1, FS_Subset
<1>4. Cardinality(In(p) \cup In(q))
        = Cardinality(In(p)) + Cardinality(In(q)) - Cardinality({})
  BY <1>1, <1>2, FS_Union
<1>5. Cardinality({}) = 0
  BY FS_EmptySet
<1>6. Cardinality(In(p)) \in Nat /\ Cardinality(In(q)) \in Nat /\ Cardinality(Trigger) \in Nat
  BY <1>2, FS_CardinalityType
<1> QED
  BY <1>3, <1>4, <1>5, <1>6 DEF Threads

\* A thread that moves leaves one place and enters another.
LEMMA CountMove ==
  ASSUME TypeOK, IsFiniteSet(Trigger), NEW t \in Trigger, NEW from,
         NEW to \in {"idle", "load", "store", "write"}, from # to, At(t, from, to)
  PROVE  /\ Cardinality(In(from))' = Cardinality(In(from)) - 1
         /\ Cardinality(In(to))' = Cardinality(In(to)) + 1
         /\ \A p : p \notin {from, to} => Cardinality(In(p))' = Cardinality(In(p))
<1> USE DEF TypeOK, At
<1>1. /\ In(from)' = In(from) \ {t} /\ t \in In(from)
      /\ In(to)' = In(to) \cup {t} /\ t \notin In(to)
      /\ \A p : p \notin {from, to} => In(p)' = In(p)
  BY DEF In
<1>2. In(from) \in SUBSET Trigger /\ In(to) \in SUBSET Trigger
  BY DEF In
<1>3. IsFiniteSet(In(from)) /\ IsFiniteSet(In(to))
  BY <1>2, FS_Subset
<1>4. Cardinality(In(from) \ {t}) = Cardinality(In(from)) - 1
  BY <1>1, <1>3, FS_RemoveElement
<1>5. Cardinality(In(to) \cup {t}) = Cardinality(In(to)) + 1
  BY <1>1, <1>3, FS_AddElement
<1> QED
  BY <1>1, <1>4, <1>5

\* Steps of the owner leave the triggers where they are.
LEMMA CountStays ==
  ASSUME UNCHANGED trig
  PROVE  \A p : Cardinality(In(p))' = Cardinality(In(p))
  BY DEF In

LEMMA OwnBudget ==
  ASSUME IsFiniteSet(Trigger), Inv, Budget, Own
  PROVE  Budget'
<1>1. UNCHANGED trig
  BY DEF Own, Open, OpenFails, OpenPipe, OpenDone, Close, Wait, Read, Clear
<1>2. /\ Cardinality(In("store"))' = Cardinality(In("store"))
      /\ Cardinality(In("write"))' = Cardinality(In("write"))
      /\ Threads' = Threads
  BY <1>1, CountStays DEF Threads
<1>3. /\ Cardinality(In("store")) \in Nat /\ Cardinality(In("write")) \in Nat /\ Threads \in Nat
      /\ Cardinality(In("store")) + Cardinality(In("write")) <= Threads
  BY CountIn DEF Inv
<1>4. bytes \in Nat /\ e \in {0, 1}
  BY DEF Inv, TypeOK
<1> USE DEF Budget, ForFlag, ForClear, pipeVars
<1>5. CASE Open \/ OpenFails
  BY <1>2, <1>3, <1>4, <1>5 DEF Open, OpenFails
<1>6. CASE OpenPipe
  BY <1>2, <1>3, <1>4, <1>6 DEF OpenPipe
<1>7. CASE OpenDone \/ Clear
  BY <1>2, <1>3, <1>4, <1>7 DEF OpenDone, Clear
<1>8. CASE Close \/ Wait
  BY <1>2, <1>3, <1>4, <1>8 DEF Close, Wait
<1>9. CASE Read
  BY <1>2, <1>3, <1>4, <1>9 DEF Read
<1> QED
  BY <1>5, <1>6, <1>7, <1>8, <1>9 DEF Own

LEMMA TriggerBudget ==
  ASSUME IsFiniteSet(Trigger), Inv, Budget, NEW t \in Trigger,
         Call(t) \/ Load(t) \/ Store(t) \/ Write(t)
  PROVE  Budget'
<1>1. /\ Cardinality(In("store")) \in Nat /\ Cardinality(In("write")) \in Nat /\ Threads \in Nat
      /\ Cardinality(In("store")) + Cardinality(In("write")) <= Threads
  BY CountIn DEF Inv
<1>2. bytes \in Nat /\ e \in {0, 1} /\ TypeOK
  BY DEF Inv, TypeOK
<1>3. Threads' = Threads /\ UNCHANGED owner
  BY DEF Threads, Call, Load, Store, Write
<1> USE DEF Budget, ForFlag, ForClear, pipeVars
<1>4. CASE Call(t)
  <2>1. /\ Cardinality(In("store"))' = Cardinality(In("store"))
        /\ Cardinality(In("write"))' = Cardinality(In("write"))
    BY <1>2, <1>4, CountMove DEF Call
  <2> QED
    BY <1>1, <1>2, <1>3, <1>4, <2>1 DEF Call
<1>5. CASE Load(t) /\ trig'[t] = "idle"
  <2>1. At(t, "load", "idle")
    BY <1>2, <1>5 DEF Load, At, TypeOK
  <2>2. /\ Cardinality(In("store"))' = Cardinality(In("store"))
        /\ Cardinality(In("write"))' = Cardinality(In("write"))
    BY <1>2, <2>1, CountMove
  <2> QED
    BY <1>1, <1>2, <1>3, <1>5, <2>2 DEF Load
<1>6. CASE Load(t) /\ trig'[t] # "idle"
  <2>1. At(t, "load", "store") /\ e = 0
    BY <1>2, <1>6 DEF Load, At, TypeOK
  <2>2. Cardinality(In("write"))' = Cardinality(In("write"))
    BY <1>2, <2>1, CountMove
  <2> QED
    BY <1>1, <1>2, <1>3, <1>6, <2>1, <2>2 DEF Load
<1>7. CASE Store(t)
  <2>1. /\ Cardinality(In("store"))' = Cardinality(In("store")) - 1
        /\ Cardinality(In("write"))' = Cardinality(In("write")) + 1
    BY <1>2, <1>7, CountMove DEF Store
  <2> QED
    BY <1>1, <1>2, <1>3, <1>7, <2>1 DEF Store
<1>8. CASE Write(t)
  <2>1. /\ Cardinality(In("store"))' = Cardinality(In("store"))
        /\ Cardinality(In("write"))' = Cardinality(In("write")) - 1
    BY <1>2, <1>8, CountMove DEF Write
  <2> QED
    BY <1>1, <1>2, <1>3, <1>8, <2>1 DEF Write
<1> QED
  BY <1>4, <1>5, <1>6, <1>7, <1>8

\* One read() of 128 bytes is enough to empty the pipe when at most 42 threads
\* trigger: each adds three bytes at most between two reads, whatever the
\* interleaving (sockevent.go:146-169).
THEOREM PipeIsBounded ==
  ASSUME IsFiniteSet(Trigger)
  PROVE  Spec => []BytesBounded
<1>1. Init => Budget
  <2> SUFFICES ASSUME Init PROVE Budget
    OBVIOUS
  <2>1. In("store") = {} /\ In("write") = {} /\ Threads \in Nat
    BY FS_CardinalityType DEF Init, In, Threads
  <2> QED
    BY <2>1, FS_EmptySet DEF Init, Budget, ForFlag, ForClear
<1>2. Inv /\ Budget /\ [Next]_vars => Budget'
  <2>1. ASSUME Inv, Budget, UNCHANGED vars PROVE Budget'
    BY <2>1 DEF vars, Budget, ForFlag, ForClear, In, Threads
  <2> QED
    BY <2>1, OwnBudget, TriggerBudget DEF Next
<1>3. Inv /\ Budget => BytesBounded
  <2> SUFFICES ASSUME Inv, Budget PROVE BytesBounded
    OBVIOUS
  <2>1. /\ Cardinality(In("store")) \in Nat /\ Cardinality(In("write")) \in Nat
        /\ Threads \in Nat
        /\ Cardinality(In("store")) + Cardinality(In("write")) <= Threads
    BY CountIn DEF Inv
  <2> QED
    BY <2>1 DEF Budget, ForFlag, ForClear, BytesBounded, Threads, Inv, TypeOK
<1> QED
  BY <1>1, <1>2, <1>3, Invariance, PTL DEF Spec
=============================================================================
