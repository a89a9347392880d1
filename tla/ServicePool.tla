----------------------------- MODULE ServicePool -----------------------------
(***************************************************************************)
(* The pool of services (service.go 167-185, 342-504): an array of slots   *)
(* and a counter of ids.  The service with an id is in the slot of the     *)
(* id's low bits; getService() does not look whose slot it is.             *)
(***************************************************************************)
EXTENDS Integers

CONSTANTS
  MaxService,   \* config.max_service, which load() makes a power of two
  Half          \* 2^31: a serviceId is an int32

ASSUME PoolAssumption ==
  /\ MaxService \in Nat \ {0} /\ \E e \in 0 .. 30 : MaxService = 2 ^ e
  /\ Half \in Nat \ {0, 1} /\ Half % MaxService = 0

serviceIdRoot == 1
serviceId == -Half .. Half - 1
Nobody == Half                  \* nil, for a slot with no service
Slot == 0 .. MaxService - 1

\* mutant of int32: it is as wide as it takes
unbounded(x) == x

int32(x) == ((x + Half) % (2 * Half)) - Half

VARIABLES
  id,           \* the id of the last service, or one more
  s,            \* whose slot it is
  status        \* "none", "uninitialized", "idle" (scheduled or not) or "dead"

poolVars == <<id, s, status>>

index(i) == i % MaxService
getService(i) == s[index(i)]
getStatus(i) == IF getService(i) = Nobody THEN "dead" ELSE status[index(i)]

setService(i, who, st) ==
  /\ s' = [s EXCEPT ![index(i)] = who]
  /\ status' = [status EXCEPT ![index(i)] = st]

\* mutant of newService: the last slot it looks at is taken, free or not
newServiceAny(i) ==
  \E k \in 1 .. MaxService :
    /\ i = int32(id + k) /\ (getService(i) = Nobody \/ k = MaxService)
    /\ \A j \in 1 .. k - 1 : getService(int32(id + j)) # Nobody
    /\ id' = int32(i + 1)
    /\ setService(i, i, "uninitialized")

\* mutant of newService: the service goes where the counter stands then
newServiceNext(i) ==
  \E k \in 1 .. MaxService :
    /\ i = int32(id + k) /\ getService(i) = Nobody
    /\ \A j \in 1 .. k - 1 : getService(int32(id + j)) # Nobody
    /\ id' = int32(i + 1)
    /\ s' = [s EXCEPT ![index(id')] = i]
    /\ status' = [status EXCEPT ![index(id')] = "uninitialized"]

\* newService with no id wanted tries as many ids as there are slots, from the
\* one after the counter, which it leaves one beyond the id it takes: of two
\* ids, one is skipped
newService(i) ==
  \E k \in 1 .. MaxService :
    /\ i = int32(id + k) /\ getService(i) = Nobody
    /\ \A j \in 1 .. k - 1 : getService(int32(id + j)) # Nobody
    /\ id' = int32(i + 1)
    /\ setService(i, i, "uninitialized")

Full == \A j \in Slot : s[j] # Nobody

deleteService(i) ==
  /\ setService(i, Nobody, "none")
  /\ UNCHANGED id

\* initService of core.go: a service that fails is deleted
initService(i, ok) ==
  /\ getService(i) # Nobody /\ status[index(i)] = "uninitialized"
  /\ IF ok THEN setService(i, getService(i), "idle") /\ UNCHANGED id
     ELSE deleteService(i)

\* The main loop of a service has returned
Ends(i) ==
  /\ getService(i) = i /\ status[index(i)] = "idle"
  /\ setService(i, i, "dead") /\ UNCHANGED id

\* closeService: only a dead service
closeService(i) == getStatus(i) = "dead" /\ deleteService(i)

PoolInit ==
  /\ id = 0
  /\ s = [j \in Slot |-> IF j = index(serviceIdRoot) THEN serviceIdRoot ELSE Nobody]
  /\ status = [j \in Slot |-> IF j = index(serviceIdRoot) THEN "idle" ELSE "none"]

PoolNext == \E i \in serviceId :
  \/ newService(i) \/ Ends(i) \/ closeService(i)
  \/ \E ok \in BOOLEAN : initService(i, ok)

PoolSpec == PoolInit /\ [][PoolNext]_poolVars

----------------------------------------------------------------------------

\* The type invariant of the pool (service.go:167-172).
PoolTypeOK ==
  /\ id \in serviceId
  /\ s \in [Slot -> serviceId \cup {Nobody}]
  /\ status \in [Slot -> {"none", "uninitialized", "idle", "dead"}]

\* A service is in the slot its id leads to, so that no two services have one
\* id, and an id in use leads to its own service (service.go:370-432).
OwnSlot == \A j \in Slot :
  /\ s[j] # Nobody => index(s[j]) = j
  /\ s[j] = Nobody <=> status[j] = "none"

\* A service keeps its slot until it is deleted: newService never puts another
\* one over it, however full the pool (service.go:370-407).
SlotKept == [][\A j \in Slot : s[j] # Nobody => s'[j] \in {s[j], Nobody}]_poolVars
=============================================================================
