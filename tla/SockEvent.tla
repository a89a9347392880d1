----------------------------- MODULE SockEvent -----------------------------
(***************************************************************************)
(* One sockEvent (sockevent.go): a pair of connected sockets and a flag e. *)
(* trigger() writes a byte unless e says that one is under way; wait()     *)
(* blocks in read() and then clears e.  No lock is held: a trigger is cut  *)
(* between its load of e, its store and its write, a wait between its read *)
(* and its store, open() between the descriptors and byte, and the store.  *)
(*                                                                         *)
(* The event belongs to one service at a time: open() and wait() are       *)
(* called by the worker that runs it (ltask.go:54-81), close() by the one  *)
(* that runs root once the service is dead (root.go:27-41), trigger() by   *)
(* the dispatcher and by the worker that quits root (core.go:117,138-142). *)
(***************************************************************************)
EXTENDS Integers, FiniteSets

CONSTANTS
  Trigger,      \* the threads that call trigger()
  FdMayFail     \* netConnToFd may fail, which open() only logs

ASSUME SockEventAssumption == FdMayFail \in BOOLEAN

VARIABLES
  rd, wr,       \* pipe[0] and pipe[1]: "invalid", "open" or "stale" (closed)
  bytes,        \* what read() would return
  e,
  owner,        \* "none" (free), "open", "opened" (the byte is written),
                \* "idle", "read", "clear" (e not yet cleared), or "lost":
                \* allocated for good to a service that could not open it
  trig          \* the place of each trigger: "idle", "load", "store", "write"

vars == <<rd, wr, bytes, e, owner, trig>>
pipeVars == <<rd, wr, bytes>>

Init ==
  /\ rd = "invalid" /\ wr = "invalid"
  /\ bytes = 0 /\ e = 1
  /\ owner = "none"
  /\ trig = [t \in Trigger |-> "idle"]

----------------------------------------------------------------------------
(* open() and close() *)

\* A pipe that was ever open refuses.  The event stays allocated.
Open ==
  /\ owner = "none"
  /\ owner' = IF rd = "invalid" THEN "open" ELSE "lost"
  /\ UNCHANGED <<pipeVars, e, trig>>

\* Nothing to connect to; or the byte cannot be written, after which close()
OpenFails ==
  /\ owner = "open"
  /\ owner' = "lost"
  /\ \/ UNCHANGED <<rd, wr>>
     \/ rd' = "stale" /\ wr' = "stale"
  /\ UNCHANGED <<bytes, e, trig>>

Fd == IF FdMayFail THEN {"invalid", "open"} ELSE {"open"}

OpenPipe ==
  /\ owner = "open"
  /\ rd' \in Fd /\ wr' \in Fd
  /\ bytes' = 1
  /\ owner' = "opened"
  /\ UNCHANGED <<e, trig>>

OpenDone ==
  /\ owner = "opened"
  /\ e' = 0
  /\ owner' = "idle"
  /\ UNCHANGED <<pipeVars, trig>>

Closed(p) == IF p = "open" THEN "stale" ELSE p

\* The descriptors are closed and keep their numbers
Close ==
  /\ owner = "idle"
  /\ rd' = Closed(rd) /\ wr' = Closed(wr)
  /\ owner' = "none"
  /\ UNCHANGED <<bytes, e, trig>>

----------------------------------------------------------------------------
(* wait() *)

Wait ==
  /\ owner = "idle"
  /\ owner' = "read"
  /\ UNCHANGED <<pipeVars, e, trig>>

\* mutants of Read: it does not block; it takes a byte that may not be there
ReadNothing ==
  /\ owner = "read"
  /\ bytes' = 0
  /\ owner' = "clear"
  /\ UNCHANGED <<rd, wr, e, trig>>
ReadOne ==
  /\ owner = "read"
  /\ bytes' = bytes - 1
  /\ owner' = "clear"
  /\ UNCHANGED <<rd, wr, e, trig>>

\* No pipe: wait() returns 0.  A pipe that never got a good write end has its only
\* one closed when open() returns (writeConn.Close), so that read() finds the end of
\* the file once it is empty.  The 128 bytes asked for are all there can be.
Read ==
  /\ owner = "read"
  /\ IF rd = "invalid"
     THEN owner' = "idle" /\ UNCHANGED bytes
     ELSE (bytes > 0 \/ wr = "invalid") /\ owner' = "clear" /\ bytes' = 0
  /\ UNCHANGED <<rd, wr, e, trig>>

\* mutant of Clear: e keeps its value
ClearNothing ==
  /\ owner = "clear"
  /\ owner' = "idle"
  /\ UNCHANGED <<pipeVars, e, trig>>

Clear ==
  /\ owner = "clear"
  /\ e' = 0
  /\ owner' = "idle"
  /\ UNCHANGED <<pipeVars, trig>>

----------------------------------------------------------------------------
(* trigger() *)

At(t, from, to) == trig[t] = from /\ trig' = [trig EXCEPT ![t] = to]

Call(t) == At(t, "idle", "load") /\ UNCHANGED <<pipeVars, e, owner>>

\* mutant of Load: e is not looked at
LoadNothing(t) ==
  /\ At(t, "load", IF wr = "invalid" THEN "idle" ELSE "store")
  /\ UNCHANGED <<pipeVars, e, owner>>

Load(t) ==
  /\ At(t, "load", IF wr = "invalid" \/ e # 0 THEN "idle" ELSE "store")
  /\ UNCHANGED <<pipeVars, e, owner>>

Store(t) ==
  /\ At(t, "store", "write")
  /\ e' = 1
  /\ UNCHANGED <<pipeVars, owner>>

Write(t) ==
  /\ At(t, "write", "idle")
  /\ bytes' = IF wr = "open" THEN bytes + 1 ELSE bytes
  /\ UNCHANGED <<rd, wr, e, owner>>

----------------------------------------------------------------------------

Own == Open \/ OpenFails \/ OpenPipe \/ OpenDone \/ Close \/ Wait \/ Read \/ Clear

Next == Own \/ \E t \in Trigger : Call(t) \/ Load(t) \/ Store(t) \/ Write(t)

Spec == Init /\ [][Next]_vars

\* A thread inside trigger(), and one in wait() that can go on, goes on.
FairSpec ==
  /\ Spec
  /\ WF_vars(Read \/ Clear)
  /\ \A t \in Trigger : WF_vars(Load(t) \/ Store(t) \/ Write(t))

----------------------------------------------------------------------------

Pipe == {"invalid", "open", "stale"}

\* The type invariant (sockevent.go:15-18 and the places in its functions).
TypeOK ==
  /\ rd \in Pipe /\ wr \in Pipe
  /\ bytes \in Nat
  /\ e \in {0, 1}
  /\ owner \in {"none", "open", "opened", "idle", "read", "clear", "lost"}
  /\ trig \in [Trigger -> {"idle", "load", "store", "write"}]

\* One read() of 128 bytes empties the pipe: between two of them a trigger
\* writes at most three bytes, for a flag it loaded before the first read,
\* between that read and the store that clears the flag, and after it
\* (sockevent.go:146-169).
BytesBounded == bytes <= 3 * Cardinality(Trigger) + 1

\* An event that an owner uses and whose two descriptors are good
Sound == /\ rd = "open" /\ wr = "open"
         /\ owner \in {"idle", "read", "clear"}
Writing == \E t \in Trigger : trig[t] = "write"

\* Triggers are never all suppressed while the owner blocks: if e says that a
\* byte is under way, it is in the pipe, or a thread is about to write it, or
\* wait() is about to clear e (sockevent.go:150-153 against 163-167).
NoLostWakeup == Sound /\ owner # "clear" /\ e = 1 => bytes > 0 \/ Writing

\* sockEvent implements Event, whatever the interleaving: wait() returns only
\* after a trigger or an early byte, and a trigger that wrote nothing because
\* of e is answered by the byte of another one.
Set == ~Sound \/ bytes > 0 \/ Writing \/ owner = "clear"
Promise == INSTANCE Event WITH
  set <- Set,
  calling <- {t \in Trigger : trig[t] \in {"load", "store"}},
  waiting <- owner \in {"read", "clear"}
Implements == Promise!Spec

\* A wait() on a good pipe during which trigger() is called returns, even when
\* that call finds e set and writes nothing (core.go:112-117 relies on it).
WaitReturns ==
  (owner = "read" /\ Sound /\ \E t \in Trigger : trig[t] = "load")
    ~> owner # "read"
=============================================================================
