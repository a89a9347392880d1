------------------------------ MODULE RootProof ------------------------------
(***************************************************************************)
(* Proofs about the service pool and root: the pool keeps every service in *)
(* a slot of its own, and root uses the pool as module ServicePool says,   *)
(* so that the same holds of root; a name has one service, whoever waits   *)
(* for one is served, and root has every service in its tables.  For any   *)
(* number of slots, any width of an id, any names and any bootstrap.       *)
(***************************************************************************)
EXTENDS Root, FiniteSetTheorems, SequenceTheorems, TLAPS

----------------------------------------------------------------------------
(* The arithmetic of ids *)

\* The low bits of an id are a slot, for negative ids too (service.go:426-432).
LEMMA IndexIsSlot == ASSUME NEW i \in Int PROVE index(i) \in Slot
  BY PoolAssumption DEF index, Slot

\* A sum of ids is an id again once it is cut to its width (service.go:383-390).
LEMMA Int32IsId == ASSUME NEW x \in Int PROVE int32(x) \in serviceId
  <1> DEFINE w == 2 * Half
  <1>1. w \in Nat \ {0} BY PoolAssumption
  <1>2. (x + Half) % w \in 0 .. w - 1 BY <1>1, PoolAssumption
  <1>3. int32(x) = ((x + Half) % w) - Half BY DEF int32
  <1> HIDE DEF w
  <1>4. w = 2 * Half BY DEF w
  <1> QED BY <1>2, <1>3, <1>4, PoolAssumption DEF serviceId

----------------------------------------------------------------------------
(* The pool *)

PoolInv == PoolTypeOK /\ OwnSlot

\* A slot is given to a service that belongs there, or to none
\* (service.go:430-432, 495-504).
LEMMA SetServiceKeeps ==
  ASSUME PoolInv, NEW i \in Int, NEW who \in serviceId \cup {Nobody}, NEW st,
         st \in {"none", "uninitialized", "idle", "dead"},
         who = Nobody <=> st = "none",
         who # Nobody => index(who) = index(i),
         setService(i, who, st), id' \in serviceId
  PROVE  PoolInv'
  <1>1. index(i) \in Slot BY IndexIsSlot
  <1> QED BY <1>1 DEF PoolInv, PoolTypeOK, OwnSlot, setService, index

\* A new service goes where nobody is (service.go:370-407).
LEMMA NewServiceKeeps ==
  ASSUME PoolInv, NEW i \in serviceId, newService(i)
  PROVE  PoolInv' /\ getService(i) = Nobody /\ setService(i, i, "uninitialized")
  <1>1. i \in Int /\ i # Nobody BY PoolAssumption DEF serviceId, Nobody
  <1>2. id' \in serviceId BY <1>1, Int32IsId DEF newService
  <1>3. getService(i) = Nobody /\ setService(i, i, "uninitialized") BY DEF newService
  <1>4. PoolInv' BY <1>1, <1>2, <1>3, SetServiceKeeps
  <1> QED BY <1>3, <1>4

LEMMA DeleteServiceKeeps ==
  ASSUME PoolInv, NEW i \in serviceId, deleteService(i)
  PROVE  PoolInv'
  <1>1. i \in Int BY PoolAssumption DEF serviceId
  <1>2. id' \in serviceId BY DEF deleteService, PoolInv, PoolTypeOK
  <1> QED BY <1>1, <1>2, SetServiceKeeps DEF deleteService

LEMMA InitServiceKeeps ==
  ASSUME PoolInv, NEW i \in serviceId, NEW ok \in BOOLEAN, initService(i, ok)
  PROVE  PoolInv'
  <1>1. CASE ok
    <2>1. i \in Int /\ index(i) \in Slot BY IndexIsSlot, PoolAssumption DEF serviceId
    <2>2. getService(i) \in serviceId /\ getService(i) # Nobody
      BY <1>1, <2>1 DEF initService, getService, PoolInv, PoolTypeOK
    <2>3. index(getService(i)) = index(i)
      BY <2>1, <2>2 DEF PoolInv, OwnSlot, getService
    <2>4. setService(i, getService(i), "idle") /\ id' \in serviceId
      BY <1>1 DEF initService, PoolInv, PoolTypeOK
    <2> QED BY <2>1, <2>2, <2>3, <2>4, SetServiceKeeps
  <1>2. CASE ~ok BY <1>2, DeleteServiceKeeps DEF initService
  <1> QED BY <1>1, <1>2

LEMMA EndsKeeps ==
  ASSUME PoolInv, NEW i \in serviceId, Ends(i)
  PROVE  PoolInv'
  <1>1. i \in Int /\ i # Nobody BY PoolAssumption DEF serviceId, Nobody
  <1>2. setService(i, i, "dead") /\ id' \in serviceId BY DEF Ends, PoolInv, PoolTypeOK
  <1> QED BY <1>1, <1>2, SetServiceKeeps

LEMMA PoolInitial == PoolInit => PoolInv
  <1> SUFFICES ASSUME PoolInit PROVE PoolInv OBVIOUS
  <1>1. serviceIdRoot \in serviceId /\ serviceIdRoot \in Int /\ 0 \in serviceId
    BY PoolAssumption DEF serviceIdRoot, serviceId
  <1>2. index(serviceIdRoot) \in Slot BY <1>1, IndexIsSlot
  <1>3. serviceIdRoot # Nobody BY PoolAssumption DEF serviceIdRoot, Nobody
  <1> QED BY <1>1, <1>2, <1>3 DEF PoolInit, PoolInv, PoolTypeOK, OwnSlot

LEMMA PoolStep == PoolInv /\ [PoolNext]_poolVars => PoolInv'
  <1> SUFFICES ASSUME PoolInv, [PoolNext]_poolVars PROVE PoolInv' OBVIOUS
  <1>1. CASE UNCHANGED poolVars
    BY <1>1 DEF poolVars, PoolInv, PoolTypeOK, OwnSlot
  <1>2. ASSUME NEW i \in serviceId, newService(i) PROVE PoolInv'
    BY <1>2, NewServiceKeeps
  <1>3. ASSUME NEW i \in serviceId, Ends(i) PROVE PoolInv'
    BY <1>3, EndsKeeps
  <1>4. ASSUME NEW i \in serviceId, closeService(i) PROVE PoolInv'
    BY <1>4, DeleteServiceKeeps DEF closeService
  <1>5. ASSUME NEW i \in serviceId, NEW ok \in BOOLEAN, initService(i, ok) PROVE PoolInv'
    BY <1>5, InitServiceKeeps
  <1> QED BY <1>1, <1>2, <1>3, <1>4, <1>5 DEF PoolNext

\* The pool, used by anyone in any order, keeps each service in the slot its id
\* leads to, whatever wraps and whatever is deleted in between
\* (service.go:370-432, 495-504).
THEOREM PoolOwnSlot == PoolSpec => [](PoolTypeOK /\ OwnSlot)
  <1> QED BY PoolInitial, PoolStep, PTL DEF PoolSpec, PoolInv

\* What a step of the pool leaves of a slot with a service in it.
LEMMA PoolStepKeeps ==
  ASSUME PoolInv, [PoolNext]_poolVars, NEW j \in Slot, s[j] # Nobody
  PROVE  s'[j] \in {s[j], Nobody}
  <1>0. s \in [Slot -> serviceId \cup {Nobody}] BY DEF PoolInv, PoolTypeOK
  <1>1. CASE UNCHANGED poolVars BY <1>1 DEF poolVars
  <1>2. ASSUME NEW i \in serviceId, NEW who, NEW st, setService(i, who, st),
               who \in {getService(i), Nobody} \/ getService(i) = Nobody
        PROVE  s'[j] \in {s[j], Nobody}
    <2>1. index(i) \in Slot BY IndexIsSlot, PoolAssumption DEF serviceId
    <2>2. CASE j = index(i) BY <1>0, <1>2, <2>1, <2>2 DEF setService, getService
    <2>3. CASE j # index(i) BY <1>0, <1>2, <2>1, <2>3 DEF setService
    <2> QED BY <2>2, <2>3
  <1>3. ASSUME NEW i \in serviceId, newService(i) PROVE s'[j] \in {s[j], Nobody}
    <2>1. getService(i) = Nobody /\ setService(i, i, "uninitialized")
      BY <1>3, NewServiceKeeps
    <2> QED BY <1>2, <2>1
  <1>4. ASSUME NEW i \in serviceId, deleteService(i) PROVE s'[j] \in {s[j], Nobody}
    <2>1. setService(i, Nobody, "none") BY <1>4 DEF deleteService
    <2> QED BY <1>2, <2>1
  <1>5. ASSUME NEW i \in serviceId, Ends(i) PROVE s'[j] \in {s[j], Nobody}
    <2>1. getService(i) = i /\ setService(i, i, "dead") BY <1>5 DEF Ends
    <2> QED BY <1>2, <2>1
  <1>6. ASSUME NEW i \in serviceId, NEW ok \in BOOLEAN, initService(i, ok)
        PROVE  s'[j] \in {s[j], Nobody}
    <2>1. CASE ok
      <3>1. setService(i, getService(i), "idle") BY <1>6, <2>1 DEF initService
      <3> QED BY <1>2, <3>1
    <2>2. CASE ~ok BY <1>4, <1>6, <2>2 DEF initService
    <2> QED BY <2>1, <2>2
  <1> QED BY <1>1, <1>3, <1>4, <1>5, <1>6 DEF PoolNext, closeService

----------------------------------------------------------------------------
(* Root *)

Inv == TypeOK /\ OwnSlot

\* The constants of root, and who root itself is.
LEMMA Constants ==
  /\ serviceIdRoot \in serviceId /\ none \notin Name /\ none \notin serviceId
  /\ none \notin Nat /\ QueueLen \in Nat \ {0} /\ initSession \in Nat
  /\ Nobody \notin serviceId /\ Nobody # 0 /\ serviceId \subseteq Int
  /\ Len(Bootstrap) \in Nat /\ Finished = Len(Bootstrap) + 2
  /\ \A i \in Slot : index(i) = i
  <1>1. \A i \in Slot : index(i) = i
    BY PoolAssumption DEF Slot, index
  <1> QED BY <1>1, PoolAssumption, RootAssumption
          DEF serviceIdRoot, serviceId, Nobody, Finished, initSession

\* Nothing is not a spawn() under way.
LEMMA NothingIsNone == Nothing \notin Spawn
  BY DEF Nothing, Spawn

\* What root posts to itself are messages.
LEMMA PostsAreMessages ==
  /\ \A who : Fatal(who) \in Seq(Reply) /\ Len(Fatal(who)) \in {0, 1}
  /\ \A box, a : quit(box, a) \in Seq(Post) /\ Len(quit(box, a)) \in {0, 1}
  /\ \A box, a : quit(box, a) # <<>> => Len(box) < QueueLen /\ Len(quit(box, a)) = 1
  /\ \A box, a : \A k \in 1 .. Len(quit(box, a)) : quit(box, a)[k].typ = "quit_ltask"
  /\ <<>> \in Seq(Reply) /\ Reply \subseteq Post
  <1>1. Message("quit_ltask", serviceIdRoot, none) \in Post
    BY Constants DEF Message, Post
  <1>2. Answer("error", initSession) \in Reply BY Constants DEF Answer, Reply
  <1>3. Reply \subseteq Post BY DEF Post
  <1>4. \A box, a : quit(box, a) = <<>> \/ quit(box, a) = <<Message("quit_ltask", serviceIdRoot, none)>>
    BY DEF quit
  <1>5. Message("quit_ltask", serviceIdRoot, none).typ = "quit_ltask" BY DEF Message
  <1>6. ASSUME NEW box, NEW a PROVE quit(box, a) \in Seq(Post) /\ Len(quit(box, a)) \in {0, 1}
    <2>1. CASE quit(box, a) = <<>> BY <2>1
    <2>2. CASE quit(box, a) = <<Message("quit_ltask", serviceIdRoot, none)>> BY <1>1, <2>2
    <2> QED BY <1>4, <2>1, <2>2
  <1>7. \A box, a : quit(box, a) # <<>> => Len(box) < QueueLen /\ Len(quit(box, a)) = 1
    BY DEF quit
  <1>8. \A box, a : \A k \in 1 .. Len(quit(box, a)) : quit(box, a)[k].typ = "quit_ltask"
    BY <1>4, <1>5
  <1>9. \A who : Fatal(who) \in Seq(Reply) /\ Len(Fatal(who)) \in {0, 1}
    BY <1>2 DEF Fatal
  <1> QED BY <1>3, <1>6, <1>7, <1>8, <1>9

\* The answers there is room for are the first ones (lualib/service.lua:237-259).
LEMMA FitIsPrefix ==
  ASSUME NEW box \in Seq(Post), Len(box) <= QueueLen, NEW answers \in Seq(Reply)
  PROVE  /\ Fit(box, answers) \in Seq(Reply)
         /\ Len(Fit(box, answers)) \in 0 .. Len(answers)
         /\ Len(box) + Len(Fit(box, answers)) <= QueueLen
         /\ \A k \in 1 .. Len(Fit(box, answers)) : Fit(box, answers)[k] = answers[k]
         /\ Len(Fit(box, answers)) < Len(answers) =>
              Len(box) + Len(Fit(box, answers)) = QueueLen
  <1> DEFINE n == IF Len(answers) <= QueueLen - Len(box) THEN Len(answers)
                  ELSE QueueLen - Len(box)
  <1>1. /\ Len(box) \in Nat /\ Len(answers) \in Nat
        /\ \A k \in 1 .. Len(answers) : answers[k] \in Reply
    OBVIOUS
  <1>2. n \in 0 .. Len(answers) /\ Len(box) + n <= QueueLen
        /\ (n < Len(answers) => Len(box) + n = QueueLen)
    BY <1>1, Constants
  <1>3. Fit(box, answers) = SubSeq(answers, 1, n) BY DEF Fit
  <1> HIDE DEF n
  <1>4. \A k \in 1 .. n : answers[k] \in Reply BY <1>1, <1>2
  <1>5. /\ SubSeq(answers, 1, n) \in Seq(Reply)
        /\ Len(SubSeq(answers, 1, n)) = IF 1 <= n THEN n - 1 + 1 ELSE 0
        /\ \A k \in 1 .. n - 1 + 1 : SubSeq(answers, 1, n)[k] = answers[1 + k - 1]
    BY <1>2, <1>4, SubSeqProperties
  <1>6. Len(SubSeq(answers, 1, n)) = n BY <1>2, <1>5
  <1>7. \A k \in 1 .. n : SubSeq(answers, 1, n)[k] = answers[k]
    <2>1. \A k \in 1 .. n : k \in 1 .. n - 1 + 1 /\ 1 + k - 1 = k BY <1>2
    <2> QED BY <1>5, <2>1
  <1> QED BY <1>2, <1>3, <1>5, <1>6, <1>7

\* The forks hold answers.
LEMMA ForksAreHeld ==
  ASSUME NEW box \in Seq(Post), Len(box) <= QueueLen, NEW answers \in Seq(Reply),
         NEW who \in serviceId
  PROVE  Forks(box, answers, who) \subseteq [answer : Reply, by : serviceId, tried : BOOLEAN]
  <1>1. \A k \in Len(Fit(box, answers)) + 1 .. Len(answers) : answers[k] \in Reply
    <2>1. Len(Fit(box, answers)) \in 0 .. Len(answers) BY FitIsPrefix
    <2>2. \A k \in Len(Fit(box, answers)) + 1 .. Len(answers) : k \in 1 .. Len(answers) BY <2>1
    <2> QED BY <2>2
  <1> SUFFICES ASSUME NEW h \in Forks(box, answers, who)
               PROVE  h \in [answer : Reply, by : serviceId, tried : BOOLEAN]
    OBVIOUS
  <1>2. PICK k \in Len(Fit(box, answers)) + 1 .. Len(answers) :
          h = [answer |-> answers[k], by |-> who, tried |-> FALSE]
    BY DEF Forks
  <1>3. answers[k] \in Reply BY <1>1
  <1> QED BY <1>2, <1>3

\* Messages put behind the others are messages.
LEMMA BehindKeeps ==
  ASSUME NEW box \in Seq(Post), NEW new \in Seq(Post)
  PROVE  /\ box \o new \in Seq(Post) /\ Len(box \o new) = Len(box) + Len(new)
         /\ \A k \in 1 .. Len(box) : (box \o new)[k] = box[k]
         /\ \A k \in 1 .. Len(new) : (box \o new)[Len(box) + k] = new[k]
         /\ \A k \in 1 .. Len(box \o new) : k \in 1 .. Len(box) \/ k - Len(box) \in 1 .. Len(new)
  OBVIOUS

\* The inbox and the forks after answers have been posted.
LEMMA PostedKeeps ==
  ASSUME TypeOK, NEW box \in Seq(Post), Len(box) <= QueueLen, NEW answers \in Seq(Reply),
         NEW who \in serviceId, Posted(box, answers, who)
  PROVE  /\ inbox' \in Seq(Post) /\ Len(inbox') <= QueueLen
         /\ held' \subseteq [answer : Reply, by : serviceId, tried : BOOLEAN]
  <1>1. /\ Fit(box, answers) \in Seq(Reply)
        /\ Len(box) + Len(Fit(box, answers)) <= QueueLen
    BY FitIsPrefix
  <1>2. Fit(box, answers) \in Seq(Post) BY <1>1, PostsAreMessages, SeqMonotonic
  <1>3. inbox' = box \o Fit(box, answers) BY DEF Posted
  <1>4. inbox' \in Seq(Post) /\ Len(inbox') <= QueueLen BY <1>1, <1>2, <1>3, BehindKeeps
  <1>5. held' = held \cup Forks(box, answers, who) BY DEF Posted
  <1> QED BY <1>4, <1>5, ForksAreHeld DEF TypeOK

\* The first message.
LEMMA HeadsKeeps ==
  ASSUME TypeOK, NEW typ, Heads(typ)
  PROVE  /\ inbox \in Seq(Post) /\ inbox # <<>>
         /\ Tail(inbox) \in Seq(Post) /\ Len(Tail(inbox)) <= QueueLen
         /\ Len(Tail(inbox)) = Len(inbox) - 1 /\ Len(inbox) \in Nat
         /\ Head(inbox) \in Post /\ Head(inbox).typ = typ
         /\ typ \in Question => Head(inbox).name \in Name
         /\ typ \in Question \cup {"signal"} => Head(inbox).from \in serviceId
         /\ typ = "send_retry" => Head(inbox).answer \in Reply
         /\ typ \in {"ok", "error"} => Head(inbox).session \in Nat
  <1>1. inbox \in Seq(Post) /\ inbox # <<>> /\ Len(inbox) <= QueueLen BY DEF TypeOK, Heads
  <1>2. /\ Head(inbox) \in Post /\ Tail(inbox) \in Seq(Post) /\ Len(inbox) \in Nat
        /\ Len(Tail(inbox)) = Len(inbox) - 1
    BY <1>1
  <1>3. Head(inbox).typ = typ BY DEF Heads
  <1> QED BY <1>1, <1>2, <1>3, Constants DEF Post, Question, Reply

\* The messages after one has been taken and answers have been posted.
LEMMA TakesKeeps ==
  ASSUME TypeOK, NEW typ, NEW answers \in Seq(Reply), Takes(typ, answers)
  PROVE  /\ inbox' \in Seq(Post) /\ Len(inbox') <= QueueLen
         /\ held' \subseteq [answer : Reply, by : serviceId, tried : BOOLEAN]
         /\ Head(inbox).typ = typ
         /\ typ \in Question => Head(inbox).name \in Name /\ Head(inbox).from \in serviceId
         /\ typ = "send_retry" => Head(inbox).answer \in Reply
  <1>1. Heads(typ) /\ Posted(Tail(inbox), answers, serviceIdRoot) BY DEF Takes
  <1>2. /\ Tail(inbox) \in Seq(Post) /\ Len(Tail(inbox)) <= QueueLen
        /\ Head(inbox).typ = typ
        /\ typ \in Question => Head(inbox).name \in Name /\ Head(inbox).from \in serviceId
        /\ typ = "send_retry" => Head(inbox).answer \in Reply
    BY <1>1, HeadsKeeps
  <1> QED BY <1>1, <1>2, PostedKeeps, Constants

\* What root sends itself again, after a pass: the first answers are in the inbox.
LEMMA RetriesKeeps ==
  ASSUME TypeOK, Retries
  PROVE  LET fit == Fit(inbox, retries) IN
         /\ inbox \in Seq(Post) /\ retries \in Seq(Reply)
         /\ fit \in Seq(Reply) /\ fit \in Seq(Post)
         /\ inbox' = inbox \o fit /\ inbox' \in Seq(Post) /\ Len(inbox') <= QueueLen
         /\ retries' \in Seq(Reply)
         /\ \A k \in 1 .. Len(retries) :
              \/ k \in 1 .. Len(fit) /\ fit[k] = retries[k]
              \/ \E l \in 1 .. Len(retries') : retries'[l] = retries[k]
  <1> DEFINE fit == Fit(inbox, retries)
             n == Len(retries)
             p == Len(fit)
             rest == SubSeq(retries, p + 1, n)
             last == SubSeq(retries, n - p + 1, n)
  <1>1. inbox \in Seq(Post) /\ Len(inbox) <= QueueLen /\ retries \in Seq(Reply)
        /\ n \in Nat /\ \A k \in 1 .. n : retries[k] \in Reply
    BY DEF TypeOK
  <1>2. /\ fit \in Seq(Reply) /\ p \in 0 .. n /\ Len(inbox) + p <= QueueLen
        /\ \A k \in 1 .. p : fit[k] = retries[k]
    BY <1>1, FitIsPrefix
  <1>3. inbox' = inbox \o fit /\ retries' = IF p = n THEN <<>> ELSE rest \o last
    BY DEF Retries
  <1> HIDE DEF n, p, fit
  <1>4. fit \in Seq(Post) BY <1>2, PostsAreMessages, SeqMonotonic
  <1>p. p = Len(fit) BY DEF p
  <1>5. inbox' \in Seq(Post) /\ Len(inbox') <= QueueLen
    BY <1>1, <1>2, <1>3, <1>4, <1>p, BehindKeeps
  <1>6. /\ rest \in Seq(Reply) /\ Len(rest) = IF p + 1 <= n THEN n - (p + 1) + 1 ELSE 0
        /\ \A k \in 1 .. n - (p + 1) + 1 : rest[k] = retries[(p + 1) + k - 1]
    <2>1. \A k \in p + 1 .. n : retries[k] \in Reply BY <1>1, <1>2
    <2>2. p + 1 \in Int /\ n \in Int BY <1>1, <1>2
    <2> QED BY <2>1, <2>2, SubSeqProperties
  <1>7. last \in Seq(Reply)
    <2>1. \A k \in n - p + 1 .. n : retries[k] \in Reply BY <1>1, <1>2
    <2>2. n - p + 1 \in Int /\ n \in Int BY <1>1, <1>2
    <2> QED BY <2>1, <2>2, SubSeqProperties
  <1> HIDE DEF rest, last
  <1>8. retries' \in Seq(Reply) BY <1>3, <1>6, <1>7
  <1>9. ASSUME NEW k \in 1 .. n, k \notin 1 .. p
        PROVE  \E l \in 1 .. Len(retries') : retries'[l] = retries[k]
    <2>1. k - p \in 1 .. n - (p + 1) + 1 /\ (p + 1) + (k - p) - 1 = k /\ p # n /\ p + 1 <= n
      BY <1>1, <1>2, <1>9
    <2>2. rest[k - p] = retries[k] /\ k - p \in 1 .. Len(rest) BY <1>6, <2>1
    <2>3. retries' = rest \o last BY <1>3, <2>1
    <2>4. k - p \in 1 .. Len(retries') /\ retries'[k - p] = rest[k - p]
      BY <1>6, <1>7, <2>2, <2>3
    <2> QED BY <2>2, <2>4
  <1> QED BY <1>1, <1>2, <1>3, <1>4, <1>5, <1>8, <1>9 DEF n, p, fit

\* spawn() is given a name and whom to answer.
LEMMA SpawnKeeps ==
  ASSUME NEW typ \in {"spawn", "unique"}, NEW name \in Name, NEW from \in Address,
         spawn(typ, name, from)
  PROVE  starting' \in Spawn
  BY DEF spawn, Spawn

\* The tables after a request.
LEMMA AskedToKeeps ==
  ASSUME TypeOK, NEW typ \in Question, NEW from \in serviceId, NEW name \in Name,
         NEW m, m.typ = typ, m.from = from, m.name = name, AskedTo(m)
  PROVE  /\ unique' \subseteq Name /\ calls' = calls
         /\ waiting' \in [Name -> SUBSET [who : serviceId, typ : {"unique", "query"}]]
         /\ starting' \in Spawn \cup {Nothing}
  <1>1. CASE typ = "spawn"
    <2>1. spawn("spawn", name, from) BY <1>1 DEF AskedTo
    <2>2. starting' \in Spawn BY <2>1, SpawnKeeps DEF Address
    <2> QED BY <1>1, <2>2 DEF AskedTo, TypeOK
  <1>2. CASE typ \in {"unique", "query"}
    <2>1. uniqueservice(m) BY <1>2 DEF AskedTo
    <2>2. CASE named_services[m.name] # none
      BY <2>1, <2>2 DEF uniqueservice, TypeOK
    <2>3. CASE named_services[m.name] = none
      <3>1. waiting' = [waiting EXCEPT ![name] = @ \cup {[who |-> from, typ |-> typ]}]
        BY <2>1, <2>3 DEF uniqueservice
      <3>2. waiting' \in [Name -> SUBSET [who : serviceId, typ : {"unique", "query"}]]
        BY <1>2, <3>1 DEF TypeOK
      <3>3. unique' \subseteq Name /\ starting' \in Spawn \cup {Nothing}
        <4>1. CASE m.typ = "query" \/ m.name \in unique
          BY <2>1, <2>3, <4>1 DEF uniqueservice, TypeOK
        <4>2. CASE ~(m.typ = "query" \/ m.name \in unique)
          <5>1. unique' = unique \cup {name} /\ spawn("unique", name, none)
            BY <2>1, <2>3, <4>2 DEF uniqueservice
          <5>2. starting' \in Spawn BY <5>1, SpawnKeeps DEF Address
          <5> QED BY <5>1, <5>2 DEF TypeOK
        <4> QED BY <4>1, <4>2
      <3> QED BY <2>1, <3>2, <3>3 DEF uniqueservice
    <2> QED BY <2>2, <2>3
  <1> QED BY <1>1, <1>2 DEF Question

\* What root asks of itself.
LEMMA BootAsks ==
  ASSUME TypeOK, Boots, boot <= Len(Bootstrap)
  PROVE  \E m : /\ m.typ \in Question /\ m.from = serviceIdRoot /\ m.name \in Name
                /\ AskedTo(m) /\ inbox' = inbox /\ held' = held
  <1>1. boot \in 1 .. Len(Bootstrap) BY Constants DEF TypeOK
  <1> DEFINE S == [typ : {"spawn", "unique"}, name : Name]
  <1>2. Bootstrap \in Seq(S) BY RootAssumption
  <1> HIDE DEF S
  <1>3. Bootstrap[boot] \in S BY <1>1, <1>2
  <1>4. Bootstrap[boot].typ \in {"spawn", "unique"} /\ Bootstrap[boot].name \in Name
    BY <1>3 DEF S
  <1> DEFINE m == Message(Bootstrap[boot].typ, serviceIdRoot, Bootstrap[boot].name)
  <1>5. AskedTo(m) /\ inbox' = inbox /\ held' = held BY <1>1, Constants DEF Boots
  <1>6. m.typ \in Question /\ m.from = serviceIdRoot /\ m.name \in Name
    BY <1>4 DEF Message, Question
  <1> HIDE DEF m
  <1> QED BY <1>5, <1>6

\* What root posts to itself when it has no more to ask.
LEMMA BootPosts ==
  ASSUME TypeOK, Boots, ~(boot <= Len(Bootstrap))
  PROVE  \E box \in Seq(Post), answers \in Seq(Reply), posts \in Seq(Post) :
           /\ box = inbox \o posts /\ Len(box) <= QueueLen
           /\ \A k \in 1 .. Len(posts) : posts[k].typ = "quit_ltask"
           /\ Posted(box, answers, serviceIdRoot) /\ UNCHANGED <<spawns, busy>>
  <1> DEFINE posts == quit(inbox, anonymous_services)
             box == inbox \o posts
  <1>1. inbox \in Seq(Post) /\ Len(inbox) <= QueueLen /\ Len(inbox) \in Nat BY DEF TypeOK
  <1>2. /\ posts \in Seq(Post) /\ Len(posts) \in {0, 1}
        /\ posts # <<>> => Len(inbox) < QueueLen /\ Len(posts) = 1
        /\ \A k \in 1 .. Len(posts) : posts[k].typ = "quit_ltask"
    BY PostsAreMessages
  <1>3. PICK typ \in {"ok", "error"} :
          /\ Posted(box, <<Answer(typ, initSession)>>, serviceIdRoot)
          /\ UNCHANGED <<spawns, busy>>
    BY DEF Boots
  <1>4. Answer(typ, initSession) \in Reply BY Constants DEF Answer, Reply
  <1>5. <<Answer(typ, initSession)>> \in Seq(Reply) BY <1>4
  <1> HIDE DEF posts
  <1>6. box \in Seq(Post) /\ Len(box) = Len(inbox) + Len(posts) BY <1>1, <1>2, BehindKeeps
  <1>7. Len(box) <= QueueLen BY <1>1, <1>2, <1>6, Constants
  <1> QED BY <1>2, <1>3, <1>5, <1>6, <1>7

\* What root posts when a service has died: an error for each request it has not
\* read, and maybe the request of quit().
LEMMA OnSignalPosts ==
  ASSUME TypeOK, OnSignal
  PROVE  \E errors \in Seq(Reply), posts \in Seq(Post) :
           /\ inbox' = (Tail(inbox) \o Fit(Tail(inbox), errors)) \o posts
           /\ Len(Tail(inbox) \o Fit(Tail(inbox), errors)) + Len(posts) <= QueueLen
           /\ held' = held \cup Forks(Tail(inbox), errors, serviceIdRoot)
           /\ \A k \in 1 .. Len(posts) : posts[k].typ = "quit_ltask"
           /\ \A r \in Mine(Head(inbox).from) :
                \E k \in 1 .. Len(errors) : errors[k].session = r.session
  <1> DEFINE i == Head(inbox).from
             left == anonymous_services \ {i}
  <1>1. Heads("signal") BY DEF OnSignal
  <1>2. Tail(inbox) \in Seq(Post) /\ Len(Tail(inbox)) <= QueueLen BY <1>1, HeadsKeeps
  <1>3. PICK unread \in [1 .. Cardinality(Mine(i)) -> Mine(i)] :
          LET errors == [k \in DOMAIN unread |-> Answer("error", unread[k].session)]
              box == Tail(inbox) \o Fit(Tail(inbox), errors)
          IN
          /\ Range(unread) = Mine(i)
          /\ inbox' = box \o (IF closing = <<>> THEN quit(box, left) ELSE <<>>)
          /\ held' = held \cup Forks(Tail(inbox), errors, serviceIdRoot)
    BY DEF OnSignal
  <1> DEFINE n == Cardinality(Mine(i))
             errors == [k \in DOMAIN unread |-> Answer("error", unread[k].session)]
             box == Tail(inbox) \o Fit(Tail(inbox), errors)
             posts == IF closing = <<>> THEN quit(box, left) ELSE <<>>
  <1>4. n \in Nat
    <2>1. Mine(i) \subseteq sent /\ IsFiniteSet(sent) BY DEF Mine, TypeOK
    <2>2. IsFiniteSet(Mine(i)) BY <2>1, FS_Subset
    <2> QED BY <2>2, FS_CardinalityType
  <1>5. \A r \in Mine(i) : r.session \in Nat BY DEF Mine, TypeOK
  <1>6. DOMAIN unread = 1 .. n /\ \A k \in 1 .. n : unread[k] \in Mine(i) OBVIOUS
  <1> HIDE DEF n, i, left
  <1>7. errors \in Seq(Reply) /\ Len(errors) = n
    <2>1. \A k \in 1 .. n : Answer("error", unread[k].session) \in Reply
      BY <1>5, <1>6 DEF Answer, Reply
    <2>2. errors \in [1 .. n -> Reply] BY <1>6, <2>1
    <2> HIDE DEF errors
    <2> QED BY <1>4, <2>2
  <1>8. \A r \in Mine(i) : \E k \in 1 .. Len(errors) : errors[k].session = r.session
    <2> SUFFICES ASSUME NEW r \in Mine(i)
                 PROVE  \E k \in 1 .. Len(errors) : errors[k].session = r.session
      OBVIOUS
    <2>1. r \in Range(unread) BY <1>3 DEF i
    <2>2. PICK k \in 1 .. n : unread[k] = r BY <1>6, <2>1 DEF Range
    <2>3. errors[k].session = r.session BY <1>6, <2>2 DEF Answer
    <2> QED BY <1>7, <2>3
  <1>9. inbox' = box \o posts /\ held' = held \cup Forks(Tail(inbox), errors, serviceIdRoot)
    BY <1>3 DEF i, left
  <1> HIDE DEF errors
  <1>10. box \in Seq(Post) /\ Len(box) <= QueueLen /\ Len(box) \in Nat
    <2>1. /\ Fit(Tail(inbox), errors) \in Seq(Reply)
          /\ Len(Tail(inbox)) + Len(Fit(Tail(inbox), errors)) <= QueueLen
      BY <1>2, <1>7, FitIsPrefix
    <2>2. Fit(Tail(inbox), errors) \in Seq(Post) BY <2>1, PostsAreMessages, SeqMonotonic
    <2> QED BY <1>2, <2>1, <2>2, BehindKeeps
  <1>11. /\ posts \in Seq(Post) /\ Len(box) + Len(posts) <= QueueLen
         /\ \A k \in 1 .. Len(posts) : posts[k].typ = "quit_ltask"
    <2> HIDE DEF box
    <2>1. CASE closing = <<>> /\ quit(box, left) # <<>>
      <3>1. posts = quit(box, left) BY <2>1
      <3>2. posts \in Seq(Post) /\ Len(box) < QueueLen /\ Len(posts) = 1
        BY <2>1, <3>1, PostsAreMessages
      <3> HIDE DEF posts
      <3>3. Len(box) + Len(posts) <= QueueLen BY <1>10, <3>2, Constants
      <3> QED BY <3>1, <3>2, <3>3, PostsAreMessages
    <2>2. CASE ~(closing = <<>> /\ quit(box, left) # <<>>)
      <3>1. posts = <<>> BY <2>2
      <3> HIDE DEF posts
      <3> QED BY <1>10, <3>1
    <2> QED BY <2>1, <2>2
  <1> HIDE DEF posts
  <1> QED BY <1>7, <1>8, <1>9, <1>10, <1>11 DEF i

\* The tables after a spawn() that failed.
LEMMA SpawnFailsTyped ==
  ASSUME TypeOK, NEW c \in Spawn, SpawnFails(c)
  PROVE  /\ unique' \subseteq Name /\ boot' \in 1 .. Finished
         /\ waiting' \in [Name -> SUBSET [who : serviceId, typ : {"unique", "query"}]]
  <1>1. boot' \in {boot, Finished} BY DEF SpawnFails, Refuse
  <1>2. boot' \in 1 .. Finished BY <1>1, Constants DEF TypeOK
  <1>3. c.name \in Name BY DEF Spawn
  <1>4. unique' \subseteq Name BY <1>3 DEF SpawnFails, TypeOK
  <1>5. waiting' \in {waiting, [waiting EXCEPT ![c.name] = {}]} BY DEF SpawnFails
  <1> QED BY <1>2, <1>3, <1>4, <1>5 DEF TypeOK

\* The spawn() that root is in, if there is one.
LEMMA StartingIsSpawn ==
  ASSUME TypeOK, starting # Nothing
  PROVE  /\ starting \in Spawn /\ starting.id \in serviceId \cup {Nobody}
         /\ \A i \in serviceId : [starting EXCEPT !.id = i] \in Spawn
         /\ starting.id # Nobody => \A x \in Nat : [starting EXCEPT !.session = x] \in Call
  BY DEF TypeOK, Spawn, Call

\* The service in a slot, if it lives.
LEMMA LivesIsService ==
  ASSUME Inv, NEW j \in Slot, Lives(s[j])
  PROVE  s[j] \in serviceId
  <1>1. s[j] \in serviceId \cup {Nobody} BY DEF Inv, TypeOK, PoolTypeOK
  <1>2. index(Nobody) \in Slot BY IndexIsSlot, PoolAssumption DEF Nobody
  <1>3. ASSUME s[j] = Nobody PROVE FALSE
    BY <1>2, <1>3 DEF Lives, Inv, OwnSlot, getService
  <1> QED BY <1>1, <1>3

\* What a service posts.
LEMMA PostsKeeps ==
  ASSUME TypeOK, NEW i \in serviceId, NEW typ, NEW name,
         \/ typ \in Question /\ name \in Name
         \/ typ = "signal" /\ name = none,
         Posts(typ, i, name)
  PROVE  /\ Message(typ, i, name) \in Post /\ inbox' = Append(inbox, Message(typ, i, name))
         /\ inbox' \in Seq(Post) /\ Len(inbox') <= QueueLen
  <1>1. Message(typ, i, name) \in Post BY DEF Message, Post
  <1>2. inbox \in Seq(Post) /\ Len(inbox) < QueueLen /\ inbox' = Append(inbox, Message(typ, i, name))
    BY DEF Posts, Room, TypeOK
  <1> QED BY <1>1, <1>2, Constants

\* Every step of root and of the services is a step of the pool, or leaves it.
LEMMA RootStepsPool == Inv /\ Next => [PoolNext]_poolVars
  <1> SUFFICES ASSUME Inv, Next PROVE [PoolNext]_poolVars OBVIOUS
  <1>a. TypeOK BY DEF Inv
  <1>1. CASE SpawnNew
    BY <1>1 DEF SpawnNew, PoolNext
  <1>2. ASSUME NEW ok \in BOOLEAN, SpawnInit(ok) PROVE [PoolNext]_poolVars
    <2>1. starting # Nothing /\ starting.id # Nobody /\ initService(starting.id, ok)
      BY <1>2 DEF SpawnInit
    <2>2. starting.id \in serviceId BY <1>a, <2>1, StartingIsSpawn
    <2> QED BY <2>1, <2>2 DEF PoolNext
  <1>3. CASE OnSignal
    <2>1. closeService(Head(inbox).from) /\ Heads("signal") BY <1>3 DEF OnSignal
    <2>2. Head(inbox).from \in serviceId BY <1>a, <2>1, HeadsKeeps
    <2> QED BY <2>1, <2>2 DEF PoolNext
  <1>4. ASSUME NEW j \in Slot, Dies(s[j]) PROVE [PoolNext]_poolVars
    <2>1. s[j] \in serviceId BY <1>4, LivesIsService DEF Dies
    <2> QED BY <1>4, <2>1 DEF Dies, PoolNext
  <1>5. CASE Boots \/ OnRequest \/ OnInit \/ OnInitReceipt \/ OnQuitAnswer \/ OnStray
             \/ OnSendRetry \/ Retries \/ OnQuit
    BY <1>5 DEF Boots, OnRequest, OnInit, OnInitReceipt, OnQuitAnswer, OnStray, OnSendRetry,
                Retries, OnQuit
  <1>6. ASSUME NEW k \in DOMAIN closing, Close(k) PROVE [PoolNext]_poolVars
    BY <1>6 DEF Close
  <1>7. ASSUME NEW i, Asks(i) \/ Replies(i) PROVE [PoolNext]_poolVars
    BY <1>7 DEF Asks, Replies
  <1>8. ASSUME NEW h \in held, HandsOver(h) \/ Sleeps(h) PROVE [PoolNext]_poolVars
    BY <1>8 DEF HandsOver, Sleeps
  <1> QED BY <1>1, <1>2, <1>3, <1>4, <1>5, <1>6, <1>7, <1>8 DEF Next, RootStep, Forked

\* The tables after a service has been given its name.
LEMMA RegisterKeeps ==
  ASSUME TypeOK, NEW c \in Call, register_service(c)
  PROVE  /\ anonymous_services' \subseteq serviceId /\ order' \in Seq(Named')
         /\ named_services' \in [Name -> Address] /\ unique' \subseteq Name
         /\ waiting' \in [Name -> SUBSET [who : serviceId, typ : {"unique", "query"}]]
         /\ closing \in Seq(Closing')
  <1>1. c.name \in Name /\ c.id \in serviceId /\ c.id \in Address
    BY DEF Call, Spawn, Address
  <1>2. CASE named_services[c.name] # none
    BY <1>2 DEF register_service, tables, TypeOK, Closing, Named
  <1>3. CASE named_services[c.name] = none
    <2>1. anonymous_services' \subseteq serviceId /\ unique' \subseteq Name
      BY <1>3 DEF register_service, TypeOK
    <2>2. order' = Append(order, c.name) BY <1>3 DEF register_service
    <2>4. named_services' = [named_services EXCEPT ![c.name] = c.id]
          /\ waiting' = [waiting EXCEPT ![c.name] = {}]
      BY <1>3 DEF register_service
    <2>5. Named \subseteq Named' /\ c.name \in Named'
      BY <1>1, <2>4, Constants DEF TypeOK, Named
    <2>6. order \in Seq(Named') BY <2>5 DEF TypeOK
    <2>7. order' \in Seq(Named') BY <2>2, <2>5, <2>6
    <2>8. Closing \subseteq Closing' BY <2>5 DEF Closing
    <2>9. closing \in Seq(Closing') BY <2>8 DEF TypeOK
    <2> QED BY <1>1, <2>1, <2>4, <2>7, <2>9 DEF TypeOK
  <1> QED BY <1>2, <1>3

\* The definitions that steps leave alone with the names.
LEMMA SameClosing ==
  ASSUME TypeOK, UNCHANGED named_services
  PROVE  Named' = Named /\ Closing' = Closing /\ closing \in Seq(Closing')
         /\ order \in Seq(Named')
  <1>1. Named' = Named BY DEF Named
  <1>2. Closing' = Closing BY <1>1 DEF Closing
  <1> QED BY <1>1, <1>2 DEF TypeOK

\* The types, with what a step may change of each component given.
LEMMA TypesOfRoot ==
  ASSUME TypeOK, PoolTypeOK',
         inbox' \in Seq(Post) /\ Len(inbox') <= QueueLen,
         held' \subseteq [answer : Reply, by : serviceId, tried : BOOLEAN],
         retries' \in Seq(Reply), UNCHANGED <<tables, spawns, boot, closing, over, requests>>
  PROVE  TypeOK'
  <1>1. UNCHANGED named_services BY DEF tables
  <1> QED BY <1>1, SameClosing DEF TypeOK, tables, spawns, requests

\* Each step keeps the types.
LEMMA BootsTyped == ASSUME TypeOK, Boots, PoolTypeOK' PROVE TypeOK'
  <1>0. UNCHANGED <<tables, retries, closing, over, requests>> /\ UNCHANGED named_services
    BY DEF Boots, tables
  <1>1. boot' \in 1 .. Finished
    <2>1. boot \in 1 .. Finished /\ boot < Finished /\ boot' = boot + 1
      BY DEF Boots, BootReady, TypeOK
    <2> QED BY <2>1, Constants
  <1>2. CASE boot <= Len(Bootstrap)
    <2>1. PICK m : /\ m.typ \in Question /\ m.from = serviceIdRoot /\ m.name \in Name
                   /\ AskedTo(m) /\ inbox' = inbox /\ held' = held
      BY <1>2, BootAsks
    <2>2. /\ unique' \subseteq Name /\ calls' = calls
          /\ waiting' \in [Name -> SUBSET [who : serviceId, typ : {"unique", "query"}]]
          /\ starting' \in Spawn \cup {Nothing}
      BY <2>1, Constants, AskedToKeeps
    <2> QED BY <1>0, <1>1, <2>1, <2>2, SameClosing DEF TypeOK, tables, requests
  <1>3. CASE ~(boot <= Len(Bootstrap))
    <2>1. PICK box \in Seq(Post), answers \in Seq(Reply) :
            /\ Len(box) <= QueueLen /\ Posted(box, answers, serviceIdRoot)
            /\ UNCHANGED <<spawns, busy>>
      BY <1>3, BootPosts
    <2>2. /\ inbox' \in Seq(Post) /\ Len(inbox') <= QueueLen
          /\ held' \subseteq [answer : Reply, by : serviceId, tried : BOOLEAN]
      BY <2>1, PostedKeeps, Constants
    <2> QED BY <1>0, <1>1, <2>1, <2>2, SameClosing DEF TypeOK, tables, spawns, requests
  <1> QED BY <1>2, <1>3

LEMMA SpawnNewTyped == ASSUME TypeOK, SpawnNew, PoolTypeOK' PROVE TypeOK'
  <1>0. UNCHANGED <<retries, tables, calls, closing, over, requests>> /\ UNCHANGED named_services
    BY DEF SpawnNew, tables
  <1>1. starting \in Spawn /\ \A i \in serviceId : [starting EXCEPT !.id = i] \in Spawn
    BY StartingIsSpawn DEF SpawnNew
  <1>2. PICK i \in serviceId \cup {Nobody} :
          IF i \in {0, Nobody}
          THEN /\ SpawnFails(starting)
               /\ Posted(inbox, Fatal(Waiters(starting)), serviceIdRoot)
               /\ starting' = Nothing
          ELSE /\ starting' = [starting EXCEPT !.id = i]
               /\ UNCHANGED <<inbox, held, unique, waiting, boot, busy>>
    BY DEF SpawnNew
  <1>3. CASE i \in {0, Nobody}
    <2>1. /\ unique' \subseteq Name /\ boot' \in 1 .. Finished
          /\ waiting' \in [Name -> SUBSET [who : serviceId, typ : {"unique", "query"}]]
      BY <1>1, <1>2, <1>3, SpawnFailsTyped
    <2>2. Fatal(Waiters(starting)) \in Seq(Reply) BY PostsAreMessages
    <2>3. inbox \in Seq(Post) /\ Len(inbox) <= QueueLen BY DEF TypeOK
    <2>4. /\ inbox' \in Seq(Post) /\ Len(inbox') <= QueueLen
          /\ held' \subseteq [answer : Reply, by : serviceId, tried : BOOLEAN]
      BY <1>2, <1>3, <2>2, <2>3, PostedKeeps, Constants
    <2> QED BY <1>0, <1>2, <1>3, <2>1, <2>4, SameClosing DEF TypeOK, tables, requests
  <1>4. CASE i \notin {0, Nobody}
    <2>1. starting' \in Spawn BY <1>1, <1>2, <1>4
    <2> QED BY <1>0, <1>2, <1>4, <2>1, SameClosing DEF TypeOK, tables, requests
  <1> QED BY <1>3, <1>4

LEMMA SpawnInitTyped ==
  ASSUME TypeOK, NEW ok \in BOOLEAN, SpawnInit(ok), PoolTypeOK' PROVE TypeOK'
  <1>0. UNCHANGED <<retries, named_services, order, closing, over, lost>> BY DEF SpawnInit
  <1>1. /\ starting \in Spawn /\ starting.id # Nobody /\ starting.id \in serviceId
        /\ \A x \in Nat : [starting EXCEPT !.session = x] \in Call
    BY StartingIsSpawn DEF SpawnInit
  <1>2. anonymous_services' \subseteq serviceId /\ starting' = Nothing
    BY <1>1 DEF SpawnInit, TypeOK
  <1>3. CASE ok
    <2>1. /\ session' = session + 1 /\ UNCHANGED <<inbox, held, unique, waiting, boot>>
          /\ calls' = calls \cup {[starting EXCEPT !.session = session']}
          /\ sent' = sent \cup {Request(session', starting.id)}
      BY <1>3 DEF SpawnInit
    <2>2. session' \in Nat BY <2>1 DEF TypeOK
    <2>3. calls' \subseteq Call BY <1>1, <2>1, <2>2 DEF TypeOK
    <2>4. sent' \subseteq [session : Nat, to : serviceId] /\ IsFiniteSet(sent')
      <3>1. Request(session', starting.id) \in [session : Nat, to : serviceId]
        BY <1>1, <2>2 DEF Request
      <3> QED BY <2>1, <3>1, FS_AddElement DEF TypeOK
    <2> QED BY <1>0, <1>2, <2>1, <2>2, <2>3, <2>4, SameClosing DEF TypeOK
  <1>4. CASE ~ok
    <2>1. /\ SpawnFails(starting) /\ UNCHANGED <<calls, session, sent>>
          /\ Posted(inbox, Fatal(Waiters(starting)), serviceIdRoot)
      BY <1>4 DEF SpawnInit
    <2>2. /\ unique' \subseteq Name /\ boot' \in 1 .. Finished
          /\ waiting' \in [Name -> SUBSET [who : serviceId, typ : {"unique", "query"}]]
      BY <1>1, <2>1, SpawnFailsTyped
    <2>3. Fatal(Waiters(starting)) \in Seq(Reply) BY PostsAreMessages
    <2>4. inbox \in Seq(Post) /\ Len(inbox) <= QueueLen BY DEF TypeOK
    <2>5. /\ inbox' \in Seq(Post) /\ Len(inbox') <= QueueLen
          /\ held' \subseteq [answer : Reply, by : serviceId, tried : BOOLEAN]
      BY <2>1, <2>3, <2>4, PostedKeeps, Constants
    <2> QED BY <1>0, <1>2, <2>1, <2>2, <2>5, SameClosing DEF TypeOK
  <1> QED BY <1>3, <1>4

LEMMA OnInitTyped == ASSUME TypeOK, OnInit, PoolTypeOK' PROVE TypeOK'
  <1>0. UNCHANGED <<retries, starting, closing, over, requests>> BY DEF OnInit
  <1>1. PICK c \in calls :
          /\ calls' = calls \ {c}
          /\ \/ /\ Takes("ok", <<>>)
                /\ IF c.typ = "unique" THEN register_service(c)
                   ELSE Answered({c.from}) /\ UNCHANGED <<tables, unique, waiting>>
                /\ UNCHANGED boot
             \/ /\ Takes("error", Fatal(Waiters(c)))
                /\ SpawnFails(c)
                /\ UNCHANGED tables
    BY DEF OnInit
  <1>2. c \in Call /\ c \in Spawn /\ calls' \subseteq Call BY <1>1 DEF TypeOK, Call
  <1>3. CASE Takes("ok", <<>>) /\ UNCHANGED boot
             /\ IF c.typ = "unique" THEN register_service(c)
                ELSE Answered({c.from}) /\ UNCHANGED <<tables, unique, waiting>>
    <2>1. /\ inbox' \in Seq(Post) /\ Len(inbox') <= QueueLen
          /\ held' \subseteq [answer : Reply, by : serviceId, tried : BOOLEAN]
      BY <1>3, TakesKeeps, PostsAreMessages
    <2>2. /\ anonymous_services' \subseteq serviceId /\ order' \in Seq(Named')
          /\ named_services' \in [Name -> Address] /\ unique' \subseteq Name
          /\ closing \in Seq(Closing')
          /\ waiting' \in [Name -> SUBSET [who : serviceId, typ : {"unique", "query"}]]
      <3>1. CASE c.typ = "unique" BY <1>2, <1>3, <3>1, RegisterKeeps
      <3>2. CASE c.typ # "unique"
        <4>1. UNCHANGED <<tables, unique, waiting, named_services>> BY <1>3, <3>2 DEF tables
        <4> QED BY <4>1, SameClosing DEF TypeOK, tables
      <3> QED BY <3>1, <3>2
    <2> QED BY <1>0, <1>2, <1>3, <2>1, <2>2 DEF TypeOK, requests
  <1>4. CASE Takes("error", Fatal(Waiters(c))) /\ SpawnFails(c) /\ UNCHANGED tables
    <2>1. Fatal(Waiters(c)) \in Seq(Reply) BY PostsAreMessages
    <2>2. /\ inbox' \in Seq(Post) /\ Len(inbox') <= QueueLen
          /\ held' \subseteq [answer : Reply, by : serviceId, tried : BOOLEAN]
      BY <1>4, <2>1, TakesKeeps
    <2>3. /\ unique' \subseteq Name /\ boot' \in 1 .. Finished
          /\ waiting' \in [Name -> SUBSET [who : serviceId, typ : {"unique", "query"}]]
      BY <1>2, <1>4, SpawnFailsTyped
    <2>4. UNCHANGED named_services BY <1>4 DEF tables
    <2> QED BY <1>0, <1>2, <1>4, <2>2, <2>3, <2>4, SameClosing DEF TypeOK, tables, requests
  <1> QED BY <1>1, <1>3, <1>4

LEMMA OnSignalTyped == ASSUME TypeOK, OnSignal, PoolTypeOK' PROVE TypeOK'
  <1>0. /\ UNCHANGED <<retries, named_services, order, spawns, boot, closing, over, session, lost>>
        /\ anonymous_services' \subseteq serviceId /\ Heads("signal")
        /\ sent' = sent \ Mine(Head(inbox).from)
    BY DEF OnSignal, TypeOK
  <1>1. PICK errors \in Seq(Reply), posts \in Seq(Post) :
          /\ inbox' = (Tail(inbox) \o Fit(Tail(inbox), errors)) \o posts
          /\ Len(Tail(inbox) \o Fit(Tail(inbox), errors)) + Len(posts) <= QueueLen
          /\ held' = held \cup Forks(Tail(inbox), errors, serviceIdRoot)
    BY OnSignalPosts
  <1>2. Tail(inbox) \in Seq(Post) /\ Len(Tail(inbox)) <= QueueLen BY <1>0, HeadsKeeps
  <1>3. inbox' \in Seq(Post) /\ Len(inbox') <= QueueLen
    <2> DEFINE box == Tail(inbox) \o Fit(Tail(inbox), errors)
    <2>1. Fit(Tail(inbox), errors) \in Seq(Post)
      BY <1>2, FitIsPrefix, PostsAreMessages, SeqMonotonic
    <2>2. box \in Seq(Post) BY <1>2, <2>1, BehindKeeps
    <2>3. inbox' = box \o posts /\ Len(box) + Len(posts) <= QueueLen BY <1>1
    <2> HIDE DEF box
    <2> QED BY <2>2, <2>3, BehindKeeps
  <1>4. held' \subseteq [answer : Reply, by : serviceId, tried : BOOLEAN]
    BY <1>1, <1>2, ForksAreHeld, Constants DEF TypeOK
  <1>5. sent' \subseteq [session : Nat, to : serviceId] /\ IsFiniteSet(sent')
    BY <1>0, FS_Subset DEF TypeOK
  <1> QED BY <1>0, <1>3, <1>4, <1>5, SameClosing DEF TypeOK, spawns

LEMMA OnQuitTyped == ASSUME TypeOK, OnQuit \/ OnQuitAnswer, PoolTypeOK' PROVE TypeOK'
  <1>0. /\ UNCHANGED <<retries, tables, spawns, boot, over, requests>> /\ UNCHANGED named_services
        /\ \E typ : Takes(typ, <<>>)
    BY DEF OnQuit, OnQuitAnswer, tables
  <1>1. /\ inbox' \in Seq(Post) /\ Len(inbox') <= QueueLen
        /\ held' \subseteq [answer : Reply, by : serviceId, tried : BOOLEAN]
    BY <1>0, TakesKeeps, PostsAreMessages
  <1>2. closing' \in Seq(Closing)
    <2>1. CASE OnQuit
      <3>1. Reverse(order) \in Seq(Named) BY DEF TypeOK, Reverse
      <3>2. [left |-> Reverse(order), wait |-> none] \in Closing BY <3>1 DEF Closing
      <3> QED BY <2>1, <3>2 DEF OnQuit, TypeOK
    <2>2. CASE OnQuitAnswer
      <3>1. PICK k \in DOMAIN closing : closing' = [closing EXCEPT ![k].wait = none]
        BY <2>2 DEF OnQuitAnswer
      <3>2. closing \in Seq(Closing) BY DEF TypeOK
      <3>a. closing[k] \in Closing BY <3>1, <3>2
      <3>3. closing[k] \in Closing /\ [closing[k] EXCEPT !.wait = none] \in Closing
        BY <3>a DEF Closing
      <3>4. closing' = [closing EXCEPT ![k] = [closing[k] EXCEPT !.wait = none]] BY <3>1
      <3> QED BY <3>2, <3>3, <3>4
    <2> QED BY <2>1, <2>2
  <1> QED BY <1>0, <1>1, <1>2, SameClosing DEF TypeOK, tables, spawns, requests

LEMMA CloseTyped == ASSUME TypeOK, NEW k \in DOMAIN closing, Close(k), PoolTypeOK' PROVE TypeOK'
  <1>0. /\ UNCHANGED <<inbox, held, retries, tables, spawns, boot, lost>>
        /\ UNCHANGED named_services
    BY DEF Close, tables
  <1> DEFINE c == closing[k]
             address == named_services[Head(c.left)]
  <1>a. c \in Closing BY DEF TypeOK
  <1>1. c \in Closing /\ c.left \in Seq(Named) BY <1>a DEF Closing
  <1>2. CASE /\ c.left # <<>> /\ getStatus(address) # "dead"
             /\ session' = session + 1
             /\ sent' = sent \cup {Request(session', getService(address))}
             /\ closing' = [closing EXCEPT ![k] = [left |-> Tail(c.left), wait |-> session']]
             /\ UNCHANGED over
    <2>1. session' \in Nat BY <1>2 DEF TypeOK
    <2>2. Head(c.left) \in Named BY <1>1, <1>2
    <2>3. address \in serviceId BY <2>2 DEF TypeOK, Named, Address
    <2>4. getService(address) \in serviceId
      <3>1. index(address) \in Slot BY <2>3, Constants, IndexIsSlot
      <3> QED BY <1>2, <3>1 DEF TypeOK, PoolTypeOK, getStatus, getService
    <2>5. sent' \subseteq [session : Nat, to : serviceId] /\ IsFiniteSet(sent')
      <3>1. Request(session', getService(address)) \in [session : Nat, to : serviceId]
        BY <2>1, <2>4 DEF Request
      <3> QED BY <1>2, <3>1, FS_AddElement DEF TypeOK
    <2>6. [left |-> Tail(c.left), wait |-> session'] \in Closing
      BY <1>1, <1>2, <2>1 DEF Closing
    <2>7. closing' \in Seq(Closing) BY <1>2, <2>6 DEF TypeOK
    <2> QED BY <1>0, <1>2, <2>1, <2>5, <2>7, SameClosing DEF TypeOK, tables, spawns
  <1>3. CASE /\ c.left # <<>> /\ UNCHANGED <<over, session, sent>>
             /\ closing' = [closing EXCEPT ![k] = [left |-> Tail(c.left), wait |-> none]]
    <2>1. [left |-> Tail(c.left), wait |-> none] \in Closing BY <1>1, <1>3 DEF Closing
    <2>2. closing' \in Seq(Closing) BY <1>3, <2>1 DEF TypeOK
    <2> QED BY <1>0, <1>3, <2>2, SameClosing DEF TypeOK, tables, spawns
  <1>4. CASE c.left = <<>> /\ over' = TRUE /\ UNCHANGED <<closing, session, sent>>
    BY <1>0, <1>4, SameClosing DEF TypeOK, tables, spawns
  <1> QED BY <1>2, <1>3, <1>4 DEF Close

LEMMA AnswersTyped ==
  ASSUME TypeOK, OnInitReceipt \/ OnStray \/ OnSendRetry \/ Retries \/ Forked, PoolTypeOK'
  PROVE  TypeOK'
  <1>1. CASE OnInitReceipt \/ OnStray \/ OnSendRetry
    <2>0. /\ UNCHANGED <<tables, spawns, boot, closing, requests>> /\ over' \in BOOLEAN
          /\ UNCHANGED named_services
      BY <1>1 DEF OnInitReceipt, OnStray, OnSendRetry, tables, TypeOK
    <2>1. \E typ : /\ Takes(typ, <<>>)
                   /\ \/ retries' = retries
                      \/ typ = "send_retry" /\ retries' = Append(retries, Head(inbox).answer)
      BY <1>1 DEF OnInitReceipt, OnStray, OnSendRetry
    <2>2. /\ inbox' \in Seq(Post) /\ Len(inbox') <= QueueLen
          /\ held' \subseteq [answer : Reply, by : serviceId, tried : BOOLEAN]
          /\ retries' = retries \/ (\E a \in Reply : retries' = Append(retries, a))
      BY <2>1, TakesKeeps, PostsAreMessages
    <2>3. retries' \in Seq(Reply)
      <3>1. retries \in Seq(Reply) BY DEF TypeOK
      <3>2. \A a \in Reply : Append(retries, a) \in Seq(Reply) BY <3>1
      <3> QED BY <2>2, <3>1, <3>2
    <2> QED BY <2>0, <2>2, <2>3, SameClosing DEF TypeOK, tables, spawns, requests
  <1>2. CASE Retries
    <2>1. inbox' \in Seq(Post) /\ Len(inbox') <= QueueLen /\ retries' \in Seq(Reply)
      BY <1>2, RetriesKeeps
    <2>2. UNCHANGED <<held, tables, spawns, boot, closing, over, requests>> BY <1>2 DEF Retries
    <2> QED BY <2>1, <2>2, TypesOfRoot DEF TypeOK
  <1>3. CASE Forked
    <2>1. PICK h \in held : HandsOver(h) \/ Sleeps(h) BY <1>3 DEF Forked
    <2>2. h \in [answer : Reply, by : serviceId, tried : BOOLEAN] BY DEF TypeOK
    <2>3. UNCHANGED <<retries, tables, spawns, boot, closing, over, requests>>
      BY <2>1 DEF HandsOver, Sleeps
    <2>4. CASE HandsOver(h)
      <3>1. [typ |-> "send_retry", answer |-> h.answer] \in Post BY <2>2 DEF Post
      <3>2. inbox \in Seq(Post) /\ Len(inbox) < QueueLen
            /\ inbox' = Append(inbox, [typ |-> "send_retry", answer |-> h.answer])
        BY <2>4 DEF HandsOver, Room, TypeOK
      <3>3. inbox' \in Seq(Post) /\ Len(inbox') <= QueueLen BY <3>1, <3>2, Constants
      <3>4. held' \subseteq held BY <2>4 DEF HandsOver
      <3> QED BY <2>3, <3>3, <3>4, TypesOfRoot DEF TypeOK
    <2>5. CASE Sleeps(h)
      <3>1. [h EXCEPT !.tried = TRUE] \in [answer : Reply, by : serviceId, tried : BOOLEAN]
        BY <2>2
      <3>2. held' = (held \ {h}) \cup {[h EXCEPT !.tried = TRUE]} /\ inbox' = inbox
        BY <2>5 DEF Sleeps
      <3> QED BY <2>3, <3>1, <3>2, TypesOfRoot DEF TypeOK
    <2> QED BY <2>1, <2>4, <2>5
  <1> QED BY <1>1, <1>2, <1>3

LEMMA ServicesTyped ==
  ASSUME Inv, NEW j \in Slot, Asks(s[j]) \/ Replies(s[j]) \/ Dies(s[j]), PoolTypeOK'
  PROVE  TypeOK'
  <1>a. TypeOK BY DEF Inv
  <1>0. /\ UNCHANGED <<retries, tables, spawns, boot, closing, over, session>>
        /\ UNCHANGED named_services
    BY DEF Asks, Replies, Dies, requests, tables
  <1>1. s[j] \in serviceId BY LivesIsService DEF Asks, Replies, Dies
  <1>2. CASE Asks(s[j])
    <2>1. PICK typ \in Question, n \in Name : Posts(typ, s[j], n) BY <1>2 DEF Asks
    <2>2. inbox' \in Seq(Post) /\ Len(inbox') <= QueueLen BY <1>a, <1>1, <2>1, PostsKeeps
    <2>3. UNCHANGED <<held, requests>> BY <1>2 DEF Asks
    <2> QED BY <1>a, <1>0, <2>2, <2>3, TypesOfRoot DEF TypeOK
  <1>3. CASE Replies(s[j])
    <2>1. PICK r \in Mine(s[j]), typ \in {"ok", "error"} :
            Posted(inbox, <<Answer(typ, r.session)>>, s[j]) /\ sent' = sent \ {r} /\ lost' = lost
      BY <1>3 DEF Replies
    <2>2. <<Answer(typ, r.session)>> \in Seq(Reply)
      <3>1. r.session \in Nat BY <1>a DEF Mine, TypeOK
      <3>2. Answer(typ, r.session) \in Reply BY <3>1 DEF Answer, Reply
      <3> QED BY <3>2
    <2>3. inbox \in Seq(Post) /\ Len(inbox) <= QueueLen BY <1>a DEF TypeOK
    <2>4. /\ inbox' \in Seq(Post) /\ Len(inbox') <= QueueLen
          /\ held' \subseteq [answer : Reply, by : serviceId, tried : BOOLEAN]
      BY <1>a, <1>1, <2>1, <2>2, <2>3, PostedKeeps
    <2>5. sent' \subseteq [session : Nat, to : serviceId] /\ IsFiniteSet(sent')
      BY <1>a, <2>1, FS_Subset DEF TypeOK
    <2> QED BY <1>a, <1>0, <2>1, <2>4, <2>5, SameClosing DEF TypeOK, tables, spawns
  <1>4. CASE Dies(s[j])
    <2>1. Posts("signal", s[j], none) /\ held' \subseteq held BY <1>4 DEF Dies
    <2>2. inbox' \in Seq(Post) /\ Len(inbox') <= QueueLen BY <1>a, <1>1, <2>1, PostsKeeps
    <2>3. PICK unread \in SUBSET Mine(s[j]) :
            /\ sent' = sent \ (Mine(s[j]) \ unread)
            /\ lost' = lost \cup {r.session : r \in Mine(s[j]) \ unread}
                         \cup {h.answer.session : h \in {g \in held : g.by = s[j]}}
      BY <1>4 DEF Dies
    <2>4. sent' \subseteq [session : Nat, to : serviceId] /\ IsFiniteSet(sent')
      BY <1>a, <2>3, FS_Subset DEF TypeOK
    <2>5. lost' \subseteq Nat
      <3>1. \A r \in Mine(s[j]) : r.session \in Nat BY <1>a DEF Mine, TypeOK
      <3>2. \A h \in held : h.answer.session \in Nat BY <1>a DEF TypeOK, Reply
      <3> QED BY <1>a, <2>3, <3>1, <3>2 DEF TypeOK
    <2> QED BY <1>a, <1>0, <2>1, <2>2, <2>4, <2>5, SameClosing DEF TypeOK, tables, spawns
  <1> QED BY <1>2, <1>3, <1>4

LEMMA TypeStep == ASSUME Inv, Next, PoolTypeOK' PROVE TypeOK'
  <1>a. TypeOK BY DEF Inv
  <1>1. CASE OnRequest
    <2>1. PICK typ \in Question : Takes(typ, <<>>) /\ AskedTo(Head(inbox))
      BY <1>1 DEF OnRequest
    <2>2. /\ inbox' \in Seq(Post) /\ Len(inbox') <= QueueLen /\ Head(inbox).typ = typ
          /\ held' \subseteq [answer : Reply, by : serviceId, tried : BOOLEAN]
          /\ Head(inbox).from \in serviceId /\ Head(inbox).name \in Name
      BY <1>a, <2>1, TakesKeeps, PostsAreMessages
    <2>3. /\ unique' \subseteq Name /\ calls' = calls
          /\ waiting' \in [Name -> SUBSET [who : serviceId, typ : {"unique", "query"}]]
          /\ starting' \in Spawn \cup {Nothing}
      BY <1>a, <2>1, <2>2, AskedToKeeps
    <2>4. UNCHANGED <<retries, tables, boot, closing, over, requests>> /\ UNCHANGED named_services
      BY <1>1 DEF OnRequest, tables
    <2> QED BY <1>a, <2>2, <2>3, <2>4, SameClosing DEF TypeOK, tables, requests
  <1> QED BY <1>a, <1>1, BootsTyped, SpawnNewTyped, SpawnInitTyped, OnInitTyped, OnSignalTyped,
             OnQuitTyped, CloseTyped, AnswersTyped, ServicesTyped
          DEF Next, RootStep

----------------------------------------------------------------------------
(* The theorems about root *)

\* Root begins with the pool that init() makes and nothing else
\* (service.go:174-185; service/root.lua:19-20).
LEMMA RootInitial == Init => Inv
  <1> SUFFICES ASSUME Init PROVE Inv OBVIOUS
  <1>1. PoolTypeOK /\ OwnSlot BY PoolInitial DEF Init, PoolInv
  <1>2. /\ <<>> \in Seq(Post) /\ <<>> \in Seq(Named) /\ <<>> \in Seq(Closing)
        /\ <<>> \in Seq(Reply) /\ Len(<<>>) <= QueueLen
    BY Constants
  <1>3. 1 \in 1 .. Finished BY Constants
  <1>4. named_services \in [Name -> Address] BY DEF Init, Address
  <1> QED BY <1>1, <1>2, <1>3, <1>4, FS_EmptySet, Constants DEF Init, Inv, TypeOK

\* Each step of root, or of a service, keeps the types and the slots.
LEMMA RootInductive == Inv /\ [Next]_vars => Inv'
  <1> SUFFICES ASSUME Inv, [Next]_vars PROVE Inv' OBVIOUS
  <1>1. PoolInv BY DEF Inv, TypeOK, PoolInv
  <1>2. CASE Next
    <2>1. PoolInv' BY <1>1, <1>2, RootStepsPool, PoolStep
    <2>2. TypeOK' BY <1>2, <2>1, TypeStep DEF PoolInv
    <2> QED BY <2>1, <2>2 DEF Inv, PoolInv
  <1>3. CASE UNCHANGED vars
    <2>1. PoolInv' BY <1>1, <1>3, PoolStep DEF vars
    <2>2. Named' = Named /\ Closing' = Closing
      BY <1>3 DEF vars, tables, Named, Closing
    <2> QED BY <1>3, <2>1, <2>2 DEF Inv, PoolInv, TypeOK, vars, tables, spawns, requests
  <1> QED BY <1>2, <1>3

\* The types of root's state, for any pool, names and bootstrap
\* (service/root.lua, service.go:167-172).
THEOREM TypeCorrect == Spec => []TypeOK
  <1>1. Inv => TypeOK BY DEF Inv
  <1> QED BY <1>1, RootInitial, RootInductive, PTL DEF Spec

\* Whatever root and the services do, an id in use leads to its own service
\* (service.go:370-432).
THEOREM RootOwnSlot == Spec => []OwnSlot
  <1>1. Inv => OwnSlot BY DEF Inv
  <1> QED BY <1>1, RootInitial, RootInductive, PTL DEF Spec

\* Root implements the pool: it does nothing to it but what the pool allows
\* (core.go:374-398, 427-458; service/root.lua:27-41, 110-122).
THEOREM RootUsesPool == Spec => PoolSpec
  <1>1. Init => PoolInit BY DEF Init
  <1>2. Inv /\ [Next]_vars => [PoolNext]_poolVars
    BY RootStepsPool DEF vars, poolVars
  <1> QED BY <1>1, <1>2, RootInitial, RootInductive, PTL DEF Spec, PoolSpec

\* No service loses its slot to another while root has not deleted it
\* (service.go:370-407, 495-504).
THEOREM RootKeepsSlots == Spec => SlotKept
  <1>1. Inv /\ [Next]_vars => [\A j \in Slot : s[j] # Nobody => s'[j] \in {s[j], Nobody}]_poolVars
    BY RootStepsPool, PoolStepKeeps DEF Inv, TypeOK, PoolInv, vars, poolVars
  <1> QED BY <1>1, RootInitial, RootInductive, PTL DEF Spec, SlotKept

----------------------------------------------------------------------------
(* One service to a name *)

\* The spawns for a name that wait for their init, and root being in one
Pending(n) == {c \in calls : c.typ = "unique" /\ c.name = n}
Begun(n) == starting # Nothing /\ starting.typ = "unique" /\ starting.name = n

\* A name is in `unique` as long as exactly one spawn for it is under way, and
\* has no address then; the names in order are those with an address, once each.
OneSpawn ==
  \A n \in Name : /\ n \in unique <=> Begun(n) \/ Pending(n) # {}
                  /\ Begun(n) => Pending(n) = {}
                  /\ \A c, d \in Pending(n) : c = d
                  /\ n \in unique => named_services[n] = none
OneName ==
  /\ \A k, l \in DOMAIN order : order[k] = order[l] => k = l
  /\ \A n \in Named : \E k \in DOMAIN order : order[k] = n
UniqueInv == OneSpawn /\ OneName

\* A spawn that fails is the only one for its name (service/root.lua:134-141).
LEMMA SpawnFailsUnique ==
  ASSUME TypeOK, OneSpawn, NEW c \in Spawn, SpawnFails(c),
         \/ c = starting /\ calls' = calls
         \/ c \in calls /\ calls' = calls \ {c} /\ starting = Nothing,
         starting' = Nothing, named_services' = named_services
  PROVE  OneSpawn'
  <1>1. CASE c.typ = "spawn"
    <2>1. unique' = unique BY <1>1 DEF SpawnFails
    <2>2. \A n \in Name : ~Begun(n) /\ ~Begun(n)' /\ Pending(n)' = Pending(n)
      BY <1>1 DEF Begun, Pending
    <2> QED BY <2>1, <2>2 DEF OneSpawn
  <1>2. CASE c.typ # "spawn"
    <2>1. c.typ = "unique" /\ c.name \in Name BY <1>2 DEF Spawn
    <2>2. unique' = unique \ {c.name} BY <1>2 DEF SpawnFails
    <2>3. c # Nothing BY NothingIsNone
    <2>4. \A n \in Name : ~Begun(n)' BY DEF Begun
    <2>5. Pending(c.name)' = {}
      <3>1. CASE c = starting /\ calls' = calls
        <4>1. Begun(c.name) BY <2>1, <2>3, <3>1 DEF Begun
        <4> QED BY <2>1, <3>1, <4>1 DEF OneSpawn, Pending
      <3>2. CASE c \in calls /\ calls' = calls \ {c}
        <4>1. c \in Pending(c.name) BY <2>1, <3>2 DEF Pending
        <4>2. Pending(c.name) = {c} BY <2>1, <4>1 DEF OneSpawn
        <4> QED BY <3>2, <4>2 DEF Pending
      <3> QED BY <3>1, <3>2
    <2>6. \A n \in Name \ {c.name} : ~Begun(n) /\ Pending(n)' = Pending(n)
      BY <2>3 DEF Begun, Pending
    <2> QED BY <2>1, <2>2, <2>4, <2>5, <2>6 DEF OneSpawn
  <1> QED BY <1>1, <1>2

\* Of those that ask for a name only the first begins a spawn
\* (service/root.lua:128-147).
LEMMA AskedToUnique ==
  ASSUME TypeOK, OneSpawn, starting = Nothing, NEW m, m.typ \in Question,
         m.name \in Name, AskedTo(m), named_services' = named_services
  PROVE  OneSpawn'
  <1>1. \A n \in Name : ~Begun(n) BY DEF Begun
  <1>2. calls' = calls BY DEF AskedTo, uniqueservice
  <1>3. \A n \in Name : Pending(n)' = Pending(n) BY <1>2 DEF Pending
  <1>4. CASE m.typ = "spawn"
    <2>1. unique' = unique /\ starting' = [typ |-> "spawn", name |-> m.name, from |-> m.from, id |-> Nobody,
                        session |-> 0]
      BY <1>4 DEF AskedTo, spawn
    <2>2. \A n \in Name : ~Begun(n)' BY <2>1 DEF Begun
    <2> QED BY <1>1, <1>3, <2>1, <2>2 DEF OneSpawn
  <1>5. CASE m.typ # "spawn" /\ UNCHANGED <<unique, starting>>
    BY <1>1, <1>3, <1>5 DEF OneSpawn, Begun
  <1>6. CASE m.typ # "spawn" /\ ~UNCHANGED <<unique, starting>>
    <2>1. /\ m.name \notin unique /\ unique' = unique \cup {m.name}
          /\ starting' = [typ |-> "unique", name |-> m.name, from |-> none, id |-> Nobody,
                        session |-> 0]
          /\ named_services[m.name] = none
      BY <1>6 DEF AskedTo, uniqueservice, spawn
    <2>2. starting' # Nothing
      <3>1. starting' \in Spawn BY <2>1 DEF Spawn, Address
      <3> QED BY <3>1, NothingIsNone
    <2>3. \A n \in Name : Begun(n)' <=> n = m.name BY <2>1, <2>2 DEF Begun
    <2>4. Pending(m.name) = {} BY <2>1 DEF OneSpawn
    <2> QED BY <1>1, <1>3, <2>1, <2>3, <2>4 DEF OneSpawn
  <1> QED BY <1>4, <1>5, <1>6

\* The name of a service that has answered its init is free, and is given to it
\* (service/root.lua:102-108).
LEMMA RegisterUnique ==
  ASSUME TypeOK, UniqueInv, NEW c \in calls, c.typ = "unique", starting = Nothing,
         register_service(c), calls' = calls \ {c}, starting' = starting
  PROVE  UniqueInv'
  <1>1. c \in Call /\ c.name \in Name /\ c.id \in serviceId
    BY DEF TypeOK, Call, Spawn
  <1>2. c \in Pending(c.name) BY DEF Pending
  <1>3. c.name \in unique /\ named_services[c.name] = none /\ Pending(c.name) = {c}
    BY <1>1, <1>2 DEF UniqueInv, OneSpawn
  <1>4. /\ order' = Append(order, c.name) /\ unique' = unique \ {c.name}
        /\ named_services' = [named_services EXCEPT ![c.name] = c.id]
    BY <1>3 DEF register_service
  <1>5. OneSpawn'
    <2>1. \A n \in Name : ~Begun(n) /\ ~Begun(n)' BY DEF Begun
    <2>2. Pending(c.name)' = {} BY <1>3 DEF Pending
    <2>3. \A n \in Name \ {c.name} : Pending(n)' = Pending(n) BY DEF Pending
    <2> QED BY <1>1, <1>4, <2>1, <2>2, <2>3 DEF UniqueInv, OneSpawn, TypeOK
  <1>6. OneName'
    <2>1. order \in Seq(Named) /\ Named \subseteq Name /\ c.name \notin Named
      BY <1>3 DEF TypeOK, Named
    <2>2. Named' = Named \cup {c.name}
      BY <1>1, <1>4, Constants DEF Named, TypeOK
    <2>3. DOMAIN order' = 1 .. Len(order) + 1 /\ order'[Len(order) + 1] = c.name
          /\ \A k \in DOMAIN order : order'[k] = order[k] /\ order[k] # c.name
      BY <1>4, <2>1
    <2>4. DOMAIN order = 1 .. Len(order) /\ Len(order) \in Nat BY <2>1
    <2>5. \A n \in Named' : \E k \in DOMAIN order' : order'[k] = n
      BY <2>2, <2>3, <2>4 DEF UniqueInv, OneName
    <2>6. \A k, l \in DOMAIN order' : order'[k] = order'[l] => k = l
      BY <2>3, <2>4 DEF UniqueInv, OneName
    <2> QED BY <2>5, <2>6 DEF OneName
  <1> QED BY <1>5, <1>6 DEF UniqueInv

\* Steps that have nothing to do with names and spawns.
LEMMA SameUnique ==
  ASSUME UniqueInv, UNCHANGED <<unique, starting, calls, named_services, order>>
  PROVE  UniqueInv'
  BY DEF UniqueInv, OneSpawn, OneName, Begun, Pending, Named

\* Each step of root keeps one spawn, or one service, to a name.
LEMMA UniqueStep == ASSUME Inv, UniqueInv, Next PROVE UniqueInv'
  <1>a. TypeOK BY DEF Inv
  <1>1. CASE Boots
    <2>1. CASE boot <= Len(Bootstrap)
      <3>1. UNCHANGED <<named_services, order>> /\ starting = Nothing
        BY <1>1 DEF Boots, tables
      <3>2. PICK m : m.typ \in Question /\ m.name \in Name /\ AskedTo(m)
        BY <1>a, <1>1, <2>1, BootAsks
      <3>3. OneSpawn' BY <1>a, <3>1, <3>2, AskedToUnique DEF UniqueInv
      <3> QED BY <3>1, <3>3 DEF UniqueInv, OneName, Named
    <2>2. CASE boot = Len(Bootstrap) + 1
      BY <1>1, <2>2, SameUnique, Constants DEF Boots, tables, spawns
    <2> QED BY <1>1, <2>1, <2>2 DEF Boots
  <1>2. CASE SpawnNew
    <2>0. UNCHANGED <<calls, named_services, order>> BY <1>2 DEF SpawnNew, tables
    <2>1. starting \in Spawn BY <1>a, <1>2, StartingIsSpawn DEF SpawnNew
    <2>2. CASE SpawnFails(starting) /\ starting' = Nothing
      <3>1. OneSpawn' BY <1>a, <2>0, <2>1, <2>2, SpawnFailsUnique DEF UniqueInv
      <3> QED BY <2>0, <3>1 DEF UniqueInv, OneName, Named
    <2>3. CASE \E i \in serviceId : /\ starting' = [starting EXCEPT !.id = i]
                                    /\ UNCHANGED unique
      <3>1. PICK i \in serviceId : starting' = [starting EXCEPT !.id = i] BY <2>3
      <3>2. starting' \in Spawn /\ starting # Nothing
        BY <1>a, <1>2, <3>1, StartingIsSpawn DEF SpawnNew
      <3>3. starting' # Nothing BY <3>2, NothingIsNone
      <3>4. starting'.typ = starting.typ /\ starting'.name = starting.name
        BY <2>1, <3>1 DEF Spawn
      <3>5. \A n \in Name : Begun(n)' <=> Begun(n) BY <3>2, <3>3, <3>4 DEF Begun
      <3>6. \A n \in Name : Pending(n)' = Pending(n) BY <2>0 DEF Pending
      <3>7. OneSpawn' BY <2>0, <2>3, <3>5, <3>6 DEF UniqueInv, OneSpawn
      <3> QED BY <2>0, <3>7 DEF UniqueInv, OneName, Named
    <2> QED BY <1>2, <2>2, <2>3 DEF SpawnNew
  <1>3. ASSUME NEW ok \in BOOLEAN, SpawnInit(ok) PROVE UniqueInv'
    <2>0. UNCHANGED <<named_services, order>> /\ starting' = Nothing
      BY <1>3 DEF SpawnInit
    <2>1. starting \in Spawn /\ starting # Nothing
      BY <1>a, <1>3, StartingIsSpawn DEF SpawnInit
    <2>2. CASE SpawnFails(starting) /\ UNCHANGED calls
      <3>1. OneSpawn' BY <1>a, <2>0, <2>1, <2>2, SpawnFailsUnique DEF UniqueInv
      <3> QED BY <2>0, <3>1 DEF UniqueInv, OneName, Named
    <2>3. CASE calls' = calls \cup {[starting EXCEPT !.session = session']} /\ UNCHANGED unique
      <3>1. PICK c : c = [starting EXCEPT !.session = session'] OBVIOUS
      <3>2. c.typ = starting.typ /\ c.name = starting.name BY <2>1, <3>1 DEF Spawn
      <3>3. \A n \in Name : ~Begun(n)' BY <2>0 DEF Begun
      <3>4. \A n \in Name : Pending(n)' = IF Begun(n) THEN Pending(n) \cup {c} ELSE Pending(n)
        BY <2>1, <2>3, <3>1, <3>2 DEF Pending, Begun
      <3>5. OneSpawn' BY <2>0, <2>3, <3>3, <3>4 DEF UniqueInv, OneSpawn
      <3> QED BY <2>0, <3>5 DEF UniqueInv, OneName, Named
    <2> QED BY <1>3, <2>2, <2>3 DEF SpawnInit
  <1>4. CASE OnRequest
    <2>1. PICK typ \in Question : Takes(typ, <<>>) /\ AskedTo(Head(inbox))
      BY <1>4 DEF OnRequest
    <2>2. Head(inbox).typ \in Question /\ Head(inbox).name \in Name
      BY <1>a, <2>1, TakesKeeps, PostsAreMessages
    <2>3. starting = Nothing BY <2>1 DEF Takes, Heads, Ready
    <2>4. UNCHANGED <<named_services, order>> BY <1>4 DEF OnRequest, tables
    <2>5. OneSpawn' BY <1>a, <2>1, <2>2, <2>3, <2>4, AskedToUnique DEF UniqueInv
    <2> QED BY <2>4, <2>5 DEF UniqueInv, OneName, Named
  <1>5. CASE OnInit
    <2>1. PICK c \in calls :
            /\ calls' = calls \ {c} /\ starting = Nothing /\ starting' = Nothing
            /\ \/ IF c.typ = "unique" THEN register_service(c)
                  ELSE UNCHANGED <<tables, unique, waiting>>
               \/ SpawnFails(c) /\ UNCHANGED tables
      BY <1>5 DEF OnInit, Takes, Heads, Ready
    <2>2. c \in Spawn BY <1>a DEF TypeOK, Call
    <2>3. CASE c.typ = "unique" /\ register_service(c)
      BY <1>a, <2>1, <2>3, RegisterUnique
    <2>4. CASE c.typ # "unique" /\ UNCHANGED <<tables, unique, waiting>>
      <3>1. \A n \in Name : Begun(n)' = Begun(n) /\ Pending(n)' = Pending(n)
        BY <2>1, <2>4 DEF Begun, Pending
      <3>2. UNCHANGED <<named_services, order>> BY <2>4 DEF tables
      <3> QED BY <2>4, <3>1, <3>2 DEF UniqueInv, OneSpawn, OneName, Named
    <2>5. CASE SpawnFails(c) /\ UNCHANGED tables
      <3>1. UNCHANGED <<named_services, order>> BY <2>5 DEF tables
      <3>2. OneSpawn' BY <1>a, <2>1, <2>2, <2>5, <3>1, SpawnFailsUnique DEF UniqueInv
      <3> QED BY <3>1, <3>2 DEF UniqueInv, OneName, Named
    <2> QED BY <2>1, <2>3, <2>4, <2>5
  <1>6. CASE OnInitReceipt \/ OnQuitAnswer \/ OnStray \/ OnSendRetry \/ Retries \/ OnSignal
             \/ OnQuit \/ \E k \in DOMAIN closing : Close(k)
    BY <1>6, SameUnique
       DEF OnInitReceipt, OnQuitAnswer, OnStray, OnSendRetry, Retries, OnSignal, OnQuit, Close,
           tables, spawns
  <1>7. ASSUME NEW i, Asks(i) \/ Replies(i) \/ Dies(i) PROVE UniqueInv'
    BY <1>7, SameUnique DEF Asks, Replies, Dies, tables, spawns
  <1>8. CASE Forked
    BY <1>8, SameUnique DEF Forked, HandsOver, Sleeps, tables, spawns
  <1> QED BY <1>1, <1>2, <1>3, <1>4, <1>5, <1>6, <1>7, <1>8 DEF Next, RootStep

\* What UniqueName says, from the two halves of the invariant.
LEMMA UniqueInvImplies == ASSUME TypeOK, UniqueInv PROVE UniqueName
  <1> SUFFICES ASSUME NEW n \in Name
               PROVE  /\ named_services[n] # none => For(n) = {}
                      /\ Cardinality({k \in DOMAIN order : order[k] = n})
                           = IF named_services[n] = none THEN 0 ELSE 1
    BY DEF UniqueName
  <1>1. named_services[n] # none => For(n) = {}
    BY DEF UniqueInv, OneSpawn, For, Pending, Begun
  <1> DEFINE K == {k \in DOMAIN order : order[k] = n}
  <1>2. CASE named_services[n] = none
    <2>1. order \in Seq(Named) /\ n \notin Named BY <1>2 DEF TypeOK, Named
    <2>2. K = {} BY <2>1
    <2> QED BY <1>1, <1>2, <2>2, FS_EmptySet
  <1>3. CASE named_services[n] # none
    <2>1. PICK k \in DOMAIN order : order[k] = n BY <1>3 DEF UniqueInv, OneName, Named
    <2>2. K = {k} BY <2>1 DEF UniqueInv, OneName
    <2> QED BY <1>1, <1>3, <2>2, FS_Singleton
  <1> QED BY <1>2, <1>3

LEMMA UniqueInvariance == Spec => [](Inv /\ UniqueInv)
  <1>1. Init => UniqueInv
    <2> SUFFICES ASSUME Init PROVE UniqueInv OBVIOUS
    <2>1. \A n \in Name : ~Begun(n) /\ Pending(n) = {} BY DEF Init, Begun, Pending
    <2>2. OneSpawn BY <2>1 DEF Init, OneSpawn
    <2>3. OneName BY DEF Init, OneName, Named
    <2> QED BY <2>2, <2>3 DEF UniqueInv
  <1>2. Inv /\ UniqueInv /\ [Next]_vars => UniqueInv'
    BY UniqueStep, SameUnique DEF vars, tables, spawns
  <1> QED BY <1>1, <1>2, RootInitial, RootInductive, PTL DEF Spec

\* One service to a name: no name is registered twice, or started while it is
\* registered, whoever asks, fails or dies in between (service/root.lua:102-147).
THEOREM OneServiceToAName == Spec => []UniqueName
  <1>1. Inv /\ UniqueInv => UniqueName BY UniqueInvImplies DEF Inv
  <1> QED BY <1>1, UniqueInvariance, PTL

----------------------------------------------------------------------------
(* Whoever waits for a service with a name is served, and root knows every *)
(* service.  A request of root has the session of one call and stays with  *)
(* its service until this answers it; the answer stays under way until     *)
(* root takes it, or is lost with the service.                             *)

Has(i, st) == i \in serviceId /\ s[index(i)] = i /\ status[index(i)] = st

\* A signal is of a dead service that is still in its slot, and the only one
Single(box) == \A k, l \in 1 .. Len(box) :
  box[k].typ = "signal" /\ box[l].typ = "signal" /\ box[k].from = box[l].from => k = l
Signals(box) == \A k \in 1 .. Len(box) :
  box[k].typ = "signal" => box[k].from # serviceIdRoot /\ Has(box[k].from, "dead")
Signalled(box, i) == \E k \in 1 .. Len(box) : box[k].typ = "signal" /\ box[k].from = i

Lifecycle ==
  /\ Has(serviceIdRoot, "idle")
  /\ starting # Nothing /\ starting.id # Nobody =>
       starting.id # serviceIdRoot /\ Has(starting.id, "uninitialized")
  /\ Single(inbox) /\ Signals(inbox)

\* The sessions of root's calls are their own
Sessions ==
  /\ initSession <= session
  /\ \A k \in DOMAIN closing : closing[k].wait # none => closing[k].wait <= session
  /\ \A c \in calls : /\ initSession < c.session /\ c.session <= session
                      /\ \A k \in DOMAIN closing : closing[k].wait # c.session
  /\ \A c, d \in calls : c.session = d.session => c = d

\* The answer with a session is on its way to root
Bears(m, x) == \/ m.typ \in {"ok", "error"} /\ m.session = x
               \/ m.typ = "send_retry" /\ m.answer.session = x
Carries(box, x) == \E k \in 1 .. Len(box) : Bears(box[k], x)
Under(x) == \/ Carries(inbox, x)
            \/ \E h \in held : h.answer.session = x
            \/ \E k \in 1 .. Len(retries) : retries[k].session = x

\* The service has the request, or its answer is under way, or lost
Unanswered(i) == Has(i, "idle") \/ (Has(i, "dead") /\ Signalled(inbox, i))
Waits(c) == \/ Request(c.session, c.id) \in sent /\ Unanswered(c.id)
            \/ Under(c.session)
            \/ c.session \in lost
Answerable == \A c \in calls : c.id # serviceIdRoot /\ Waits(c)
CallsInv == Sessions /\ Answerable

WaitInv == \A n \in Name : (\E w \in waiting[n] : w.typ = "unique") => n \in unique

ServeInv == Lifecycle /\ CallsInv /\ WaitInv /\ Accounted

\* Each call has a session that no other call and no quit request has
\* (lualib/service.lua:399-424).
LEMMA SameSessions ==
  ASSUME Sessions, UNCHANGED <<session, closing>>, calls' \subseteq calls PROVE Sessions'
  BY DEF Sessions

LEMMA SpawnInitSessions ==
  ASSUME TypeOK, Sessions, NEW ok \in BOOLEAN, SpawnInit(ok) PROVE Sessions'
  <1>1. CASE ok
    <2>1. PICK c : c = [starting EXCEPT !.session = session'] OBVIOUS
    <2>2. /\ session' = session + 1 /\ closing' = closing /\ calls' = calls \cup {c}
          /\ starting \in Spawn
      BY <1>1, <2>1, StartingIsSpawn DEF SpawnInit
    <2>3. c.session = session' BY <2>1, <2>2 DEF Spawn
    <2>4. session \in Nat /\ session' > session /\ initSession <= session /\ initSession \in Nat
      BY <2>2, Constants DEF TypeOK, Sessions
    <2>5. \A d \in calls : d.session \in Nat /\ d.session <= session
      BY DEF TypeOK, Call, Spawn, Sessions
    <2>6. \A k \in DOMAIN closing : closing[k].wait # none =>
            closing[k].wait \in Nat /\ closing[k].wait <= session
      <3>1. \A k \in DOMAIN closing : closing[k] \in Closing BY DEF TypeOK
      <3> QED BY <3>1 DEF Closing, Sessions
    <2>7. \A k \in DOMAIN closing' : closing'[k].wait # none => closing'[k].wait <= session'
      BY <2>2, <2>4, <2>6
    <2>8. \A k \in DOMAIN closing' : closing'[k].wait # c.session
      BY <2>2, <2>3, <2>4, <2>6, Constants
    <2>9. \A d \in calls : /\ initSession < d.session /\ d.session <= session' /\ d.session # c.session
                           /\ \A k \in DOMAIN closing' : closing'[k].wait # d.session
      BY <2>2, <2>3, <2>4, <2>5 DEF Sessions
    <2>10. initSession < c.session /\ c.session <= session' /\ initSession <= session'
      BY <2>2, <2>3, <2>4
    <2> QED BY <2>2, <2>7, <2>8, <2>9, <2>10 DEF Sessions
  <1>2. CASE ~ok BY <1>2, SameSessions DEF SpawnInit
  <1> QED BY <1>1, <1>2

LEMMA CloseSessions ==
  ASSUME TypeOK, Sessions, NEW j \in DOMAIN closing, Close(j) PROVE Sessions'
  <1>1. calls' = calls BY DEF Close, spawns
  <1>2. closing \in Seq(Closing) /\ session \in Nat BY DEF TypeOK
  <1>3. \A k \in DOMAIN closing : closing[k] \in Closing BY <1>2
  <1>4. \A d \in calls : d.session \in Nat BY DEF TypeOK, Call, Spawn
  <1>5. CASE UNCHANGED <<session, closing>> BY <1>1, <1>5, SameSessions
  <1>6. ASSUME NEW left, NEW wait, closing' = [closing EXCEPT ![j] = [left |-> left, wait |-> wait]],
               \/ wait = none /\ session' = session
               \/ wait = session + 1 /\ session' = session + 1
        PROVE  Sessions'
    <2>1. DOMAIN closing' = DOMAIN closing /\ session' \in Nat /\ session <= session'
      BY <1>2, <1>6
    <2>2. \A k \in DOMAIN closing : closing'[k].wait = IF k = j THEN wait ELSE closing[k].wait
      BY <1>2, <1>6
    <2>3. \A k \in DOMAIN closing : closing[k].wait # none => closing[k].wait \in Nat
      BY <1>3 DEF Closing
    <2>4. \A k \in DOMAIN closing' : closing'[k].wait # none => closing'[k].wait <= session'
      BY <1>2, <1>6, <2>1, <2>2, <2>3 DEF Sessions
    <2>5. \A d \in calls : d.session # wait
      BY <1>2, <1>4, <1>6, Constants DEF Sessions
    <2>6. \A d \in calls : /\ initSession < d.session /\ d.session <= session'
                           /\ \A k \in DOMAIN closing' : closing'[k].wait # d.session
      BY <1>2, <1>4, <2>1, <2>2, <2>5 DEF Sessions
    <2>7. initSession <= session' BY <1>2, <2>1, Constants DEF Sessions
    <2> QED BY <1>1, <2>4, <2>6, <2>7 DEF Sessions
  <1> QED BY <1>5, <1>6 DEF Close

LEMMA QuitSessions ==
  ASSUME TypeOK, Sessions, OnQuit \/ OnQuitAnswer PROVE Sessions'
  <1>1. calls' = calls /\ session' = session BY DEF OnQuit, OnQuitAnswer, spawns, requests
  <1>2. closing \in Seq(Closing) /\ session \in Nat BY DEF TypeOK
  <1>3. \A d \in calls : d.session \in Nat /\ d.session # none
    BY Constants DEF TypeOK, Call, Spawn
  <1>4. \A k \in DOMAIN closing' : closing'[k].wait # none =>
          k \in DOMAIN closing /\ closing'[k].wait = closing[k].wait
    <2>1. CASE OnQuit
      <3>1. closing' = Append(closing, [left |-> Reverse(order), wait |-> none])
        BY <2>1 DEF OnQuit
      <3> QED BY <1>2, <3>1
    <2>2. CASE OnQuitAnswer
      <3>1. PICK j \in DOMAIN closing : closing' = [closing EXCEPT ![j].wait = none]
        BY <2>2 DEF OnQuitAnswer
      <3>a. closing[j] \in Closing BY <1>2, <3>1
      <3>2. DOMAIN closing' = DOMAIN closing /\ closing'[j].wait = none
            /\ \A k \in DOMAIN closing \ {j} : closing'[k] = closing[k]
        BY <1>2, <3>1, <3>a DEF Closing
      <3> QED BY <3>2
    <2> QED BY <2>1, <2>2
  <1> QED BY <1>1, <1>3, <1>4 DEF Sessions

LEMMA SessionsStep == ASSUME TypeOK, Sessions, Next PROVE Sessions'
  <1>1. CASE Boots \/ SpawnNew \/ OnRequest
    <2>1. calls' = calls /\ UNCHANGED <<session, closing>>
      BY <1>1 DEF Boots, SpawnNew, OnRequest, AskedTo, uniqueservice, spawns, requests
    <2> QED BY <2>1, SameSessions
  <1>2. CASE OnInit \/ OnInitReceipt \/ OnStray \/ OnSendRetry \/ Retries \/ OnSignal
    BY <1>2, SameSessions
       DEF OnInit, OnInitReceipt, OnStray, OnSendRetry, Retries, OnSignal, spawns, requests
  <1>3. CASE Forked
    BY <1>3, SameSessions DEF Forked, HandsOver, Sleeps, spawns, requests
  <1>4. ASSUME NEW i, Asks(i) \/ Replies(i) \/ Dies(i) PROVE Sessions'
    BY <1>4, SameSessions DEF Asks, Replies, Dies, spawns, requests
  <1> QED BY <1>1, <1>2, <1>3, <1>4, SpawnInitSessions, CloseSessions, QuitSessions
          DEF Next, RootStep

\* Two ids in one slot are one
LEMMA HasApart ==
  ASSUME NEW i \in serviceId, NEW x, NEW st, NEW st0, Has(x, st), Has(i, st0), x # i
  PROVE  index(x) # index(i)
  BY DEF Has

\* What is done to one slot leaves the others.
LEMMA SetOther ==
  ASSUME PoolInv, NEW i \in serviceId, NEW who, NEW w, setService(i, who, w),
         NEW x, NEW st, Has(x, st), index(x) # index(i)
  PROVE  Has(x, st)'
  <1>1. index(x) \in Slot /\ index(i) \in Slot BY IndexIsSlot, PoolAssumption DEF Has, serviceId
  <1>2. s'[index(x)] = s[index(x)] /\ status'[index(x)] = status[index(x)]
    BY <1>1 DEF setService, PoolInv, PoolTypeOK
  <1> QED BY <1>2 DEF Has, index

LEMMA NewHas ==
  ASSUME PoolInv, NEW i \in serviceId, newService(i)
  PROVE  /\ Has(i, "uninitialized")'
         /\ \A x, st : Has(x, st) => Has(x, st)' /\ x # i
         /\ \A j \in Slot : s'[j] = s[j] \/ (s'[j] = i /\ s[j] = Nobody)
  <1>1. getService(i) = Nobody /\ setService(i, i, "uninitialized") BY NewServiceKeeps
  <1>2. index(i) \in Slot BY IndexIsSlot, PoolAssumption DEF serviceId
  <1>3. Has(i, "uninitialized")'
    BY <1>1, <1>2 DEF Has, setService, PoolInv, PoolTypeOK, index
  <1>4. ASSUME NEW x, NEW st, Has(x, st) PROVE Has(x, st)' /\ x # i
    <2>1. index(x) # index(i) BY <1>1, <1>4, Constants DEF Has, getService
    <2> QED BY <1>1, <1>4, <2>1, SetOther
  <1>5. ASSUME NEW j \in Slot PROVE s'[j] = s[j] \/ (s'[j] = i /\ s[j] = Nobody)
    BY <1>1, <1>2 DEF setService, PoolInv, PoolTypeOK, getService
  <1> QED BY <1>3, <1>4, <1>5

\* The status of a service changes
LEMMA StatusHas ==
  ASSUME PoolInv, NEW i \in serviceId, NEW st0, Has(i, st0), NEW w, setService(i, i, w)
  PROVE  /\ Has(i, w)' /\ s' = s
         /\ \A x, st : Has(x, st) /\ x # i => Has(x, st)'
  <1>1. index(i) \in Slot BY IndexIsSlot, PoolAssumption DEF serviceId
  <1>2. Has(i, w)' /\ s' = s
    BY <1>1 DEF Has, setService, PoolInv, PoolTypeOK, index
  <1>3. ASSUME NEW x, NEW st, Has(x, st), x # i PROVE Has(x, st)'
    BY <1>3, HasApart, SetOther
  <1> QED BY <1>2, <1>3

\* A service is deleted
LEMMA DeleteHas ==
  ASSUME PoolInv, NEW i \in serviceId, NEW st0, Has(i, st0), deleteService(i)
  PROVE  /\ \A x, st : Has(x, st) /\ x # i => Has(x, st)'
         /\ \A j \in Slot : s'[j] # i /\ s'[j] \in {s[j], Nobody}
  <1>1. setService(i, Nobody, "none") BY DEF deleteService
  <1>2. index(i) \in Slot /\ i # Nobody BY IndexIsSlot, PoolAssumption, Constants DEF serviceId
  <1>3. ASSUME NEW x, NEW st, Has(x, st), x # i PROVE Has(x, st)'
    BY <1>1, <1>3, HasApart, SetOther
  <1>4. ASSUME NEW j \in Slot PROVE s'[j] # i /\ s'[j] \in {s[j], Nobody}
    BY <1>1, <1>2 DEF setService, PoolInv, PoolTypeOK, OwnSlot, getService
  <1> QED BY <1>3, <1>4

\* Messages are put behind the others
Longer(box, new) ==
  /\ box \in Seq(Post) /\ new \in Seq(Post) /\ Len(box) <= Len(new)
  /\ \A k \in 1 .. Len(box) : new[k] = box[k]
Quiet(box, new) ==
  Longer(box, new) /\ \A k \in 1 .. Len(new) : k > Len(box) => new[k].typ # "signal"

LEMMA LongerKeeps ==
  ASSUME NEW box, NEW new, Longer(box, new)
  PROVE  /\ \A x : Carries(box, x) => Carries(new, x)
         /\ \A i : Signalled(box, i) => Signalled(new, i)
  <1>1. \A k \in 1 .. Len(box) : k \in 1 .. Len(new) /\ new[k] = box[k] BY DEF Longer
  <1> QED BY <1>1 DEF Carries, Signalled

LEMMA QuietSignals ==
  ASSUME NEW box, NEW new, Quiet(box, new) PROVE Single(box) => Single(new)
  <1>1. Len(box) \in Nat /\ Len(new) \in Nat /\ Len(box) <= Len(new) BY DEF Quiet, Longer
  <1>2. \A k \in 1 .. Len(new) : new[k].typ = "signal" => k \in 1 .. Len(box) /\ new[k] = box[k]
    BY <1>1 DEF Quiet, Longer
  <1> QED BY <1>2 DEF Single

LEMMA QuietQuiet ==
  ASSUME NEW box, NEW mid, NEW new, Quiet(box, mid), Quiet(mid, new) PROVE Quiet(box, new)
  <1>1. Len(box) \in Nat /\ Len(mid) \in Nat /\ Len(new) \in Nat
    BY DEF Quiet, Longer
  <1>2. \A k \in 1 .. Len(box) : k \in 1 .. Len(mid) /\ new[k] = box[k]
    BY <1>1 DEF Quiet, Longer
  <1>3. ASSUME NEW k \in 1 .. Len(new), k > Len(box) PROVE new[k].typ # "signal"
    <2>1. CASE k \in 1 .. Len(mid) BY <1>3, <2>1 DEF Quiet, Longer
    <2>2. CASE k \notin 1 .. Len(mid) BY <1>1, <2>2 DEF Quiet
    <2> QED BY <2>1, <2>2
  <1> QED BY <1>1, <1>2, <1>3 DEF Quiet, Longer

\* The first message is taken
LEMMA TakenKeeps ==
  ASSUME NEW box \in Seq(Post), box # <<>>
  PROVE  /\ Tail(box) \in Seq(Post)
         /\ \A x : Carries(box, x) /\ ~Bears(Head(box), x) => Carries(Tail(box), x)
         /\ \A i : Signalled(box, i) /\ ~(Head(box).typ = "signal" /\ Head(box).from = i) =>
              Signalled(Tail(box), i)
         /\ Single(box) => Single(Tail(box))
         /\ Single(box) /\ Head(box).typ = "signal" =>
              \A k \in 1 .. Len(Tail(box)) : Tail(box)[k].typ = "signal" => Tail(box)[k].from # Head(box).from
         /\ \A k \in 1 .. Len(Tail(box)) : \E l \in 1 .. Len(box) : Tail(box)[k] = box[l]
  <1> DEFINE rest == Tail(box)
             first == Head(box)
  <1>1. /\ rest \in Seq(Post) /\ Len(rest) = Len(box) - 1 /\ Len(box) \in Nat \ {0}
        /\ \A k \in 1 .. Len(rest) : rest[k] = box[k + 1]
        /\ first = box[1]
    OBVIOUS
  <1> HIDE DEF rest, first
  <1>2. \A k \in 1 .. Len(box) : box[k] = first \/ \E l \in 1 .. Len(rest) : rest[l] = box[k]
    <2>1. \A k \in 1 .. Len(box) : k # 1 => k - 1 \in 1 .. Len(rest) /\ (k - 1) + 1 = k BY <1>1
    <2> QED BY <1>1, <2>1
  <1>3. \A x : Carries(box, x) /\ ~Bears(first, x) => Carries(rest, x)
    BY <1>2 DEF Carries
  <1>4. \A i : Signalled(box, i) /\ ~(first.typ = "signal" /\ first.from = i) => Signalled(rest, i)
    BY <1>2 DEF Signalled
  <1>5. Single(box) => Single(rest)
    <2>1. \A k \in 1 .. Len(rest) : k + 1 \in 1 .. Len(box) BY <1>1
    <2> QED BY <1>1, <2>1 DEF Single
  <1>6. ASSUME Single(box), first.typ = "signal", NEW k \in 1 .. Len(rest), rest[k].typ = "signal"
        PROVE  rest[k].from # first.from
    <2>1. 1 \in 1 .. Len(box) /\ k + 1 \in 1 .. Len(box) /\ k + 1 # 1 BY <1>1
    <2> QED BY <1>1, <1>6, <2>1 DEF Single
  <1>7. \A k \in 1 .. Len(rest) : \E l \in 1 .. Len(box) : rest[k] = box[l]
    <2>1. \A k \in 1 .. Len(rest) : k + 1 \in 1 .. Len(box) BY <1>1
    <2> QED BY <1>1, <2>1
  <1> QED BY <1>1, <1>3, <1>4, <1>5, <1>6, <1>7 DEF rest, first

\* Messages that are not signals, behind the others
LEMMA BehindIsQuiet ==
  /\ \A box \in Seq(Post) : Quiet(box, box)
  /\ \A box, posts \in Seq(Post) :
       (\A k \in 1 .. Len(posts) : posts[k].typ # "signal") => Quiet(box, box \o posts)
  /\ \A box \in Seq(Post) : \A m \in Post :
       /\ Longer(box, Append(box, m))
       /\ Len(Append(box, m)) = Len(box) + 1 /\ Append(box, m)[Len(box) + 1] = m
       /\ m.typ # "signal" => Quiet(box, Append(box, m))
  <1>1. \A box \in Seq(Post) : Quiet(box, box) BY DEF Quiet, Longer
  <1>2. ASSUME NEW box \in Seq(Post), NEW posts \in Seq(Post),
               \A k \in 1 .. Len(posts) : posts[k].typ # "signal"
        PROVE  Quiet(box, box \o posts)
    <2> DEFINE new == box \o posts
    <2>1. /\ new \in Seq(Post) /\ Len(new) = Len(box) + Len(posts)
          /\ Len(box) \in Nat /\ Len(posts) \in Nat
          /\ \A k \in 1 .. Len(new) : new[k] = IF k <= Len(box) THEN box[k] ELSE posts[k - Len(box)]
      OBVIOUS
    <2> HIDE DEF new
    <2>2. \A k \in 1 .. Len(box) : k \in 1 .. Len(new) /\ k <= Len(box) BY <2>1
    <2>3. ASSUME NEW k \in 1 .. Len(new), k > Len(box) PROVE new[k].typ # "signal"
      <3>1. k - Len(box) \in 1 .. Len(posts) BY <2>1, <2>3
      <3>2. new[k] = posts[k - Len(box)] BY <2>1, <2>3
      <3> QED BY <1>2, <3>1, <3>2
    <2> QED BY <2>1, <2>2, <2>3 DEF Quiet, Longer, new
  <1>3. ASSUME NEW box \in Seq(Post), NEW m \in Post
        PROVE  /\ Longer(box, Append(box, m))
               /\ Len(Append(box, m)) = Len(box) + 1 /\ Append(box, m)[Len(box) + 1] = m
               /\ m.typ # "signal" => Quiet(box, Append(box, m))
    <2> DEFINE new == Append(box, m)
    <2>1. /\ new \in Seq(Post) /\ Len(new) = Len(box) + 1 /\ Len(box) \in Nat
          /\ \A k \in 1 .. Len(box) : new[k] = box[k]
          /\ new[Len(box) + 1] = m
      OBVIOUS
    <2> HIDE DEF new
    <2>2. \A k \in 1 .. Len(new) : k > Len(box) => k = Len(box) + 1 BY <2>1
    <2> QED BY <2>1, <2>2 DEF Quiet, Longer, new
  <1> QED BY <1>1, <1>2, <1>3

\* Answers that are posted are in the inbox or in a fork, each of them.
LEMMA FitCarries ==
  ASSUME NEW box \in Seq(Post), Len(box) <= QueueLen, NEW answers \in Seq(Reply), NEW who
  PROVE  /\ box \o Fit(box, answers) \in Seq(Post)
         /\ Quiet(box, box \o Fit(box, answers))
         /\ \A k \in 1 .. Len(answers) :
              \/ Carries(box \o Fit(box, answers), answers[k].session)
              \/ \E h \in Forks(box, answers, who) : h.answer.session = answers[k].session
  <1> DEFINE fit == Fit(box, answers)
  <1>1. /\ fit \in Seq(Reply) /\ Len(fit) \in 0 .. Len(answers)
        /\ \A k \in 1 .. Len(fit) : fit[k] = answers[k]
    BY FitIsPrefix
  <1> HIDE DEF fit
  <1>2. fit \in Seq(Post) BY <1>1, PostsAreMessages, SeqMonotonic
  <1>3. \A k \in 1 .. Len(fit) : fit[k] \in Reply BY <1>1
  <1>4. \A k \in 1 .. Len(fit) : fit[k].typ # "signal" /\ fit[k].typ \in {"ok", "error"}
    BY <1>3 DEF Reply
  <1>5. box \o fit \in Seq(Post) /\ Quiet(box, box \o fit) BY <1>2, <1>4, BehindIsQuiet, BehindKeeps
  <1>6. ASSUME NEW k \in 1 .. Len(answers)
        PROVE  \/ Carries(box \o fit, answers[k].session)
               \/ \E h \in Forks(box, answers, who) : h.answer.session = answers[k].session
    <2>1. CASE k \in 1 .. Len(fit)
      <3>1. Bears(fit[k], answers[k].session) BY <1>1, <1>4, <2>1 DEF Bears
      <3>2. (box \o fit)[Len(box) + k] = fit[k] /\ Len(box) + k \in 1 .. Len(box \o fit)
        BY <1>2, <2>1, BehindKeeps
      <3> QED BY <3>1, <3>2 DEF Carries
    <2>2. CASE k \notin 1 .. Len(fit)
      <3>1. k \in Len(fit) + 1 .. Len(answers) BY <1>1, <2>2
      <3>2. [answer |-> answers[k], by |-> who, tried |-> FALSE] \in Forks(box, answers, who)
        BY <3>1 DEF Forks, fit
      <3> QED BY <3>2
    <2> QED BY <2>1, <2>2
  <1> QED BY <1>5, <1>6 DEF fit

LEMMA PostedCarries ==
  ASSUME NEW box \in Seq(Post), Len(box) <= QueueLen, NEW answers \in Seq(Reply), NEW who,
         Posted(box, answers, who)
  PROVE  /\ Quiet(box, inbox') /\ held \subseteq held'
         /\ \A k \in 1 .. Len(answers) : Under(answers[k].session)'
  <1>1. inbox' = box \o Fit(box, answers) /\ held' = held \cup Forks(box, answers, who)
    BY DEF Posted
  <1>2. /\ Quiet(box, box \o Fit(box, answers))
        /\ \A k \in 1 .. Len(answers) :
              \/ Carries(box \o Fit(box, answers), answers[k].session)
              \/ \E h \in Forks(box, answers, who) : h.answer.session = answers[k].session
    BY FitCarries
  <1>3. ASSUME NEW x, Carries(inbox', x) \/ \E h \in held' : h.answer.session = x PROVE Under(x)'
    BY <1>3 DEF Under, Carries, Bears
  <1>4. ASSUME NEW k \in 1 .. Len(answers) PROVE Under(answers[k].session)'
    <2>1. PICK x : x = answers[k].session OBVIOUS
    <2>2. Carries(inbox', x) \/ \E h \in held' : h.answer.session = x BY <1>1, <1>2, <2>1
    <2> QED BY <1>3, <2>1, <2>2
  <1> QED BY <1>1, <1>2, <1>4

LEMMA TakesCarries ==
  ASSUME TypeOK, NEW typ, NEW answers \in Seq(Reply), Takes(typ, answers)
  PROVE  /\ inbox # <<>> /\ Quiet(Tail(inbox), inbox') /\ held \subseteq held'
         /\ Head(inbox) \in Post /\ Head(inbox).typ = typ
  <1>1. Heads(typ) /\ Posted(Tail(inbox), answers, serviceIdRoot) BY DEF Takes
  <1>2. /\ inbox # <<>> /\ Tail(inbox) \in Seq(Post) /\ Len(Tail(inbox)) <= QueueLen
        /\ Head(inbox) \in Post /\ Head(inbox).typ = typ
    BY <1>1, HeadsKeeps
  <1> QED BY <1>1, <1>2, PostedCarries

\* An answer that is under way stays so, or is the one taken.
LEMMA UnderKept ==
  ASSUME inbox \in Seq(Post), NEW rest, Longer(rest, inbox'), NEW x, Under(x),
         rest = inbox \/ (inbox # <<>> /\ rest = Tail(inbox) /\ ~Bears(Head(inbox), x)),
         \A h \in held : h.answer.session = x => Under(x)',
         \A k \in 1 .. Len(retries) : retries[k].session = x => Under(x)'
  PROVE  Under(x)'
  <1>1. CASE Carries(inbox, x)
    <2>1. Carries(rest, x) BY <1>1, TakenKeeps
    <2>2. Carries(inbox', x) BY <2>1, LongerKeeps
    <2> QED BY <2>2 DEF Under, Carries, Bears
  <1> QED BY <1>1 DEF Under

LEMMA UnderHeld ==
  ASSUME NEW x, \/ \E h \in held' : h.answer.session = x
                \/ \E k \in 1 .. Len(retries') : retries'[k].session = x
                \/ Carries(inbox', x)
  PROVE  Under(x)'
  BY DEF Under, Carries, Bears

\* Steps that add no signal and no call; `gone` is deleted by them
LEMMA QuietStep ==
  ASSUME TypeOK, Lifecycle, CallsInv, NEW gone,
         \A x, st : Has(x, st) /\ x # gone => Has(x, st)',
         gone # serviceIdRoot, calls' \subseteq calls, lost \subseteq lost',
         starting' # Nothing /\ starting'.id # Nobody =>
           (starting.id # serviceIdRoot /\ Has(starting.id, "uninitialized"))',
         NEW rest, Quiet(rest, inbox'),
         \A k \in 1 .. Len(rest) : rest[k].typ = "signal" => rest[k].from # gone,
         \/ rest = inbox
         \/ /\ inbox # <<>> /\ rest = Tail(inbox)
            /\ Head(inbox).typ = "signal" => Head(inbox).from = gone
            /\ \A c \in calls' : ~Bears(Head(inbox), c.session) \/ Under(c.session)',
         \A c \in calls' : Request(c.session, c.id) \in sent /\ Unanswered(c.id) =>
           (Request(c.session, c.id) \in sent' /\ c.id # gone) \/ Under(c.session)',
         \A c \in calls' : \A h \in held : h.answer.session = c.session => Under(c.session)',
         \A c \in calls' : \A k \in 1 .. Len(retries) :
           retries[k].session = c.session => Under(c.session)'
  PROVE  Lifecycle' /\ Answerable'
  <1>0. inbox \in Seq(Post) BY DEF TypeOK
  <1>1. Single(rest) /\ \A k \in 1 .. Len(rest) : \E l \in 1 .. Len(inbox) : rest[k] = inbox[l]
    <2>1. CASE rest = inbox BY <2>1 DEF Lifecycle
    <2>2. CASE inbox # <<>> /\ rest = Tail(inbox)
      BY <1>0, <2>2, TakenKeeps DEF Lifecycle
    <2> QED BY <2>1, <2>2
  <1>2. Single(inbox)' BY <1>1, QuietSignals
  <1>3. Signals(inbox)'
    <2> SUFFICES ASSUME NEW k \in 1 .. Len(inbox'), inbox'[k].typ = "signal"
                 PROVE  (inbox[k].from # serviceIdRoot /\ Has(inbox[k].from, "dead"))'
      BY DEF Signals
    <2>1. k \in 1 .. Len(rest) /\ inbox'[k] = rest[k] BY DEF Quiet, Longer
    <2>2. PICK l \in 1 .. Len(inbox) : rest[k] = inbox[l] BY <1>1, <2>1
    <2>3. inbox[l].from # serviceIdRoot /\ Has(inbox[l].from, "dead")
      BY <2>1, <2>2 DEF Lifecycle, Signals
    <2>4. PICK i : i = inbox[l].from OBVIOUS
    <2>5. i = inbox'[k].from /\ i # gone /\ i # serviceIdRoot BY <2>1, <2>2, <2>3, <2>4
    <2>6. Has(i, "dead")' BY <2>3, <2>4, <2>5
    <2> QED BY <2>5, <2>6 DEF Has, index
  <1>4. Lifecycle'
    <2>1. Has(serviceIdRoot, "idle")' BY DEF Lifecycle
    <2> QED BY <1>2, <1>3, <2>1 DEF Lifecycle
  <1>5. ASSUME NEW c \in calls' PROVE c.id # serviceIdRoot /\ Waits(c)'
    <2>0. PICK x, i : x = c.session /\ i = c.id OBVIOUS
    <2>1. c \in calls /\ i # serviceIdRoot /\ Waits(c) BY <2>0 DEF CallsInv, Answerable
    <2>2. ASSUME Under(x)' PROVE Waits(c)' BY <2>0, <2>2 DEF Waits
    <2>3. CASE Request(x, i) \in sent /\ Unanswered(i)
      <3>1. (Request(x, i) \in sent' /\ i # gone) \/ Under(x)' BY <2>0, <2>3
      <3>2. ASSUME Request(x, i) \in sent', i # gone PROVE Unanswered(i)'
        <4>1. CASE Has(i, "idle")
          <5>1. Has(i, "idle")' BY <3>2, <4>1
          <5> QED BY <5>1 DEF Unanswered
        <4>2. CASE Has(i, "dead") /\ Signalled(inbox, i)
          <5>1. Signalled(rest, i) BY <1>0, <3>2, <4>2, TakenKeeps
          <5>2. Signalled(inbox', i) BY <5>1, LongerKeeps DEF Quiet
          <5>3. Has(i, "dead")' BY <3>2, <4>2
          <5> QED BY <5>2, <5>3 DEF Unanswered, Signalled
        <4> QED BY <2>3, <4>1, <4>2 DEF Unanswered
      <3>3. CASE Request(x, i) \in sent' /\ i # gone
        <4>1. Unanswered(c.id)' BY <2>0, <3>2, <3>3 DEF Unanswered, Has, Signalled, index
        <4>2. Request(c.session, c.id) \in sent' BY <2>0, <3>3
        <4> QED BY <2>0, <2>1, <4>1, <4>2 DEF Waits, Request
      <3> QED BY <2>0, <2>1, <2>2, <3>1, <3>3
    <2>4. CASE Under(x)
      <3>1. Under(x)' BY <1>0, <2>0, <2>4, UnderKept DEF Quiet
      <3> QED BY <2>0, <2>1, <2>2, <3>1
    <2>5. CASE x \in lost
      <3>1. c.session \in lost' BY <2>0, <2>5
      <3> QED BY <2>0, <2>1, <3>1 DEF Waits
    <2> QED BY <2>0, <2>1, <2>3, <2>4, <2>5 DEF Waits
  <1> QED BY <1>4, <1>5 DEF Answerable

\* Steps that leave the pool alone
LEMMA PlainStep ==
  ASSUME TypeOK, Lifecycle, CallsInv, UNCHANGED <<poolVars, lost>>, calls' \subseteq calls,
         starting' = Nothing \/ starting' = starting \/ starting'.id = Nobody,
         NEW rest, Quiet(rest, inbox'),
         \/ rest = inbox
         \/ /\ inbox # <<>> /\ rest = Tail(inbox) /\ Head(inbox).typ # "signal"
            /\ \A c \in calls' : ~Bears(Head(inbox), c.session) \/ Under(c.session)',
         \A c \in calls' : Request(c.session, c.id) \in sent =>
           Request(c.session, c.id) \in sent' \/ Under(c.session)',
         \A h \in held : (\E g \in held' : g.answer = h.answer) \/ Under(h.answer.session)',
         \A k \in 1 .. Len(retries) :
           (\E l \in 1 .. Len(retries') : retries'[l] = retries[k])
             \/ Carries(inbox', retries[k].session)
  PROVE  Lifecycle' /\ Answerable'
  <1>1. \A x, st : Has(x, st) => Has(x, st)' BY DEF Has, poolVars, index
  <1>2. none # serviceIdRoot BY Constants
  <1>3. \A c \in calls' : c.id # none BY Constants DEF TypeOK, Call, Spawn, Nobody, serviceId
  <1>4. \A k \in 1 .. Len(rest) : rest[k].typ = "signal" => rest[k].from # none
    <2>1. rest \in Seq(Post) BY DEF Quiet, Longer
    <2>2. \A k \in 1 .. Len(rest) : rest[k] \in Post BY <2>1
    <2> QED BY <2>2, Constants DEF Post, Question, Reply
  <1>5. starting' # Nothing /\ starting'.id # Nobody =>
          (starting.id # serviceIdRoot /\ Has(starting.id, "uninitialized"))'
    <2> SUFFICES ASSUME starting' # Nothing, starting'.id # Nobody
                 PROVE  (starting.id # serviceIdRoot /\ Has(starting.id, "uninitialized"))'
      OBVIOUS
    <2>1. starting' = starting OBVIOUS
    <2>2. PICK i : i = starting.id OBVIOUS
    <2>3. i # serviceIdRoot /\ Has(i, "uninitialized") BY <2>1, <2>2 DEF Lifecycle
    <2> QED BY <1>1, <2>1, <2>2, <2>3 DEF Has, index
  <1>6. ASSUME NEW c \in calls', NEW h \in held, h.answer.session = c.session
        PROVE  Under(c.session)'
    <2>1. PICK x : x = c.session OBVIOUS
    <2>2. CASE \E g \in held' : g.answer = h.answer
      <3>1. \E g \in held' : g.answer.session = x BY <1>6, <2>1, <2>2
      <3> QED BY <2>1, <3>1, UnderHeld
    <2>3. CASE Under(h.answer.session)'
      BY <1>6, <2>3 DEF Under, Carries, Bears
    <2> QED BY <2>2, <2>3
  <1>7. ASSUME NEW c \in calls', NEW k \in 1 .. Len(retries), retries[k].session = c.session
        PROVE  Under(c.session)'
    <2>1. PICK x : x = c.session OBVIOUS
    <2>2. \/ \E l \in 1 .. Len(retries') : retries'[l].session = x
          \/ Carries(inbox', x)
      BY <1>7, <2>1
    <2> QED BY <2>1, <2>2, UnderHeld
  <1> QED BY <1>1, <1>2, <1>3, <1>4, <1>5, <1>6, <1>7, QuietStep

LEMMA AskedToStarts ==
  ASSUME NEW m, AskedTo(m)
  PROVE  calls' = calls /\ (starting' = starting \/ starting'.id = Nobody)
  BY DEF AskedTo, uniqueservice, spawn

\* A message is taken that is no answer root waits for, or the answer to one call
LEMMA TakesServes ==
  ASSUME Inv, Lifecycle, CallsInv, NEW typ, NEW answers \in Seq(Reply), Takes(typ, answers),
         typ # "signal", UNCHANGED <<poolVars, requests>>, calls' \subseteq calls,
         starting' = starting \/ starting'.id = Nobody,
         \/ retries' = retries
         \/ \E a : retries' = Append(retries, a),
         typ \in {"ok", "error"} => \A c \in calls' : c.session # Head(inbox).session,
         typ = "send_retry" => retries' = Append(retries, Head(inbox).answer)
  PROVE  Lifecycle' /\ Answerable'
  <1>a. TypeOK /\ inbox \in Seq(Post) /\ retries \in Seq(Reply) BY DEF Inv, TypeOK
  <1>1. /\ inbox # <<>> /\ Quiet(Tail(inbox), inbox') /\ held \subseteq held'
        /\ Head(inbox).typ = typ
    BY <1>a, TakesCarries
  <1>2. \A k \in 1 .. Len(retries) : \E l \in 1 .. Len(retries') : retries'[l] = retries[k]
    <2>1. ASSUME NEW a, retries' = Append(retries, a), NEW k \in 1 .. Len(retries)
          PROVE  k \in 1 .. Len(retries') /\ retries'[k] = retries[k]
      BY <1>a, <2>1
    <2> QED BY <2>1
  <1>3. ASSUME NEW c \in calls' PROVE ~Bears(Head(inbox), c.session) \/ Under(c.session)'
    <2>1. CASE typ = "send_retry"
      <3>1. retries' = Append(retries, Head(inbox).answer) BY <2>1
      <3>2. Len(retries') \in 1 .. Len(retries') /\ retries'[Len(retries')] = Head(inbox).answer
        BY <1>a, <3>1
      <3>3. PICK x : x = c.session OBVIOUS
      <3>4. Head(inbox).answer.session = x => Under(x)' BY <3>2, UnderHeld
      <3> QED BY <1>1, <2>1, <3>3, <3>4 DEF Bears
    <2>2. CASE typ # "send_retry"
      <3>1. ~Bears(Head(inbox), c.session) BY <1>1, <2>2 DEF Bears
      <3> QED BY <3>1
    <2> QED BY <2>1, <2>2
  <1>4. UNCHANGED <<poolVars, lost>> /\ sent' = sent BY DEF requests
  <1> QED BY <1>a, <1>1, <1>2, <1>3, <1>4, PlainStep

LEMMA RootServes ==
  ASSUME Inv, Lifecycle, CallsInv,
         \/ Boots \/ OnRequest \/ OnInit \/ OnInitReceipt \/ OnQuitAnswer \/ OnStray
         \/ OnSendRetry \/ Retries \/ OnQuit \/ \E k \in DOMAIN closing : Close(k)
  PROVE  Lifecycle' /\ Answerable'
  <1>a. TypeOK /\ inbox \in Seq(Post) BY DEF Inv, TypeOK
  <1>b. Quiet(inbox, inbox) BY <1>a, BehindIsQuiet
  <1>c. <<>> \in Seq(Reply) OBVIOUS
  <1>1. CASE Boots
    <2>1. UNCHANGED <<poolVars, retries, lost, sent>> BY <1>1 DEF Boots, requests
    <2>2. CASE boot <= Len(Bootstrap)
      <3>1. PICK m : AskedTo(m) /\ inbox' = inbox /\ held' = held BY <1>a, <1>1, <2>2, BootAsks
      <3>2. calls' = calls /\ (starting' = starting \/ starting'.id = Nobody)
        BY <3>1, AskedToStarts
      <3> QED BY <1>a, <1>b, <2>1, <3>1, <3>2, PlainStep
    <2>3. CASE ~(boot <= Len(Bootstrap))
      <3>1. PICK box \in Seq(Post), answers \in Seq(Reply), posts \in Seq(Post) :
              /\ box = inbox \o posts /\ Len(box) <= QueueLen
              /\ \A k \in 1 .. Len(posts) : posts[k].typ = "quit_ltask"
              /\ Posted(box, answers, serviceIdRoot) /\ UNCHANGED <<spawns, busy>>
        BY <1>a, <1>1, <2>3, BootPosts
      <3>2. Quiet(box, inbox') /\ held \subseteq held' BY <3>1, PostedCarries
      <3>3. Quiet(inbox, box) BY <1>a, <3>1, BehindIsQuiet
      <3>4. Quiet(inbox, inbox') BY <3>2, <3>3, QuietQuiet
      <3>5. calls' = calls /\ starting' = starting BY <3>1 DEF spawns
      <3> QED BY <1>a, <2>1, <3>2, <3>4, <3>5, PlainStep
    <2> QED BY <2>2, <2>3
  <1>2. CASE OnRequest
    <2>1. PICK typ \in Question : Takes(typ, <<>>) /\ AskedTo(Head(inbox)) BY <1>2 DEF OnRequest
    <2>2. typ \notin {"ok", "error", "signal", "send_retry"} BY DEF Question
    <2>3. UNCHANGED <<poolVars, retries, requests>> BY <1>2 DEF OnRequest
    <2>4. calls' = calls /\ (starting' = starting \/ starting'.id = Nobody)
      BY <2>1, AskedToStarts
    <2> QED BY <1>c, <2>1, <2>2, <2>3, <2>4, TakesServes
  <1>3. CASE OnInit
    <2>1. PICK c \in calls : c.session = Head(inbox).session /\ calls' = calls \ {c}
            /\ (Takes("ok", <<>>) \/ Takes("error", Fatal(Waiters(c))))
      BY <1>3 DEF OnInit
    <2>2. Fatal(Waiters(c)) \in Seq(Reply) BY PostsAreMessages
    <2>3. \A d \in calls' : d.session # Head(inbox).session BY <2>1 DEF CallsInv, Sessions
    <2>4. UNCHANGED <<poolVars, retries, requests, starting>> BY <1>3 DEF OnInit
    <2> QED BY <1>c, <2>1, <2>2, <2>3, <2>4, TakesServes
  <1>4. CASE OnInitReceipt \/ OnStray \/ OnQuitAnswer
    <2>1. PICK typ \in {"ok", "error"} : Takes(typ, <<>>)
      BY <1>4 DEF OnInitReceipt, OnStray, OnQuitAnswer
    <2>2. \A c \in calls : c.session # Head(inbox).session
      <3>1. CASE OnInitReceipt
        <4>1. \A c \in calls : c.session \in Nat /\ initSession < c.session
          BY <1>a DEF CallsInv, Sessions, TypeOK, Call, Spawn
        <4> QED BY <3>1, <4>1, Constants DEF OnInitReceipt
      <3>2. CASE OnStray BY <3>2 DEF OnStray
      <3>3. CASE OnQuitAnswer BY <3>3 DEF OnQuitAnswer, CallsInv, Sessions
      <3> QED BY <1>4, <3>1, <3>2, <3>3
    <2>3. UNCHANGED <<poolVars, retries, requests, starting, calls>>
      BY <1>4 DEF OnInitReceipt, OnStray, OnQuitAnswer, spawns
    <2> QED BY <1>c, <2>1, <2>2, <2>3, TakesServes
  <1>5. CASE OnSendRetry
    <2>1. /\ Takes("send_retry", <<>>) /\ retries' = Append(retries, Head(inbox).answer)
          /\ UNCHANGED <<poolVars, requests, starting, calls>>
      BY <1>5 DEF OnSendRetry, spawns
    <2> QED BY <1>c, <2>1, TakesServes
  <1>6. CASE OnQuit
    <2>1. /\ Takes("quit_ltask", <<>>)
          /\ UNCHANGED <<poolVars, retries, requests, starting, calls>>
      BY <1>6 DEF OnQuit, spawns
    <2> QED BY <1>c, <2>1, TakesServes
  <1>7. CASE \E k \in DOMAIN closing : Close(k)
    <2>1. UNCHANGED <<inbox, held, retries, poolVars, lost, calls, starting>> /\ sent \subseteq sent'
      BY <1>7 DEF Close, spawns
    <2> QED BY <1>a, <1>b, <2>1, PlainStep
  <1>8. CASE Retries
    <2>1. UNCHANGED <<held, poolVars, lost, sent, calls, starting>>
      BY <1>8 DEF Retries, spawns, requests
    <2>2. PICK fit \in Seq(Reply) :
            /\ fit \in Seq(Post) /\ inbox' = inbox \o fit
            /\ \A k \in 1 .. Len(retries) :
                 \/ k \in 1 .. Len(fit) /\ fit[k] = retries[k]
                 \/ \E l \in 1 .. Len(retries') : retries'[l] = retries[k]
      BY <1>a, <1>8, RetriesKeeps
    <2>3. \A k \in 1 .. Len(fit) : fit[k] \in Reply OBVIOUS
    <2>4. Quiet(inbox, inbox') BY <1>a, <2>2, <2>3, BehindIsQuiet DEF Reply
    <2>5. ASSUME NEW k \in 1 .. Len(fit) PROVE Carries(inbox', fit[k].session)
      <3>1. (inbox \o fit)[Len(inbox) + k] = fit[k] /\ Len(inbox) + k \in 1 .. Len(inbox \o fit)
        BY <1>a, <2>2, BehindKeeps
      <3>2. Bears(fit[k], fit[k].session) BY <2>3 DEF Bears, Reply
      <3> QED BY <2>2, <3>1, <3>2 DEF Carries
    <2> QED BY <1>a, <2>1, <2>2, <2>4, <2>5, PlainStep
  <1> QED BY <1>1, <1>2, <1>3, <1>4, <1>5, <1>6, <1>7, <1>8

\* The service that lives in a slot
LEMMA LivesHas ==
  ASSUME Inv, NEW j \in Slot, NEW i, i = s[j], Lives(i)
  PROVE  Has(i, "idle") /\ i \in serviceId /\ i # serviceIdRoot
  <1>1. i \in serviceId BY LivesIsService
  <1> QED BY <1>1, Constants DEF Lives, Has, getService, serviceIdRoot

LEMMA ServiceServes ==
  ASSUME Inv, Lifecycle, CallsInv,
         Forked \/ \E j \in Slot : Asks(s[j]) \/ Replies(s[j])
  PROVE  Lifecycle' /\ Answerable'
  <1>a. TypeOK /\ inbox \in Seq(Post) /\ Len(inbox) <= QueueLen BY DEF Inv, TypeOK
  <1>b. Quiet(inbox, inbox) BY <1>a, BehindIsQuiet
  <1>1. ASSUME NEW h \in held, HandsOver(h) PROVE Lifecycle' /\ Answerable'
    <2> DEFINE m == [typ |-> "send_retry", answer |-> h.answer]
    <2>1. /\ inbox' = Append(inbox, m) /\ held' = held \ {h}
          /\ UNCHANGED <<poolVars, retries, lost, sent, calls, starting>>
      BY <1>1 DEF HandsOver, spawns, requests
    <2>2. m \in Post /\ m.typ # "signal" /\ Bears(m, h.answer.session)
      BY <1>a DEF TypeOK, Post, Bears
    <2> HIDE DEF m
    <2>3. Quiet(inbox, inbox') /\ Len(inbox') = Len(inbox) + 1 /\ inbox'[Len(inbox) + 1] = m
      BY <1>a, <2>1, <2>2, BehindIsQuiet
    <2>4. Len(inbox) + 1 \in 1 .. Len(inbox') BY <1>a, <2>3
    <2>5. Carries(inbox', h.answer.session) BY <2>2, <2>3, <2>4 DEF Carries
    <2>6. Under(h.answer.session)' BY <2>5, UnderHeld
    <2>7. \A g \in held : (\E f \in held' : f.answer = g.answer) \/ Under(g.answer.session)'
      BY <2>1, <2>6
    <2> QED BY <1>a, <2>1, <2>3, <2>7, PlainStep
  <1>2. ASSUME NEW h \in held, Sleeps(h) PROVE Lifecycle' /\ Answerable'
    <2>1. /\ inbox' = inbox /\ held' = (held \ {h}) \cup {[h EXCEPT !.tried = TRUE]}
          /\ UNCHANGED <<poolVars, retries, lost, sent, calls, starting>>
      BY <1>2 DEF Sleeps, spawns, requests
    <2>2. [h EXCEPT !.tried = TRUE].answer = h.answer BY <1>a DEF TypeOK
    <2>3. \A g \in held : \E f \in held' : f.answer = g.answer BY <2>1, <2>2
    <2> QED BY <1>a, <1>b, <2>1, <2>3, PlainStep
  <1>3. ASSUME NEW j \in Slot, Asks(s[j]) PROVE Lifecycle' /\ Answerable'
    <2>1. UNCHANGED <<poolVars, held, retries, lost, sent, calls, starting>>
      BY <1>3 DEF Asks, spawns, requests
    <2>2. s[j] \in serviceId BY <1>3, LivesIsService DEF Asks
    <2>3. PICK typ \in Question, n \in Name : Posts(typ, s[j], n) BY <1>3 DEF Asks
    <2>4. PICK m \in Post : inbox' = Append(inbox, m) /\ m.typ # "signal"
      <3>1. /\ Message(typ, s[j], n) \in Post
            /\ inbox' = Append(inbox, Message(typ, s[j], n))
        BY <1>a, <2>2, <2>3, PostsKeeps
      <3>2. Message(typ, s[j], n).typ # "signal" BY DEF Message, Question
      <3> QED BY <3>1, <3>2
    <2>5. Quiet(inbox, inbox') BY <1>a, <2>4, BehindIsQuiet
    <2> QED BY <1>a, <2>1, <2>5, PlainStep
  <1>4. ASSUME NEW j \in Slot, Replies(s[j]) PROVE Lifecycle' /\ Answerable'
    <2>1. UNCHANGED <<poolVars, retries, lost, calls, starting>>
      BY <1>4 DEF Replies, spawns
    <2>2. PICK r \in Mine(s[j]), typ \in {"ok", "error"} :
            Posted(inbox, <<Answer(typ, r.session)>>, s[j]) /\ sent' = sent \ {r}
      BY <1>4 DEF Replies
    <2>3. <<Answer(typ, r.session)>> \in Seq(Reply) /\ Len(<<Answer(typ, r.session)>>) = 1
          /\ <<Answer(typ, r.session)>>[1].session = r.session
      <3>1. r.session \in Nat BY <1>a DEF Mine, TypeOK
      <3>2. Answer(typ, r.session) \in Reply BY <3>1 DEF Answer, Reply
      <3> QED BY <3>2 DEF Answer
    <2>4. Quiet(inbox, inbox') /\ held \subseteq held' /\ Under(r.session)'
      <3> DEFINE answers == <<Answer(typ, r.session)>>
      <3>1. answers \in Seq(Reply) /\ 1 \in 1 .. Len(answers) /\ answers[1].session = r.session
            /\ Posted(inbox, answers, s[j])
        BY <2>2, <2>3
      <3> HIDE DEF answers
      <3>2. Quiet(inbox, inbox') /\ held \subseteq held'
            /\ \A k \in 1 .. Len(answers) : Under(answers[k].session)'
        BY <1>a, <3>1, PostedCarries
      <3>3. Under(answers[1].session)' BY <3>1, <3>2
      <3>4. PICK x : x = r.session OBVIOUS
      <3>5. Under(x)' BY <3>1, <3>3, <3>4 DEF Under, Carries, Bears
      <3> QED BY <3>2, <3>4, <3>5
    <2>5. ASSUME NEW c \in calls', Request(c.session, c.id) \in sent
          PROVE  Request(c.session, c.id) \in sent' \/ Under(c.session)'
      <3>1. CASE Request(c.session, c.id) = r
        <4>1. c.session = r.session BY <3>1 DEF Request
        <4> QED BY <2>4, <4>1 DEF Under, Carries, Bears
      <3>2. CASE Request(c.session, c.id) # r BY <2>2, <2>5, <3>2
      <3> QED BY <3>1, <3>2
    <2> QED BY <1>a, <2>1, <2>4, <2>5, PlainStep
  <1> QED BY <1>1, <1>2, <1>3, <1>4 DEF Forked

\* A service gets a slot nobody has.
LEMMA SpawnNewServes ==
  ASSUME Inv, Lifecycle, CallsInv, SpawnNew
  PROVE  Lifecycle' /\ Answerable'
  <1>a. TypeOK /\ inbox \in Seq(Post) /\ Len(inbox) <= QueueLen /\ PoolInv
    BY DEF Inv, TypeOK, PoolInv
  <1>1. UNCHANGED <<calls, retries, lost, sent>> BY DEF SpawnNew, requests
  <1>2. PICK i \in serviceId \cup {Nobody} :
          /\ IF i = Nobody THEN UNCHANGED poolVars ELSE newService(i)
          /\ IF i \in {0, Nobody}
             THEN Posted(inbox, Fatal(Waiters(starting)), serviceIdRoot) /\ starting' = Nothing
             ELSE starting' = [starting EXCEPT !.id = i] /\ UNCHANGED <<inbox, held>>
    BY DEF SpawnNew
  <1>3. Quiet(inbox, inbox') /\ held \subseteq held'
    <2>1. Fatal(Waiters(starting)) \in Seq(Reply) BY PostsAreMessages
    <2>2. CASE i \in {0, Nobody} BY <1>a, <1>2, <2>1, <2>2, PostedCarries
    <2>3. CASE i \notin {0, Nobody} BY <1>a, <1>2, <2>3, BehindIsQuiet
    <2> QED BY <2>2, <2>3
  <1>4. CASE i = Nobody BY <1>a, <1>1, <1>2, <1>3, <1>4, PlainStep
  <1>5. CASE i # Nobody
    <2>1. newService(i) /\ i \in serviceId BY <1>2, <1>5
    <2>2. Has(i, "uninitialized")' /\ \A x, st : Has(x, st) => Has(x, st)' /\ x # i
      BY <1>a, <2>1, NewHas
    <2>3. none # serviceIdRoot BY Constants
    <2>4. \A c \in calls' : c.id # none
      BY <1>a, <1>1, Constants DEF TypeOK, Call, Spawn, Nobody, serviceId
    <2>5. \A k \in 1 .. Len(inbox) : inbox[k].typ = "signal" => inbox[k].from # none
      <3>1. \A k \in 1 .. Len(inbox) : inbox[k] \in Post BY <1>a
      <3> QED BY <3>1, Constants DEF Post, Question, Reply
    <2>6. i # serviceIdRoot BY <2>2 DEF Lifecycle
    <2>7. starting' # Nothing => starting'.id = i
      <3>1. starting # Nothing /\ starting \in Spawn BY <1>a, StartingIsSpawn DEF SpawnNew
      <3> QED BY <1>2, <1>5, <3>1 DEF Spawn
    <2>8. starting' # Nothing /\ starting'.id # Nobody =>
            (starting.id # serviceIdRoot /\ Has(starting.id, "uninitialized"))'
      BY <2>2, <2>6, <2>7 DEF Has, index
    <2>9. \A x : \/ \E h \in held : h.answer.session = x
                 \/ \E k \in 1 .. Len(retries) : retries[k].session = x
                 => Under(x)'
      BY <1>1, <1>3 DEF Under
    <2> QED BY <1>a, <1>1, <1>3, <2>2, <2>3, <2>4, <2>5, <2>8, <2>9, QuietStep
  <1> QED BY <1>4, <1>5

\* init_service: the request of init is with a service that is idle, or the
\* service is gone.
LEMMA SpawnInitServes ==
  ASSUME Inv, Lifecycle, CallsInv, NEW ok \in BOOLEAN, SpawnInit(ok)
  PROVE  Lifecycle' /\ Answerable'
  <1>a. TypeOK /\ inbox \in Seq(Post) /\ Len(inbox) <= QueueLen /\ PoolInv
    BY DEF Inv, TypeOK, PoolInv
  <1>0. PICK i : i = starting.id OBVIOUS
  <1>1. /\ starting # Nothing /\ i # Nobody /\ i \in serviceId /\ i # serviceIdRoot
        /\ Has(i, "uninitialized") /\ initService(i, ok) /\ starting' = Nothing
        /\ starting \in Spawn /\ UNCHANGED <<retries, lost>>
    BY <1>a, <1>0, StartingIsSpawn DEF SpawnInit, Lifecycle
  <1>2. \A x : Has(x, "idle") \/ Has(x, "dead") => x # i BY <1>1 DEF Has
  <1>3. CASE ok
    <2>0. PICK d : d = [starting EXCEPT !.session = session'] OBVIOUS
    <2>1. /\ setService(i, i, "idle") /\ UNCHANGED <<inbox, held>> /\ calls' = calls \cup {d}
          /\ sent' = sent \cup {Request(session', i)}
      BY <1>0, <1>1, <1>3, <2>0 DEF SpawnInit, initService, Has, getService
    <2>2. Has(i, "idle")' /\ \A x, st : Has(x, st) /\ x # i => Has(x, st)'
      BY <1>a, <1>1, <2>1, StatusHas
    <2>3. Lifecycle'
      <3>1. Has(serviceIdRoot, "idle")' BY <1>1, <2>2 DEF Lifecycle
      <3>2. Signals(inbox)'
        <4> SUFFICES ASSUME NEW k \in 1 .. Len(inbox), inbox[k].typ = "signal"
                     PROVE  (inbox[k].from # serviceIdRoot /\ Has(inbox[k].from, "dead"))'
          BY <2>1 DEF Signals
        <4>1. PICK x : x = inbox[k].from OBVIOUS
        <4>2. x # serviceIdRoot /\ Has(x, "dead") BY <4>1 DEF Lifecycle, Signals
        <4>3. Has(x, "dead")' BY <1>2, <2>2, <4>2
        <4> QED BY <2>1, <4>1, <4>2, <4>3 DEF Has, index
      <3> QED BY <1>1, <2>1, <3>1, <3>2 DEF Lifecycle
    <2>4. d.id = i /\ d.session = session' BY <1>0, <1>1, <2>0 DEF Spawn
    <2>5. d.id # serviceIdRoot /\ Waits(d)'
      <3>1. Request(d.session, d.id) \in sent' BY <2>1, <2>4 DEF Request
      <3>2. Unanswered(d.id)' BY <2>2, <2>4 DEF Unanswered, Has, index
      <3> QED BY <1>1, <2>4, <3>1, <3>2 DEF Waits, Request
    <2>6. ASSUME NEW c \in calls PROVE c.id # serviceIdRoot /\ Waits(c)'
      <3>0. PICK x : x = c.id OBVIOUS
      <3>1. c.id # serviceIdRoot /\ Waits(c) BY DEF CallsInv, Answerable
      <3>2. CASE Request(c.session, c.id) \in sent /\ Unanswered(c.id)
        <4>1. Has(x, "idle") => Has(x, "idle")' BY <1>2, <2>2
        <4>2. Has(x, "dead") => Has(x, "dead")' BY <1>2, <2>2
        <4>3. Unanswered(c.id)'
          BY <2>1, <3>0, <3>2, <4>1, <4>2 DEF Unanswered, Has, Signalled, index
        <4> QED BY <2>1, <3>1, <3>2, <4>3 DEF Waits, Request
      <3>3. CASE Under(c.session)
        <4>1. Under(c.session)' BY <1>1, <2>1, <3>3 DEF Under, Carries, Bears
        <4> QED BY <3>1, <4>1 DEF Waits
      <3>4. CASE c.session \in lost BY <1>1, <3>1, <3>4 DEF Waits
      <3> QED BY <3>1, <3>2, <3>3, <3>4 DEF Waits
    <2> QED BY <2>1, <2>3, <2>5, <2>6 DEF Answerable
  <1>4. CASE ~ok
    <2>1. deleteService(i) /\ UNCHANGED <<calls, sent>> BY <1>1, <1>4 DEF SpawnInit, initService
    <2>2. \A x, st : Has(x, st) /\ x # i => Has(x, st)' BY <1>a, <1>1, <2>1, DeleteHas
    <2>3. Quiet(inbox, inbox') /\ held \subseteq held'
      <3>1. Fatal(Waiters(starting)) \in Seq(Reply) BY PostsAreMessages
      <3>2. Posted(inbox, Fatal(Waiters(starting)), serviceIdRoot) BY <1>4 DEF SpawnInit
      <3> QED BY <1>a, <3>1, <3>2, PostedCarries
    <2>4. \A c \in calls' : Unanswered(c.id) => c.id # i BY <1>2 DEF Unanswered
    <2>5. \A k \in 1 .. Len(inbox) : inbox[k].typ = "signal" => inbox[k].from # i
      BY <1>2 DEF Lifecycle, Signals
    <2>6. \A x : \/ \E h \in held : h.answer.session = x
                 \/ \E k \in 1 .. Len(retries) : retries[k].session = x
                 => Under(x)'
      BY <1>1, <2>3 DEF Under
    <2> QED BY <1>a, <1>1, <2>1, <2>2, <2>3, <2>4, <2>5, <2>6, QuietStep
  <1> QED BY <1>3, <1>4

\* The slot of a dead service is cleared, and the requests it has left are
\* answered with errors.
LEMMA OnSignalServes ==
  ASSUME Inv, Lifecycle, CallsInv, OnSignal
  PROVE  Lifecycle' /\ Answerable'
  <1>a. TypeOK /\ inbox \in Seq(Post) /\ PoolInv BY DEF Inv, TypeOK, PoolInv
  <1>1. PICK errors \in Seq(Reply), posts \in Seq(Post) :
           /\ inbox' = (Tail(inbox) \o Fit(Tail(inbox), errors)) \o posts
           /\ held' = held \cup Forks(Tail(inbox), errors, serviceIdRoot)
           /\ \A k \in 1 .. Len(posts) : posts[k].typ = "quit_ltask"
           /\ \A r \in Mine(Head(inbox).from) :
                \E k \in 1 .. Len(errors) : errors[k].session = r.session
    BY <1>a, OnSignalPosts
  <1>2. Heads("signal") BY DEF OnSignal
  <1>3. /\ inbox # <<>> /\ Tail(inbox) \in Seq(Post) /\ Len(Tail(inbox)) <= QueueLen
        /\ Head(inbox).typ = "signal" /\ Head(inbox).from \in serviceId
    BY <1>a, <1>2, HeadsKeeps
  <1>4. PICK i : i = Head(inbox).from OBVIOUS
  <1>5. i # serviceIdRoot /\ Has(i, "dead") /\ i \in serviceId
    <2>1. 1 \in 1 .. Len(inbox) /\ Head(inbox) = inbox[1] BY <1>a, <1>3
    <2> QED BY <1>3, <1>4, <2>1 DEF Lifecycle, Signals
  <1>6. deleteService(i) BY <1>4 DEF OnSignal, closeService
  <1>7. \A x, st : Has(x, st) /\ x # i => Has(x, st)' BY <1>a, <1>5, <1>6, DeleteHas
  <1>8. UNCHANGED <<calls, starting, lost, retries>> /\ sent' = sent \ Mine(i)
    BY <1>4 DEF OnSignal, spawns
  <1> DEFINE rest == Tail(inbox)
             fit == Fit(rest, errors)
  <1>b. rest \in Seq(Post) /\ Len(rest) <= QueueLen BY <1>3
  <1>c. /\ inbox' = (rest \o fit) \o posts
        /\ held' = held \cup Forks(rest, errors, serviceIdRoot)
    BY <1>1
  <1> HIDE DEF rest
  <1>d. /\ rest \o fit \in Seq(Post) /\ Quiet(rest, rest \o fit)
        /\ \A k \in 1 .. Len(errors) :
              \/ Carries(rest \o fit, errors[k].session)
              \/ \E h \in Forks(rest, errors, serviceIdRoot) :
                   h.answer.session = errors[k].session
    BY <1>b, FitCarries
  <1>9. PICK box \in Seq(Post) :
          /\ Quiet(Tail(inbox), box) /\ inbox' = box \o posts
          /\ \A k \in 1 .. Len(errors) :
                \/ Carries(box, errors[k].session)
                \/ \E h \in held' : h.answer.session = errors[k].session
    BY <1>c, <1>d DEF rest
  <1>11. Quiet(box, inbox') BY <1>1, <1>9, BehindIsQuiet
  <1>12. Quiet(Tail(inbox), inbox') BY <1>9, <1>11, QuietQuiet
  <1>13. ASSUME NEW r \in Mine(i) PROVE Under(r.session)'
    <2>1. PICK k \in 1 .. Len(errors) : errors[k].session = r.session BY <1>1, <1>4
    <2>2. PICK x : x = r.session OBVIOUS
    <2>3. Carries(box, x) \/ \E h \in held' : h.answer.session = x BY <1>9, <2>1, <2>2
    <2>4. Carries(box, x) => Carries(inbox', x) BY <1>11, LongerKeeps DEF Quiet
    <2>5. Under(x)' BY <2>3, <2>4, UnderHeld
    <2> QED BY <2>2, <2>5
  <1>14. ASSUME NEW c \in calls', Request(c.session, c.id) \in sent
         PROVE  (Request(c.session, c.id) \in sent' /\ c.id # i) \/ Under(c.session)'
    <2>1. CASE c.id = i
      <3>1. PICK r : r = Request(c.session, c.id) OBVIOUS
      <3>2. r \in Mine(i) /\ r.session = c.session BY <1>14, <2>1, <3>1 DEF Mine, Request
      <3>3. Under(r.session)' BY <1>13, <3>2
      <3> QED BY <3>2, <3>3 DEF Under, Carries, Bears
    <2>2. CASE c.id # i
      <3>1. Request(c.session, c.id) \notin Mine(i) BY <2>2 DEF Mine, Request
      <3> QED BY <1>8, <1>14, <2>2, <3>1
    <2> QED BY <2>1, <2>2
  <1>15. \A c \in calls' : ~Bears(Head(inbox), c.session) BY <1>3 DEF Bears
  <1>16. \A k \in 1 .. Len(Tail(inbox)) : Tail(inbox)[k].typ = "signal" => Tail(inbox)[k].from # i
    BY <1>a, <1>3, <1>4, TakenKeeps DEF Lifecycle
  <1>17. starting' # Nothing /\ starting'.id # Nobody =>
           (starting.id # serviceIdRoot /\ Has(starting.id, "uninitialized"))'
    BY <1>2, <1>8 DEF Heads, Ready
  <1>18. \A x : \/ \E h \in held : h.answer.session = x
                \/ \E k \in 1 .. Len(retries) : retries[k].session = x
                => Under(x)'
    BY <1>1, <1>8 DEF Under
  <1> QED BY <1>a, <1>3, <1>4, <1>5, <1>7, <1>8, <1>12, <1>14, <1>15, <1>16, <1>17, <1>18, QuietStep

\* A signal more, of a service that had none
LEMMA AppendSignals ==
  ASSUME TypeOK, Lifecycle, NEW m \in Post, inbox' = Append(inbox, m),
         NEW gone, \A x, st : Has(x, st) /\ x # gone => Has(x, st)',
         ~Has(gone, "dead"), m.from = gone, gone # serviceIdRoot, Has(gone, "dead")'
  PROVE  Single(inbox)' /\ Signals(inbox)' /\ Longer(inbox, inbox')
         /\ Len(inbox) + 1 \in 1 .. Len(inbox') /\ inbox'[Len(inbox) + 1] = m
  <1>1. inbox \in Seq(Post) /\ Len(inbox) \in Nat BY DEF TypeOK
  <1>2. Longer(inbox, inbox') /\ Len(inbox') = Len(inbox) + 1 /\ inbox'[Len(inbox) + 1] = m
    BY <1>1, BehindIsQuiet
  <1>3. \A k \in 1 .. Len(inbox') : \/ k \in 1 .. Len(inbox) /\ inbox'[k] = inbox[k]
                                    \/ k = Len(inbox) + 1 /\ inbox'[k] = m
    BY <1>1, <1>2 DEF Longer
  <1>4. \A k \in 1 .. Len(inbox) : inbox[k].typ = "signal" =>
          /\ inbox[k].from # gone /\ inbox[k].from # serviceIdRoot
          /\ Has(inbox[k].from, "dead")
    BY DEF Lifecycle, Signals
  <1>5. Single(inbox)'
    <2> SUFFICES ASSUME NEW k \in 1 .. Len(inbox'), NEW l \in 1 .. Len(inbox'),
                        inbox'[k].typ = "signal", inbox'[l].typ = "signal",
                        inbox'[k].from = inbox'[l].from
                 PROVE  k = l
      BY DEF Single
    <2> QED BY <1>3, <1>4 DEF Lifecycle, Single
  <1>6. Signals(inbox)'
    <2> SUFFICES ASSUME NEW k \in 1 .. Len(inbox'), inbox'[k].typ = "signal"
                 PROVE  (inbox[k].from # serviceIdRoot /\ Has(inbox[k].from, "dead"))'
      BY DEF Signals
    <2>1. PICK x : x = inbox'[k].from OBVIOUS
    <2>2. x # serviceIdRoot /\ Has(x, "dead")'
      <3>1. CASE k \in 1 .. Len(inbox) /\ inbox'[k] = inbox[k]
        <4>1. x # gone /\ x # serviceIdRoot /\ Has(x, "dead") BY <1>4, <2>1, <3>1
        <4> QED BY <4>1
      <3>2. CASE k = Len(inbox) + 1 /\ inbox'[k] = m
        <4>1. x = gone BY <2>1, <3>2
        <4> QED BY <4>1
      <3> QED BY <1>3, <3>1, <3>2
    <2> QED BY <2>1, <2>2 DEF Has, index
  <1> QED BY <1>1, <1>2, <1>5, <1>6

\* A service ends: what it has read or holds is lost, the rest is root's to answer.
LEMMA DiesServes ==
  ASSUME Inv, Lifecycle, CallsInv, NEW j \in Slot, NEW i, i = s[j], Dies(i)
  PROVE  Lifecycle' /\ Answerable'
  <1>a. TypeOK /\ inbox \in Seq(Post) /\ PoolInv BY DEF Inv, TypeOK, PoolInv
  <1>1. Has(i, "idle") /\ i \in serviceId /\ i # serviceIdRoot BY LivesHas DEF Dies
  <1>2. ~Has(i, "dead") /\ ~Has(i, "uninitialized") BY <1>1 DEF Has
  <1>3. UNCHANGED <<starting, calls, retries>> BY DEF Dies, spawns
  <1>4. setService(i, i, "dead") /\ Posts("signal", i, none) BY DEF Dies, Ends
  <1>5. PICK unread \in SUBSET Mine(i) :
          /\ sent' = sent \ (Mine(i) \ unread)
          /\ lost' = lost \cup {r.session : r \in Mine(i) \ unread}
                       \cup {h.answer.session : h \in {g \in held : g.by = i}}
          /\ held' = {h \in held : h.by # i}
    BY DEF Dies
  <1>6. Has(i, "dead")' /\ \A x, st : Has(x, st) /\ x # i => Has(x, st)'
    BY <1>a, <1>1, <1>4, StatusHas
  <1>7. PICK m \in Post : m.typ = "signal" /\ m.from = i /\ inbox' = Append(inbox, m)
    <2>1. /\ Message("signal", i, none) \in Post
          /\ inbox' = Append(inbox, Message("signal", i, none))
      BY <1>a, <1>1, <1>4, PostsKeeps
    <2> QED BY <2>1 DEF Message
  <1>8. Single(inbox)' /\ Signals(inbox)' /\ Longer(inbox, inbox') /\ Signalled(inbox', i)
    <2>1. Single(inbox)' /\ Signals(inbox)' /\ Longer(inbox, inbox')
          /\ Len(inbox) + 1 \in 1 .. Len(inbox') /\ inbox'[Len(inbox) + 1] = m
      BY <1>a, <1>1, <1>2, <1>6, <1>7, AppendSignals
    <2> QED BY <1>7, <2>1 DEF Signalled
  <1>9. Lifecycle'
    <2>1. Has(serviceIdRoot, "idle")' BY <1>1, <1>6 DEF Lifecycle
    <2>2. (starting # Nothing /\ starting.id # Nobody =>
            starting.id # serviceIdRoot /\ Has(starting.id, "uninitialized"))'
      <3>1. PICK x : x = starting.id OBVIOUS
      <3>2. starting # Nothing /\ x # Nobody => x # serviceIdRoot /\ Has(x, "uninitialized")
        BY <3>1 DEF Lifecycle
      <3>3. starting # Nothing /\ x # Nobody => Has(x, "uninitialized")' BY <1>2, <1>6, <3>2
      <3> QED BY <1>3, <3>1, <3>2, <3>3 DEF Has, index
    <2> QED BY <1>8, <2>1, <2>2 DEF Lifecycle
  <1>10. ASSUME NEW c \in calls PROVE c.id # serviceIdRoot /\ Waits(c)'
    <2>0. PICK x : x = c.id OBVIOUS
    <2>1. c.id # serviceIdRoot /\ Waits(c) BY DEF CallsInv, Answerable
    <2>2. CASE Request(c.session, c.id) \in sent /\ Unanswered(c.id)
      <3>1. CASE Request(c.session, c.id) \in Mine(i) \ unread
        <4>1. Request(c.session, c.id).session = c.session BY DEF Request
        <4>2. c.session \in lost' BY <1>5, <3>1, <4>1
        <4> QED BY <2>1, <4>2 DEF Waits
      <3>2. CASE Request(c.session, c.id) \notin Mine(i) \ unread
        <4>1. Request(c.session, c.id) \in sent' BY <1>5, <2>2, <3>2
        <4>2. CASE x = i
          <5>1. Unanswered(c.id)' BY <1>6, <1>8, <2>0, <4>2 DEF Unanswered, Has, Signalled, index
          <5> QED BY <2>1, <4>1, <5>1 DEF Waits, Request
        <4>3. CASE x # i
          <5>1. Has(x, "idle") => Has(x, "idle")' BY <1>6, <4>3
          <5>2. Has(x, "dead") => Has(x, "dead")' BY <1>6, <4>3
          <5>3. Signalled(inbox, x) => Signalled(inbox', x) BY <1>8, LongerKeeps
          <5>4. Unanswered(x) BY <2>0, <2>2
          <5>5. Unanswered(x)' BY <5>1, <5>2, <5>3, <5>4 DEF Unanswered, Signalled
          <5>6. Unanswered(c.id)' BY <2>0, <5>5 DEF Unanswered, Has, Signalled, index
          <5> QED BY <2>1, <4>1, <5>6 DEF Waits, Request
        <4> QED BY <4>2, <4>3
      <3> QED BY <3>1, <3>2
    <2>3. CASE Under(c.session)
      <3>0. PICK y : y = c.session OBVIOUS
      <3>1. CASE Carries(inbox, y)
        <4>1. Carries(inbox', y) BY <1>8, <3>1, LongerKeeps
        <4>2. Under(c.session)' BY <3>0, <4>1 DEF Under, Carries, Bears
        <4> QED BY <2>1, <4>2 DEF Waits
      <3>2. CASE \E h \in held : h.answer.session = y
        <4>1. PICK h \in held : h.answer.session = y BY <3>2
        <4>2. CASE h.by = i
          <5>1. c.session \in lost' BY <1>5, <3>0, <4>1, <4>2
          <5> QED BY <2>1, <5>1 DEF Waits
        <4>3. CASE h.by # i
          <5>1. h \in held' BY <1>5, <4>1, <4>3
          <5>2. Under(c.session)' BY <3>0, <4>1, <5>1 DEF Under
          <5> QED BY <2>1, <5>2 DEF Waits
        <4> QED BY <4>2, <4>3
      <3>3. CASE \E k \in 1 .. Len(retries) : retries[k].session = y
        <4>1. Under(c.session)' BY <1>3, <3>0, <3>3 DEF Under
        <4> QED BY <2>1, <4>1 DEF Waits
      <3> QED BY <2>3, <3>0, <3>1, <3>2, <3>3 DEF Under
    <2>4. CASE c.session \in lost
      <3>1. c.session \in lost' BY <1>5, <2>4
      <3> QED BY <2>1, <3>1 DEF Waits
    <2> QED BY <2>1, <2>2, <2>3, <2>4 DEF Waits
  <1> QED BY <1>3, <1>9, <1>10 DEF Answerable

LEMMA ServesStep ==
  ASSUME Inv, Lifecycle, CallsInv, Next PROVE Lifecycle' /\ CallsInv'
  <1>1. Sessions' BY SessionsStep DEF Inv, CallsInv
  <1>2. Lifecycle' /\ Answerable'
    BY RootServes, SpawnNewServes, SpawnInitServes, OnSignalServes, ServiceServes, DiesServes
       DEF Next, RootStep
  <1> QED BY <1>1, <1>2 DEF CallsInv


\* Who asks for a name waits only while its service is being started.
LEMMA SameWait ==
  ASSUME WaitInv, UNCHANGED <<unique, waiting>> PROVE WaitInv'
  BY DEF WaitInv

LEMMA AskedToWait ==
  ASSUME TypeOK, WaitInv, NEW m, m.typ \in Question, m.name \in Name, AskedTo(m)
  PROVE  WaitInv'
  <1>1. CASE m.typ = "spawn" \/ named_services[m.name] # none
    BY <1>1, SameWait DEF AskedTo, uniqueservice
  <1>2. CASE m.typ # "spawn" /\ named_services[m.name] = none
    <2>1. /\ waiting' = [waiting EXCEPT ![m.name] = @ \cup {[who |-> m.from, typ |-> m.typ]}]
          /\ unique \subseteq unique'
          /\ m.typ # "query" => m.name \in unique'
      BY <1>2 DEF AskedTo, uniqueservice
    <2> SUFFICES ASSUME NEW n \in Name, NEW w \in waiting'[n], w.typ = "unique"
                 PROVE  n \in unique'
      BY DEF WaitInv
    <2>2. CASE w \in waiting[n] BY <2>1, <2>2 DEF WaitInv
    <2>3. CASE w \notin waiting[n]
      <3>1. n = m.name /\ w = [who |-> m.from, typ |-> m.typ] BY <2>1, <2>3 DEF TypeOK
      <3> QED BY <2>1, <3>1
    <2> QED BY <2>2, <2>3
  <1> QED BY <1>1, <1>2

LEMMA SpawnFailsWait ==
  ASSUME TypeOK, WaitInv, NEW c, SpawnFails(c) PROVE WaitInv'
  BY DEF SpawnFails, WaitInv, TypeOK

LEMMA RegisterWait ==
  ASSUME TypeOK, WaitInv, NEW c, register_service(c) PROVE WaitInv'
  BY DEF register_service, WaitInv, TypeOK

LEMMA WaitStep == ASSUME Inv, WaitInv, Next PROVE WaitInv'
  <1>a. TypeOK BY DEF Inv
  <1>1. CASE Boots
    <2>1. CASE boot <= Len(Bootstrap)
      <3>1. PICK m : m.typ \in Question /\ m.name \in Name /\ AskedTo(m)
        BY <1>a, <1>1, <2>1, BootAsks
      <3> QED BY <1>a, <3>1, AskedToWait
    <2>2. CASE ~(boot <= Len(Bootstrap))
      BY <1>1, <2>2, SameWait DEF Boots, spawns
    <2> QED BY <2>1, <2>2
  <1>2. CASE SpawnNew
    BY <1>a, <1>2, SpawnFailsWait, SameWait DEF SpawnNew
  <1>3. ASSUME NEW ok \in BOOLEAN, SpawnInit(ok) PROVE WaitInv'
    BY <1>a, <1>3, SpawnFailsWait, SameWait DEF SpawnInit
  <1>4. CASE OnRequest
    <2>1. PICK typ \in Question : Takes(typ, <<>>) /\ AskedTo(Head(inbox))
      BY <1>4 DEF OnRequest
    <2>2. Head(inbox).typ \in Question /\ Head(inbox).name \in Name
      BY <1>a, <2>1, TakesKeeps, PostsAreMessages
    <2> QED BY <1>a, <2>1, <2>2, AskedToWait
  <1>5. CASE OnInit
    <2>1. PICK c \in calls :
            register_service(c) \/ SpawnFails(c) \/ UNCHANGED <<unique, waiting>>
      BY <1>5 DEF OnInit
    <2> QED BY <1>a, <2>1, RegisterWait, SpawnFailsWait, SameWait
  <1>6. CASE \/ OnInitReceipt \/ OnQuitAnswer \/ OnStray \/ OnSendRetry \/ Retries
             \/ OnSignal \/ OnQuit \/ \E k \in DOMAIN closing : Close(k)
    BY <1>6, SameWait DEF OnInitReceipt, OnQuitAnswer, OnStray, OnSendRetry, Retries,
                          OnSignal, OnQuit, Close, spawns
  <1>7. CASE Forked BY <1>7, SameWait DEF Forked, HandsOver, Sleeps, spawns
  <1>8. ASSUME NEW i, Asks(i) \/ Replies(i) \/ Dies(i) PROVE WaitInv'
    BY <1>8, SameWait DEF Asks, Replies, Dies, spawns
  <1> QED BY <1>1, <1>2, <1>3, <1>4, <1>5, <1>6, <1>7, <1>8 DEF Next, RootStep

\* Every service is in one of root's tables, and every anonymous address is one
Known == \A j \in Slot :
  s[j] \notin {Nobody, serviceIdRoot, 0} /\ (starting = Nothing \/ starting.id # s[j]) =>
    s[j] \in anonymous_services \cup Range(named_services)
Alive == \A i \in anonymous_services : s[index(i)] = i \/ i \in failed

LEMMA AccountedIs == Accounted <=> Known /\ Alive
  BY DEF Accounted, Known, Alive, getService

LEMMA SameAccounts ==
  ASSUME TypeOK, Known, Alive, s' = s, UNCHANGED <<anonymous_services, named_services, failed>>,
         starting' = starting \/ starting = Nothing
  PROVE  Known' /\ Alive'
  <1>1. Known' BY DEF Known
  <1>2. Alive' BY DEF Alive, index
  <1> QED BY <1>1, <1>2

\* A name in place of an anonymous service
LEMMA RegisterAccounts ==
  ASSUME TypeOK, Known, Alive, NEW c \in Call, register_service(c), starting' = starting,
         UNCHANGED <<s, failed>>
  PROVE  Known' /\ Alive'
  <1>1. CASE named_services[c.name] # none
    BY <1>1, SameAccounts DEF register_service, tables
  <1>2. CASE named_services[c.name] = none
    <2>1. /\ anonymous_services' = anonymous_services \ {c.id}
          /\ named_services' = [named_services EXCEPT ![c.name] = c.id]
      BY <1>2 DEF register_service
    <2>2. c.name \in Name /\ none \notin serviceId BY Constants DEF Call, Spawn
    <2>3. Alive' BY <2>1 DEF Alive, index
    <2>4. ASSUME NEW x \in serviceId, x \in anonymous_services \cup Range(named_services)
          PROVE  x \in anonymous_services' \cup Range(named_services')
      <3>1. CASE x \in anonymous_services \ {c.id} BY <2>1, <3>1
      <3>2. CASE x = c.id
        <4>1. named_services'[c.name] = x /\ c.name \in DOMAIN named_services'
          BY <2>1, <2>2, <3>2 DEF TypeOK
        <4> QED BY <4>1 DEF Range
      <3>3. CASE x \in Range(named_services)
        <4>1. PICK n \in Name : named_services[n] = x BY <3>3 DEF Range, TypeOK
        <4>2. n # c.name BY <1>2, <2>2, <2>4, <4>1
        <4>3. named_services'[n] = x /\ n \in DOMAIN named_services' BY <2>1, <4>1, <4>2 DEF TypeOK
        <4> QED BY <4>3 DEF Range
      <3> QED BY <2>4, <3>1, <3>2, <3>3
    <2>5. Known'
      <3> SUFFICES ASSUME NEW j \in Slot, s[j] \notin {Nobody, serviceIdRoot, 0},
                          starting = Nothing \/ starting.id # s[j]
                   PROVE  s[j] \in anonymous_services' \cup Range(named_services')
        BY DEF Known
      <3>1. s[j] \in serviceId BY DEF TypeOK, PoolTypeOK
      <3> QED BY <2>4, <3>1 DEF Known
    <2> QED BY <2>3, <2>5
  <1> QED BY <1>1, <1>2

LEMMA AccountsStep ==
  ASSUME Inv, Lifecycle, Known, Alive, Next PROVE Known' /\ Alive'
  <1>a. TypeOK /\ PoolInv BY DEF Inv, TypeOK, PoolInv
  <1>b. \A i \in anonymous_services : index(i) \in Slot
    BY <1>a, IndexIsSlot, PoolAssumption DEF TypeOK, serviceId
  <1>1. CASE \/ Boots \/ OnRequest \/ OnInitReceipt \/ OnQuitAnswer \/ OnStray \/ OnSendRetry
             \/ Retries \/ OnQuit \/ Forked \/ \E k \in DOMAIN closing : Close(k)
    <2>1. s' = s /\ UNCHANGED <<anonymous_services, named_services, failed>>
      BY <1>1 DEF Boots, OnRequest, OnInitReceipt, OnQuitAnswer, OnStray, OnSendRetry, Retries,
                  OnQuit, Forked, HandsOver, Sleeps, Close, tables, poolVars, others
    <2>2. starting' = starting \/ starting = Nothing
      BY <1>1 DEF Boots, OnRequest, OnInitReceipt, OnQuitAnswer, OnStray, OnSendRetry, Retries,
                  OnQuit, Forked, HandsOver, Sleeps, Close, Takes, Heads, Ready, spawns
    <2> QED BY <1>a, <2>1, <2>2, SameAccounts
  <1>2. CASE SpawnNew
    <2>1. UNCHANGED <<anonymous_services, named_services, failed>> /\ starting # Nothing
          /\ starting.id = Nobody
      BY <1>2 DEF SpawnNew, tables, others
    <2>2. PICK i \in serviceId \cup {Nobody} :
            /\ IF i = Nobody THEN UNCHANGED poolVars ELSE newService(i)
            /\ IF i \in {0, Nobody} THEN starting' = Nothing
               ELSE starting' = [starting EXCEPT !.id = i]
      BY <1>2 DEF SpawnNew
    <2>3. CASE i = Nobody
      <3>1. s' = s BY <2>2, <2>3 DEF poolVars
      <3> QED BY <2>1, <3>1 DEF Known, Alive, index
    <2>4. CASE i # Nobody
      <3>1. \A x, st : Has(x, st) => Has(x, st)' /\ x # i
        BY <1>a, <2>2, <2>4, NewHas
      <3>2. \A j \in Slot : s'[j] = s[j] \/ (s'[j] = i /\ s[j] = Nobody)
        BY <1>a, <2>2, <2>4, NewHas
      <3>3. Alive'
        <4> SUFFICES ASSUME NEW x \in anonymous_services, x \notin failed
                     PROVE  s'[index(x)] = x
          BY <2>1 DEF Alive, index
        <4>1. s[index(x)] = x /\ x \in serviceId BY <1>a DEF Alive, TypeOK
        <4> QED BY <1>b, <3>2, <4>1, Constants
      <3>4. Known'
        <4> SUFFICES ASSUME NEW j \in Slot, s'[j] \notin {Nobody, serviceIdRoot, 0},
                            starting' = Nothing \/ starting'.id # s'[j]
                     PROVE  s'[j] \in anonymous_services \cup Range(named_services)
          BY <2>1 DEF Known
        <4>1. starting \in Spawn BY <1>a, <2>1, StartingIsSpawn
        <4>2. CASE s'[j] = s[j] BY <2>1, <4>2 DEF Known
        <4>3. CASE s'[j] = i
          <5>1. i \notin {0, Nobody} BY <2>4, <4>3
          <5>2. starting' # Nothing /\ starting'.id = i
            <6>1. [starting EXCEPT !.id = i] \in Spawn /\ [starting EXCEPT !.id = i].id = i
              BY <1>a, <2>1, <2>2, <4>1, <5>1, StartingIsSpawn DEF Spawn
            <6> QED BY <2>2, <5>1, <6>1, NothingIsNone
          <5> QED BY <4>3, <5>2
        <4> QED BY <3>2, <4>2, <4>3
      <3> QED BY <3>3, <3>4
    <2> QED BY <2>3, <2>4
  <1>3. ASSUME NEW ok \in BOOLEAN, SpawnInit(ok) PROVE Known' /\ Alive'
    <2>0. PICK i : i = starting.id OBVIOUS
    <2>1. /\ starting # Nothing /\ i # Nobody /\ i \in serviceId
          /\ Has(i, "uninitialized") /\ initService(i, ok) /\ starting' = Nothing
          /\ anonymous_services' = anonymous_services \cup {i}
          /\ named_services' = named_services
      BY <1>a, <1>3, <2>0, StartingIsSpawn DEF SpawnInit, Lifecycle
    <2>2. /\ \A j \in Slot : s'[j] \in {s[j], Nobody}
          /\ \A x \in anonymous_services' : x \notin failed' => s'[index(x)] = x
      <3>1. CASE ok
        <4>1. s' = s /\ failed' = failed
          BY <1>a, <1>3, <2>0, <2>1, <3>1, StatusHas DEF SpawnInit, initService, Has, getService
        <4> QED BY <2>1, <4>1 DEF Alive, Has
      <3>2. CASE ~ok
        <4>1. deleteService(i) /\ failed' = failed \cup {i}
          BY <1>3, <2>0, <2>1, <3>2 DEF SpawnInit, initService
        <4>2. \A j \in Slot : s'[j] # i /\ s'[j] \in {s[j], Nobody}
          BY <1>a, <2>1, <4>1, DeleteHas
        <4>3. ASSUME NEW x \in anonymous_services, x \notin failed' PROVE s'[index(x)] = x
          <5>1. s[index(x)] = x /\ x # i BY <4>1, <4>3 DEF Alive
          <5>2. index(x) # index(i) BY <2>1, <5>1 DEF Has
          <5>3. setService(i, Nobody, "none") BY <4>1 DEF deleteService
          <5> QED BY <1>a, <1>b, <5>1, <5>2, <5>3 DEF setService, PoolInv, PoolTypeOK
        <4> QED BY <2>1, <4>1, <4>2, <4>3
      <3> QED BY <3>1, <3>2
    <2>3. Alive' BY <2>2 DEF Alive, index
    <2>4. Known'
      <3> SUFFICES ASSUME NEW j \in Slot, s'[j] \notin {Nobody, serviceIdRoot, 0}
                   PROVE  s'[j] \in anonymous_services' \cup Range(named_services')
        BY DEF Known
      <3>1. s'[j] = s[j] BY <2>2
      <3>2. CASE s[j] = i BY <2>1, <3>1, <3>2
      <3>3. CASE s[j] # i BY <2>0, <2>1, <3>1, <3>3 DEF Known
      <3> QED BY <3>2, <3>3
    <2> QED BY <2>3, <2>4
  <1>4. CASE OnInit
    <2>1. s' = s /\ failed' = failed /\ starting' = starting
      BY <1>4 DEF OnInit, poolVars, others
    <2>2. PICK c \in calls : register_service(c) \/ UNCHANGED tables BY <1>4 DEF OnInit
    <2>3. c \in Call BY <1>a DEF TypeOK
    <2>4. CASE register_service(c) BY <1>a, <2>1, <2>3, <2>4, RegisterAccounts
    <2>5. CASE UNCHANGED tables BY <1>a, <2>1, <2>5, SameAccounts DEF tables
    <2> QED BY <2>2, <2>4, <2>5
  <1>5. CASE OnSignal
    <2>0. PICK i : i = Head(inbox).from OBVIOUS
    <2>1. /\ anonymous_services' = anonymous_services \ {i} /\ deleteService(i)
          /\ UNCHANGED <<named_services, starting, failed>> /\ starting = Nothing
      BY <1>5, <2>0 DEF OnSignal, closeService, others, spawns, Heads, Ready
    <2>2. Has(i, "dead") /\ i \in serviceId
      <3>1. inbox \in Seq(Post) /\ inbox # <<>> /\ Head(inbox).typ = "signal"
        BY <1>a, <1>5 DEF TypeOK, OnSignal, Heads
      <3>2. 1 \in 1 .. Len(inbox) /\ Head(inbox) = inbox[1] BY <3>1
      <3> QED BY <2>0, <3>1, <3>2 DEF Lifecycle, Signals, Has
    <2>3. \A j \in Slot : s'[j] # i /\ s'[j] \in {s[j], Nobody}
      BY <1>a, <2>1, <2>2, DeleteHas
    <2>4. Known' BY <2>1, <2>3 DEF Known
    <2>5. ASSUME NEW x \in anonymous_services', x \notin failed PROVE s'[index(x)] = x
      <3>1. x \in anonymous_services /\ s[index(x)] = x /\ x # i BY <2>1, <2>5 DEF Alive
      <3>2. index(x) # index(i) BY <2>2, <3>1 DEF Has
      <3>3. setService(i, Nobody, "none") BY <2>1 DEF deleteService
      <3> QED BY <1>a, <1>b, <3>1, <3>2, <3>3 DEF setService, PoolInv, PoolTypeOK
    <2>6. Alive' BY <2>1, <2>5 DEF Alive, index
    <2> QED BY <2>4, <2>6
  <1>6. ASSUME NEW j \in Slot, Asks(s[j]) \/ Replies(s[j]) \/ Dies(s[j])
        PROVE  Known' /\ Alive'
    <2>1. UNCHANGED <<anonymous_services, named_services, starting, failed>>
      BY <1>6 DEF Asks, Replies, Dies, tables, spawns, others
    <2>2. s' = s
      <3>1. CASE Asks(s[j]) \/ Replies(s[j]) BY <3>1 DEF Asks, Replies, poolVars
      <3>2. CASE Dies(s[j])
        <4>1. PICK i : i = s[j] OBVIOUS
        <4>2. Has(i, "idle") /\ i \in serviceId BY <3>2, <4>1, LivesHas DEF Dies
        <4>3. setService(i, i, "dead") BY <3>2, <4>1 DEF Dies, Ends
        <4> QED BY <1>a, <4>2, <4>3, StatusHas
      <3> QED BY <1>6, <3>1, <3>2
    <2> QED BY <1>a, <2>1, <2>2, SameAccounts
  <1> QED BY <1>1, <1>2, <1>3, <1>4, <1>5, <1>6 DEF Next, RootStep

LEMMA ServeInitial == Init => ServeInv
  <1> SUFFICES ASSUME Init PROVE ServeInv OBVIOUS
  <1>1. index(serviceIdRoot) \in Slot /\ serviceIdRoot \in serviceId
    BY Constants, IndexIsSlot, PoolAssumption DEF serviceId
  <1>2. Has(serviceIdRoot, "idle") BY <1>1 DEF Init, PoolInit, Has
  <1>3. Lifecycle BY <1>2 DEF Init, Lifecycle, Single, Signals
  <1>4. CallsInv /\ WaitInv
    BY Constants DEF Init, CallsInv, Sessions, Answerable, WaitInv
  <1>5. Known
    <2>1. \A j \in Slot : s[j] \in {serviceIdRoot, Nobody} BY DEF Init, PoolInit
    <2> QED BY <2>1 DEF Known
  <1>6. Alive BY DEF Init, Alive
  <1> QED BY <1>3, <1>4, <1>5, <1>6, AccountedIs DEF ServeInv

LEMMA ServeInvariance == Spec => []ServeInv
  <1>1. Inv /\ ServeInv /\ [Next]_vars => ServeInv'
    <2> SUFFICES ASSUME Inv, ServeInv, [Next]_vars PROVE ServeInv' OBVIOUS
    <2>1. CASE Next
      <3>1. Lifecycle' /\ CallsInv' BY <2>1, ServesStep DEF ServeInv
      <3>2. WaitInv' BY <2>1, WaitStep DEF ServeInv
      <3>3. Known' /\ Alive' BY <2>1, AccountsStep, AccountedIs DEF ServeInv
      <3>4. Accounted' BY <3>3 DEF Accounted, Known, Alive, getService
      <3> QED BY <3>1, <3>2, <3>4 DEF ServeInv
    <2>2. CASE UNCHANGED vars
      <3>1. TypeOK /\ inbox \in Seq(Post) BY DEF Inv, TypeOK
      <3>2. Quiet(inbox, inbox') BY <2>2, <3>1, BehindIsQuiet DEF vars
      <3>3. /\ UNCHANGED <<poolVars, held, retries, lost, sent, session, closing>>
            /\ UNCHANGED <<calls, starting, unique, waiting>>
            /\ UNCHANGED <<anonymous_services, named_services, failed>>
        BY <2>2 DEF vars, others, spawns, tables, requests
      <3>4. Lifecycle' /\ Answerable' BY <3>1, <3>2, <3>3, PlainStep DEF ServeInv
      <3>8. CallsInv' BY <3>3, <3>4, SameSessions DEF CallsInv, ServeInv
      <3>5. WaitInv' BY <3>3, SameWait DEF ServeInv
      <3>6. Known' /\ Alive' BY <3>1, <3>3, SameAccounts, AccountedIs DEF ServeInv, poolVars
      <3>7. Accounted' BY <3>6 DEF Accounted, Known, Alive, getService
      <3> QED BY <3>4, <3>5, <3>7, <3>8 DEF ServeInv
    <2> QED BY <2>1, <2>2
  <1> QED BY <1>1, ServeInitial, RootInitial, RootInductive, PTL DEF Spec

LEMMA UnderIsUnderway ==
  ASSUME TypeOK, NEW x, Under(x) PROVE \E a \in Underway : a.session = x
  <1>a. inbox \in Seq(Post) /\ retries \in Seq(Reply) BY DEF TypeOK
  <1>1. CASE Carries(inbox, x)
    <2>1. PICK k \in 1 .. Len(inbox) : Bears(inbox[k], x) BY <1>1 DEF Carries
    <2>2. inbox[k] \in Range(inbox) BY <1>a, <2>1 DEF Range
    <2> QED BY <2>1, <2>2 DEF Bears, Underway
  <1>2. CASE \E h \in held : h.answer.session = x BY <1>2 DEF Underway
  <1>3. CASE \E k \in 1 .. Len(retries) : retries[k].session = x
    <2>1. PICK k \in 1 .. Len(retries) : retries[k].session = x BY <1>3
    <2>2. retries[k] \in Range(retries) BY <1>a, <2>1 DEF Range
    <2> QED BY <2>1, <2>2 DEF Underway
  <1> QED BY <1>1, <1>2, <1>3 DEF Under

\* What WaiterServed says of a name, from the invariants
LEMMA ServeInvImplies == ASSUME TypeOK, UniqueInv, ServeInv PROVE WaiterServed
  <1> SUFFICES ASSUME ~over, NEW n \in Name
               PROVE  /\ (\E w \in waiting[n] : w.typ = "unique") => n \in unique
                      /\ n \in unique <=> For(n) # {}
                      /\ Cardinality(For(n)) <= 1
                      /\ \A c \in For(n) \cap calls : c.id > 0 /\ c.session \notin lost =>
                           \/ /\ Request(c.session, c.id) \in sent
                              /\ Lives(c.id) \/ Message("signal", c.id, none) \in Range(inbox)
                           \/ \E a \in Underway : a.session = c.session
    BY DEF WaiterServed
  <1>1. (\E w \in waiting[n] : w.typ = "unique") => n \in unique BY DEF ServeInv, WaitInv
  <1>2. For(n) = Pending(n) \cup (IF Begun(n) THEN {starting} ELSE {})
    <2>1. Nothing \notin calls BY NothingIsNone DEF TypeOK, Call
    <2> QED BY <2>1 DEF For, Pending, Begun
  <1>3. n \in unique <=> For(n) # {} BY <1>2 DEF UniqueInv, OneSpawn
  <1>4. Cardinality(For(n)) <= 1
    <2>1. \A c, d \in For(n) : c = d BY <1>2 DEF UniqueInv, OneSpawn
    <2>2. CASE For(n) = {}
      <3>1. Cardinality(For(n)) = 0 BY <2>2, FS_EmptySet
      <3> QED BY <3>1
    <2>3. CASE For(n) # {}
      <3>1. PICK c : c \in For(n) BY <2>3
      <3>2. For(n) = {c} BY <2>1, <3>1
      <3>3. Cardinality(For(n)) = 1 BY <3>2, FS_Singleton
      <3> QED BY <3>3
    <2> QED BY <2>2, <2>3
  <1>a. inbox \in Seq(Post) /\ retries \in Seq(Reply) BY DEF TypeOK
  <1>5. ASSUME NEW c \in For(n) \cap calls, c.id > 0, c.session \notin lost
        PROVE  \/ /\ Request(c.session, c.id) \in sent
                  /\ Lives(c.id) \/ Message("signal", c.id, none) \in Range(inbox)
               \/ \E a \in Underway : a.session = c.session
    <2>0. PICK i, x : i = c.id /\ x = c.session OBVIOUS
    <2>1. i # serviceIdRoot /\ ((Request(x, i) \in sent /\ Unanswered(i)) \/ Under(x))
      BY <1>5, <2>0 DEF ServeInv, CallsInv, Answerable, Waits
    <2>2. CASE Request(x, i) \in sent /\ Has(i, "idle")
      <3>1. i \in Int BY <2>2, Constants DEF Has
      <3>2. i > 0 /\ i # serviceIdRoot BY <1>5, <2>0, <2>1
      <3>3. i > serviceIdRoot BY <3>1, <3>2 DEF serviceIdRoot
      <3>4. Lives(i) BY <2>2, <3>3 DEF Has, Lives, getService
      <3> QED BY <2>0, <2>2, <3>4
    <2>3. CASE Request(x, i) \in sent /\ Signalled(inbox, i)
      <3>1. PICK k \in 1 .. Len(inbox) : inbox[k].typ = "signal" /\ inbox[k].from = i
        BY <2>3 DEF Signalled
      <3>2. inbox[k] = Message("signal", i, none)
        <4>1. inbox[k] \in Post BY <1>a
        <4>2. inbox[k] \in [typ : {"signal", "quit_ltask"}, from : serviceId, name : {none}]
          BY <3>1, <4>1 DEF Post, Question, Reply
        <4> QED BY <3>1, <4>2 DEF Message
      <3>3. Message("signal", i, none) \in Range(inbox) BY <1>a, <3>1, <3>2 DEF Range
      <3> QED BY <2>0, <2>3, <3>3
    <2>4. CASE Under(x)
      <3>1. \E a \in Underway : a.session = x BY <1>a, <2>4, UnderIsUnderway
      <3> QED BY <2>0, <3>1
    <2> QED BY <2>1, <2>2, <2>3, <2>4 DEF Unanswered
  <1> QED BY <1>1, <1>3, <1>4, <1>5

\* Whoever waits for a service with a name is not forgotten: one spawn() for the
\* name is under way, and its service has the request of init and is alive, or
\* dead with its signal still to come, or the answer is on its way to root.  The
\* exception is an answer that is lost: the service has ended without it, or with
\* it in a fork that has found root's inbox full twice (service/root.lua:128-147,
\* lualib/service.lua:221-259, 753-755).
THEOREM EveryWaiterServed == Spec => []WaiterServed
  <1>1. Inv /\ UniqueInv /\ ServeInv => WaiterServed BY ServeInvImplies DEF Inv
  <1> QED BY <1>1, UniqueInvariance, ServeInvariance, PTL

\* Root knows every service, and its anonymous addresses are those of services,
\* but for the ones whose init_service failed (service/root.lua:110-124, 209-217).
THEOREM EveryServiceAccounted == Spec => []Accounted
  <1>1. ServeInv => Accounted BY DEF ServeInv
  <1> QED BY <1>1, ServeInvariance, PTL
=============================================================================
