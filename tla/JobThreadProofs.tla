--------------------------- MODULE JobThreadProofs ---------------------------
(***************************************************************************)
(* Theorems about JobThread, for any number of requests: the types of its  *)
(* state, and that a job is never lost or delivered twice and nothing that *)
(* was deleted is used, but in the ways the model calls careless.          *)
(***************************************************************************)
EXTENDS JobThread, SequenceTheorems, FiniteSetTheorems, TLAPS

(***************************************************************************)
(* Lists in which nothing occurs twice.                                    *)
(***************************************************************************)
Occurs(x, s) == \E k \in DOMAIN s : s[k] = x

\* Nothing occurs twice in the list.
Once(s) == \A j, k \in DOMAIN s : s[j] = s[k] => j = k

\* Appending: the new element occurs too.
LEMMA AppendedList ==
  ASSUME NEW S, NEW s \in Seq(S), NEW r \in S
  PROVE  /\ Append(s, r) \in Seq(S)
         /\ \A x : Occurs(x, Append(s, r)) <=> Occurs(x, s) \/ x = r
         /\ Once(s) /\ ~Occurs(r, s) => Once(Append(s, r))
BY DEF Occurs, Once

\* Taking the head.
LEMMA TailList ==
  ASSUME NEW S, NEW s \in Seq(S), s # <<>>
  PROVE  /\ Head(s) \in S /\ Tail(s) \in Seq(S) /\ Occurs(Head(s), s)
         /\ \A x : Occurs(x, s) <=> Occurs(x, Tail(s)) \/ x = Head(s)
         /\ Once(s) => Once(Tail(s)) /\ ~Occurs(Head(s), Tail(s))
<1>1. /\ Head(s) = s[1] /\ Head(s) \in S /\ Tail(s) \in Seq(S)
      /\ Len(s) \in Nat \ {0} /\ DOMAIN s = 1..Len(s) /\ DOMAIN Tail(s) = 1..(Len(s) - 1)
      /\ \A j \in 1..(Len(s) - 1) : Tail(s)[j] = s[j + 1]
  <2>1. /\ Head(s) = s[1] /\ Len(s) \in Nat \ {0} /\ DOMAIN s = 1..Len(s) /\ s \in Seq(S)
    OBVIOUS
  <2>2. /\ Head(s) \in S /\ Tail(s) \in Seq(S) /\ Len(Tail(s)) = Len(s) - 1
        /\ \A j \in 1..Len(Tail(s)) : Tail(s)[j] = s[j + 1]
    BY <2>1, HeadTailProperties
  <2>3. DOMAIN Tail(s) = 1..Len(Tail(s))
    BY <2>2
  <2> QED BY <2>1, <2>2, <2>3
<1>2. \A j \in 2..Len(s) : j - 1 \in 1..(Len(s) - 1) /\ Tail(s)[j - 1] = s[j]
  BY <1>1
<1>3. ASSUME NEW x, Occurs(x, s), x # Head(s) PROVE Occurs(x, Tail(s))
  <2> PICK j \in DOMAIN s : s[j] = x
    BY <1>3 DEF Occurs
  <2>1. j \in 2..Len(s)
    BY <1>1, <1>3
  <2> QED BY <1>1, <1>2, <2>1 DEF Occurs
<1>4. ASSUME NEW x, Occurs(x, Tail(s)) PROVE Occurs(x, s)
  BY <1>1, <1>4 DEF Occurs
<1>5. ASSUME Once(s) PROVE Once(Tail(s)) /\ ~Occurs(Head(s), Tail(s))
  <2>1. ASSUME NEW i \in DOMAIN Tail(s), NEW j \in DOMAIN Tail(s), Tail(s)[i] = Tail(s)[j] PROVE i = j
    BY <1>1, <1>5, <2>1 DEF Once
  <2>2. ASSUME Occurs(Head(s), Tail(s)) PROVE FALSE
    BY <1>1, <1>5, <2>2 DEF Once, Occurs
  <2> QED BY <2>1, <2>2 DEF Once
<1> QED BY <1>1, <1>3, <1>4, <1>5 DEF Occurs

\* One list after another: what occurs in either.
LEMMA ConcatList ==
  ASSUME NEW S, NEW s \in Seq(S), NEW t \in Seq(S)
  PROVE  /\ s \o t \in Seq(S)
         /\ \A x : Occurs(x, s \o t) <=> Occurs(x, s) \/ Occurs(x, t)
         /\ Once(s) /\ Once(t) /\ (\A x \in S : ~(Occurs(x, s) /\ Occurs(x, t))) => Once(s \o t)
<1> DEFINE u == s \o t
<1>1. /\ u \in Seq(S) /\ Len(u) = Len(s) + Len(t)
      /\ \A k \in DOMAIN s : k \in DOMAIN u /\ u[k] = s[k]
      /\ \A k \in DOMAIN t : k + Len(s) \in DOMAIN u /\ u[k + Len(s)] = t[k]
  OBVIOUS
<1>2. \A k \in DOMAIN u : k \in DOMAIN s \/ (k - Len(s) \in DOMAIN t /\ u[k] = t[k - Len(s)])
  OBVIOUS
<1>3. Len(s) \in Nat /\ DOMAIN s \subseteq Int /\ DOMAIN t \subseteq Int /\ DOMAIN u \subseteq Int
  BY <1>1
<1>4. \A k \in DOMAIN s : s[k] \in S
  OBVIOUS
<1> HIDE DEF u
<1>5. ASSUME NEW x PROVE Occurs(x, u) <=> Occurs(x, s) \/ Occurs(x, t)
  BY <1>1, <1>2 DEF Occurs
<1>6. ASSUME Once(s), Once(t), \A x \in S : ~(Occurs(x, s) /\ Occurs(x, t))
      PROVE  Once(u)
  <2> SUFFICES ASSUME NEW j \in DOMAIN u, NEW k \in DOMAIN u, u[j] = u[k] PROVE j = k
    BY DEF Once
  <2>1. CASE j \in DOMAIN s /\ k \in DOMAIN s
    BY <2>1, <1>1, <1>6 DEF Once
  <2>2. CASE j - Len(s) \in DOMAIN t /\ u[j] = t[j - Len(s)] /\ k - Len(s) \in DOMAIN t /\ u[k] = t[k - Len(s)]
    <3>1. j - Len(s) = k - Len(s)
      BY <2>2, <1>6 DEF Once
    <3> QED BY <3>1, <1>3
  <2>3. CASE j \in DOMAIN s /\ k - Len(s) \in DOMAIN t /\ u[k] = t[k - Len(s)]
    BY <2>3, <1>1, <1>4, <1>6 DEF Occurs
  <2>4. CASE k \in DOMAIN s /\ j - Len(s) \in DOMAIN t /\ u[j] = t[j - Len(s)]
    BY <2>4, <1>1, <1>4, <1>6 DEF Occurs
  <2> QED BY <2>1, <2>2, <2>3, <2>4, <1>2
<1> QED BY <1>1, <1>5, <1>6 DEF u

\* One element removed: it occurs no more, the others do.
LEMMA RemovedList ==
  ASSUME NEW S, NEW s \in Seq(S), NEW k \in DOMAIN s, Once(s)
  PROVE  /\ RemoveAt(s, k) \in Seq(S) /\ Once(RemoveAt(s, k))
         /\ \A x : Occurs(x, RemoveAt(s, k)) <=> Occurs(x, s) /\ x # s[k]
<1> DEFINE p == SubSeq(s, 1, k - 1)
           q == SubSeq(s, k + 1, Len(s))
           u == p \o q
<1>1. k \in 1..Len(s) /\ DOMAIN s = 1..Len(s) /\ Len(s) \in Nat
  OBVIOUS
<1>2. RemoveAt(s, k) = u
  BY DEF RemoveAt
<1>3. u = p \o q
  OBVIOUS
<1> HIDE DEF u
<1>4. \A j \in 1..Len(s) : s[j] \in S
  OBVIOUS
<1>5. p \in Seq(S) /\ Len(p) = k - 1 /\ \A j \in 1..(k - 1) : p[j] = s[j]
  <2>1. \A j \in 1..(k - 1) : s[j] \in S
    BY <1>1, <1>4
  <2>2. /\ p \in Seq(S)
        /\ Len(p) = IF 1 <= k - 1 THEN k - 1 - 1 + 1 ELSE 0
        /\ \A j \in 1..(k - 1 - 1 + 1) : p[j] = s[1 + j - 1]
    BY <1>1, <2>1, SubSeqProperties
  <2> QED BY <1>1, <2>2
<1>6. q \in Seq(S) /\ Len(q) = Len(s) - k /\ \A j \in 1..(Len(s) - k) : q[j] = s[j + k]
  <2>1. \A j \in (k + 1)..Len(s) : s[j] \in S
    BY <1>1, <1>4
  <2>2. /\ q \in Seq(S)
        /\ Len(q) = IF k + 1 <= Len(s) THEN Len(s) - (k + 1) + 1 ELSE 0
        /\ \A j \in 1..(Len(s) - (k + 1) + 1) : q[j] = s[(k + 1) + j - 1]
    BY <1>1, <2>1, SubSeqProperties
  <2> HIDE DEF q
  <2>3. Len(q) = Len(s) - k
    <3>1. Len(q) = IF k + 1 <= Len(s) THEN Len(s) - (k + 1) + 1 ELSE 0
      BY <2>2
    <3> QED BY <1>1, <3>1
  <2>4. ASSUME NEW j \in 1..(Len(s) - k) PROVE q[j] = s[j + k]
    <3>1. j \in 1..(Len(s) - (k + 1) + 1) /\ (k + 1) + j - 1 = j + k
      BY <1>1
    <3>2. q[j] = s[(k + 1) + j - 1]
      BY <2>2, <3>1
    <3> QED BY <3>1, <3>2
  <2> QED BY <2>2, <2>3, <2>4
<1> HIDE DEF p, q
<1>7. /\ u \in Seq(S) /\ Len(u) = Len(s) - 1 /\ DOMAIN u = 1..(Len(s) - 1)
      /\ \A i \in 1..(Len(s) - 1) : u[i] = IF i <= k - 1 THEN p[i] ELSE q[i - (k - 1)]
  <2>1. /\ u \in Seq(S) /\ Len(u) = Len(p) + Len(q)
        /\ \A i \in 1..(Len(p) + Len(q)) : u[i] = IF i <= Len(p) THEN p[i] ELSE q[i - Len(p)]
    BY <1>3, <1>5, <1>6, ConcatProperties
  <2>2. DOMAIN u = 1..Len(u)
    BY <2>1
  <2> QED BY <1>1, <1>5, <1>6, <2>1, <2>2
<1>8. \A j \in 1..(k - 1) : u[j] = s[j]
  <2> SUFFICES ASSUME NEW j \in 1..(k - 1) PROVE u[j] = s[j]
    OBVIOUS
  <2>1. j \in 1..(Len(s) - 1) /\ j <= k - 1
    BY <1>1
  <2>2. u[j] = p[j]
    BY <1>7, <2>1
  <2> QED BY <1>5, <2>2
<1>9. \A j \in k..(Len(s) - 1) : u[j] = s[j + 1]
  <2> SUFFICES ASSUME NEW j \in k..(Len(s) - 1) PROVE u[j] = s[j + 1]
    OBVIOUS
  <2>1. j \in 1..(Len(s) - 1) /\ ~(j <= k - 1) /\ j - (k - 1) \in 1..(Len(s) - k) /\ j - (k - 1) + k = j + 1
    BY <1>1
  <2>2. u[j] = q[j - (k - 1)]
    BY <1>7, <2>1
  <2>3. q[j - (k - 1)] = s[j - (k - 1) + k]
    BY <1>6, <2>1
  <2> QED BY <2>1, <2>2, <2>3
<1>10. \A j \in DOMAIN u : \E i \in DOMAIN s : /\ u[j] = s[i] /\ i # k
                                               /\ i = IF j < k THEN j ELSE j + 1
  BY <1>1, <1>7, <1>8, <1>9
<1>11. Once(u)
  <2> SUFFICES ASSUME NEW i \in DOMAIN u, NEW j \in DOMAIN u, u[i] = u[j] PROVE i = j
    BY DEF Once
  <2>1. (IF i < k THEN i ELSE i + 1) = (IF j < k THEN j ELSE j + 1)
    BY <1>10 DEF Once
  <2> QED BY <1>1, <1>7, <2>1
<1>12. ASSUME NEW x, Occurs(x, u) PROVE Occurs(x, s) /\ x # s[k]
  BY <1>1, <1>10, <1>12 DEF Once, Occurs
<1>13. ASSUME NEW x, Occurs(x, s), x # s[k] PROVE Occurs(x, u)
  <2> PICK j \in DOMAIN s : s[j] = x
    BY <1>13 DEF Occurs
  <2>1. CASE j < k
    BY <2>1, <1>1, <1>7, <1>8 DEF Occurs
  <2>2. CASE j > k
    <3>1. j - 1 \in k..(Len(s) - 1) /\ j - 1 \in DOMAIN u
      BY <2>2, <1>1, <1>7
    <3>2. u[j - 1] = s[j]
      BY <3>1, <1>9, <1>1
    <3> QED BY <3>1, <3>2 DEF Occurs
  <2> QED BY <2>1, <2>2, <1>1, <1>13
<1> QED BY <1>2, <1>7, <1>11, <1>12, <1>13

(***************************************************************************)
(* The lists, for jobs.                                                    *)
(***************************************************************************)
LEMMA Appended ==
  ASSUME NEW s \in Jobs, NEW r \in Request
  PROVE  /\ Append(s, r) \in Jobs
         /\ \A x : InList(x, Append(s, r)) <=> InList(x, s) \/ x = r
         /\ Once(s) /\ ~InList(r, s) => Once(Append(s, r))
BY AppendedList DEF Jobs, InList, Occurs

LEMMA HeadTaken ==
  ASSUME NEW s \in Jobs, s # <<>>
  PROVE  /\ Head(s) \in Request /\ Tail(s) \in Jobs /\ InList(Head(s), s)
         /\ \A x : InList(x, s) <=> InList(x, Tail(s)) \/ x = Head(s)
         /\ Once(s) => Once(Tail(s)) /\ ~InList(Head(s), Tail(s))
BY TailList DEF Jobs, InList, Occurs

LEMMA Concatenated ==
  ASSUME NEW s \in Jobs, NEW t \in Jobs
  PROVE  /\ s \o t \in Jobs
         /\ \A x : InList(x, s \o t) <=> InList(x, s) \/ InList(x, t)
         /\ Once(s) /\ Once(t) /\ (\A x \in Request : ~(InList(x, s) /\ InList(x, t))) => Once(s \o t)
BY ConcatList DEF Jobs, InList, Occurs

LEMMA Taken ==
  ASSUME NEW s \in Jobs, NEW r, InList(r, s), Once(s)
  PROVE  /\ Erased(s, r) \in Jobs /\ Once(Erased(s, r))
         /\ \A x : InList(x, Erased(s, r)) <=> InList(x, s) /\ x # r
<1> DEFINE k == CHOOSE j \in DOMAIN s : s[j] = r
<1>1. k \in DOMAIN s /\ s[k] = r
  BY DEF InList
<1>2. Erased(s, r) = RemoveAt(s, k)
  BY DEF Erased
<1> HIDE DEF k
<1>3. s \in Seq(Request)
  BY DEF Jobs
<1>4. /\ RemoveAt(s, k) \in Seq(Request) /\ Once(RemoveAt(s, k))
      /\ \A x : Occurs(x, RemoveAt(s, k)) <=> Occurs(x, s) /\ x # s[k]
  BY <1>1, <1>3, RemovedList
<1> QED BY <1>1, <1>2, <1>4 DEF Jobs, InList, Occurs

LEMMA Moved ==
  ASSUME NEW s \in Jobs, NEW r \in Request, InList(r, s), Once(s)
  PROVE  /\ <<r>> \o Erased(s, r) \in Jobs /\ Once(<<r>> \o Erased(s, r))
         /\ \A x : InList(x, <<r>> \o Erased(s, r)) <=> InList(x, s)
<1>1. <<r>> \in Jobs /\ Once(<<r>>) /\ \A x : InList(x, <<r>>) <=> x = r
  BY DEF Jobs, Once, InList
<1> QED BY <1>1, Taken, Concatenated

LEMMA EmptyList == <<>> \in Jobs /\ Once(<<>>) /\ \A x : ~InList(x, <<>>)
BY DEF Jobs, Once, InList

(***************************************************************************)
(* The inductive invariant.                                                *)
(***************************************************************************)
\* The running event() has the job of r to deliver.
Delivered(r) == InList(r, delivery.finished) \/ InList(r, delivery.cancelled)

Held(r) ==
  InList(r, pendingJobs) \/ InList(r, finishedJobs) \/ InList(r, cancelledJobs) \/ Delivered(r) \/ currentJob = r

\* The job of a request is in one place, and there once.
InOnePlace(r) ==
  /\ InList(r, pendingJobs) =>
       ~InList(r, finishedJobs) /\ ~InList(r, cancelledJobs) /\ ~Delivered(r) /\ currentJob # r
  /\ InList(r, finishedJobs) => ~InList(r, cancelledJobs) /\ ~Delivered(r) /\ currentJob # r
  /\ InList(r, cancelledJobs) => ~Delivered(r) /\ currentJob # r
  /\ InList(r, delivery.finished) => ~InList(r, delivery.cancelled)
  /\ Delivered(r) => currentJob # r

HeldOnce ==
  /\ Once(pendingJobs) /\ Once(finishedJobs) /\ Once(cancelledJobs)
  /\ Once(delivery.finished) /\ Once(delivery.cancelled)
  /\ \A r \in Request : InOnePlace(r)

\* An active request has a job, one that has ended has none.
AttendedTo(r) ==
  /\ Active(r) => Held(r)
  /\ state[r] \in {"inactive", "finished", "canceled"} => ~Held(r)

Attended == \A r \in Request : AttendedTo(r)

\* A client that was not careless: the job of a request it has destroyed knows
\* it, and event() points to no job that was deleted or is waited for.
Told(r) == state[r] = "destroyed" /\ (Held(r) \/ delivery.current = r) => r \in cleared

Careful ==
  ~careless =>
    /\ ~misuse
    /\ \A r \in Request : Told(r)
    /\ delivery.current # Freed
    /\ waiting.request # None => delivery.current # waiting.request

\* Between deliveries nothing is left to deliver, and only who waits is woken.
Phases ==
  /\ delivery.phase = "no" => delivery = NotDelivering
  /\ waiting.signalled => waiting.request # None

JInv == TypeOK /\ Phases /\ HeldOnce /\ Attended /\ Careful

LEMMA Initially == Init => JInv
<1> SUFFICES ASSUME Init PROVE JInv
  OBVIOUS
<1> USE DEF Init
<1>1. delivery.finished = <<>> /\ delivery.cancelled = <<>> /\ delivery.current = None
  BY DEF NotDelivering
<1>2. TypeOK
  BY <1>1, RequestAssumption, EmptyList DEF TypeOK, NotDelivering, NotWaiting
<1>3. HeldOnce /\ \A r \in Request : ~Held(r)
  BY <1>1, RequestAssumption, EmptyList DEF HeldOnce, InOnePlace, Delivered, Held
<1>4. Phases /\ Attended /\ Careful
  BY <1>1, <1>3, RequestAssumption DEF Phases, Attended, AttendedTo, Active, Careful, Told, NotWaiting
<1> QED BY <1>2, <1>3, <1>4 DEF JInv

(***************************************************************************)
(* run()                                                                   *)
(***************************************************************************)
\* The loop, when the job executed has been appended to the finished ones.
LEMMA LoopStep ==
  ASSUME JInv, NEW finished \in Jobs, NEW update \in BOOLEAN, Loop(finished, update),
         Once(finished),
         \A r \in Request : InList(r, finished) <=> InList(r, finishedJobs) \/ currentJob = r,
         waiting' = waiting \/ waiting' = Signalled(waiting),
         UNCHANGED clientVars
  PROVE  JInv'
<1> USE DEF JInv
<1>1. /\ worker' \in {"waiting", "woken", "executing", "ended"} /\ updatePending' \in BOOLEAN
      /\ currentJob' \in Request \cup {None} /\ (worker' = "executing" <=> currentJob' # None)
      /\ waiting' \in [request : Request \cup {None}, signalled : BOOLEAN]
      /\ waiting'.request = waiting.request
      /\ waiting'.signalled => waiting'.request # None
  <2>1. pendingJobs # <<>> => Head(pendingJobs) \in Request
    BY HeadTaken DEF TypeOK
  <2> QED BY <2>1, RequestAssumption DEF TypeOK, Phases, Loop, Leaves, Signalled
<1>2. \A r \in Request : InList(r, finished) => ~InList(r, pendingJobs)
  BY DEF HeldOnce, InOnePlace
<1>3. /\ pendingJobs' \in Jobs /\ Once(pendingJobs')
      /\ finishedJobs' \in Jobs /\ Once(finishedJobs')
      /\ \A r \in Request :
           /\ (InList(r, pendingJobs') \/ InList(r, finishedJobs') \/ currentJob' = r)
                <=> (InList(r, pendingJobs) \/ InList(r, finished))
           /\ InList(r, pendingJobs') => ~InList(r, finishedJobs') /\ currentJob' # r
           /\ InList(r, finishedJobs') => currentJob' # r
  <2>1. CASE pendingJobs' = pendingJobs /\ finishedJobs' = finished /\ currentJob' = None
    BY <2>1, <1>2, RequestAssumption DEF TypeOK, HeldOnce
  <2>2. CASE /\ pendingJobs # <<>> /\ pendingJobs' = Tail(pendingJobs) /\ finishedJobs' = finished
             /\ currentJob' = Head(pendingJobs)
    BY <2>2, <1>2, HeadTaken DEF TypeOK, HeldOnce
  <2>3. CASE pendingJobs' = <<>> /\ finishedJobs' = finished \o pendingJobs /\ currentJob' = None
    <3>1. /\ finished \o pendingJobs \in Jobs /\ Once(finished \o pendingJobs)
          /\ \A r : InList(r, finished \o pendingJobs) <=> InList(r, finished) \/ InList(r, pendingJobs)
      BY <1>2, Concatenated DEF TypeOK, HeldOnce
    <3> QED BY <2>3, <3>1, EmptyList, RequestAssumption
  <2> QED BY <2>1, <2>2, <2>3 DEF Loop, Leaves
<1>4. UNCHANGED <<databaseOpen, running, cancelledJobs, delivery, state, cleared, misuse, careless>>
  BY DEF clientVars
<1>5. TypeOK' /\ Phases'
  BY <1>1, <1>3, <1>4 DEF TypeOK, Phases
<1>6. HeldOnce' /\ \A r \in Request : Held(r)' <=> Held(r)
  BY <1>3, <1>4 DEF HeldOnce, InOnePlace, Delivered, Held
<1>7. Attended' /\ Careful'
  BY <1>1, <1>4, <1>6 DEF Attended, AttendedTo, Active, Careful, Told
<1> QED BY <1>5, <1>6, <1>7

LEMMA WorkerStep == JInv /\ WorkerNext => JInv'
<1> SUFFICES ASSUME JInv, WorkerNext PROVE JInv'
  OBVIOUS
<1> USE DEF JInv
<1>1. CASE WorkerWakes
  <2>1. currentJob = None /\ None \notin Request
    BY <1>1, RequestAssumption DEF WorkerWakes, TypeOK
  <2> QED BY <1>1, <2>1, LoopStep DEF WorkerWakes, TypeOK, HeldOnce
<1>2. CASE WorkerFinishes
  <2>1. currentJob \in Request
    BY <1>2 DEF WorkerFinishes, TypeOK
  <2>2. /\ Append(finishedJobs, currentJob) \in Jobs /\ Once(Append(finishedJobs, currentJob))
        /\ \A r \in Request : InList(r, Append(finishedJobs, currentJob)) <=>
                                InList(r, finishedJobs) \/ currentJob = r
    BY <2>1, Appended DEF TypeOK, HeldOnce, InOnePlace
  <2> QED BY <1>2, <2>2, LoopStep DEF WorkerFinishes
<1>3. CASE ResultsAvailable
  BY <1>3 DEF ResultsAvailable, clientVars, TypeOK, HeldOnce, InOnePlace, Attended, AttendedTo, Careful, Told,
              Delivered, Held, Active, Phases
<1> QED BY <1>1, <1>2, <1>3 DEF WorkerNext

(***************************************************************************)
(* The client.                                                             *)
(***************************************************************************)
LEMMA StartStep ==
  ASSUME JInv, NEW r \in Request, StartRequest(r)
  PROVE  JInv'
<1> USE DEF JInv, StartRequest
<1>1. state[r] \in {"inactive", "finished", "canceled"} /\ ~Held(r)
  BY DEF Attended, AttendedTo
<1>2. /\ Append(pendingJobs, r) \in Jobs /\ Once(Append(pendingJobs, r))
      /\ \A x : InList(x, Append(pendingJobs, r)) <=> InList(x, pendingJobs) \/ x = r
  BY <1>1, Appended DEF TypeOK, HeldOnce, Held
<1>3. TypeOK' /\ Phases'
  BY <1>2 DEF TypeOK, Phases, Woken
<1>4. HeldOnce' /\ \A x \in Request : Held(x)' <=> Held(x) \/ x = r
  BY <1>1, <1>2 DEF HeldOnce, InOnePlace, Delivered, Held
<1>5. Attended' /\ Careful'
  BY <1>4 DEF TypeOK, Attended, AttendedTo, Active, Careful, Told
<1> QED BY <1>3, <1>4, <1>5

LEMMA CancelStep ==
  ASSUME JInv, NEW r \in Request, CancelRequest(r)
  PROVE  JInv'
<1> USE DEF JInv, CancelRequest
<1>1. /\ Erased(pendingJobs, r) \in Jobs /\ Once(Erased(pendingJobs, r))
      /\ \A x : InList(x, Erased(pendingJobs, r)) <=> InList(x, pendingJobs) /\ x # r
  BY Taken DEF TypeOK, HeldOnce
<1>2. /\ Append(cancelledJobs, r) \in Jobs /\ Once(Append(cancelledJobs, r))
      /\ \A x : InList(x, Append(cancelledJobs, r)) <=> InList(x, cancelledJobs) \/ x = r
  BY Appended DEF TypeOK, HeldOnce, InOnePlace
<1>3. TypeOK' /\ Phases'
  BY <1>1, <1>2 DEF TypeOK, Phases
<1>4. HeldOnce' /\ \A x \in Request : Held(x)' <=> Held(x)
  BY <1>1, <1>2 DEF HeldOnce, InOnePlace, Delivered, Held
<1>5. Attended' /\ Careful'
  BY <1>4 DEF TypeOK, Attended, AttendedTo, Active, Careful, Told
<1> QED BY <1>3, <1>4, <1>5

\* The job of r, if it is in the list, is taken out of it.
Dropped(r, jobs) == IF InList(r, jobs) THEN Erased(jobs, r) ELSE jobs

LEMMA DroppedList ==
  ASSUME NEW s \in Jobs, NEW r, Once(s)
  PROVE  /\ Dropped(r, s) \in Jobs /\ Once(Dropped(r, s))
         /\ \A x : InList(x, Dropped(r, s)) <=> InList(x, s) /\ x # r
BY Taken DEF Dropped

LEMMA DestroyStep ==
  ASSUME JInv, NEW r \in Request, DestroyRequest(r)
  PROVE  JInv'
<1> USE DEF JInv
<1>1. /\ state' = [state EXCEPT ![r] = "destroyed"] /\ state[r] # "destroyed"
      /\ careless' = (careless \/ InBatch(r) \/ (r \in Extension /\ Active(r)))
      /\ UNCHANGED <<databaseOpen, running, currentJob, updatePending, worker, waiting, misuse>>
  BY DEF DestroyRequest
<1>2. delivery' \in {delivery, [delivery EXCEPT !.current = Freed]}
      /\ (delivery.current # r => delivery' = delivery)
  BY DEF DestroyRequest, ForgetRequest, Deleted
<1>3. /\ delivery'.finished = delivery.finished /\ delivery'.cancelled = delivery.cancelled
      /\ delivery' \in [phase : {"no", "begun", "slot"}, finished : Jobs, cancelled : Jobs,
                        current : Request \cup {None, Freed}]
  BY <1>2 DEF TypeOK
<1>4. cleared' \in SUBSET Request /\ cleared \subseteq cleared'
  BY DEF DestroyRequest, ForgetRequest, Cleared, TypeOK
<1>5. /\ pendingJobs' \in {pendingJobs, Dropped(r, pendingJobs)}
      /\ finishedJobs' \in {finishedJobs, Dropped(r, finishedJobs)}
      /\ cancelledJobs' \in {cancelledJobs, Dropped(r, cancelledJobs)}
  BY DEF DestroyRequest, ForgetRequest, Dropped
<1>6. /\ pendingJobs' \in Jobs /\ Once(pendingJobs')
      /\ \A x : InList(x, pendingJobs') => InList(x, pendingJobs)
      /\ \A x : x # r => (InList(x, pendingJobs') <=> InList(x, pendingJobs))
  BY <1>5, DroppedList DEF TypeOK, HeldOnce
<1>7. /\ finishedJobs' \in Jobs /\ Once(finishedJobs')
      /\ \A x : InList(x, finishedJobs') => InList(x, finishedJobs)
      /\ \A x : x # r => (InList(x, finishedJobs') <=> InList(x, finishedJobs))
  BY <1>5, DroppedList DEF TypeOK, HeldOnce
<1>8. /\ cancelledJobs' \in Jobs /\ Once(cancelledJobs')
      /\ \A x : InList(x, cancelledJobs') => InList(x, cancelledJobs)
      /\ \A x : x # r => (InList(x, cancelledJobs') <=> InList(x, cancelledJobs))
  BY <1>5, DroppedList DEF TypeOK, HeldOnce
<1>9. TypeOK' /\ Phases'
  <2>1. TypeOK'
    BY <1>1, <1>3, <1>4, <1>6, <1>7, <1>8 DEF TypeOK
  <2>2. delivery.phase = "no" => delivery' = delivery
    BY <1>2, RequestAssumption DEF Phases, NotDelivering
  <2> QED BY <1>1, <1>2, <2>1, <2>2 DEF TypeOK, Phases
<1>10. HeldOnce' /\ \A x \in Request : x # r => (Held(x)' <=> Held(x))
  BY <1>1, <1>3, <1>6, <1>7, <1>8 DEF HeldOnce, InOnePlace, Delivered, Held
<1>11. Attended'
  BY <1>1, <1>10 DEF TypeOK, Attended, AttendedTo, Active
<1>12. ASSUME ~careless' PROVE Held(r)' => r \in cleared'
  <2>1. ~InBatch(r) /\ ~(r \in Extension /\ Active(r))
    BY <1>1, <1>12 DEF TypeOK
  <2>2. CASE r \in Extension
    BY <2>1, <2>2, <1>1, <1>3, <1>6, <1>7, <1>8
       DEF TypeOK, Attended, AttendedTo, Active, Held, Delivered
  <2>3. CASE r \notin Extension
    <3>1. ForgetRequest(r) /\ ~Delivered(r)'
      BY <2>1, <2>3, <1>3 DEF DestroyRequest, InBatch, Delivered
    <3>2. CASE InList(r, pendingJobs) /\ pendingJobs' = Erased(pendingJobs, r)
      <4>1. ~InList(r, pendingJobs')
        BY <3>2, Taken DEF TypeOK, HeldOnce
      <4> QED BY <4>1, <3>1, <3>2, <1>1, <1>7, <1>8 DEF HeldOnce, InOnePlace, Held, Delivered
    <3>3. CASE currentJob = r /\ cleared' = Cleared(r)
      BY <3>3 DEF Cleared
    <3>4. CASE InList(r, finishedJobs) /\ finishedJobs' = Erased(finishedJobs, r)
      <4>1. ~InList(r, finishedJobs')
        BY <3>4, Taken DEF TypeOK, HeldOnce
      <4> QED BY <4>1, <3>1, <3>4, <1>1, <1>6, <1>8 DEF HeldOnce, InOnePlace, Held, Delivered
    <3>5. CASE InList(r, cancelledJobs) /\ cancelledJobs' = Erased(cancelledJobs, r)
      <4>1. ~InList(r, cancelledJobs')
        BY <3>5, Taken DEF TypeOK, HeldOnce
      <4> QED BY <4>1, <3>1, <3>5, <1>1, <1>6, <1>7 DEF HeldOnce, InOnePlace, Held, Delivered
    <3>6. CASE ~InList(r, pendingJobs \o finishedJobs \o cancelledJobs) /\ currentJob # r
      <4>1. ~InList(r, pendingJobs) /\ ~InList(r, finishedJobs) /\ ~InList(r, cancelledJobs)
        BY <3>6, Concatenated DEF TypeOK
      <4> QED BY <4>1, <3>1, <3>6, <1>1, <1>6, <1>7, <1>8 DEF Held
    <3> QED BY <3>1, <3>2, <3>3, <3>4, <3>5, <3>6 DEF ForgetRequest
  <2> QED BY <2>2, <2>3
<1>13. Careful'
  <2> SUFFICES ASSUME ~careless' PROVE Careful'
    BY DEF Careful
  <2>1. ~careless /\ delivery.current # r /\ delivery' = delivery
    BY <1>1, <1>2 DEF TypeOK, InBatch
  <2>2. \A x \in Request : Told(x)'
    BY <2>1, <1>1, <1>4, <1>10, <1>12 DEF TypeOK, Careful, Told
  <2> QED BY <2>1, <2>2, <1>1 DEF Careful
<1> QED BY <1>9, <1>10, <1>11, <1>13

(***************************************************************************)
(* waitForFinished: it blocks, or takes a job out of a list and updates    *)
(* the state of its request.                                               *)
(***************************************************************************)
LEMMA BlocksStep ==
  ASSUME JInv, NEW r \in Request, Blocks(r),
         waiting' \in [request : Request \cup {None}, signalled : BOOLEAN], ~waiting'.signalled,
         careless' \in BOOLEAN, careless => careless',
         ~careless' => delivery.current # waiting'.request \/ waiting'.request = None,
         UNCHANGED <<databaseOpen, running, currentJob, updatePending, worker, cleared>>
  PROVE  JInv'
<1> USE DEF JInv
<1>1. /\ pendingJobs' \in Jobs /\ Once(pendingJobs')
      /\ \A x : InList(x, pendingJobs') <=> InList(x, pendingJobs)
  BY Moved DEF TypeOK, HeldOnce, Blocks, MovedToFront
<1>2. UNCHANGED <<finishedJobs, cancelledJobs, state, delivery, misuse>>
  BY DEF Blocks
<1>3. TypeOK' /\ Phases'
  BY <1>1, <1>2 DEF TypeOK, Phases
<1>4. HeldOnce' /\ \A x \in Request : Held(x)' <=> Held(x)
  BY <1>1, <1>2 DEF HeldOnce, InOnePlace, Delivered, Held
<1>5. Attended'
  BY <1>2, <1>4 DEF Attended, AttendedTo, Active
<1>6. Careful'
  BY <1>2, <1>4 DEF Careful, Told
<1> QED BY <1>3, <1>4, <1>5, <1>6

LEMMA ResolveStep ==
  ASSUME JInv, NEW r \in Request, Resolve(r),
         waiting' = waiting \/ waiting' = NotWaiting,
         careless' \in BOOLEAN, careless => careless',
         ~careless' => delivery.current # r,
         UNCHANGED <<databaseOpen, running, pendingJobs, currentJob, updatePending, worker, cleared>>
  PROVE  JInv'
<1> USE DEF JInv
<1>1. /\ waiting' \in [request : Request \cup {None}, signalled : BOOLEAN]
      /\ waiting'.signalled => waiting'.request # None
      /\ waiting'.request # None => waiting'.request = waiting.request
  <2>1. /\ NotWaiting \in [request : Request \cup {None}, signalled : BOOLEAN]
        /\ NotWaiting.request = None /\ ~NotWaiting.signalled
    BY DEF NotWaiting
  <2> QED BY <2>1 DEF TypeOK, Phases
<1>2. delivery' = delivery \/ (delivery.current = r /\ delivery' = [delivery EXCEPT !.current = Freed])
  BY DEF Resolve, Deleted
<1>3. /\ delivery'.finished = delivery.finished /\ delivery'.cancelled = delivery.cancelled
      /\ delivery' \in [phase : {"no", "begun", "slot"}, finished : Jobs, cancelled : Jobs,
                        current : Request \cup {None, Freed}]
      /\ delivery'.phase = "no" => delivery' = NotDelivering
  BY <1>2, RequestAssumption DEF TypeOK, Phases, NotDelivering
<1>4. ASSUME \/ /\ InList(r, finishedJobs)
                /\ finishedJobs' = Erased(finishedJobs, r) /\ cancelledJobs' = cancelledJobs
                /\ state' = UpdatedState(r, "finished")
             \/ /\ InList(r, cancelledJobs)
                /\ finishedJobs' = finishedJobs /\ cancelledJobs' = Erased(cancelledJobs, r)
                /\ state' = UpdatedState(r, "canceled"),
             misuse' = (misuse \/ Dangling(r))
      PROVE  JInv'
  <2>1. /\ InList(r, finishedJobs) \/ InList(r, cancelledJobs)
        /\ finishedJobs' \in Jobs /\ Once(finishedJobs') /\ cancelledJobs' \in Jobs /\ Once(cancelledJobs')
        /\ \A x : /\ InList(x, finishedJobs') <=> InList(x, finishedJobs) /\ x # r
                  /\ InList(x, cancelledJobs') <=> InList(x, cancelledJobs) /\ x # r
    <3>1. \A x : InList(x, finishedJobs) /\ InList(x, cancelledJobs) => x # r
      BY DEF HeldOnce, InOnePlace
    <3>2. CASE InList(r, finishedJobs) /\ finishedJobs' = Erased(finishedJobs, r) /\ cancelledJobs' = cancelledJobs
      BY <3>1, <3>2, Taken DEF TypeOK, HeldOnce
    <3>3. CASE InList(r, cancelledJobs) /\ finishedJobs' = finishedJobs /\ cancelledJobs' = Erased(cancelledJobs, r)
      BY <3>1, <3>3, Taken DEF TypeOK, HeldOnce
    <3> QED BY <1>4, <3>2, <3>3
  <2>2. /\ state' \in [Request -> {"inactive", "active", "finished", "canceled", "destroyed"}]
        /\ state'[r] # "active"
        /\ \A x \in Request : x # r => state'[x] = state[x]
        /\ state'[r] = "destroyed" <=> state[r] = "destroyed"
    BY <1>4 DEF TypeOK, UpdatedState
  <2>3. TypeOK' /\ Phases'
    BY <1>1, <1>3, <1>4, <2>1, <2>2 DEF TypeOK, Phases
  <2>4. ~Delivered(r) /\ currentJob # r /\ ~InList(r, pendingJobs)
    BY <2>1 DEF HeldOnce, InOnePlace
  <2>5. HeldOnce' /\ ~Held(r)' /\ \A x \in Request : x # r => (Held(x)' <=> Held(x))
    BY <1>3, <2>1, <2>4 DEF HeldOnce, InOnePlace, Delivered, Held
  <2>6. Attended'
    BY <2>2, <2>5 DEF Attended, AttendedTo, Active
  <2>7. Careful'
    <3> SUFFICES ASSUME ~careless' PROVE Careful'
      BY DEF Careful
    <3>1. delivery' = delivery /\ ~Dangling(r) /\ ~careless /\ delivery.current # r
      BY <1>2, <2>1 DEF Careful, Told, Dangling, Held
    <3>2. \A x \in Request : Told(x)'
      BY <2>2, <2>5, <3>1 DEF Careful, Told
    <3> QED BY <1>1, <1>4, <3>1, <3>2 DEF Careful
  <2> QED BY <2>3, <2>5, <2>6, <2>7
<1>5. CASE UNCHANGED <<finishedJobs, cancelledJobs, state, delivery, misuse>>
  <2>1. TypeOK' /\ Phases'
    BY <1>1, <1>5 DEF TypeOK, Phases
  <2>2. HeldOnce' /\ \A x \in Request : Held(x)' <=> Held(x)
    BY <1>5 DEF HeldOnce, InOnePlace, Delivered, Held
  <2>3. Attended' /\ Careful'
    BY <1>1, <1>5, <2>2 DEF Attended, AttendedTo, Active, Careful, Told
  <2> QED BY <2>1, <2>2, <2>3
<1> QED BY <1>4, <1>5 DEF Resolve

LEMMA WaitStep ==
  ASSUME JInv, NEW r \in Request, WaitForFinished(r)
  PROVE  JInv'
<1>1. /\ careless' = (careless \/ delivery.current = r) /\ careless' \in BOOLEAN /\ waiting = NotWaiting
      /\ UNCHANGED <<databaseOpen, running, currentJob, updatePending, worker, cleared>>
  BY DEF WaitForFinished, ClientRuns, JInv, TypeOK
<1>2. CASE Blocks(r) /\ waiting' = [request |-> r, signalled |-> FALSE]
  <2>1. /\ waiting' \in [request : Request \cup {None}, signalled : BOOLEAN]
        /\ waiting'.request = r /\ ~waiting'.signalled
    BY <1>2
  <2> QED BY <1>1, <1>2, <2>1, BlocksStep
<1>3. CASE Resolve(r) /\ UNCHANGED <<pendingJobs, waiting>>
  BY <1>1, <1>3, ResolveStep
<1> QED BY <1>2, <1>3 DEF WaitForFinished

LEMMA WaitReturnsStep ==
  ASSUME JInv, WaitReturns
  PROVE  JInv'
<1> DEFINE r == waiting.request
<1>1. /\ waiting.signalled /\ waiting \in [request : Request \cup {None}, signalled : BOOLEAN]
      /\ UNCHANGED <<databaseOpen, running, currentJob, updatePending, worker, cleared, careless>>
      /\ careless \in BOOLEAN
  BY DEF WaitReturns, JInv, TypeOK
<1>2. r \in Request
  BY <1>1 DEF JInv, Phases
<1>3. ~careless => delivery.current # r
  BY <1>2, RequestAssumption DEF JInv, Careful
<1>4. CASE Blocks(r) /\ waiting' = [waiting EXCEPT !.signalled = FALSE]
  <2>1. /\ waiting' \in [request : Request \cup {None}, signalled : BOOLEAN]
        /\ waiting'.request = r /\ ~waiting'.signalled
    BY <1>1, <1>4
  <2> QED BY <1>1, <1>2, <1>3, <1>4, <2>1, BlocksStep
<1>5. CASE Resolve(r) /\ waiting' = NotWaiting /\ UNCHANGED pendingJobs
  BY <1>1, <1>2, <1>3, <1>5, ResolveStep
<1> QED BY <1>4, <1>5 DEF WaitReturns

LEMMA QuietStep ==
  ASSUME JInv, WaitTimesOut \/ Close
  PROVE  JInv'
<1> USE DEF JInv
<1>1. /\ UNCHANGED <<jobVars, delivery, state, cleared, misuse, careless, databaseOpen>>
      /\ waiting' = waiting \/ waiting' = NotWaiting
      /\ worker' = worker \/ worker' = Woken(worker)
      /\ running' \in BOOLEAN
  BY DEF WaitTimesOut, Close, TypeOK
<1>2. NotWaiting.request = None /\ ~NotWaiting.signalled
      /\ NotWaiting \in [request : Request \cup {None}, signalled : BOOLEAN]
  BY DEF NotWaiting
<1>3. TypeOK' /\ Phases'
  BY <1>1, <1>2 DEF TypeOK, Phases, Woken, jobVars
<1>4. HeldOnce' /\ \A x \in Request : Held(x)' <=> Held(x)
  BY <1>1 DEF HeldOnce, InOnePlace, Delivered, Held, jobVars
<1>5. Attended' /\ Careful'
  BY <1>1, <1>2, <1>4 DEF Attended, AttendedTo, Active, Careful, Told
<1> QED BY <1>3, <1>4, <1>5

(***************************************************************************)
(* event()                                                                 *)
(***************************************************************************)
LEMMA BeginDeliveryStep ==
  ASSUME JInv, BeginDelivery
  PROVE  JInv'
<1> USE DEF JInv
<1>1. /\ delivery' = [phase |-> "begun", finished |-> finishedJobs, cancelled |-> cancelledJobs,
                      current |-> currentJob]
      /\ delivery.finished = <<>> /\ delivery.cancelled = <<>> /\ waiting.request = None
      /\ finishedJobs' = <<>> /\ cancelledJobs' = <<>> /\ updatePending' = FALSE
      /\ UNCHANGED <<databaseOpen, running, pendingJobs, currentJob, worker, waiting, state,
                     cleared, misuse, careless>>
  BY DEF BeginDelivery, ClientRuns, Phases, NotWaiting, NotDelivering
<1>2. TypeOK' /\ Phases'
  BY <1>1, EmptyList DEF TypeOK, Phases
<1>3. HeldOnce' /\ \A x \in Request : Held(x)' <=> Held(x)
  BY <1>1, EmptyList DEF HeldOnce, InOnePlace, Delivered, Held
<1>4. Attended'
  BY <1>1, <1>3 DEF Attended, AttendedTo, Active
<1>5. Careful'
  <2>1. \A x \in Request : Told(x) => Told(x)'
    BY <1>1, <1>3 DEF Told, Held
  <2>2. currentJob # Freed
    BY RequestAssumption DEF TypeOK
  <2> QED BY <1>1, <2>1, <2>2 DEF Careful
<1> QED BY <1>2, <1>3, <1>4, <1>5

\* The next job of one of the copied lists is delivered.
LEMMA DeliverStep ==
  ASSUME JInv, DeliverFinished \/ DeliverCancelled
  PROVE  JInv'
<1> USE DEF JInv
<1> DEFINE DeliversTo(r, ended) ==
             /\ Delivered(r)
             /\ state' = UpdatedState(r, ended)
             /\ misuse' = (misuse \/ Dangling(r))
             /\ delivery' \in [phase : {"slot"}, finished : Jobs, cancelled : Jobs,
                               current : Request \cup {None, Freed}]
             /\ delivery'.current = delivery.current
             /\ Once(delivery'.finished) /\ Once(delivery'.cancelled)
             /\ \A x : /\ InList(x, delivery'.finished) <=> InList(x, delivery.finished) /\ x # r
                       /\ InList(x, delivery'.cancelled) <=> InList(x, delivery.cancelled) /\ x # r
<1>1. \E r \in Request, ended \in {"finished", "canceled"} : DeliversTo(r, ended)
  <2>1. CASE DeliverFinished
    <3> DEFINE r == Head(delivery.finished)
    <3>1. /\ r \in Request /\ InList(r, delivery.finished)
          /\ delivery.finished \in Jobs /\ delivery.finished # <<>>
          /\ delivery' = [delivery EXCEPT !.phase = "slot", !.finished = Tail(@)]
          /\ state' = UpdatedState(r, "finished") /\ misuse' = (misuse \/ Dangling(r))
      BY <2>1, HeadTaken DEF DeliverFinished, TypeOK
    <3>2. /\ delivery' \in [phase : {"slot"}, finished : Jobs, cancelled : Jobs,
                            current : Request \cup {None, Freed}]
          /\ delivery'.finished = Tail(delivery.finished) /\ delivery'.cancelled = delivery.cancelled
          /\ delivery'.current = delivery.current
      BY <3>1, HeadTaken DEF TypeOK
    <3>3. ~InList(r, delivery.cancelled) /\ Once(delivery.finished) /\ Once(delivery.cancelled)
      BY <3>1 DEF HeldOnce, InOnePlace
    <3>4. DeliversTo(r, "finished")
      BY <3>1, <3>2, <3>3, HeadTaken DEF Delivered
    <3> HIDE DEF r, DeliversTo
    <3> QED BY <3>1, <3>4
  <2>2. CASE DeliverCancelled
    <3> DEFINE r == Head(delivery.cancelled)
    <3>1. /\ r \in Request /\ InList(r, delivery.cancelled)
          /\ delivery.cancelled \in Jobs /\ delivery.cancelled # <<>>
          /\ delivery' = [delivery EXCEPT !.phase = "slot", !.cancelled = Tail(@)]
          /\ state' = UpdatedState(r, "canceled") /\ misuse' = (misuse \/ Dangling(r))
      BY <2>2, HeadTaken DEF DeliverCancelled, TypeOK
    <3>2. /\ delivery' \in [phase : {"slot"}, finished : Jobs, cancelled : Jobs,
                            current : Request \cup {None, Freed}]
          /\ delivery'.finished = delivery.finished /\ delivery'.cancelled = Tail(delivery.cancelled)
          /\ delivery'.current = delivery.current
      BY <3>1, HeadTaken DEF TypeOK
    <3>3. ~InList(r, delivery.finished) /\ Once(delivery.finished) /\ Once(delivery.cancelled)
      BY <3>1 DEF HeldOnce, InOnePlace
    <3>4. DeliversTo(r, "canceled")
      BY <3>1, <3>2, <3>3, HeadTaken DEF Delivered
    <3> HIDE DEF r, DeliversTo
    <3> QED BY <3>1, <3>4
  <2> QED BY <2>1, <2>2
<1> PICK r \in Request, ended \in {"finished", "canceled"} : DeliversTo(r, ended)
  BY <1>1
<1>2. UNCHANGED <<databaseOpen, running, jobVars, worker, waiting, cleared, careless>>
  BY DEF DeliverFinished, DeliverCancelled
<1>3. /\ state' \in [Request -> {"inactive", "active", "finished", "canceled", "destroyed"}]
      /\ state'[r] # "active"
      /\ \A x \in Request : x # r => state'[x] = state[x]
      /\ state'[r] = "destroyed" <=> state[r] = "destroyed"
  BY DEF TypeOK, UpdatedState
<1>4. TypeOK' /\ Phases'
  BY <1>2, <1>3 DEF TypeOK, Phases, jobVars
<1>5. HeldOnce' /\ ~Held(r)' /\ \A x \in Request : x # r => (Held(x)' <=> Held(x))
  BY <1>2 DEF HeldOnce, InOnePlace, Delivered, Held, jobVars
<1>6. Attended'
  BY <1>3, <1>5 DEF Attended, AttendedTo, Active
<1>7. Careful'
  <2> SUFFICES ASSUME ~careless' PROVE Careful'
    BY DEF Careful
  <2>1. ~careless /\ ~Dangling(r)
    BY <1>2 DEF Careful, Told, Dangling, Held
  <2>2. \A x \in Request : Told(x)'
    BY <1>2, <1>3, <1>5, <2>1 DEF Careful, Told, Held
  <2> QED BY <1>2, <2>1, <2>2 DEF Careful
<1> QED BY <1>4, <1>5, <1>6, <1>7

LEMMA EndDeliveryStep ==
  ASSUME JInv, EndDelivery
  PROVE  JInv'
<1> USE DEF JInv
<1>1. /\ delivery.finished = <<>> /\ delivery.cancelled = <<>>
      /\ delivery' = NotDelivering
      /\ delivery'.finished = <<>> /\ delivery'.cancelled = <<>> /\ delivery'.current = None
      /\ UNCHANGED <<databaseOpen, running, jobVars, worker, waiting, state, cleared, careless>>
  BY DEF EndDelivery, NotDelivering
<1>2. TypeOK' /\ Phases'
  BY <1>1, EmptyList DEF TypeOK, Phases, EndDelivery, NotDelivering, jobVars
<1>3. HeldOnce' /\ \A x \in Request : Held(x)' <=> Held(x)
  BY <1>1, EmptyList DEF HeldOnce, InOnePlace, Delivered, Held, jobVars
<1>4. Attended'
  BY <1>1, <1>3 DEF Attended, AttendedTo, Active
<1>5. Careful'
  <2>1. ~careless => misuse' = misuse
    BY DEF EndDelivery, Careful, Told, Dangling, TypeOK
  <2>2. \A x \in Request : Told(x) => Told(x)'
    BY <1>1, <1>3, RequestAssumption DEF Told
  <2> QED BY <1>1, <2>1, <2>2, RequestAssumption DEF Careful
<1> QED BY <1>2, <1>3, <1>4, <1>5

(***************************************************************************)
(* The theorems.                                                           *)
(***************************************************************************)
LEMMA StutterStep == JInv /\ UNCHANGED vars => JInv'
BY DEF JInv, vars, jobVars, TypeOK, Phases, HeldOnce, InOnePlace, Attended, AttendedTo, Careful, Told, Delivered,
       Held, Active

LEMMA Inductive == JInv /\ [Next]_vars => JInv'
<1> SUFFICES ASSUME JInv, Next PROVE JInv'
  BY StutterStep
<1> QED
  BY WorkerStep, StartStep, CancelStep, DestroyStep, WaitStep, WaitReturnsStep, QuietStep, BeginDeliveryStep,
     DeliverStep, EndDeliveryStep
     DEF Next, ClientNext, DeliveryNext

\* The invariant holds of every behaviour.
THEOREM Invariance == Spec => []JInv
BY Initially, Inductive, PTL DEF Spec

\* The lists hold requests, and the thread has a job exactly while it executes.
THEOREM TypeInvariant == Spec => []TypeOK
<1>1. JInv => TypeOK
  BY DEF JInv
<1> QED BY Invariance, <1>1, PTL

\* How often a job is in a list that holds it at most once.
LEMMA TimesInList ==
  ASSUME NEW s \in Jobs, NEW r, Once(s)
  PROVE  Cardinality({k \in DOMAIN s : s[k] = r}) = IF InList(r, s) THEN 1 ELSE 0
<1>1. CASE InList(r, s)
  <2> PICK k \in DOMAIN s : s[k] = r
    BY <1>1 DEF InList
  <2>1. {j \in DOMAIN s : s[j] = r} = {k}
    BY DEF Once
  <2> QED BY <1>1, <2>1, FS_Singleton
<1>2. CASE ~InList(r, s)
  <2>1. {j \in DOMAIN s : s[j] = r} = {}
    BY <1>2 DEF InList
  <2> QED BY <1>2, <2>1, FS_EmptySet
<1> QED BY <1>1, <1>2

\* For any number of requests, whatever slots, waits, cancellations and the
\* thread do in between: a request its client sees active has one job in one
\* place, one that has ended has none, and nothing deleted is used by a client
\* that was not careless.
THEOREM JobsAreSound == Spec => []JobsSound
<1>1. ASSUME JInv PROVE OneJobEach
  <2> SUFFICES ASSUME NEW r \in Request PROVE /\ Active(r) => Places(r) = 1
                                              /\ state[r] \in {"inactive", "finished", "canceled"} => Places(r) = 0
    BY DEF OneJobEach
  <2>1. Places(r) = (IF InList(r, pendingJobs) THEN 1 ELSE 0) + (IF InList(r, finishedJobs) THEN 1 ELSE 0)
                    + (IF InList(r, cancelledJobs) THEN 1 ELSE 0) + (IF InList(r, delivery.finished) THEN 1 ELSE 0)
                    + (IF InList(r, delivery.cancelled) THEN 1 ELSE 0) + (IF currentJob = r THEN 1 ELSE 0)
    BY <1>1, TimesInList DEF Places, JInv, TypeOK, HeldOnce
  <2>2. InOnePlace(r) /\ AttendedTo(r)
    BY <1>1 DEF JInv, HeldOnce, Attended
  <2> QED BY <2>1, <2>2 DEF InOnePlace, AttendedTo, Held, Delivered
<1>2. JInv => NoOtherMisuse
  BY DEF JInv, Careful, NoOtherMisuse
<1>3. JInv => JobsSound
  BY <1>1, <1>2 DEF JobsSound
<1> QED BY Invariance, <1>3, PTL
=============================================================================
