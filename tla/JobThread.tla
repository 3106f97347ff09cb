------------------------------ MODULE JobThread ------------------------------
(***************************************************************************)
(* The asynchronous requests of one engine: JobThread executes their jobs  *)
(* one after another in a thread of its own, and delivers what became of   *)
(* them in the thread of the engine, from its event loop or from           *)
(* waitForFinished.  The slots a delivery calls may do what the client may *)
(* do anywhere.  Everything under m_mutex is one step.  A request has at   *)
(* most one job that is not delivered, so a job is named by its request.   *)
(***************************************************************************)
EXTENDS Naturals, FiniteSets, Sequences, SequencesExt

CONSTANTS Request,    \* the requests of the client
          Extension,  \* those that the extensions define
          None,       \* a null pointer
          Freed       \* a pointer to a job that was deleted

ASSUME RequestAssumption ==
  Extension \subseteq Request /\ None \notin Request /\ Freed \notin Request /\ None # Freed

VARIABLES
  databaseOpen,   \* whether the thread could open its database
  running,        \* m_running
  pendingJobs, finishedJobs, cancelledJobs, currentJob,
  updatePending,  \* m_updatePending: an UpdateRequest event is posted
  worker,         \* where run() is
  delivery,       \* event(): its copies of the lists and of m_currentJob
  waiting,        \* the waitForFinished that is blocked
  state,          \* the state each request shows its client
  cleared,        \* the requests whose job has lost its m_request
  misuse,         \* history: a deleted request or job was used
  careless        \* history: the client has done what lets that happen

jobVars == <<pendingJobs, finishedJobs, cancelledJobs, currentJob, updatePending>>
vars == <<databaseOpen, running, jobVars, worker, delivery, waiting, state, cleared, misuse, careless>>

NotDelivering == [phase |-> "no", finished |-> <<>>, cancelled |-> <<>>, current |-> None]
NotWaiting == [request |-> None, signalled |-> FALSE]

Jobs == Seq(Request)

TypeOK ==
  /\ databaseOpen \in BOOLEAN /\ running \in BOOLEAN /\ updatePending \in BOOLEAN
  /\ pendingJobs \in Jobs /\ finishedJobs \in Jobs /\ cancelledJobs \in Jobs
  /\ currentJob \in Request \cup {None}
  /\ worker \in {"waiting", "woken", "executing", "ended"}
  /\ worker = "executing" <=> currentJob # None
  /\ delivery \in [phase : {"no", "begun", "slot"}, finished : Jobs, cancelled : Jobs,
                   current : Request \cup {None, Freed}]
  /\ waiting \in [request : Request \cup {None}, signalled : BOOLEAN]
  /\ state \in [Request -> {"inactive", "active", "finished", "canceled", "destroyed"}]
  /\ cleared \in SUBSET Request
  /\ misuse \in BOOLEAN /\ careless \in BOOLEAN

\* The constructor returns once the thread runs.
Init ==
  /\ databaseOpen \in BOOLEAN
  /\ running = TRUE
  /\ pendingJobs = <<>> /\ finishedJobs = <<>> /\ cancelledJobs = <<>>
  /\ currentJob = None
  /\ updatePending = FALSE
  /\ worker = "woken"
  /\ delivery = NotDelivering
  /\ waiting = NotWaiting
  /\ state = [r \in Request |-> "inactive"]
  /\ cleared = {}
  /\ misuse = FALSE /\ careless = FALSE

(***************************************************************************)
(* run().  The thread holds the mutex except while it waits and while it   *)
(* executes a job.                                                         *)
(***************************************************************************)
\* Mutant: the job that was executed is not forgotten.
LeavesKeepingJob(w) == worker' = w /\ UNCHANGED currentJob

\* The thread waits or ends without a job.
Leaves(w) == worker' = w /\ currentJob' = None

\* The loop with the jobs finished and possibly a posted update, until the
\* thread lets go of the mutex.
Loop(finished, update) ==
  \/ /\ ~running
     /\ Leaves("ended")
     /\ finishedJobs' = finished
     /\ updatePending' = update
     /\ UNCHANGED pendingJobs
  \/ /\ running /\ pendingJobs = <<>>
     /\ Leaves("waiting")
     /\ finishedJobs' = finished
     /\ updatePending' = update
     /\ UNCHANGED pendingJobs
  \/ /\ running /\ pendingJobs # <<>> /\ databaseOpen
     /\ worker' = "executing"
     /\ currentJob' = Head(pendingJobs)
     /\ pendingJobs' = Tail(pendingJobs)
     /\ finishedJobs' = finished
     /\ updatePending' = update
  \/ /\ running /\ pendingJobs # <<>> /\ ~databaseOpen  \* every job fails
     /\ Leaves("waiting")
     /\ pendingJobs' = <<>>
     /\ finishedJobs' = finished \o pendingJobs
     /\ updatePending' = TRUE

\* m_finishedWait.wakeOne()
Signalled(w) == IF w.request # None THEN [w EXCEPT !.signalled = TRUE] ELSE w

\* What run() leaves alone.
clientVars == <<databaseOpen, running, cancelledJobs, delivery, state, cleared, misuse, careless>>

WorkerWakes ==
  /\ worker = "woken"
  /\ Loop(finishedJobs, updatePending)
  /\ waiting' = IF running /\ pendingJobs # <<>> /\ ~databaseOpen THEN Signalled(waiting) ELSE waiting
  /\ UNCHANGED clientVars

WorkerFinishes ==
  /\ worker = "executing"
  /\ Loop(Append(finishedJobs, currentJob), TRUE)
  /\ waiting' = Signalled(waiting)
  /\ UNCHANGED clientVars

\* contactsAvailable, contactIdsAvailable, collectionsAvailable
ResultsAvailable ==
  /\ worker = "executing"
  /\ updatePending' = TRUE
  /\ UNCHANGED <<pendingJobs, finishedJobs, currentJob, worker, waiting, clientVars>>

(***************************************************************************)
(* The client, in a slot or elsewhere in the engine's thread.              *)
(***************************************************************************)
Active(r) == state[r] = "active"
InList(r, jobs) == \E k \in DOMAIN jobs : jobs[k] = r

\* The list when the job of r, which is in it, has been taken out.
Erased(jobs, r) == RemoveAt(jobs, CHOOSE k \in DOMAIN jobs : jobs[k] = r)

ClientRuns == waiting = NotWaiting /\ delivery.phase # "begun" /\ running

\* The event being handled holds a pointer to the job.
InBatch(r) == InList(r, delivery.finished) \/ InList(r, delivery.cancelled) \/ delivery.current = r

\* Mutant: the waiting thread is not woken.
WokenNever(w) == w

\* m_wait.wakeOne()
Woken(w) == IF w = "waiting" THEN "woken" ELSE w

StartRequest(r) ==
  /\ ClientRuns
  /\ state[r] \in {"inactive", "finished", "canceled"}
  /\ state' = [state EXCEPT ![r] = "active"]
  /\ pendingJobs' = Append(pendingJobs, r)
  /\ worker' = Woken(worker)
  /\ UNCHANGED <<databaseOpen, running, finishedJobs, cancelledJobs, currentJob, updatePending,
                 delivery, waiting, cleared, misuse, careless>>

\* Only a pending job is cancelled, and no update is posted for it.
CancelRequest(r) ==
  /\ ClientRuns
  /\ InList(r, pendingJobs) /\ Active(r)
  /\ pendingJobs' = Erased(pendingJobs, r)
  /\ cancelledJobs' = Append(cancelledJobs, r)
  /\ UNCHANGED <<databaseOpen, running, finishedJobs, currentJob, updatePending, worker,
                 delivery, waiting, state, cleared, misuse, careless>>

\* Pointers to the job of r, deleted now.
Deleted(r, d) == IF d.current = r THEN [d EXCEPT !.current = Freed] ELSE d

\* Job::clear()
Cleared(r) == cleared \cup {r}

\* requestDestroyed(r)
ForgetRequest(r) ==
  \/ /\ InList(r, pendingJobs)
     /\ pendingJobs' = Erased(pendingJobs, r)
     /\ UNCHANGED <<finishedJobs, cancelledJobs, delivery, cleared>>
  \/ /\ currentJob = r
     /\ cleared' = Cleared(r)
     /\ UNCHANGED <<pendingJobs, finishedJobs, cancelledJobs, delivery>>
  \/ /\ InList(r, finishedJobs)
     /\ finishedJobs' = Erased(finishedJobs, r)
     /\ delivery' = Deleted(r, delivery)
     /\ UNCHANGED <<pendingJobs, cancelledJobs, cleared>>
  \/ /\ InList(r, cancelledJobs)
     /\ cancelledJobs' = Erased(cancelledJobs, r)
     /\ UNCHANGED <<pendingJobs, finishedJobs, delivery, cleared>>
  \/ /\ ~InList(r, pendingJobs \o finishedJobs \o cancelledJobs) /\ currentJob # r
     /\ UNCHANGED <<pendingJobs, finishedJobs, cancelledJobs, delivery, cleared>>

\* The destructor of a request.  Those of the extensions do not tell the engine.
DestroyRequest(r) ==
  /\ ClientRuns
  /\ state[r] # "destroyed"
  /\ state' = [state EXCEPT ![r] = "destroyed"]
  /\ IF r \in Extension
     THEN UNCHANGED <<pendingJobs, finishedJobs, cancelledJobs, delivery, cleared>>
     ELSE ForgetRequest(r)
  /\ careless' = (careless \/ InBatch(r) \/ (r \in Extension /\ Active(r)))
  /\ UNCHANGED <<databaseOpen, running, currentJob, updatePending, worker, waiting, misuse>>

\* updateState(newState) of the job of r, in the states s of the requests.
UpdatedState(r, newState) ==
  IF state[r] = "active" THEN [state EXCEPT ![r] = newState] ELSE state

\* It uses a request that is gone unless the job has been told.
Dangling(r) == state[r] = "destroyed" /\ r \notin cleared

\* The end of waitForFinished: the job is looked for in both lists.
Resolve(r) ==
  \/ /\ InList(r, finishedJobs)
     /\ finishedJobs' = Erased(finishedJobs, r)
     /\ state' = UpdatedState(r, "finished")
     /\ delivery' = Deleted(r, delivery)
     /\ misuse' = (misuse \/ Dangling(r))
     /\ UNCHANGED cancelledJobs
  \/ /\ ~InList(r, finishedJobs) /\ InList(r, cancelledJobs)
     /\ cancelledJobs' = Erased(cancelledJobs, r)
     /\ state' = UpdatedState(r, "canceled")
     /\ misuse' = (misuse \/ Dangling(r))
     /\ UNCHANGED <<finishedJobs, delivery>>
  \/ /\ ~InList(r, finishedJobs \o cancelledJobs)
     /\ UNCHANGED <<finishedJobs, cancelledJobs, state, delivery, misuse>>

\* Mutant: the job is put in front but stays where it was.
MovedToFrontTwice(r) == <<r>> \o pendingJobs

MovedToFront(r) == <<r>> \o Erased(pendingJobs, r)

\* The loop of waitForFinished, from its top: r is executed and waited for, or
\* pending and moved to the front.
Blocks(r) ==
  /\ currentJob = r \/ InList(r, pendingJobs)
  /\ pendingJobs' = IF currentJob # r /\ InList(r, pendingJobs)
                    THEN MovedToFront(r)
                    ELSE pendingJobs
  /\ UNCHANGED <<finishedJobs, cancelledJobs, state, delivery, misuse>>

WaitForFinished(r) ==
  /\ ClientRuns
  /\ Active(r)
  /\ careless' = (careless \/ delivery.current = r)
  /\ \/ Blocks(r) /\ waiting' = [request |-> r, signalled |-> FALSE]
     \/ /\ currentJob # r /\ ~InList(r, pendingJobs)
        /\ Resolve(r)
        /\ UNCHANGED <<pendingJobs, waiting>>
  /\ UNCHANGED <<databaseOpen, running, currentJob, updatePending, worker, cleared>>

WaitReturns ==
  LET r == waiting.request
  IN  /\ waiting.signalled
      /\ \/ Blocks(r) /\ waiting' = [waiting EXCEPT !.signalled = FALSE]
         \/ /\ currentJob # r /\ ~InList(r, pendingJobs)
            /\ Resolve(r)
            /\ waiting' = NotWaiting
            /\ UNCHANGED pendingJobs
      /\ UNCHANGED <<databaseOpen, running, currentJob, updatePending, worker, cleared, careless>>

WaitTimesOut ==
  /\ waiting.request # None /\ ~waiting.signalled
  /\ waiting' = NotWaiting
  /\ UNCHANGED <<databaseOpen, running, jobVars, worker, delivery, state, cleared, misuse, careless>>

\* ~JobThread(), outside of slots.
Close ==
  /\ ClientRuns
  /\ delivery.phase = "no"
  /\ running' = FALSE
  /\ worker' = Woken(worker)
  /\ UNCHANGED <<databaseOpen, jobVars, delivery, waiting, state, cleared, misuse, careless>>

(***************************************************************************)
(* event(): the lists are copied and emptied at once, then delivered       *)
(* without the mutex, one job after another and last the partial results   *)
(* of the job that was executed when the lists were copied.                *)
(***************************************************************************)
Delivers == waiting = NotWaiting /\ running /\ delivery.phase # "no"

BeginDelivery ==
  /\ ClientRuns
  /\ delivery.phase = "no"
  /\ updatePending
  /\ delivery' = [phase |-> "begun", finished |-> finishedJobs, cancelled |-> cancelledJobs,
                  current |-> currentJob]
  /\ finishedJobs' = <<>> /\ cancelledJobs' = <<>>
  /\ updatePending' = FALSE
  /\ UNCHANGED <<databaseOpen, running, pendingJobs, currentJob, worker, waiting, state,
                 cleared, misuse, careless>>

DeliverFinished ==
  /\ Delivers
  /\ delivery.finished # <<>>
  /\ LET r == Head(delivery.finished)
     IN  /\ state' = UpdatedState(r, "finished")
         /\ misuse' = (misuse \/ Dangling(r))
  /\ delivery' = [delivery EXCEPT !.phase = "slot", !.finished = Tail(@)]
  /\ UNCHANGED <<databaseOpen, running, jobVars, worker, waiting, cleared, careless>>

DeliverCancelled ==
  /\ Delivers
  /\ delivery.finished = <<>> /\ delivery.cancelled # <<>>
  /\ LET r == Head(delivery.cancelled)
     IN  /\ state' = UpdatedState(r, "canceled")
         /\ misuse' = (misuse \/ Dangling(r))
  /\ delivery' = [delivery EXCEPT !.phase = "slot", !.cancelled = Tail(@)]
  /\ UNCHANGED <<databaseOpen, running, jobVars, worker, waiting, cleared, careless>>

\* Mutant: m_updatePending is reset after the delivery.
EndDeliveryLateReset ==
  /\ Delivers
  /\ delivery.finished = <<>> /\ delivery.cancelled = <<>>
  /\ delivery' = NotDelivering
  /\ updatePending' = FALSE
  /\ UNCHANGED <<databaseOpen, running, pendingJobs, finishedJobs, cancelledJobs, currentJob,
                 worker, waiting, state, cleared, misuse, careless>>

EndDelivery ==
  /\ Delivers
  /\ delivery.finished = <<>> /\ delivery.cancelled = <<>>
  /\ misuse' = (misuse \/ delivery.current = Freed
                       \/ (delivery.current \in Request /\ Dangling(delivery.current)))
  /\ delivery' = NotDelivering
  /\ UNCHANGED <<databaseOpen, running, jobVars, worker, waiting, state, cleared, careless>>

WorkerNext == WorkerWakes \/ WorkerFinishes \/ ResultsAvailable

ClientNext(r) == StartRequest(r) \/ CancelRequest(r) \/ DestroyRequest(r) \/ WaitForFinished(r)

DeliveryNext == DeliverFinished \/ DeliverCancelled \/ EndDelivery

Next ==
  \/ WorkerNext
  \/ \E r \in Request : ClientNext(r)
  \/ WaitReturns \/ WaitTimesOut \/ Close
  \/ BeginDelivery \/ DeliveryNext

Spec == Init /\ [][Next]_vars

\* A job executed comes to an end, a thread that can run does, a delivery goes
\* on, and the client returns to its event loop again and again.
FairSpec ==
  /\ Spec
  /\ WF_vars(WorkerWakes) /\ WF_vars(WorkerFinishes)
  /\ WF_vars(WaitReturns) /\ SF_vars(DeliveryNext) /\ SF_vars(BeginDelivery)

-----------------------------------------------------------------------------
(***************************************************************************)
(* Properties                                                              *)
(***************************************************************************)
Places(r) ==
  LET In(jobs) == Cardinality({k \in DOMAIN jobs : jobs[k] = r})
  IN  In(pendingJobs) + In(finishedJobs) + In(cancelledJobs)
      + In(delivery.finished) + In(delivery.cancelled) + (IF currentJob = r THEN 1 ELSE 0)

\* A request that its client sees active has exactly one job in one place, and
\* a request that has ended has none: no job is lost or delivered twice,
\* whatever slots, waits, cancellations and the thread do in between.
OneJobEach ==
  \A r \in Request :
    /\ Active(r) => Places(r) = 1
    /\ state[r] \in {"inactive", "finished", "canceled"} => Places(r) = 0

\* Nothing uses a request that was destroyed, or a job that was deleted,
\* unless an extension's request was destroyed while active, or a slot has
\* destroyed or waited for a request whose job the running event() still
\* points to.
NoOtherMisuse == misuse => careless

\* Jobs and requests belong to each other for as long as both are there.
JobsSound == OneJobEach /\ NoOtherMisuse

\* What is owed an end: a request that is not cancelled.
Expects(r) == Active(r) /\ ~InList(r, cancelledJobs)

\* A request that is not cancelled ends, unless waits that time out keep moving
\* others to the front of the queue.
RequestsEnd ==
  <>[][~WaitTimesOut]_vars =>
    \A r \in Request : Expects(r) ~> (~Expects(r) \/ ~running)

\* A cancelled request is told so, if a job is executed or an update posted:
\* cancelRequest itself posts none.
CancelledIsTold ==
  \A r \in Request :
    (InList(r, cancelledJobs) /\ (worker = "executing" \/ updatePending)) ~> (~Active(r) \/ ~running)

\* Whoever waits for the end of a request, cancelled or not, sees it.
RequestsAnswered == RequestsEnd /\ CancelledIsTold

\* The destructor returns: the thread ends.
CloseEnds == ~running ~> worker = "ended"
=============================================================================
